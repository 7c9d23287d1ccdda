SPECIFICATION Spec
CONSTANTS
  None = None
  Gone = Gone
  Torn = Torn
  Workers = {p1, p2}
  LastItem = 2
  w1 = w1
  w2 = w2
  w3 = w3
  Wheels <- WheelsMC
  Version <- VersionMC
  LayoutPaths <- LayoutPathsMC
  Below <- BelowMC
  Protected = {}
  FileContents = {"v"}
  Changes = 1
  MaxVersion = 2
  MaxCaptures = 1
  MaxStorage = 2
  MaxDerivs = 2
  Bases = {1, 2}
  Errors = {x}
  Evidence = {1}
  MaxEqual = 2
  MaxTotal = 3
  MaxActions = 4
  MaxRevision = 2
  Chapters = {c1, c2}
  Source = s
  Root = c1
  MaxEdits = 2
  Files = {f1, f2}
  Contents = {x, y}
  MaxWrites = 2
  MaxBegun = 2
INVARIANT TypeOK
INVARIANT UpdateRecoverable
INVARIANT UpdateReceiptTrue
INVARIANT InstallJournalTrue
INVARIANT LayoutPlanApplies
INVARIANT CleanupUndone
INVARIANT LibrarySound
INVARIANT ExecutorSound
INVARIANT ContextSound
INVARIANT SearchSound
CHECK_DEADLOCK FALSE
