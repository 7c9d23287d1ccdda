SPECIFICATION Spec
CONSTANTS
  p1 = p1
  p2 = p2
  t1 = t1
  t2 = t2
  Tasks = {t1}
  Procs = {p1, p2}
  Kinds = {"owner-approval", "execution-begun", "objective-attempt", "result", "cancellation"}
  Proposed = {t1}
  MaxAttempts = 2
  MayFail = TRUE
  MayCrash = TRUE
  Workspace = workspace
  NoProc = NoProc
\* A result file no event names makes the task unreadable: nothing can go on.
CHECK_DEADLOCK FALSE
SYMMETRY Symmetry
INVARIANT TypeOK
INVARIANT ChainsValid
INVARIANT CommittedStay
INVARIANT CardCurrent
INVARIANT BlockedStays
PROPERTY LedgerImplementsBoard
