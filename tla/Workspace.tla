------------------------------ MODULE Workspace ------------------------------
(***************************************************************************)
(* The parts of a workspace that share no state with each other: its       *)
(* installation, update, layout and lifecycle, and its content - captured  *)
(* sources, executors and attempts, catalog and context packages, search   *)
(* index.  focus chooses the one that runs, so that their spaces add.      *)
(***************************************************************************)
EXTENDS Naturals, Sequences, FiniteSets

CONSTANTS
  None, Gone, Torn,                                            \* sentinels
  Workers,                                                     \* racing processes
  LastItem,                                                    \* UpdateCutover, Lifecycle
  Wheels, Version,                                             \* InstallManager
  LayoutPaths, Below, Protected, FileContents, Changes,        \* LayoutPlan
  MaxVersion,                                                  \* Lifecycle
  MaxCaptures, MaxStorage, MaxDerivs,                          \* SourceLibrary
  Bases, Errors, Evidence, MaxEqual, MaxTotal, MaxActions, MaxRevision,  \* Executors
  Chapters, Source, Root, MaxEdits,                            \* ContextRoute
  Files, Contents, MaxWrites,                                  \* SearchIndex
  MaxBegun                                                     \* both of them

\* A wheel is named by its hash and has a version: neither is a sentinel.
ASSUME WheelAssumption ==
  None \notin Wheels /\ "broken" \notin Wheels /\ None \notin {Version[w] : w \in Wheels}

\* A plan names at least one component (transactional_update.py).
ASSUME ComponentAssumption == LastItem \in Nat \ {0} /\ None \notin {"old", "new", "part"}

\* Below is that of a tree of paths: of two folders that hold one path, one holds
\* the other (layout_plan.py compares resolved paths).
ASSUME PathAssumption ==
  /\ Below \in [LayoutPaths -> SUBSET LayoutPaths]
  /\ \A p \in LayoutPaths : p \in Below[p] /\ \A q \in Below[p] : Below[q] \subseteq Below[p]
  /\ \A p, r \in LayoutPaths : Below[p] \cap Below[r] # {} => p \in Below[r] \/ r \in Below[p]

\* A target that is absent or cut off has no version (lifecycle.py).
ASSUME TargetAssumption ==
  MaxVersion \in Nat \ {0} /\ Gone \notin Nat /\ Torn \notin Nat /\ None \notin Nat

\* A bounded number of files is indexed, and no document or process is null
\* (search_index.py).
ASSUME SearchAssumption ==
  /\ IsFiniteSet(Files) /\ MaxWrites \in Nat /\ Contents # {}
  /\ None \notin Workers /\ None \notin [content : Contents, mtime : 0 .. MaxWrites]

\* The limits of the attempts at a task are not zero (attempts.py).
ASSUME AttemptAssumption ==
  MaxEqual \in Nat \ {0} /\ MaxTotal \in Nat \ {0} /\ MaxActions \in Nat \ {0}

\* There are finitely many chapters, a task pins one of them, and a file that is
\* absent has no content (catalog.py).
ASSUME ContextAssumption ==
  /\ IsFiniteSet(Chapters) /\ Root \in Chapters /\ Source \notin Chapters
  /\ "dead" \notin Workers \cup {None}
  /\ None \notin [n : Nat, exact : BOOLEAN, superseded : BOOLEAN]
  /\ None \notin [n : Nat, status : {"DRAFT", "OWNER_ACCEPTED", "ARCHIVED"},
                  deps : SUBSET Chapters]

\* The bounds are numbers (the storage limit of workspace.py among them).
ASSUME BoundAssumption ==
  MaxCaptures \in Nat /\ MaxStorage \in Nat /\ MaxEdits \in Nat /\ MaxBegun \in Nat

VARIABLES
  focus,
  active, retired, backup, staging, roots, journal, receipt, intent, upc, uitem, back, utorn,
  installed, cache, rollbacks, log, update, ipc,
  manifest, world, planned, phase, at, edits, quiet,
  ws, plan, copy, sealed, dir, lpc, litem, done, inventory, hurt,
  original, was, sources, derivs, answered, op, cut,
  revisions, task, attempts, intact, package, executor, rec,
  file, snaps, litter, catalog, index, latest, before, lock, records, begun, proc,
  text, clock, search, legacy, publisher, builds, torn, built, builder, query

U == INSTANCE UpdateCutover WITH Last <- LastItem, pc <- upc, item <- uitem, torn <- utorn

I == INSTANCE InstallManager WITH journal <- log, plan <- update, pc <- ipc

P == INSTANCE LayoutPlan WITH Paths <- LayoutPaths, Contents <- FileContents, Absent <- Gone

L == INSTANCE Lifecycle WITH
       Last <- LastItem, manifest <- sealed, pc <- lpc, item <- litem, state <- inventory

M == INSTANCE SourceLibrary WITH file <- original, MaxWrites <- MaxCaptures

X == INSTANCE Executors WITH Recorders <- Workers, chain <- attempts, latest <- package

C == INSTANCE ContextRoute WITH Builders <- Workers, journal <- records

S == INSTANCE SearchIndex WITH Builders <- Workers

updateVars == <<active, retired, backup, staging, roots, journal, receipt, intent, upc, uitem,
                back, utorn>>
installVars == <<installed, cache, rollbacks, log, update, ipc>>
layoutVars == <<manifest, world, planned, phase, at, edits, quiet>>
lifecycleVars == <<ws, plan, copy, sealed, dir, lpc, litem, done, inventory, hurt>>
libraryVars == <<original, was, sources, derivs, answered, op, cut>>
executorVars == <<revisions, task, attempts, intact, package, executor, rec>>
contextVars == <<file, snaps, litter, catalog, index, latest, before, lock, records, begun, proc>>
searchVars == <<text, clock, search, legacy, publisher, builds, torn, built, builder, query>>
vars == <<focus, updateVars, installVars, layoutVars, lifecycleVars, libraryVars, executorVars,
          contextVars, searchVars>>

\* The layout plan starts from many manifests; like the other choices of an
\* initial state they are enumerated only where they matter.
FixedPlan ==
  /\ manifest = << >> /\ world = << >> /\ planned = << >>
  /\ phase = "idle" /\ at = 1 /\ edits = 0 /\ quiet = TRUE

Init ==
  /\ focus \in {"update", "install", "layout", "lifecycle", "library", "executor", "context",
                "search"}
  /\ U!Init /\ L!Init /\ M!Init /\ X!Init
  /\ I!Init /\ (focus # "install" => installed = None)
  /\ IF focus = "layout" THEN P!Init ELSE FixedPlan
  /\ C!Init /\ catalog # None
  /\ S!Init /\ (focus # "search" => search = None)

InstallationNext ==
  /\ UNCHANGED <<libraryVars, executorVars, contextVars, searchVars>>
  /\ \/ focus = "update" /\ U!Next /\ UNCHANGED <<installVars, layoutVars, lifecycleVars>>
     \/ focus = "install" /\ I!Next /\ UNCHANGED <<updateVars, layoutVars, lifecycleVars>>
     \/ focus = "layout" /\ P!Next /\ UNCHANGED <<updateVars, installVars, lifecycleVars>>
     \/ focus = "lifecycle" /\ L!Next /\ UNCHANGED <<updateVars, installVars, layoutVars>>

ContentNext ==
  /\ UNCHANGED <<updateVars, installVars, layoutVars, lifecycleVars>>
  /\ \/ focus = "library" /\ M!Next /\ UNCHANGED <<executorVars, contextVars, searchVars>>
     \/ focus = "executor" /\ X!Next /\ UNCHANGED <<libraryVars, contextVars, searchVars>>
     \/ focus = "context" /\ C!Next /\ UNCHANGED <<libraryVars, executorVars, searchVars>>
     \/ focus = "search" /\ S!Next /\ UNCHANGED <<libraryVars, executorVars, contextVars>>

Next == UNCHANGED focus /\ (InstallationNext \/ ContentNext)

Spec == Init /\ [][Next]_vars

\* The types of the component that runs; LayoutPlan states none.
TypeOK ==
  CASE focus = "update" -> U!TypeOK
    [] focus = "install" -> I!TypeOK
    [] focus = "lifecycle" -> L!TypeOK
    [] focus = "library" -> M!TypeOK
    [] focus = "executor" -> X!TypeOK
    [] focus = "context" -> C!TypeOK
    [] focus = "search" -> S!TypeOK
    [] OTHER -> TRUE

\* Whatever dies during an update of several components, the original of each
\* survives whole somewhere, and a state without half copies can be recovered.
UpdateRecoverable == focus = "update" => U!OriginalKept /\ U!Recoverable

\* A success receipt of an update is never left behind by a recovery: while
\* nobody recovers it, postflight is green.
UpdateReceiptTrue == focus = "update" => U!ReceiptIsTrue

\* An unfinished installation always has its way back at hand, and the newest
\* journal says what is installed.
InstallJournalTrue == focus = "install" => I!WayBack /\ I!OutcomeIsTrue

\* Verified layout moves can be carried out in their order.
LayoutPlanApplies == phase = "VERIFIED" => P!VerifiedApplies

\* A cleanup loses nothing, and one that was not cut short is all or nothing.
CleanupUndone == focus = "lifecycle" => L!NothingLost /\ L!AllOrNothing

\* workspace.py and media.py: stored contents are whole, what was answered
\* stays, and only a kill makes derivations unusable.
LibrarySound == focus = "library" => M!StoredWhole /\ M!AnsweredStays /\ M!UsableUnlessCut

\* playbook.py and attempts.py: racing recorders leave a chain that loads and
\* whose budget holds, and an executor stands on what its task pins.
ExecutorSound == focus = "executor" => X!ChainLoads /\ X!BudgetHolds /\ X!ExecutorBound

\* catalog.py, navigator.py and core.py: a package is of one instant, current,
\* and never older than the one it replaces.
ContextSound ==
  focus = "context" => C!OneInstant /\ C!ContextCurrent /\ C!NeverOlder /\ C!FreshnessTrue

\* search_index.py: no index is stale for good, an incremental build is a full
\* one, both indexes agree, and a complete delivery is of all files.
SearchSound ==
  focus = "search" =>
    S!NeverStaleForGood /\ S!IncrementalIsFull /\ S!ProjectionsAgree /\ S!CompleteTrue
=============================================================================
