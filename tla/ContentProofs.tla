---------------------------- MODULE ContentProofs ----------------------------
(***************************************************************************)
(* Theorems about cleanup with restore and about the search index of a     *)
(* workspace, for any instances of their parameters.                       *)
(***************************************************************************)
EXTENDS Workspace, FiniteSetTheorems, WellFoundedInduction, TLAPS

\* Every non-empty set of numbers has a least one.
LEMMA Least ==
  ASSUME NEW N \in SUBSET Nat, N # {}
  PROVE  \E n \in N : \A m \in N : n <= m
<1> DEFINE R == StrictSubsetOrdering(Nat)
           F == FiniteSubsetsOf(Nat)
           T == {0 .. n : n \in N}
<1>1. IsWellFoundedOn(R, F)
  BY FS_StrictSubsetOrderingWellFounded
<1>2. T \subseteq F
  <2> SUFFICES ASSUME NEW n \in N PROVE 0 .. n \in F
    OBVIOUS
  <2> QED  BY FS_Interval DEF FiniteSubsetsOf
<1>3. T # {}
  OBVIOUS
<1>4. \E x \in T : \A y \in T : ~(<<y, x>> \in R)
  <2> HIDE DEF R, F, T
  <2> QED  BY <1>1, <1>2, <1>3, WFMin
<1>5. PICK n \in N : \A y \in T : ~(<<y, 0 .. n>> \in R)
  BY <1>4
<1>6. ASSUME NEW m \in N, m < n PROVE FALSE
  <2>1. 0 .. m \in SUBSET Nat /\ 0 .. n \in SUBSET Nat
    OBVIOUS
  <2>2. 0 .. m \subseteq 0 .. n /\ 0 .. m # 0 .. n
    BY <1>6
  <2> QED  BY <1>5, <2>1, <2>2, <1>2 DEF StrictSubsetOrdering, FiniteSubsetsOf
<1> QED  BY <1>6

(***************************************************************************)
(* Cleanup and restore.  What a command still has to do tells which        *)
(* targets are where: between two targets nothing is in neither place, and *)
(* a checkpoint is whole before the first removal.                         *)
(***************************************************************************)
CopySteps == {"copy", "manifest"}
Active == CopySteps \cup {"remove", "restore", "end", "restored"}

CleanupTypes ==
  /\ ws \in [L!Targets -> L!States]
  /\ plan \in [L!Targets -> L!Versions \cup {None}]
  /\ copy \in [L!Targets -> L!Versions \cup {None}]
  /\ sealed \in BOOLEAN /\ dir \in BOOLEAN /\ hurt \in BOOLEAN
  /\ lpc \in Active \cup {"idle"} /\ done \subseteq L!Planned

\* A checkpoint that has its manifest is of the planned targets, and nothing
\* else is missing from the workspace.
Checkpointed ==
  /\ sealed => dir
  /\ dir => L!Planned # {}
  /\ ~dir => copy = L!Empty
  /\ sealed => \A t \in L!Planned : copy[t] = plan[t]
  /\ \A t \in L!Targets : t \notin L!Planned => copy[t] = None
  /\ \A t \in L!Targets : ws[t] \in L!Versions \/ (sealed /\ t \in L!Planned)

\* Where a command is: at a target of the plan that it has not done yet.
AtWork ==
  /\ lpc \in {"idle", "manifest"} => done = {}
  /\ lpc \in Active => dir
  /\ lpc = "manifest" => litem \in L!Planned
  /\ lpc \in {"copy", "remove", "restore"} => litem \in L!Planned \ done
  /\ lpc \in {"remove", "restore", "end", "restored"} => sealed

CopyingOut ==
  lpc \in CopySteps =>
    /\ ~sealed
    /\ \A t \in L!Planned : ws[t] = plan[t]
    /\ \A t \in (IF lpc = "copy" THEN done ELSE L!Planned) : copy[t] = plan[t]

\* What is removed is gone, what is not is as it was; the other way when it
\* is put back.
Removing ==
  /\ lpc = "remove" =>
       \A t \in L!Planned : ws[t] = IF t \in done THEN Gone ELSE plan[t]
  /\ lpc = "restore" =>
       \A t \in L!Planned : ws[t] = IF t \in done THEN plan[t] ELSE Gone
  /\ lpc = "end" => \A t \in L!Planned : ws[t] = Gone
  /\ lpc = "restored" => \A t \in L!Planned : ws[t] = plan[t]

CleanupInv ==
  /\ CleanupTypes /\ Checkpointed /\ AtWork /\ CopyingOut /\ Removing
  /\ L!AllOrNothing

\* The first target in the order of a plan is one of its targets.
LEMMA FirstOf ==
  ASSUME NEW ts \in SUBSET L!Targets, ts # {}
  PROVE  L!First(ts) \in ts
<1>1. ts \in SUBSET Nat
  BY ComponentAssumption DEF L!Targets
<1>2. QED
  BY <1>1, Least DEF L!First

LEMMA CleanupInit == L!Init => CleanupInv
<1> SUFFICES ASSUME L!Init PROVE CleanupInv
  OBVIOUS
<1>1. /\ ws \in [L!Targets -> {1}] /\ 1 \in L!Versions
      /\ \A t \in L!Targets : plan[t] = None /\ copy[t] = None
  BY TargetAssumption DEF L!Init, L!Empty, L!Versions
<1>2. L!Planned = {}
  BY <1>1 DEF L!Planned
<1> QED
  BY <1>1, <1>2, TargetAssumption
  DEF L!Init, CleanupInv, CleanupTypes, Checkpointed, AtWork, CopyingOut, Removing, L!AllOrNothing,
      L!Empty, L!States, CopySteps, Active

\* What the plan names stays what it was.
LEMMA PlannedStays == plan' = plan => L!Planned' = L!Planned
  BY DEF L!Planned

LEMMA CleanupRewrites ==
  ASSUME CleanupInv, NEW t \in L!Targets, L!Rewrite(t)
  PROVE  CleanupInv'
<1> USE DEF CleanupInv, CleanupTypes
<1>1. /\ lpc = "idle" /\ ws[t] \in L!Versions /\ ws' = [ws EXCEPT ![t] = @ + 1]
      /\ UNCHANGED <<plan, copy, sealed, dir, lpc, litem, done, inventory, hurt>>
      /\ ws[t] < MaxVersion
  BY DEF L!Rewrite, L!checkpoint
<1>2. L!Planned' = L!Planned
  BY <1>1, PlannedStays
<1>3. ws[t] + 1 \in L!Versions
  BY <1>1, TargetAssumption DEF L!Versions
<1>4. CleanupTypes'
  BY <1>1, <1>2, <1>3 DEF L!States
<1>5. \A u \in L!Targets : ws'[u] = IF u = t THEN ws[t] + 1 ELSE ws[u]
  BY <1>1
<1>6. Checkpointed'
  BY <1>1, <1>2, <1>3, <1>5 DEF Checkpointed
<1>7. L!AllOrNothing'
  <2> SUFFICES ASSUME ~hurt
               PROVE  \/ \A u \in L!Planned : ws'[u] \in L!Versions
                      \/ \A u \in L!Planned : ws'[u] = Gone
    BY <1>1, <1>2 DEF L!AllOrNothing
  <2>1. CASE \A u \in L!Planned : ws[u] \in L!Versions
    BY <2>1, <1>3, <1>5 DEF L!Planned
  <2>2. CASE \A u \in L!Planned : ws[u] = Gone
    <3>1. t \notin L!Planned
      BY <2>2, <1>1, TargetAssumption DEF L!Versions
    <3>2. QED
      BY <3>1, <2>2, <1>5 DEF L!Planned
  <2>3. QED
    BY <1>1, <2>1, <2>2 DEF L!AllOrNothing
<1>8. QED
  BY <1>1, <1>4, <1>6, <1>7 DEF AtWork, CopyingOut, Removing, Active, CopySteps

LEMMA CleanupPlans ==
  ASSUME CleanupInv, NEW ts \in SUBSET L!Targets, L!PlanCleanup(ts)
  PROVE  CleanupInv'
<1> USE DEF CleanupInv, CleanupTypes
<1>1. /\ lpc = "idle" /\ ~dir /\ ~sealed /\ copy = L!Empty
      /\ plan' = [t \in L!Targets |-> IF t \in ts THEN ws[t] ELSE None]
      /\ \A t \in ts : ws[t] \in L!Versions
      /\ UNCHANGED <<ws, copy, sealed, dir, lpc, litem, done, inventory, hurt>>
  BY DEF L!PlanCleanup, L!NewCheckpoint, L!checkpoint, Checkpointed
<1>2. /\ plan' \in [L!Targets -> L!Versions \cup {None}]
      /\ \A t \in L!Targets : ws[t] \in L!Versions
  BY <1>1 DEF Checkpointed
<1>3. \A t \in L!Targets : copy[t] = None
  BY <1>1 DEF L!Empty
<1>4. done = {}
  BY <1>1 DEF AtWork
<1>5. QED
  BY <1>1, <1>2, <1>3, <1>4
  DEF Checkpointed, AtWork, CopyingOut, Removing, L!AllOrNothing, Active, CopySteps, L!Planned

LEMMA CleanupStarts == ASSUME CleanupInv, L!StartCleanup PROVE CleanupInv'
<1> USE DEF CleanupInv, CleanupTypes
<1>1. /\ lpc = "idle" /\ ~dir /\ ~sealed /\ copy = L!Empty /\ L!Planned # {}
      /\ \A t \in L!Planned : ws[t] = plan[t]
      /\ dir' = TRUE /\ lpc' = "copy" /\ litem' = L!First(L!Planned) /\ done' = {}
      /\ UNCHANGED <<ws, plan, copy, sealed, inventory, hurt>>
  BY DEF L!StartCleanup, L!NewCheckpoint, Checkpointed
<1>2. L!Planned' = L!Planned /\ L!Planned \subseteq L!Targets
  BY <1>1, PlannedStays DEF L!Planned
<1>3. litem' \in L!Planned'
  BY <1>1, <1>2, FirstOf
<1>4. QED
  BY <1>1, <1>2, <1>3
  DEF Checkpointed, AtWork, CopyingOut, Removing, L!AllOrNothing, Active, CopySteps

\* A command that has done one target is at another one, or at its next task
\* when every target is done.
LEMMA OneMoreDone ==
  ASSUME CleanupInv, lpc \in {"copy", "remove", "restore"}, plan' = plan,
         NEW next, L!Step(next)
  PROVE  \/ /\ lpc' = lpc /\ litem' \in L!Planned' \ done' /\ done' = done \cup {litem}
         \/ /\ lpc' = next /\ litem' \in L!Planned' /\ done' = {}
            /\ L!Planned = done \cup {litem}
<1>1. /\ L!Planned' = L!Planned /\ L!Planned \subseteq L!Targets
      /\ litem \in L!Planned \ done /\ done \subseteq L!Planned
  BY PlannedStays DEF L!Planned, CleanupInv, CleanupTypes, AtWork
<1>2. CASE L!Left = {}
  BY <1>1, <1>2, FirstOf DEF L!Step, L!Left
<1>3. CASE L!Left # {}
  <2>1. L!First(L!Left) \in L!Left
    BY <1>1, <1>3, FirstOf DEF L!Left
  <2>2. QED
    BY <1>1, <1>3, <2>1 DEF L!Step, L!Left
<1>4. QED
  BY <1>2, <1>3

LEMMA CleanupCopies == ASSUME CleanupInv, L!CopyOut PROVE CleanupInv'
<1> USE DEF CleanupInv, CleanupTypes
<1>1. /\ lpc = "copy" /\ copy' = [copy EXCEPT ![litem] = ws[litem]] /\ L!Step("manifest")
      /\ UNCHANGED <<ws, plan, sealed, dir, inventory, hurt>>
  BY DEF L!CopyOut
<1>2. /\ L!Planned' = L!Planned /\ L!Planned \subseteq L!Targets
      /\ litem \in L!Planned \ done /\ dir /\ ~sealed /\ L!Planned # {}
      /\ \A t \in L!Planned : ws[t] = plan[t] /\ plan[t] \in L!Versions
  BY <1>1, PlannedStays, TargetAssumption
  DEF L!Planned, AtWork, CopyingOut, Active, CopySteps, Checkpointed
<1>3. \A t \in L!Targets : copy'[t] = IF t = litem THEN plan[t] ELSE copy[t]
  BY <1>1, <1>2
<1>4. \/ /\ lpc' = "copy" /\ litem' \in L!Planned' \ done' /\ done' = done \cup {litem}
      \/ /\ lpc' = "manifest" /\ litem' \in L!Planned' /\ done' = {}
         /\ L!Planned = done \cup {litem}
  BY <1>1, OneMoreDone
<1>5. CleanupTypes'
  BY <1>1, <1>2, <1>4 DEF CopySteps, Active
<1>6. Checkpointed'
  BY <1>1, <1>2, <1>3 DEF Checkpointed
<1>7. CopyingOut'
  BY <1>1, <1>2, <1>3, <1>4 DEF CopyingOut, CopySteps
<1>8. AtWork' /\ Removing' /\ L!AllOrNothing'
  BY <1>1, <1>2, <1>4 DEF AtWork, Removing, L!AllOrNothing, CopySteps, Active
<1>9. QED
  BY <1>5, <1>6, <1>7, <1>8

LEMMA CleanupSeals == ASSUME CleanupInv, L!WriteManifest PROVE CleanupInv'
<1> USE DEF CleanupInv, CleanupTypes
<1>1. /\ lpc = "manifest" /\ sealed' = TRUE /\ lpc' = "remove"
      /\ UNCHANGED <<ws, plan, copy, dir, litem, done, inventory, hurt>>
  BY DEF L!WriteManifest
<1>2. L!Planned' = L!Planned
  BY <1>1, PlannedStays
<1>3. /\ dir /\ litem \in L!Planned /\ done = {} /\ L!Planned # {}
      /\ \A t \in L!Planned : ws[t] = plan[t] /\ copy[t] = plan[t]
  BY <1>1 DEF AtWork, CopyingOut, Active, CopySteps
<1>4. QED
  BY <1>1, <1>2, <1>3
  DEF Checkpointed, AtWork, CopyingOut, Removing, L!AllOrNothing, Active, CopySteps

LEMMA CleanupRemoves == ASSUME CleanupInv, L!Remove PROVE CleanupInv'
<1> USE DEF CleanupInv, CleanupTypes
<1>1. /\ lpc = "remove" /\ ws' = [ws EXCEPT ![litem] = Gone] /\ L!Step("end")
      /\ UNCHANGED <<plan, copy, sealed, dir, inventory, hurt>>
  BY DEF L!Remove, L!checkpoint
<1>2. /\ L!Planned' = L!Planned /\ L!Planned \subseteq L!Targets
      /\ litem \in L!Planned \ done /\ dir /\ sealed /\ L!Planned # {}
  BY <1>1, PlannedStays DEF L!Planned, AtWork, Active
<1>3. \A t \in L!Targets : ws'[t] = IF t = litem THEN Gone ELSE ws[t]
  BY <1>1, <1>2
<1>4. \/ /\ lpc' = "remove" /\ litem' \in L!Planned' \ done' /\ done' = done \cup {litem}
      \/ /\ lpc' = "end" /\ litem' \in L!Planned' /\ done' = {}
         /\ L!Planned = done \cup {litem}
  BY <1>1, OneMoreDone
<1>5. CleanupTypes'
  BY <1>1, <1>2, <1>4 DEF Active, L!States
<1>6. Checkpointed'
  BY <1>1, <1>2, <1>3 DEF Checkpointed
<1>7. Removing'
  BY <1>1, <1>2, <1>3, <1>4 DEF Removing
<1>8. AtWork' /\ CopyingOut' /\ L!AllOrNothing'
  BY <1>1, <1>2, <1>4 DEF AtWork, CopyingOut, L!AllOrNothing, CopySteps, Active
<1>9. QED
  BY <1>5, <1>6, <1>7, <1>8

\* What a failing cleanup has removed is back; one target may be torn.
LEMMA CleanupGoesBack == ASSUME CleanupInv, L!CleanupFails PROVE CleanupInv'
<1> USE DEF CleanupInv, CleanupTypes
<1>1. /\ lpc \in {"copy", "manifest", "remove"} /\ lpc' = "idle" /\ done' = {}
      /\ UNCHANGED <<plan, inventory>>
      /\ IF sealed THEN UNCHANGED <<copy, sealed, dir>>
         ELSE dir' = FALSE /\ sealed' = FALSE /\ copy' = L!Empty
  BY DEF L!CleanupFails, L!checkpoint
<1>2. PICK half \in BOOLEAN :
        /\ half => lpc = "remove"
        /\ ws' = [t \in L!Targets |-> IF lpc = "remove" /\ t \in done THEN copy[t]
                                      ELSE IF half /\ t = litem THEN Torn ELSE ws[t]]
        /\ hurt' = (hurt \/ half)
  BY DEF L!CleanupFails
<1>3. /\ L!Planned' = L!Planned /\ L!Planned \subseteq L!Targets
      /\ \A t \in L!Planned : plan[t] \in L!Versions
      /\ \A t \in L!Targets \ L!Planned : ws[t] \in L!Versions
  BY <1>1, PlannedStays DEF L!Planned, Checkpointed
<1>4. CASE lpc \in CopySteps
  <2>1. /\ ~sealed /\ \A t \in L!Targets : ws[t] \in L!Versions
        /\ lpc # "remove"
    BY <1>4 DEF CopyingOut, Checkpointed, CopySteps
  <2>2. ws' = [t \in L!Targets |-> ws[t]] /\ hurt' = hurt
    BY <1>2, <2>1
  <2>3. copy' = L!Empty /\ dir' = FALSE /\ sealed' = FALSE
    BY <1>1, <2>1
  <2>4. CleanupTypes' /\ Checkpointed'
    BY <1>1, <1>3, <2>1, <2>2, <2>3 DEF Checkpointed, L!Empty
  <2>5. QED
    BY <1>1, <1>3, <2>1, <2>2, <2>3, <2>4
    DEF AtWork, CopyingOut, Removing, L!AllOrNothing, Active, CopySteps
<1>5. CASE lpc = "remove"
  <2>1. /\ sealed /\ dir /\ done \subseteq L!Planned /\ litem \in L!Planned
        /\ UNCHANGED <<copy, sealed, dir>>
        /\ \A t \in L!Planned : copy[t] = plan[t] /\ ws[t] = IF t \in done THEN Gone ELSE plan[t]
    BY <1>1, <1>5 DEF AtWork, Checkpointed, Removing, Active
  <2>2. \A t \in L!Targets :
          ws'[t] = IF half /\ t = litem /\ t \notin done THEN Torn
                   ELSE IF t \in L!Planned THEN plan[t] ELSE ws[t]
    BY <1>2, <1>3, <1>5, <2>1
  <2>3. ws' \in [L!Targets -> L!States]
    <3>1. DOMAIN ws' = L!Targets /\ ws' = [t \in L!Targets |-> ws'[t]]
      BY <1>2
    <3>2. \A t \in L!Targets : ws'[t] \in L!States
      BY <1>3, <2>2 DEF L!States
    <3>3. QED
      BY <3>1, <3>2
  <2>4. hurt' \in BOOLEAN /\ (~hurt' => ~half)
    BY <1>2
  <2>5. CleanupTypes' /\ Checkpointed'
    BY <1>1, <1>3, <2>1, <2>2, <2>3, <2>4 DEF Checkpointed
  <2>6. L!AllOrNothing'
    BY <1>1, <1>3, <2>2, <2>4 DEF L!AllOrNothing
  <2>7. QED
    BY <1>1, <1>3, <2>5, <2>6 DEF AtWork, CopyingOut, Removing, Active, CopySteps
<1>6. QED
  BY <1>1, <1>4, <1>5 DEF CopySteps

LEMMA CleanupEnds == ASSUME CleanupInv, L!EndTransaction PROVE CleanupInv'
<1> USE DEF CleanupInv, CleanupTypes
<1>1. /\ lpc \in {"end", "restored"} /\ lpc' = "idle" /\ done' = {}
      /\ UNCHANGED <<ws, plan, copy, sealed, dir, inventory, hurt>>
  BY DEF L!EndTransaction, L!checkpoint
<1>2. L!Planned' = L!Planned /\ \A t \in L!Planned : plan[t] \in L!Versions
  BY <1>1, PlannedStays DEF L!Planned
<1>3. \/ \A t \in L!Planned : ws[t] \in L!Versions
      \/ \A t \in L!Planned : ws[t] = Gone
  BY <1>1, <1>2 DEF Removing
<1>4. QED
  BY <1>1, <1>2, <1>3
  DEF Checkpointed, AtWork, CopyingOut, Removing, L!AllOrNothing, Active, CopySteps

LEMMA RestoreStarts == ASSUME CleanupInv, L!StartRestore PROVE CleanupInv'
<1> USE DEF CleanupInv, CleanupTypes
<1>1. /\ lpc = "idle" /\ sealed /\ \A t \in L!Planned : ws[t] = Gone /\ copy[t] = plan[t]
      /\ lpc' = "restore" /\ litem' = L!First(L!Planned) /\ done' = {}
      /\ UNCHANGED <<ws, plan, copy, sealed, dir, inventory, hurt>>
  BY DEF L!StartRestore, L!checkpoint
<1>2. L!Planned' = L!Planned /\ L!Planned \subseteq L!Targets /\ dir /\ L!Planned # {}
  BY <1>1, PlannedStays DEF L!Planned, Checkpointed
<1>3. litem' \in L!Planned'
  BY <1>1, <1>2, FirstOf
<1>4. QED
  BY <1>1, <1>2, <1>3
  DEF Checkpointed, AtWork, CopyingOut, Removing, L!AllOrNothing, Active, CopySteps

LEMMA RestoreCopies == ASSUME CleanupInv, L!CopyBack PROVE CleanupInv'
<1> USE DEF CleanupInv, CleanupTypes
<1>1. /\ lpc = "restore" /\ ws' = [ws EXCEPT ![litem] = copy[litem]] /\ L!Step("restored")
      /\ UNCHANGED <<plan, copy, sealed, dir, inventory, hurt>>
  BY DEF L!CopyBack, L!checkpoint
<1>2. /\ L!Planned' = L!Planned /\ L!Planned \subseteq L!Targets
      /\ litem \in L!Planned \ done /\ dir /\ sealed /\ L!Planned # {}
      /\ \A t \in L!Planned : copy[t] = plan[t] /\ plan[t] \in L!Versions
  BY <1>1, PlannedStays DEF L!Planned, AtWork, Active, Checkpointed
<1>3. \A t \in L!Targets : ws'[t] = IF t = litem THEN plan[t] ELSE ws[t]
  BY <1>1, <1>2
<1>4. \/ /\ lpc' = "restore" /\ litem' \in L!Planned' \ done' /\ done' = done \cup {litem}
      \/ /\ lpc' = "restored" /\ litem' \in L!Planned' /\ done' = {}
         /\ L!Planned = done \cup {litem}
  BY <1>1, OneMoreDone
<1>5. CleanupTypes'
  BY <1>1, <1>2, <1>4 DEF Active, L!States
<1>6. Checkpointed'
  BY <1>1, <1>2, <1>3 DEF Checkpointed
<1>7. Removing'
  BY <1>1, <1>2, <1>3, <1>4 DEF Removing
<1>8. AtWork' /\ CopyingOut' /\ L!AllOrNothing'
  BY <1>1, <1>2, <1>4 DEF AtWork, CopyingOut, L!AllOrNothing, CopySteps, Active
<1>9. QED
  BY <1>5, <1>6, <1>7, <1>8

LEMMA RestoreGoesBack == ASSUME CleanupInv, L!RestoreFails PROVE CleanupInv'
<1> USE DEF CleanupInv, CleanupTypes
<1>1. /\ lpc = "restore" /\ lpc' = "idle" /\ done' = {}
      /\ UNCHANGED <<plan, copy, sealed, dir, inventory>>
  BY DEF L!RestoreFails, L!checkpoint
<1>2. PICK half \in BOOLEAN :
        /\ ws' = [t \in L!Targets |-> IF t \in done THEN Gone
                                      ELSE IF half /\ t = litem THEN Torn ELSE ws[t]]
        /\ hurt' = (hurt \/ half)
  BY DEF L!RestoreFails
<1>3. /\ L!Planned' = L!Planned /\ L!Planned \subseteq L!Targets
      /\ sealed /\ dir /\ litem \in L!Planned
      /\ \A t \in L!Planned : ws[t] = IF t \in done THEN plan[t] ELSE Gone
  BY <1>1, PlannedStays DEF L!Planned, Checkpointed, AtWork, Active, Removing
<1>4. \A t \in L!Targets :
        ws'[t] = IF t \in L!Planned
                 THEN IF half /\ t = litem /\ t \notin done THEN Torn ELSE Gone
                 ELSE ws[t]
  BY <1>2, <1>3
<1>5. ws' \in [L!Targets -> L!States]
  <2>1. ws' = [t \in L!Targets |-> ws'[t]]
    BY <1>2
  <2>2. \A t \in L!Targets : ws'[t] \in L!States
    BY <1>4 DEF L!States
  <2>3. QED
    BY <2>1, <2>2
<1>6. hurt' \in BOOLEAN /\ (~hurt' => ~half)
  BY <1>2
<1>7. CleanupTypes' /\ Checkpointed'
  BY <1>1, <1>3, <1>4, <1>5, <1>6 DEF Checkpointed
<1>8. L!AllOrNothing'
  BY <1>1, <1>3, <1>4, <1>6 DEF L!AllOrNothing
<1>9. QED
  BY <1>1, <1>3, <1>7, <1>8 DEF AtWork, CopyingOut, Removing, Active, CopySteps

\* The one that dies may leave its target torn, and says so.
LEMMA CleanupKilled == ASSUME CleanupInv, L!Killed PROVE CleanupInv'
<1> USE DEF CleanupInv, CleanupTypes
<1>1. /\ lpc # "idle" /\ lpc' = "idle" /\ done' = {} /\ hurt' = TRUE
      /\ UNCHANGED <<plan, copy, sealed, dir, inventory>>
  BY DEF L!Killed, L!checkpoint
<1>2. PICK half \in BOOLEAN : /\ half => lpc \in {"remove", "restore"}
                             /\ ws' = IF half THEN [ws EXCEPT ![litem] = Torn] ELSE ws
  BY DEF L!Killed
<1>3. /\ L!Planned' = L!Planned /\ L!Planned \subseteq L!Targets
      /\ half => litem \in L!Planned /\ sealed
  BY <1>1, <1>2, PlannedStays DEF L!Planned, AtWork
<1>4. \A t \in L!Targets : ws'[t] = IF half /\ t = litem THEN Torn ELSE ws[t]
  BY <1>2
<1>5. CleanupTypes'
  BY <1>1, <1>2, <1>3 DEF L!States
<1>6. Checkpointed'
  BY <1>1, <1>3, <1>4 DEF Checkpointed
<1>7. QED
  BY <1>1, <1>3, <1>5, <1>6
  DEF AtWork, CopyingOut, Removing, L!AllOrNothing, Active, CopySteps

LEMMA CleanupForgets == ASSUME CleanupInv, L!Forget PROVE CleanupInv'
<1> USE DEF CleanupInv, CleanupTypes
<1>1. /\ lpc = "idle" /\ \A t \in L!Planned : ws[t] \in L!Versions
      /\ plan' = L!Empty /\ copy' = L!Empty /\ sealed' = FALSE /\ dir' = FALSE
      /\ UNCHANGED <<ws, lpc, litem, done, inventory, hurt>>
  BY DEF L!Forget
<1>2. /\ L!Planned' = {} /\ done = {}
      /\ \A t \in L!Targets : plan'[t] = None /\ copy'[t] = None
      /\ \A t \in L!Targets : ws[t] \in L!Versions
  BY <1>1 DEF L!Planned, L!Empty, AtWork, Checkpointed
<1>3. CleanupTypes'
  BY <1>1, <1>2 DEF L!Empty
<1>4. Checkpointed'
  BY <1>1, <1>2 DEF Checkpointed
<1>5. QED
  BY <1>1, <1>2, <1>3, <1>4
  DEF AtWork, CopyingOut, Removing, L!AllOrNothing, Active, CopySteps

LEMMA CleanupInvariant == Spec => [](focus = "lifecycle" => CleanupInv)
<1>1. Init => (focus = "lifecycle" => CleanupInv)
  BY CleanupInit DEF Init
<1>2. (focus = "lifecycle" => CleanupInv) /\ [Next]_vars => (focus = "lifecycle" => CleanupInv)'
  <2> SUFFICES ASSUME focus = "lifecycle", CleanupInv, [Next]_vars PROVE CleanupInv'
    BY DEF Next, InstallationNext, ContentNext, vars
  <2>1. CASE L!Next
    <3>1. ASSUME NEW record \in [L!Targets -> L!Versions], L!Register(record)
          PROVE  UNCHANGED <<ws, plan, copy, sealed, dir, lpc, litem, done, hurt>>
      BY <3>1 DEF L!Register, L!checkpoint
    <3>2. ASSUME NEW record \in [L!Targets -> L!Versions], L!Register(record)
          PROVE  CleanupInv'
      BY <3>1, <3>2
      DEF CleanupInv, CleanupTypes, Checkpointed, AtWork, CopyingOut, Removing, L!AllOrNothing,
          L!Planned
    <3>3. QED
      BY <2>1, <3>2, CleanupRewrites, CleanupPlans, CleanupStarts, CleanupCopies, CleanupSeals,
         CleanupRemoves, CleanupGoesBack, CleanupEnds, RestoreStarts, RestoreCopies,
         RestoreGoesBack, CleanupKilled, CleanupForgets DEF L!Next
  <2>2. CASE UNCHANGED lifecycleVars
    BY <2>2
    DEF lifecycleVars, CleanupInv, CleanupTypes, Checkpointed, AtWork, CopyingOut, Removing,
        L!AllOrNothing, L!Planned
  <2>3. QED
    BY <2>1, <2>2 DEF Next, InstallationNext, ContentNext, vars
<1>3. QED
  BY <1>1, <1>2, PTL DEF Spec

\* However cleanups and restores fail, die and are repeated: what is missing
\* from the workspace, or torn, is whole in a checkpoint that has its manifest,
\* and without a kill or a torn target a cleanup is all or nothing.
THEOREM Cleanup == Spec => []CleanupUndone
<1>1. (focus = "lifecycle" => CleanupInv) => CleanupUndone
  <2> SUFFICES ASSUME CleanupInv PROVE L!NothingLost /\ L!AllOrNothing
    BY DEF CleanupUndone
  <2>1. L!NothingLost
    BY TargetAssumption DEF CleanupInv, Checkpointed, L!NothingLost, L!Versions
  <2>2. QED
    BY <2>1 DEF CleanupInv
<1>2. QED
  BY <1>1, CleanupInvariant, PTL

(***************************************************************************)
(* The search index.  A document tells what its file held when the file    *)
(* was as old as the document says, because contents are read after they   *)
(* are measured and every write makes a file younger.  What a builder      *)
(* takes over from the index is of the generation it expects, or it will   *)
(* be refused.                                                             *)
(***************************************************************************)
Docs == [content : Contents, mtime : 0 .. MaxWrites]
MapsTo(R) == UNION {[F -> R] : F \in SUBSET Files}
Generations == [contents : MapsTo(Contents), strict : BOOLEAN, reused : Nat]
Indexes == [docs : MapsTo(Docs), sound : BOOLEAN, generation : Generations]

Readers ==
  [at : {"measure", "read"}, strict : BOOLEAN, expected : Generations \cup {None},
   todo : SUBSET Files, measured : MapsTo(0 .. MaxWrites), previous : MapsTo(Docs),
   docs : MapsTo(Docs), reused : SUBSET Files, quiet : BOOLEAN]
Publishers ==
  [at : {"publish", "search", "legacy"}, expected : Generations \cup {None}, new : Indexes,
   write : BOOLEAN, backup : Indexes \cup {None}, quiet : BOOLEAN]
Queries ==
  [at : {"load", "scan"}, docs : MapsTo(Docs), loaded : BOOLEAN, todo : SUBSET Files,
   changed : BOOLEAN, quiet : BOOLEAN]

SearchTypes ==
  /\ text \in [Files -> Docs \cup {None}] /\ clock \in 0 .. MaxWrites
  /\ search \in Indexes \cup {None}
  /\ publisher \in Workers \cup {None} /\ torn \in BOOLEAN
  /\ builder \in [Workers -> Readers \cup Publishers \cup {S!Idle}]
  /\ query \in Queries \cup {S!Idle}

\* A document that is as old as its file tells what is in it.
Honest(docs) ==
  \A f \in DOMAIN docs :
    /\ docs[f].mtime <= clock
    /\ f \in S!Existing /\ docs[f].mtime = text[f].mtime => docs[f] = text[f]

HonestBuilder(b) ==
  /\ b \in Readers => /\ \A f \in DOMAIN b.measured : b.measured[f] <= clock
                      /\ Honest(b.previous) /\ Honest(b.docs)
                      /\ b.at = "measure" => b.docs = << >>
                      /\ b.at = "read" => b.todo \subseteq DOMAIN b.measured
  /\ b \in Publishers => Honest(b.new.docs) /\ (b.backup # None => Honest(b.backup.docs))

Honesty ==
  /\ \A f \in S!Existing : text[f].mtime <= clock
  /\ search # None => Honest(search.docs)
  /\ \A p \in Workers : HonestBuilder(builder[p])
  /\ query \in Queries => Honest(query.docs)

\* A builder that nobody has disturbed has measured and read the files as they
\* are.
Undisturbed(b) ==
  /\ b \in Readers /\ b.at = "measure" =>
       /\ DOMAIN b.measured = S!Existing \ b.todo
       /\ \A f \in DOMAIN b.measured : b.measured[f] = text[f].mtime
  /\ b \in Readers /\ b.at = "read" =>
       /\ DOMAIN b.measured = S!Existing
       /\ \A f \in DOMAIN b.measured : b.measured[f] = text[f].mtime
       /\ b.todo \subseteq S!Existing /\ DOMAIN b.docs = S!Existing \ b.todo
       /\ \A f \in DOMAIN b.docs : b.docs[f] = text[f]
  /\ b \in Publishers => b.new.docs = [f \in S!Existing |-> text[f]]

Incremental ==
  /\ \A p \in Workers : builder[p] # S!Idle /\ builder[p].quiet => Undisturbed(builder[p])
  /\ S!IncrementalIsFull

\* The publication lock is held by who is publishing.
IndexLocked ==
  \A p \in Workers :
    /\ builder[p].at \in {"search", "legacy"} <=> publisher = p
    /\ builder[p].at = "search" => builder[p].write

\* What a builder has compared with, and what it will leave in both indexes.
Compared(b) ==
  /\ b.at = "read" /\ search # None /\ S!Generation(search) = b.expected =>
       S!ContentsOf(b.previous) = S!ContentsOf(search.docs)
  /\ b.at = "publish" /\ ~b.write /\ search # None /\ S!Generation(search) = b.expected =>
       S!ContentsOf(b.new.docs) = S!ContentsOf(search.docs)
  /\ b.at = "legacy" /\ search # None =>
       S!ContentsOf(b.new.docs) = S!ContentsOf(search.docs)
  /\ b.at = "legacy" /\ b.write /\ b.backup # None =>
       legacy = S!ContentsOf(b.backup.docs)

HalfPublished == \E p \in Workers : builder[p].at = "legacy" /\ builder[p].write

Agreement ==
  ~torn => /\ \A p \in Workers : Compared(builder[p])
           /\ ~HalfPublished /\ search # None => legacy = S!ContentsOf(search.docs)

\* What a delivery has looked at is as the index says.
Covering ==
  query \in Queries /\ query.at = "scan" /\ query.quiet /\ ~query.changed =>
    \A f \in Files \ query.todo :
      /\ f \in DOMAIN query.docs <=> f \in S!Existing
      /\ f \in DOMAIN query.docs => query.docs[f].mtime = text[f].mtime

SearchInv ==
  SearchTypes /\ Honesty /\ Incremental /\ IndexLocked /\ Agreement /\ Covering

\* Maps from files.
LEMMA NoFiles == \A R : << >> \in MapsTo(R) /\ DOMAIN << >> = {}
<1>1. << >> = [f \in {} |-> TRUE] /\ {} \in SUBSET Files
  OBVIOUS
<1>2. \A R : [f \in {} |-> TRUE] \in [{} -> R]
  OBVIOUS
<1>3. QED
  BY <1>1, <1>2 DEF MapsTo

LEMMA MapOfFiles ==
  ASSUME NEW R, NEW g \in MapsTo(R)
  PROVE  /\ DOMAIN g \subseteq Files /\ \A f \in DOMAIN g : g[f] \in R
         /\ g = [f \in DOMAIN g |-> g[f]]
  BY DEF MapsTo

LEMMA MadeOfFiles ==
  ASSUME NEW R, NEW g, DOMAIN g \subseteq Files, \A f \in DOMAIN g : g[f] \in R,
         g = [f \in DOMAIN g |-> g[f]]
  PROVE  g \in MapsTo(R)
<1>1. g \in [DOMAIN g -> R]
  OBVIOUS
<1>2. QED
  BY <1>1 DEF MapsTo

LEMMA OneMore ==
  ASSUME NEW R, NEW g \in MapsTo(R), NEW f \in Files, NEW v \in R
  PROVE  /\ S!With(g, f, v) \in MapsTo(R)
         /\ DOMAIN S!With(g, f, v) = DOMAIN g \cup {f}
         /\ \A h \in DOMAIN g \cup {f} : S!With(g, f, v)[h] = IF h = f THEN v ELSE g[h]
<1> DEFINE w == S!With(g, f, v)
<1>1. /\ DOMAIN w = DOMAIN g \cup {f}
      /\ \A h \in DOMAIN g \cup {f} : w[h] = IF h = f THEN v ELSE g[h]
      /\ w = [h \in DOMAIN w |-> w[h]]
  BY DEF S!With
<1>2. DOMAIN w \subseteq Files /\ \A h \in DOMAIN w : w[h] \in R
  BY <1>1, MapOfFiles
<1>3. w \in MapsTo(R)
  <2> HIDE DEF w
  <2> QED  BY <1>1, <1>2, MadeOfFiles
<1>4. QED
  BY <1>1, <1>3

LEMMA ContentsType ==
  ASSUME NEW docs \in MapsTo(Docs)
  PROVE  S!ContentsOf(docs) \in MapsTo(Contents)
<1> DEFINE c == S!ContentsOf(docs)
<1>1. c = [f \in DOMAIN docs |-> docs[f].content]
  BY DEF S!ContentsOf
<1>2. DOMAIN docs \subseteq Files /\ \A f \in DOMAIN docs : docs[f].content \in Contents
  <2>1. DOMAIN docs \subseteq Files /\ \A f \in DOMAIN docs : docs[f] \in Docs
    BY MapOfFiles
  <2>2. QED
    BY <2>1 DEF Docs
<1> HIDE DEF c
<1>3. /\ DOMAIN c = DOMAIN docs /\ \A f \in DOMAIN c : c[f] \in Contents
      /\ c = [f \in DOMAIN c |-> c[f]]
  BY <1>1, <1>2
<1>4. c \in MapsTo(Contents)
  BY <1>2, <1>3, MadeOfFiles
<1>5. QED
  BY <1>4 DEF c

LEMMA NewIndexType ==
  ASSUME NEW docs \in MapsTo(Docs), NEW strict \in BOOLEAN, NEW n \in Nat
  PROVE  S!NewIndex(docs, strict, n) \in Indexes /\ S!NewIndex(docs, strict, n).docs = docs
  BY ContentsType DEF S!NewIndex, Indexes, Generations

LEMMA GenerationType ==
  ASSUME NEW i \in Indexes \cup {None} PROVE S!Generation(i) \in Generations \cup {None}
  BY DEF S!Generation, Indexes

\* The files as they are make documents.
LEMMA TextType ==
  ASSUME SearchTypes
  PROVE  [f \in S!Existing |-> text[f]] \in MapsTo(Docs)
<1>1. \A f \in S!Existing : text[f] \in Docs
  BY DEF SearchTypes, S!Existing
<1>2. QED
  BY <1>1, MadeOfFiles DEF S!Existing

LEMMA SearchInit == S!Init => SearchInv
<1> SUFFICES ASSUME S!Init PROVE SearchInv
  OBVIOUS
<1>1. PICK c \in Contents : text = [f \in Files |-> [content |-> c, mtime |-> 0]]
  BY SearchAssumption DEF S!Init
<1>2. /\ text \in [Files -> Docs \cup {None}] /\ clock = 0 /\ clock \in 0 .. MaxWrites
      /\ \A f \in Files : text[f] \in Docs /\ text[f].mtime = 0
  BY <1>1, SearchAssumption DEF S!Init, Docs
<1>3. S!Existing = Files /\ text \in MapsTo(Docs)
  <2>1. \A f \in Files : text[f] # None
    BY <1>2, SearchAssumption DEF Docs
  <2>2. QED
    BY <1>1, <1>2, <2>1, MadeOfFiles DEF S!Existing
<1>4. search \in Indexes \cup {None} /\ (search # None => search.docs = text)
  BY <1>3, NewIndexType DEF S!Init
<1>5. /\ legacy = IF search = None THEN None ELSE S!ContentsOf(text)
      /\ publisher = None /\ torn = FALSE /\ built = None
      /\ builder = [p \in Workers |-> S!Idle] /\ query = S!Idle
  BY DEF S!Init
<1>6. \A p \in Workers : builder[p] = S!Idle /\ builder[p].at = "idle"
  BY <1>5 DEF S!Idle
<1>7. S!Idle \notin Readers /\ S!Idle \notin Publishers /\ S!Idle \notin Queries
  BY DEF S!Idle, Readers, Publishers, Queries
<1>8. SearchTypes
  BY <1>2, <1>4, <1>5 DEF SearchTypes
<1>9. Honesty
  <2>1. search # None => Honest(search.docs)
    BY <1>2, <1>3, <1>4, MapOfFiles DEF Honest
  <2>2. QED
    BY <1>2, <1>3, <1>5, <1>6, <1>7, <2>1 DEF Honesty, HonestBuilder
<1>10. Incremental /\ IndexLocked /\ Covering
  BY <1>5, <1>6, <1>7, SearchAssumption DEF Incremental, IndexLocked, Covering, S!IncrementalIsFull
<1>11. Agreement
  BY <1>4, <1>5, <1>6 DEF Agreement, Compared
<1>12. QED
  BY <1>8, <1>9, <1>10, <1>11 DEF SearchInv

\* Readers, publishers and the idle are told apart.
LEMMA Apart ==
  /\ S!Idle \notin Readers /\ S!Idle \notin Publishers /\ S!Idle \notin Queries
  /\ \A b \in Readers : b \notin Publishers /\ b # S!Idle /\ b.at \in {"measure", "read"}
  /\ \A b \in Publishers : b # S!Idle /\ b.at \in {"publish", "search", "legacy"}
  /\ \A q \in Queries : q # S!Idle
  /\ S!Idle.at = "idle"
  BY DEF S!Idle, Readers, Publishers, Queries

LEMMA DisturbedIs ==
  ASSUME NEW b \in Readers \cup Publishers \cup {S!Idle}
  PROVE  /\ b = S!Idle => S!Disturbed(b) = b
         /\ b \in Readers =>
              /\ S!Disturbed(b) \in Readers /\ ~S!Disturbed(b).quiet
              /\ \A d \in {S!Disturbed(b)} :
                   /\ d.at = b.at /\ d.expected = b.expected /\ d.measured = b.measured
                   /\ d.previous = b.previous /\ d.docs = b.docs /\ d.todo = b.todo
         /\ b \in Publishers =>
              /\ S!Disturbed(b) \in Publishers /\ ~S!Disturbed(b).quiet
              /\ \A d \in {S!Disturbed(b)} :
                   /\ d.at = b.at /\ d.expected = b.expected /\ d.new = b.new
                   /\ d.write = b.write /\ d.backup = b.backup
<1>1. CASE b = S!Idle
  BY <1>1, Apart DEF S!Disturbed
<1>2. CASE b \in Readers
  <2>1. S!Disturbed(b) = [b EXCEPT !.quiet = FALSE]
    BY <1>2, Apart DEF S!Disturbed
  <2>2. QED
    BY <1>2, <2>1, Apart DEF Readers
<1>3. CASE b \in Publishers
  <2>1. S!Disturbed(b) = [b EXCEPT !.quiet = FALSE]
    BY <1>3, Apart DEF S!Disturbed
  <2>2. QED
    BY <1>3, <2>1, Apart DEF Publishers
<1>4. QED
  BY <1>1, <1>2, <1>3

\* A file that is written is younger than all documents of it.
LEMMA StillHonest ==
  ASSUME NEW docs, \A f \in DOMAIN docs : docs[f].mtime \in Nat,
         Honest(docs), SearchTypes,
         NEW f \in Files, NEW c, clock < MaxWrites, clock' = clock + 1,
         text' = [text EXCEPT ![f] =
                    IF c = None THEN None ELSE [content |-> c, mtime |-> clock']]
  PROVE  \A g \in DOMAIN docs :
           /\ docs[g].mtime <= clock'
           /\ g \in S!Existing' /\ docs[g].mtime = text'[g].mtime => docs[g] = text'[g]
<1>1. clock \in Nat /\ clock' \in Nat /\ clock < clock'
  BY SearchAssumption DEF SearchTypes
<1>2. \A g \in Files : text'[g] = IF g # f THEN text[g]
                                  ELSE IF c = None THEN None
                                  ELSE [content |-> c, mtime |-> clock']
  BY DEF SearchTypes
<1>3. SUFFICES ASSUME NEW g \in DOMAIN docs
               PROVE  /\ docs[g].mtime <= clock'
                      /\ g \in S!Existing' /\ docs[g].mtime = text'[g].mtime =>
                           docs[g] = text'[g]
  OBVIOUS
<1>4. docs[g].mtime <= clock /\ docs[g].mtime \in Nat
  BY DEF Honest
<1>5. CASE g = f
  <2>1. g \in S!Existing' => text'[g].mtime = clock'
    BY <1>2, <1>5 DEF S!Existing
  <2>2. QED
    BY <1>1, <1>4, <2>1
<1>6. CASE g # f
  <2>1. g \in S!Existing' => g \in S!Existing /\ text'[g] = text[g]
    BY <1>2, <1>6 DEF S!Existing
  <2>2. QED
    BY <1>1, <1>4, <2>1 DEF Honest
<1>7. QED
  BY <1>5, <1>6

LEMMA DocumentTimes ==
  ASSUME NEW docs \in MapsTo(Docs)
  PROVE  \A f \in DOMAIN docs : docs[f] \in Docs /\ docs[f].mtime \in Nat
<1>1. \A f \in DOMAIN docs : docs[f] \in Docs
  BY MapOfFiles
<1>2. QED
  BY <1>1, SearchAssumption DEF Docs

LEMMA SearchWritten ==
  ASSUME SearchInv, NEW f \in Files, NEW c \in Contents \cup {None}, S!Write(f, c)
  PROVE  SearchInv'
<1> DEFINE disturbed == [p \in Workers |-> S!Disturbed(builder[p])]
<1>1. /\ SearchTypes /\ Honesty /\ Incremental /\ IndexLocked /\ Agreement /\ Covering
  BY DEF SearchInv
<1>2. /\ clock < MaxWrites /\ clock' = clock + 1
      /\ text' = [text EXCEPT ![f] = IF c = None THEN None ELSE [content |-> c, mtime |-> clock']]
      /\ built' = None /\ builder' = disturbed /\ query' = S!Disturbed(query)
      /\ UNCHANGED <<search, legacy, publisher, torn>>
  BY DEF S!Write, S!published
<1>3. /\ clock \in Nat /\ clock' \in 0 .. MaxWrites /\ clock <= clock'
      /\ \A p \in Workers : builder[p] \in Readers \cup Publishers \cup {S!Idle}
  BY <1>1, <1>2, SearchAssumption DEF SearchTypes
<1>4. \A p \in Workers : builder'[p] = S!Disturbed(builder[p])
  BY <1>2
<1>5. \A p \in Workers :
        /\ builder[p] = S!Idle => builder'[p] = S!Idle
        /\ builder[p] \in Readers => builder'[p] \in Readers
        /\ builder[p] \in Publishers => builder'[p] \in Publishers
        /\ builder'[p] # S!Idle => ~builder'[p].quiet
        /\ builder'[p].at = builder[p].at
  BY <1>3, <1>4, DisturbedIs, Apart
<1>6. /\ query' = S!Idle /\ query = S!Idle
      \/ /\ query' \in Queries /\ query \in Queries /\ query'.docs = query.docs /\ ~query'.quiet
  <2>1. CASE query = S!Idle
    BY <2>1, <1>2, Apart DEF S!Disturbed
  <2>2. CASE query \in Queries
    <3>1. query' = [query EXCEPT !.quiet = FALSE]
      BY <2>2, <1>2, Apart DEF S!Disturbed
    <3>2. QED
      BY <2>2, <3>1 DEF Queries
  <2>3. QED
    BY <1>1, <2>1, <2>2 DEF SearchTypes
<1>7. SearchTypes'
  <2>1. text' \in [Files -> Docs \cup {None}]
    <3>1. c # None => [content |-> c, mtime |-> clock'] \in Docs
      BY <1>3 DEF Docs
    <3>2. QED
      BY <1>1, <1>2, <3>1 DEF SearchTypes
  <2>2. builder' \in [Workers -> Readers \cup Publishers \cup {S!Idle}]
    BY <1>2, <1>3, <1>4, <1>5
  <2>3. QED
    BY <1>1, <1>2, <1>3, <1>6, <2>1, <2>2 DEF SearchTypes
<1>8. \A docs \in MapsTo(Docs) : Honest(docs) =>
        \A g \in DOMAIN docs :
          /\ docs[g].mtime <= clock'
          /\ g \in S!Existing' /\ docs[g].mtime = text'[g].mtime => docs[g] = text'[g]
  BY <1>1, <1>2, StillHonest, DocumentTimes
<1>9. Honesty'
  <2>1. \A g \in S!Existing' : text'[g].mtime <= clock'
    <3>1. \A g \in Files : text'[g] = IF g # f THEN text[g]
                                      ELSE IF c = None THEN None
                                      ELSE [content |-> c, mtime |-> clock']
      BY <1>1, <1>2 DEF SearchTypes
    <3>2. SUFFICES ASSUME NEW g \in S!Existing' PROVE text'[g].mtime <= clock'
      OBVIOUS
    <3>3. CASE g = f
      BY <3>1, <3>3, <1>3 DEF S!Existing
    <3>4. CASE g # f
      <4>1. g \in S!Existing /\ text'[g] = text[g] /\ text[g] \in Docs
        BY <1>1, <3>1, <3>4 DEF S!Existing, SearchTypes
      <4>2. text[g].mtime <= clock /\ text[g].mtime \in Nat
        BY <1>1, <4>1, SearchAssumption DEF Honesty, Docs
      <4>3. QED
        BY <1>3, <4>1, <4>2, SearchAssumption
    <3>5. QED
      BY <3>3, <3>4
  <2>2. search' # None => Honest(search.docs)'
    BY <1>1, <1>2, <1>8 DEF Honesty, Honest, SearchTypes, Indexes
  <2>3. ASSUME NEW p \in Workers PROVE HonestBuilder(builder[p])'
    <3>1. CASE builder[p] \in Readers
      <4>1. /\ builder[p].previous \in MapsTo(Docs) /\ builder[p].docs \in MapsTo(Docs)
            /\ Honest(builder[p].previous) /\ Honest(builder[p].docs)
        BY <1>1, <3>1 DEF Honesty, HonestBuilder, Readers
      <4>2. /\ builder'[p].previous = builder[p].previous /\ builder'[p].docs = builder[p].docs
            /\ builder'[p].measured = builder[p].measured /\ builder'[p].todo = builder[p].todo
            /\ builder'[p] \in Readers /\ builder'[p] \notin Publishers
        BY <1>4, <1>5, <3>1, DisturbedIs, Apart
      <4>3. \A g \in DOMAIN builder[p].measured :
              builder[p].measured[g] <= clock /\ builder[p].measured[g] \in 0 .. MaxWrites
        <5>1. builder[p].measured \in MapsTo(0 .. MaxWrites)
          BY <3>1 DEF Readers
        <5>2. QED
          BY <1>1, <3>1, <5>1, MapOfFiles DEF Honesty, HonestBuilder
      <4>4. \A g \in DOMAIN builder[p].measured : builder[p].measured[g] <= clock'
        BY <1>3, <4>3, SearchAssumption
      <4>5. /\ builder'[p].at = "measure" => builder'[p].docs = << >>
            /\ builder'[p].at = "read" => builder'[p].todo \subseteq DOMAIN builder'[p].measured
        BY <1>1, <1>5, <3>1, <4>2 DEF Honesty, HonestBuilder
      <4>6. QED
        BY <1>8, <4>1, <4>2, <4>4, <4>5 DEF HonestBuilder, Honest
    <3>2. CASE builder[p] \in Publishers
      <4>1. /\ builder[p].new.docs \in MapsTo(Docs) /\ Honest(builder[p].new.docs)
            /\ builder[p].backup # None => /\ builder[p].backup.docs \in MapsTo(Docs)
                                           /\ Honest(builder[p].backup.docs)
        BY <1>1, <3>2 DEF Honesty, HonestBuilder, Publishers, Indexes
      <4>2. /\ builder'[p].new = builder[p].new /\ builder'[p].backup = builder[p].backup
            /\ builder'[p] \in Publishers /\ builder'[p] \notin Readers
        BY <1>4, <1>5, <3>2, DisturbedIs, Apart
      <4>3. QED
        BY <1>8, <4>1, <4>2 DEF HonestBuilder, Honest
    <3>3. CASE builder[p] = S!Idle
      BY <1>5, <3>3, Apart DEF HonestBuilder
    <3>4. QED
      BY <1>3, <3>1, <3>2, <3>3
  <2>4. query' \in Queries => Honest(query.docs)'
    <3>1. SUFFICES ASSUME query' \in Queries PROVE Honest(query.docs)'
      OBVIOUS
    <3>2. query \in Queries /\ query'.docs = query.docs
      BY <1>6, <3>1, Apart
    <3>3. query.docs \in MapsTo(Docs) /\ Honest(query.docs)
      BY <1>1, <3>2 DEF Honesty, Queries
    <3>4. QED
      BY <1>8, <3>2, <3>3 DEF Honest
  <2>5. QED
    BY <2>1, <2>2, <2>3, <2>4 DEF Honesty
<1>10. Incremental'
  BY <1>2, <1>5 DEF Incremental, S!IncrementalIsFull
<1>11. IndexLocked' /\ Agreement'
  <2>1. ASSUME NEW p \in Workers, builder[p] \in Readers
        PROVE  /\ builder'[p].at = builder[p].at /\ builder'[p].expected = builder[p].expected
               /\ builder'[p].previous = builder[p].previous
    BY <1>4, <2>1, DisturbedIs
  <2>2. ASSUME NEW p \in Workers, builder[p] \in Publishers
        PROVE  /\ builder'[p].at = builder[p].at /\ builder'[p].expected = builder[p].expected
               /\ builder'[p].new = builder[p].new /\ builder'[p].write = builder[p].write
               /\ builder'[p].backup = builder[p].backup
    BY <1>4, <2>2, DisturbedIs
  <2>3. ASSUME NEW p \in Workers
        PROVE  (Compared(builder[p]) => Compared(builder[p])')
               /\ (builder'[p].at \in {"search", "legacy"} => builder'[p].write = builder[p].write)
    BY <1>2, <1>3, <1>5, <2>1, <2>2, <2>3, Apart DEF Compared, S!Generation, S!ContentsOf
  <2>4. IndexLocked'
    BY <1>1, <1>2, <1>5, <2>3 DEF IndexLocked
  <2>5. HalfPublished' = HalfPublished
    BY <1>5, <2>3 DEF HalfPublished
  <2>6. QED
    BY <1>1, <1>2, <2>3, <2>4, <2>5 DEF Agreement
<1>12. Covering'
  BY <1>6, Apart DEF Covering
<1>13. QED
  BY <1>7, <1>9, <1>10, <1>11, <1>12 DEF SearchInv

\* The words of the index are not what its documents say.
LEMMA SearchRots == ASSUME SearchInv, S!Rot PROVE SearchInv'
<1>1. /\ SearchTypes /\ Honesty /\ Incremental /\ IndexLocked /\ Agreement /\ Covering
  BY DEF SearchInv
<1>2. /\ search # None /\ clock < MaxWrites /\ clock' = clock + 1
      /\ search' = [search EXCEPT !.sound = FALSE]
      /\ UNCHANGED <<text, legacy, publisher, torn, built, builder, query>>
  BY DEF S!Rot
<1>3. /\ clock \in Nat /\ clock' \in 0 .. MaxWrites /\ clock <= clock'
      /\ \A n \in 0 .. MaxWrites : n <= clock => n <= clock'
  BY <1>1, <1>2, SearchAssumption DEF SearchTypes
<1>4. /\ search \in Indexes /\ search' \in Indexes
      /\ search'.docs = search.docs /\ search'.generation = search.generation
  BY <1>1, <1>2 DEF SearchTypes, Indexes
<1>5. SearchTypes'
  BY <1>1, <1>2, <1>3, <1>4 DEF SearchTypes
<1>6. S!Existing' = S!Existing
  BY <1>2 DEF S!Existing
<1>7. ASSUME NEW docs \in MapsTo(Docs), Honest(docs)
      PROVE  \A g \in DOMAIN docs :
               /\ docs[g].mtime <= clock'
               /\ g \in S!Existing /\ docs[g].mtime = text[g].mtime => docs[g] = text[g]
  <2>1. \A g \in DOMAIN docs : docs[g].mtime \in 0 .. MaxWrites
    <3>1. \A g \in DOMAIN docs : docs[g] \in Docs
      BY DocumentTimes
    <3>2. QED
      BY <3>1 DEF Docs
  <2>2. QED
    BY <1>3, <1>7, <2>1 DEF Honest
<1>8. Honesty'
  <2>1. \A g \in S!Existing : text[g].mtime <= clock'
    <3>1. \A g \in S!Existing : text[g] \in Docs
      BY <1>1 DEF S!Existing, SearchTypes
    <3>2. \A g \in S!Existing : text[g].mtime \in 0 .. MaxWrites
      BY <3>1 DEF Docs
    <3>3. QED
      BY <1>1, <1>3, <3>2 DEF Honesty
  <2>2. search.docs \in MapsTo(Docs) /\ Honest(search.docs)
    BY <1>1, <1>2, <1>4 DEF Honesty, Indexes
  <2>3. Honest(search.docs)'
    BY <1>2, <1>4, <1>6, <1>7, <2>2 DEF Honest
  <2>4. ASSUME NEW p \in Workers PROVE HonestBuilder(builder[p])'
    <3>1. HonestBuilder(builder[p])
      BY <1>1 DEF Honesty
    <3>2. CASE builder[p] \in Readers
      <4>1. /\ builder[p].previous \in MapsTo(Docs) /\ builder[p].docs \in MapsTo(Docs)
            /\ builder[p].measured \in MapsTo(0 .. MaxWrites) /\ builder[p] \notin Publishers
        BY <3>2, Apart DEF Readers
      <4>2. \A g \in DOMAIN builder[p].measured : builder[p].measured[g] <= clock'
        BY <1>3, <3>1, <3>2, <4>1, MapOfFiles DEF HonestBuilder
      <4>3. QED
        BY <1>2, <1>6, <1>7, <3>1, <3>2, <4>1, <4>2 DEF HonestBuilder, Honest
    <3>3. CASE builder[p] \in Publishers
      <4>1. /\ builder[p].new.docs \in MapsTo(Docs) /\ builder[p] \notin Readers
            /\ builder[p].backup # None => builder[p].backup.docs \in MapsTo(Docs)
        BY <3>3, Apart DEF Publishers, Indexes
      <4>2. QED
        BY <1>2, <1>6, <1>7, <3>1, <3>3, <4>1 DEF HonestBuilder, Honest
    <3>4. CASE builder[p] = S!Idle
      BY <1>2, <3>4, Apart DEF HonestBuilder
    <3>5. QED
      BY <1>1, <3>2, <3>3, <3>4 DEF SearchTypes
  <2>5. query' \in Queries => Honest(query.docs)'
    <3>1. SUFFICES ASSUME query \in Queries PROVE Honest(query.docs)'
      BY <1>2
    <3>2. query.docs \in MapsTo(Docs) /\ Honest(query.docs)
      BY <1>1, <3>1 DEF Honesty, Queries
    <3>3. QED
      BY <1>2, <1>6, <1>7, <3>2 DEF Honest
  <2>6. QED
    BY <1>2, <1>6, <2>1, <2>3, <2>4, <2>5 DEF Honesty
<1>9. Incremental'
  BY <1>1, <1>2, <1>6 DEF Incremental, Undisturbed, S!IncrementalIsFull
<1>10. IndexLocked'
  BY <1>1, <1>2 DEF IndexLocked
<1>11. search' # None => search # None /\ S!Generation(search)' = S!Generation(search)
  BY <1>2, <1>4 DEF S!Generation
<1>12. Agreement'
  BY <1>1, <1>2, <1>4, <1>11 DEF Agreement, Compared, HalfPublished, S!ContentsOf
<1>13. Covering'
  BY <1>1, <1>2, <1>6 DEF Covering
<1>14. QED
  BY <1>5, <1>8, <1>9, <1>10, <1>12, <1>13 DEF SearchInv

\* A builder goes on to b, and makes search' the index.
LEMMA BuilderSteps ==
  ASSUME SearchInv, NEW p \in Workers, NEW b \in Readers \cup Publishers \cup {S!Idle},
         UNCHANGED <<text, clock, query>>, builder' = [builder EXCEPT ![p] = b],
         search' \in Indexes \cup {None}, search' # None => Honest(search'.docs),
         publisher' \in Workers \cup {None}, torn' \in BOOLEAN,
         HonestBuilder(b), b # S!Idle /\ b.quiet => Undisturbed(b),
         built' # built => built' = [f \in S!Existing |-> text[f]],
         IndexLocked', Agreement'
  PROVE  SearchInv'
<1>1. SearchTypes /\ Honesty /\ Incremental /\ Covering
  BY DEF SearchInv
<1>2. \A q \in Workers : builder'[q] = IF q = p THEN b ELSE builder[q]
  BY <1>1 DEF SearchTypes
<1>3. SearchTypes'
  BY <1>1, <1>2 DEF SearchTypes
<1>4. S!Existing' = S!Existing
  BY DEF S!Existing
<1>5. Honesty'
  <2>1. ASSUME NEW q \in Workers PROVE HonestBuilder(builder[q])'
    <3>1. CASE q = p
      BY <1>2, <1>4, <3>1 DEF HonestBuilder, Honest
    <3>2. CASE q # p
      BY <1>1, <1>2, <1>4, <3>2 DEF Honesty, HonestBuilder, Honest
    <3>3. QED
      BY <3>1, <3>2
  <2>2. QED
    BY <1>1, <1>4, <2>1 DEF Honesty, Honest
<1>6. Incremental'
  <2>1. ASSUME NEW q \in Workers, builder'[q] # S!Idle, builder'[q].quiet
        PROVE  Undisturbed(builder[q])'
    <3>1. CASE q = p
      BY <1>2, <1>4, <2>1, <3>1 DEF Undisturbed
    <3>2. CASE q # p
      BY <1>1, <1>2, <1>4, <2>1, <3>2 DEF Incremental, Undisturbed
    <3>3. QED
      BY <3>1, <3>2
  <2>2. S!IncrementalIsFull'
    BY <1>1, <1>4 DEF Incremental, S!IncrementalIsFull
  <2>3. QED
    BY <2>1, <2>2 DEF Incremental
<1>7. Covering'
  BY <1>1, <1>4 DEF Covering
<1>8. QED
  BY <1>3, <1>5, <1>6, <1>7 DEF SearchInv

\* A builder that does not publish goes on to b.
LEMMA SearcherMoves ==
  ASSUME SearchInv, NEW p \in Workers, NEW b \in Readers \cup Publishers \cup {S!Idle},
         UNCHANGED <<text, clock, search, legacy, publisher, torn, query>>,
         builder' = [builder EXCEPT ![p] = b],
         builder[p].at \notin {"search", "legacy"}, b.at \notin {"search", "legacy"},
         HonestBuilder(b), b # S!Idle /\ b.quiet => Undisturbed(b),
         ~torn => Compared(b),
         built' # built => built' = [f \in S!Existing |-> text[f]]
  PROVE  SearchInv'
<1>1. /\ SearchTypes /\ Honesty /\ IndexLocked /\ Agreement
      /\ \A q \in Workers : builder'[q] = IF q = p THEN b ELSE builder[q]
  BY DEF SearchInv, SearchTypes
<1>2. IndexLocked'
  BY <1>1 DEF IndexLocked
<1>3. Agreement'
  <2>1. HalfPublished' = HalfPublished
    BY <1>1 DEF HalfPublished
  <2>2. ASSUME ~torn, NEW q \in Workers PROVE Compared(builder[q])'
    <3>1. CASE q = p
      BY <1>1, <2>2, <3>1 DEF Compared, S!Generation, S!ContentsOf
    <3>2. CASE q # p
      BY <1>1, <2>2, <3>2 DEF Agreement, Compared, S!Generation, S!ContentsOf
    <3>3. QED
      BY <3>1, <3>2
  <2>3. QED
    BY <1>1, <2>1, <2>2 DEF Agreement, S!ContentsOf
<1>4. /\ search' \in Indexes \cup {None} /\ publisher' \in Workers \cup {None}
      /\ torn' \in BOOLEAN
  BY <1>1 DEF SearchTypes
<1>5. search' # None => Honest(search'.docs)
  BY <1>1 DEF Honesty
<1>6. QED
  BY <1>2, <1>3, <1>4, <1>5, BuilderSteps


LEMMA BuilderBegins ==
  ASSUME SearchInv, NEW p \in Workers, NEW strict \in BOOLEAN, S!Begin(p, strict)
  PROVE  SearchInv'
<1>1. PICK b : b = [at |-> "measure", strict |-> strict, expected |-> S!Generation(search),
                    todo |-> Files, measured |-> << >>, previous |-> << >>, docs |-> << >>,
                    reused |-> {}, quiet |-> TRUE]
  OBVIOUS
<1>2. /\ builder[p] = S!Idle /\ builder' = [builder EXCEPT ![p] = b]
      /\ UNCHANGED <<text, clock, search, legacy, publisher, torn, built, query>>
  BY <1>1 DEF S!Begin, S!owned, S!published
<1>3. b \in Readers /\ b \notin Publishers
  <2>1. S!Generation(search) \in Generations \cup {None}
    BY GenerationType DEF SearchInv, SearchTypes
  <2>2. b \in Readers
    BY <1>1, <2>1, NoFiles DEF Readers
  <2>3. QED
    BY <2>2, Apart
<1>4. HonestBuilder(b)
  BY <1>1, <1>3, NoFiles DEF HonestBuilder, Honest
<1>5. Undisturbed(b)
  BY <1>1, <1>3, NoFiles DEF Undisturbed, S!Existing
<1>6. Compared(b) /\ b.at \notin {"search", "legacy"} /\ builder[p].at \notin {"search", "legacy"}
  BY <1>1, <1>2, Apart DEF Compared
<1>7. QED
  BY <1>2, <1>3, <1>4, <1>5, <1>6, SearcherMoves

\* What a reading builder knows.
LEMMA ReaderIs ==
  ASSUME SearchInv, NEW p \in Workers, builder[p].at \in {"measure", "read"}
  PROVE  /\ builder[p] \in Readers /\ builder[p] \notin Publishers
         /\ HonestBuilder(builder[p])
         /\ builder[p].quiet => Undisturbed(builder[p])
         /\ ~torn => Compared(builder[p])
         /\ builder[p].todo \subseteq Files
         /\ builder[p].measured \in MapsTo(0 .. MaxWrites)
         /\ builder[p].previous \in MapsTo(Docs) /\ builder[p].docs \in MapsTo(Docs)
<1>1. builder[p] \in Readers
  BY Apart DEF SearchInv, SearchTypes
<1>2. QED
  BY <1>1, Apart DEF SearchInv, Honesty, Incremental, Agreement, Readers

LEMMA BuilderMeasures == ASSUME SearchInv, NEW p \in Workers, S!Measure(p) PROVE SearchInv'
<1>1. PICK f : f = S!First(builder[p].todo)
  OBVIOUS
<1>2. PICK r : r = builder[p]
  OBVIOUS
<1>3. PICK b : b = [r EXCEPT !.todo = @ \ {f},
                             !.measured = IF text[f] = None THEN @
                                          ELSE S!With(@, f, text[f].mtime)]
  OBVIOUS
<1>4. /\ r.at = "measure" /\ r.todo # {} /\ builder[p].at = "measure"
      /\ builder' = [builder EXCEPT ![p] = b]
      /\ UNCHANGED <<text, clock, search, legacy, publisher, torn, built, query>>
  <2>1. /\ builder[p].at = "measure" /\ builder[p].todo # {}
        /\ UNCHANGED <<text, clock, search, legacy, publisher, torn, built, query>>
    BY DEF S!Measure, S!owned, S!published
  <2>2. builder \in [Workers -> Readers \cup Publishers \cup {S!Idle}]
    BY DEF SearchInv, SearchTypes
  <2>3. builder' = [builder EXCEPT
                      ![p].todo = @ \ {f},
                      ![p].measured = IF text[f] = None THEN @ ELSE S!With(@, f, text[f].mtime)]
    BY <1>1 DEF S!Measure
  <2>4. QED
    BY <1>2, <1>3, <2>1, <2>2, <2>3
<1>5. /\ r \in Readers /\ HonestBuilder(r) /\ (r.quiet => Undisturbed(r))
      /\ r.todo \subseteq Files /\ r.measured \in MapsTo(0 .. MaxWrites)
      /\ f \in r.todo /\ f \in Files
  BY <1>1, <1>2, <1>4, ReaderIs DEF S!First
<1>6. /\ text[f] \in Docs \cup {None} /\ (f \in S!Existing <=> text[f] # None)
      /\ text[f] # None => text[f].mtime \in 0 .. MaxWrites /\ text[f].mtime <= clock
  <2>1. text[f] \in Docs \cup {None} /\ (f \in S!Existing <=> text[f] # None)
    BY <1>5 DEF SearchInv, SearchTypes, S!Existing
  <2>2. QED
    BY <2>1 DEF SearchInv, Honesty, Docs
<1>7. PICK m : m = IF text[f] = None THEN r.measured ELSE S!With(r.measured, f, text[f].mtime)
  OBVIOUS
<1>8. /\ m \in MapsTo(0 .. MaxWrites)
      /\ DOMAIN m = DOMAIN r.measured \cup (IF f \in S!Existing THEN {f} ELSE {})
      /\ \A g \in DOMAIN m : m[g] = IF g = f /\ f \in S!Existing THEN text[f].mtime
                                    ELSE r.measured[g]
  <2>1. CASE text[f] = None
    BY <1>5, <1>6, <1>7, <2>1
  <2>2. CASE text[f] # None
    <3>1. PICK v \in 0 .. MaxWrites : v = text[f].mtime
      BY <1>6, <2>2
    <3>2. m = S!With(r.measured, f, v)
      BY <1>7, <2>2, <3>1
    <3>3. /\ m \in MapsTo(0 .. MaxWrites) /\ DOMAIN m = DOMAIN r.measured \cup {f}
          /\ \A h \in DOMAIN r.measured \cup {f} : m[h] = IF h = f THEN v ELSE r.measured[h]
      <4>1. PICK R : R = 0 .. MaxWrites
        OBVIOUS
      <4>2. r.measured \in MapsTo(R) /\ v \in R /\ f \in Files
        BY <1>5, <3>1, <4>1
      <4>3. /\ m \in MapsTo(R) /\ DOMAIN m = DOMAIN r.measured \cup {f}
            /\ \A h \in DOMAIN r.measured \cup {f} : m[h] = IF h = f THEN v ELSE r.measured[h]
        BY <3>2, <4>2, OneMore
      <4>4. QED
        BY <4>1, <4>3
    <3>4. QED
      BY <1>6, <2>2, <3>1, <3>3
  <2>3. QED
    BY <2>1, <2>2
<1>9. /\ b \in Readers /\ b \notin Publishers /\ b.at = "measure" /\ b.todo = r.todo \ {f}
      /\ b.measured = m /\ b.previous = r.previous /\ b.docs = r.docs /\ b.quiet = r.quiet
  <2>1. b = [r EXCEPT !.todo = r.todo \ {f}, !.measured = m]
    BY <1>3, <1>5, <1>7 DEF Readers
  <2>2. /\ b \in Readers /\ b.at = "measure" /\ b.todo = r.todo \ {f}
        /\ b.measured = m /\ b.previous = r.previous /\ b.docs = r.docs /\ b.quiet = r.quiet
    BY <1>4, <1>5, <1>8, <2>1 DEF Readers
  <2>3. QED
    BY <2>2, Apart
<1>10. HonestBuilder(b)
  <2>1. /\ \A g \in DOMAIN r.measured : r.measured[g] <= clock
        /\ Honest(r.previous) /\ Honest(r.docs) /\ r.docs = << >>
    BY <1>4, <1>5 DEF HonestBuilder
  <2>2. \A g \in DOMAIN m : m[g] <= clock
    BY <1>6, <1>8, <2>1
  <2>3. QED
    BY <1>9, <2>1, <2>2 DEF HonestBuilder
<1>11. b.quiet => Undisturbed(b)
  BY <1>4, <1>5, <1>8, <1>9 DEF Undisturbed
<1>12. Compared(b)
  BY <1>9 DEF Compared
<1>13. QED
  BY <1>4, <1>9, <1>10, <1>11, <1>12, SearcherMoves

LEMMA BuilderTakesOver == ASSUME SearchInv, NEW p \in Workers, S!Previous(p) PROVE SearchInv'
<1>1. PICK r : r = builder[p]
  OBVIOUS
<1>2. PICK d : d = IF search = None THEN << >> ELSE search.docs
  OBVIOUS
<1>3. PICK b : b = [r EXCEPT !.at = "read", !.previous = d, !.todo = DOMAIN r.measured]
  OBVIOUS
<1>4. /\ r.at = "measure" /\ r.todo = {} /\ builder[p].at = "measure"
      /\ builder' = [builder EXCEPT ![p] = b]
      /\ UNCHANGED <<text, clock, search, legacy, publisher, torn, built, query>>
  <2>1. /\ builder[p].at = "measure" /\ builder[p].todo = {}
        /\ UNCHANGED <<text, clock, search, legacy, publisher, torn, built, query>>
    BY DEF S!Previous, S!owned, S!published
  <2>2. builder \in [Workers -> Readers \cup Publishers \cup {S!Idle}]
    BY DEF SearchInv, SearchTypes
  <2>3. builder' = [builder EXCEPT ![p].at = "read", ![p].previous = d,
                                   ![p].todo = DOMAIN builder[p].measured]
    BY <1>2 DEF S!Previous
  <2>4. QED
    BY <1>1, <1>3, <2>1, <2>2, <2>3
<1>5. /\ r \in Readers /\ HonestBuilder(r) /\ (r.quiet => Undisturbed(r))
      /\ r.measured \in MapsTo(0 .. MaxWrites) /\ DOMAIN r.measured \subseteq Files
  BY <1>1, <1>4, ReaderIs, MapOfFiles
<1>6. d \in MapsTo(Docs) /\ Honest(d)
  <2>1. CASE search = None
    BY <1>2, <2>1, NoFiles DEF Honest
  <2>2. CASE search # None
    BY <1>2, <2>2 DEF SearchInv, SearchTypes, Honesty, Indexes
  <2>3. QED
    BY <2>1, <2>2
<1>7. /\ b \in Readers /\ b.at = "read" /\ b.todo = DOMAIN r.measured /\ b.previous = d
      /\ b.measured = r.measured /\ b.docs = r.docs /\ b.quiet = r.quiet
  BY <1>3, <1>5, <1>6 DEF Readers
<1>8. b \notin Publishers
  BY <1>7, Apart
<1>9. HonestBuilder(b)
  BY <1>5, <1>6, <1>7, <1>8 DEF HonestBuilder
<1>10. b.quiet => Undisturbed(b)
  <2>1. DOMAIN b.docs = {}
    BY <1>4, <1>5, <1>7, NoFiles DEF HonestBuilder
  <2>2. SUFFICES ASSUME b.quiet PROVE Undisturbed(b)
    OBVIOUS
  <2>3. /\ DOMAIN r.measured = S!Existing
        /\ \A f \in DOMAIN r.measured : r.measured[f] = text[f].mtime
    BY <1>4, <1>5, <1>7, <2>2 DEF Undisturbed
  <2>4. QED
    BY <1>7, <1>8, <2>1, <2>3 DEF Undisturbed
<1>11. Compared(b)
  <2>1. search # None => b.previous = search.docs
    BY <1>2, <1>7
  <2>2. QED
    BY <1>7, <2>1 DEF Compared
<1>12. QED
  BY <1>4, <1>7, <1>8, <1>9, <1>10, <1>11, SearcherMoves

\* What a reading builder adds to its documents is honest, and the file as it
\* is if nobody has disturbed the builder.
LEMMA DocumentIs ==
  ASSUME SearchInv, NEW p \in Workers, builder[p].at = "read",
         NEW f \in builder[p].todo, f \in DOMAIN builder[p].measured,
         text[f] # None \/ S!Reusable(p, f)
  PROVE  /\ S!Document(p, f) \in Docs
         /\ S!Document(p, f).mtime = builder[p].measured[f]
         /\ S!Document(p, f).mtime <= clock
         /\ f \in S!Existing /\ S!Document(p, f).mtime = text[f].mtime =>
              S!Document(p, f) = text[f]
<1> DEFINE r == builder[p]
           d == S!Document(p, f)
<1>1. /\ HonestBuilder(r) /\ r \in Readers /\ f \in Files
      /\ r.measured \in MapsTo(0 .. MaxWrites) /\ r.previous \in MapsTo(Docs)
  BY ReaderIs
<1>2. r.measured[f] <= clock /\ r.measured[f] \in 0 .. MaxWrites
  BY <1>1, MapOfFiles DEF HonestBuilder
<1>3. CASE S!Reusable(p, f)
  <2>1. /\ f \in DOMAIN r.previous /\ r.previous[f].mtime = r.measured[f]
        /\ d = r.previous[f]
    BY <1>3 DEF S!Reusable, S!Document
  <2>2. r.previous[f] \in Docs /\ Honest(r.previous)
    BY <1>1, <2>1, MapOfFiles DEF HonestBuilder
  <2>3. QED
    BY <1>2, <2>1, <2>2 DEF Honest
<1>4. CASE ~S!Reusable(p, f)
  <2>1. d = [content |-> text[f].content, mtime |-> r.measured[f]]
    BY <1>4 DEF S!Document
  <2>2. text[f] \in Docs
    BY <1>1, <1>4 DEF SearchInv, SearchTypes
  <2>3. d \in Docs /\ d.mtime = r.measured[f] /\ d.content = text[f].content
    BY <1>2, <2>1, <2>2 DEF Docs
  <2>4. d.mtime = text[f].mtime => d = text[f]
    BY <2>2, <2>3 DEF Docs
  <2>5. QED
    BY <1>2, <2>3, <2>4
<1>5. QED
  BY <1>3, <1>4

LEMMA OneDocument ==
  ASSUME NEW g \in MapsTo(Docs), NEW f \in Files, NEW d \in Docs
  PROVE  /\ S!With(g, f, d) \in MapsTo(Docs)
         /\ DOMAIN S!With(g, f, d) = DOMAIN g \cup {f}
         /\ \A h \in DOMAIN g \cup {f} : S!With(g, f, d)[h] = IF h = f THEN d ELSE g[h]
<1>1. PICK R : R = Docs
  OBVIOUS
<1>2. g \in MapsTo(R) /\ d \in R
  BY <1>1
<1>3. QED
  BY <1>1, <1>2, OneMore

LEMMA BuilderReads == ASSUME SearchInv, NEW p \in Workers, S!ReadFile(p) PROVE SearchInv'
<1>1. PICK f : f = S!First(builder[p].todo)
  OBVIOUS
<1>2. PICK r : r = builder[p]
  OBVIOUS
<1>3. PICK b : b = IF text[f] = None /\ ~S!Reusable(p, f) THEN S!Idle
                   ELSE [r EXCEPT !.todo = r.todo \ {f},
                                  !.docs = S!With(r.docs, f, S!Document(p, f)),
                                  !.reused = r.reused \cup IF S!Reusable(p, f) THEN {f} ELSE {}]
  OBVIOUS
<1>4. /\ r.at = "read" /\ r.todo # {} /\ builder[p].at = "read"
      /\ builder' = [builder EXCEPT ![p] = b]
      /\ UNCHANGED <<text, clock, search, legacy, publisher, torn, built, query>>
  <2>1. /\ builder[p].at = "read" /\ builder[p].todo # {}
        /\ UNCHANGED <<text, clock, search, legacy, publisher, torn, built, query>>
    BY DEF S!ReadFile, S!owned, S!published
  <2>2. builder' = [builder EXCEPT ![p] =
          IF text[f] = None /\ ~S!Reusable(p, f) THEN S!Idle
          ELSE [builder[p] EXCEPT
                  !.todo = builder[p].todo \ {f},
                  !.docs = S!With(builder[p].docs, f, S!Document(p, f)),
                  !.reused = builder[p].reused \cup IF S!Reusable(p, f) THEN {f} ELSE {}]]
    BY <1>1 DEF S!ReadFile
  <2>3. builder' = [builder EXCEPT ![p] = b]
    BY <1>2, <1>3, <2>2
  <2>4. QED
    BY <1>2, <2>1, <2>3
<1>5. /\ r \in Readers /\ HonestBuilder(r) /\ (r.quiet => Undisturbed(r))
      /\ (~torn => Compared(r)) /\ r.docs \in MapsTo(Docs)
      /\ f \in r.todo /\ f \in Files /\ f \in builder[p].todo
  BY <1>1, <1>2, <1>4, ReaderIs DEF S!First
<1>6. CASE b = S!Idle
  BY <1>4, <1>6, Apart, SearcherMoves DEF HonestBuilder, Compared
<1>7. CASE b # S!Idle
  <2>1. /\ text[f] # None \/ S!Reusable(p, f)
        /\ b = [r EXCEPT !.todo = r.todo \ {f},
                         !.docs = S!With(r.docs, f, S!Document(p, f)),
                         !.reused = r.reused \cup IF S!Reusable(p, f) THEN {f} ELSE {}]
    BY <1>3, <1>7
  <2>2. f \in DOMAIN r.measured
    BY <1>2, <1>4, <1>5 DEF HonestBuilder
  <2>3. PICK d \in Docs : d = S!Document(p, f)
    BY <1>2, <1>4, <1>5, <2>1, <2>2, DocumentIs
  <2>4. /\ d.mtime = r.measured[f] /\ d.mtime <= clock
        /\ f \in S!Existing /\ d.mtime = text[f].mtime => d = text[f]
    BY <1>2, <1>4, <1>5, <2>1, <2>2, <2>3, DocumentIs
  <2>5. PICK m : m = S!With(r.docs, f, d)
    OBVIOUS
  <2>6. /\ m \in MapsTo(Docs) /\ DOMAIN m = DOMAIN r.docs \cup {f}
        /\ \A h \in DOMAIN r.docs \cup {f} : m[h] = IF h = f THEN d ELSE r.docs[h]
    <3>1. PICK g : g = r.docs
      OBVIOUS
    <3>2. g \in MapsTo(Docs)
      BY <1>5, <3>1
    <3>3. S!With(g, f, d) \in MapsTo(Docs)
      BY <1>5, <2>3, <3>2, OneDocument
    <3>4. DOMAIN S!With(g, f, d) = DOMAIN g \cup {f}
      BY <1>5, <2>3, <3>2, OneDocument
    <3>5. ASSUME NEW h \in DOMAIN g \cup {f}
          PROVE  S!With(g, f, d)[h] = IF h = f THEN d ELSE g[h]
      BY DEF S!With
    <3>6. QED
      BY <2>5, <3>1, <3>3, <3>4, <3>5
  <2>7. /\ b \in Readers /\ b.at = "read" /\ b.todo = r.todo \ {f} /\ b.docs = m
        /\ b.measured = r.measured /\ b.previous = r.previous /\ b.quiet = r.quiet
        /\ b.expected = r.expected
    BY <1>4, <1>5, <2>1, <2>3, <2>5, <2>6 DEF Readers
  <2>8. b \notin Publishers
    BY <2>7, Apart
  <2>9. HonestBuilder(b)
    <3>1. /\ \A g \in DOMAIN r.measured : r.measured[g] <= clock
          /\ Honest(r.previous) /\ Honest(r.docs) /\ r.todo \subseteq DOMAIN r.measured
      BY <1>4, <1>5 DEF HonestBuilder
    <3>2. Honest(m)
      BY <2>4, <2>6, <3>1 DEF Honest
    <3>3. b.todo \subseteq DOMAIN b.measured
      BY <2>7, <3>1
    <3>4. QED
      BY <2>7, <2>8, <3>1, <3>2, <3>3 DEF HonestBuilder
  <2>10. b.quiet => Undisturbed(b)
    <3>1. SUFFICES ASSUME b.quiet PROVE Undisturbed(b)
      OBVIOUS
    <3>2. Undisturbed(r)
      BY <1>5, <2>7, <3>1
    <3>3. f \in S!Existing /\ d = text[f]
      BY <1>4, <1>5, <2>4, <3>2 DEF Undisturbed
    <3>4. QED
      BY <1>4, <1>5, <2>6, <2>7, <2>8, <3>2, <3>3 DEF Undisturbed
  <2>11. ~torn => Compared(b)
    BY <1>4, <1>5, <2>7 DEF Compared
  <2>12. QED
    BY <1>4, <2>7, <2>8, <2>9, <2>10, <2>11, SearcherMoves
<1>8. QED
  BY <1>6, <1>7

\* What a publishing builder knows.
LEMMA PublisherIs ==
  ASSUME SearchInv, NEW p \in Workers, builder[p].at \in {"publish", "search", "legacy"}
  PROVE  /\ builder[p] \in Publishers /\ builder[p] \notin Readers
         /\ Honest(builder[p].new.docs)
         /\ builder[p].backup # None => Honest(builder[p].backup.docs)
         /\ builder[p].quiet => builder[p].new.docs = [f \in S!Existing |-> text[f]]
         /\ ~torn => Compared(builder[p])
         /\ builder[p].new \in Indexes /\ builder[p].backup \in Indexes \cup {None}
         /\ builder[p].write \in BOOLEAN
<1>1. builder[p] \in Publishers
  BY Apart DEF SearchInv, SearchTypes
<1>2. builder[p] \notin Readers
  BY <1>1, Apart
<1>3. HonestBuilder(builder[p]) /\ (~torn => Compared(builder[p]))
  BY DEF SearchInv, Honesty, Agreement
<1>4. builder[p].quiet => Undisturbed(builder[p])
  BY <1>1, Apart DEF SearchInv, Incremental
<1>5. QED
  BY <1>1, <1>2, <1>3, <1>4 DEF HonestBuilder, Undisturbed, Publishers

LEMMA BuilderDecides == ASSUME SearchInv, NEW p \in Workers, S!Decide(p) PROVE SearchInv'
<1>1. PICK r : r = builder[p]
  OBVIOUS
<1>2. PICK kept : kept = (r.previous = r.docs /\ search # None)
  OBVIOUS
<1>3. PICK damaged : damaged = (kept /\ ~search.sound)
  OBVIOUS
<1>4. PICK new : new = S!NewIndex(r.docs, r.strict, S!Cardinality(r.reused))
  OBVIOUS
<1>5. PICK b : b = IF damaged /\ ~r.strict THEN S!Idle
                   ELSE [at |-> "publish", expected |-> r.expected, new |-> new,
                         write |-> ~kept \/ damaged, backup |-> None, quiet |-> r.quiet]
  OBVIOUS
<1>6. /\ r.at = "read" /\ r.todo = {} /\ builder[p].at = "read"
      /\ builder' = [builder EXCEPT ![p] = b]
      /\ UNCHANGED <<text, clock, search, legacy, publisher, torn, built, query>>
  BY <1>1, <1>2, <1>3, <1>4, <1>5 DEF S!Decide, S!owned, S!published
<1>7. /\ r \in Readers /\ HonestBuilder(r) /\ (r.quiet => Undisturbed(r))
      /\ (~torn => Compared(r)) /\ r.docs \in MapsTo(Docs)
  BY <1>1, <1>6, ReaderIs
<1>8. CASE b = S!Idle
  BY <1>6, <1>8, Apart, SearcherMoves DEF HonestBuilder, Compared
<1>9. CASE b # S!Idle
  <2>1. b = [at |-> "publish", expected |-> r.expected, new |-> new,
             write |-> ~kept \/ damaged, backup |-> None, quiet |-> r.quiet]
    BY <1>5, <1>9
  <2>2. new \in Indexes /\ new.docs = r.docs
    <3>1. S!Cardinality(r.reused) \in Nat
      <4>1. \A T : S!Cardinality(T) = Cardinality(T)
        BY DEF S!Cardinality, Cardinality
      <4>2. Cardinality(r.reused) \in Nat
        BY <1>7, SearchAssumption, FS_Subset, FS_CardinalityType DEF Readers
      <4>3. QED
        BY <4>1, <4>2
    <3>2. r.strict \in BOOLEAN
      BY <1>7 DEF Readers
    <3>3. QED
      BY <1>4, <1>7, <3>1, <3>2, NewIndexType
  <2>3. /\ b.at = "publish" /\ b.expected = r.expected /\ b.new = new /\ b.backup = None
        /\ b.quiet = r.quiet
    BY <2>1
  <2>4. b.write <=> ~kept \/ damaged
    BY <2>1
  <2>5. b \in Publishers
    <3>1. r.expected \in Generations \cup {None} /\ r.quiet \in BOOLEAN
      BY <1>7 DEF Readers
    <3>2. (~kept \/ damaged) \in BOOLEAN
      BY <1>3
    <3>3. QED
      BY <2>1, <2>2, <3>1, <3>2 DEF Publishers
  <2>6. b \notin Readers
    BY <2>5, Apart
  <2>7. HonestBuilder(b)
    BY <1>7, <2>2, <2>3, <2>6 DEF HonestBuilder
  <2>8. b.quiet => Undisturbed(b)
    <3>1. SUFFICES ASSUME b.quiet PROVE Undisturbed(b)
      OBVIOUS
    <3>2. /\ DOMAIN r.docs = S!Existing /\ \A f \in DOMAIN r.docs : r.docs[f] = text[f]
          /\ r.docs = [f \in DOMAIN r.docs |-> r.docs[f]]
      BY <1>6, <1>7, <2>3, <3>1, MapOfFiles DEF Undisturbed
    <3>3. r.docs = [f \in S!Existing |-> text[f]]
      BY <3>2
    <3>4. QED
      BY <2>2, <2>3, <2>6, <3>3 DEF Undisturbed
  <2>9. ~torn => Compared(b)
    <3>1. SUFFICES ASSUME ~torn PROVE Compared(b)
      OBVIOUS
    <3>2. ~b.write => r.previous = r.docs
      BY <1>2, <2>4
    <3>3. QED
      BY <1>6, <1>7, <2>2, <2>3, <3>1, <3>2 DEF Compared
  <2>10. QED
    BY <1>6, <2>3, <2>5, <2>7, <2>8, <2>9, SearcherMoves
<1>10. QED
  BY <1>8, <1>9

\* The lock is taken, refused, or not needed.
LEMMA IndexIsLocked == ASSUME SearchInv, NEW p \in Workers, S!LockIndex(p) PROVE SearchInv'
<1>1. PICK r : r = builder[p]
  OBVIOUS
<1>2. /\ r.at = "publish" /\ builder[p].at = "publish"
      /\ UNCHANGED <<text, clock, search, legacy, torn, query>>
  BY <1>1 DEF S!LockIndex, S!owned
<1>3. /\ r \in Publishers /\ r \notin Readers /\ (~torn => Compared(r)) /\ HonestBuilder(r)
      /\ r.quiet => Undisturbed(r)
  BY <1>1, <1>2, PublisherIs DEF HonestBuilder, Undisturbed
<1>4. CASE builder' = [builder EXCEPT ![p] = S!Idle] /\ UNCHANGED <<publisher, built>>
  BY <1>2, <1>4, Apart, SearcherMoves DEF HonestBuilder, Compared
<1>5. CASE S!Finish(p) /\ UNCHANGED publisher
  <2>1. /\ builder' = [builder EXCEPT ![p] = S!Idle]
        /\ built' # built => built' = [f \in S!Existing |-> text[f]]
    BY <1>2, <1>5, PublisherIs DEF S!Finish
  <2>2. QED
    BY <1>2, <1>5, <2>1, Apart, SearcherMoves DEF HonestBuilder, Compared
<1>6. CASE /\ publisher = None /\ S!Generation(search) = builder[p].expected
           /\ publisher' = p /\ UNCHANGED built
           /\ builder' = [builder EXCEPT ![p].at = IF builder[p].write THEN "search"
                                                   ELSE "legacy"]
  <2>1. PICK a : a = IF r.write THEN "search" ELSE "legacy"
    OBVIOUS
  <2>2. PICK b : b = [r EXCEPT !.at = a]
    OBVIOUS
  <2>3. builder' = [builder EXCEPT ![p] = b]
    BY <1>1, <1>6, <2>1, <2>2 DEF SearchInv, SearchTypes
  <2>4. /\ b \in Publishers /\ b.at = a /\ b.new = r.new /\ b.backup = r.backup
        /\ b.write = r.write /\ b.quiet = r.quiet /\ b.expected = r.expected
    BY <1>3, <2>1, <2>2 DEF Publishers
  <2>5. b \notin Readers
    BY <2>4, Apart
  <2>6. HonestBuilder(b) /\ (b.quiet => Undisturbed(b))
    BY <1>3, <2>4, <2>5 DEF HonestBuilder, Undisturbed
  <2>7. \A q \in Workers : builder'[q] = IF q = p THEN b ELSE builder[q]
    BY <2>3 DEF SearchInv, SearchTypes
  <2>8. IndexLocked'
    <3>1. \A q \in Workers : builder[q].at \notin {"search", "legacy"}
      BY <1>6, SearchAssumption DEF SearchInv, IndexLocked
    <3>2. b.at \in {"search", "legacy"} /\ (b.at = "search" => b.write)
      BY <2>1, <2>4
    <3>3. QED
      BY <1>6, <2>7, <3>1, <3>2 DEF IndexLocked
  <2>9. Agreement'
    <3>1. ASSUME ~torn, NEW q \in Workers PROVE Compared(builder[q])'
      <4>1. CASE q = p
        BY <1>1, <1>2, <1>3, <1>6, <2>1, <2>4, <2>7, <3>1, <4>1, SearchAssumption
        DEF Compared, S!Generation, S!ContentsOf
      <4>2. CASE q # p
        BY <1>2, <2>7, <3>1, <4>2 DEF SearchInv, Agreement, Compared, S!Generation, S!ContentsOf
      <4>3. QED
        BY <4>1, <4>2
    <3>2. HalfPublished' = HalfPublished
      <4>1. ~(b.at = "legacy" /\ b.write) /\ ~(builder[p].at = "legacy" /\ builder[p].write)
        BY <1>2, <2>1, <2>4
      <4>2. QED
        BY <2>7, <4>1 DEF HalfPublished
    <3>3. QED
      BY <1>2, <3>1, <3>2 DEF SearchInv, Agreement, S!ContentsOf
  <2>10. /\ search' \in Indexes \cup {None} /\ torn' \in BOOLEAN
         /\ search' # None => Honest(search'.docs)
    BY <1>2 DEF SearchInv, SearchTypes, Honesty
  <2>11. QED
    BY <1>2, <1>6, <2>3, <2>4, <2>6, <2>8, <2>9, <2>10, BuilderSteps
<1>7. QED
  BY <1>4, <1>5, <1>6 DEF S!LockIndex

LEMMA SearchIsPublished == ASSUME SearchInv, NEW p \in Workers, S!PublishSearch(p) PROVE SearchInv'
<1>1. PICK r : r = builder[p]
  OBVIOUS
<1>2. PICK b : b = [r EXCEPT !.at = "legacy", !.backup = search]
  OBVIOUS
<1>3. /\ SearchTypes /\ Honesty /\ Incremental /\ IndexLocked /\ Agreement
      /\ builder \in [Workers -> Readers \cup Publishers \cup {S!Idle}]
  BY DEF SearchInv, SearchTypes
<1>4. /\ r.at = "search" /\ builder[p].at = "search" /\ search' = r.new
      /\ UNCHANGED <<text, clock, legacy, publisher, built, query>>
      /\ builder' = [builder EXCEPT ![p] = b]
  BY <1>1, <1>2, <1>3 DEF S!PublishSearch, S!owned
<1>5. torn' <=> torn \/ \E q \in Workers \ {p} : /\ builder[q].at \in {"read", "publish"}
                                                 /\ builder[q].expected = S!Generation(search)'
  BY DEF S!PublishSearch, S!Generation
<1>6. torn' \in BOOLEAN
  BY <1>3 DEF S!PublishSearch, SearchTypes
<1>7. /\ r \in Publishers /\ r \notin Readers /\ HonestBuilder(r) /\ (r.quiet => Undisturbed(r))
      /\ r.new \in Indexes /\ Honest(r.new.docs) /\ publisher = p /\ r.write
  <2>1. publisher = p /\ r.write
    BY <1>1, <1>3, <1>4 DEF IndexLocked
  <2>2. QED
    BY <1>1, <1>4, <2>1, PublisherIs DEF HonestBuilder, Undisturbed
<1>8. /\ b \in Publishers /\ b.at = "legacy" /\ b.new = r.new /\ b.backup = search
      /\ b.write = r.write /\ b.quiet = r.quiet
  BY <1>2, <1>3, <1>7 DEF SearchTypes, Publishers
<1>9. b \notin Readers
  BY <1>8, Apart
<1>10. HonestBuilder(b) /\ (b.quiet => Undisturbed(b))
  BY <1>3, <1>7, <1>8, <1>9 DEF HonestBuilder, Undisturbed, Honesty
<1>11. \A q \in Workers : builder'[q] = IF q = p THEN b ELSE builder[q]
  BY <1>3, <1>4
<1>12. IndexLocked'
  BY <1>3, <1>4, <1>7, <1>8, <1>11 DEF IndexLocked
<1>13. Agreement'
  <2>1. SUFFICES ASSUME ~torn'
                 PROVE  (\A q \in Workers : Compared(builder[q])') /\ HalfPublished'
    BY DEF Agreement
  <2>2. \A q \in Workers \ {p} : builder[q].at \notin {"search", "legacy"}
    BY <1>3, <1>7 DEF IndexLocked
  <2>3. HalfPublished'
    BY <1>7, <1>8, <1>11 DEF HalfPublished
  <2>4. search # None => legacy = S!ContentsOf(search.docs)
    <3>1. ~HalfPublished
      BY <1>4, <2>2 DEF HalfPublished
    <3>2. QED
      BY <1>3, <1>5, <2>1, <3>1 DEF Agreement
  <2>5. Compared(builder[p])'
    BY <1>4, <1>8, <1>11, <2>4 DEF Compared, S!ContentsOf
  <2>6. ASSUME NEW q \in Workers \ {p} PROVE Compared(builder[q])'
    <3>1. builder'[q] = builder[q] /\ builder[q].at # "legacy"
      BY <1>11, <2>2
    <3>2. builder[q].at \in {"read", "publish"} => builder[q].expected # S!Generation(search)'
      BY <1>5, <2>1
    <3>3. QED
      BY <3>1, <3>2 DEF Compared
  <2>7. QED
    BY <2>3, <2>5, <2>6
<1>14. search' \in Indexes \cup {None} /\ Honest(search'.docs)
  BY <1>4, <1>7
<1>15. publisher' \in Workers \cup {None}
  BY <1>3, <1>4 DEF SearchTypes
<1>16. QED
  BY <1>4, <1>6, <1>8, <1>10, <1>12, <1>13, <1>14, <1>15, BuilderSteps

\* A builder that publishes is the only one, and stops.
LEMMA PublisherStops ==
  ASSUME SearchInv, NEW p \in Workers, builder[p].at \in {"search", "legacy"},
         builder' = [builder EXCEPT ![p] = S!Idle], publisher' = None
  PROVE  /\ \A q \in Workers \ {p} : builder'[q] = builder[q]
                                     /\ builder[q].at \notin {"search", "legacy"}
         /\ builder'[p] = S!Idle /\ IndexLocked' /\ ~HalfPublished'
         /\ HalfPublished <=> builder[p].at = "legacy" /\ builder[p].write
         /\ HonestBuilder(S!Idle) /\ (~torn => \A q \in Workers : Compared(builder[q]))
<1>1. /\ publisher = p /\ publisher # None
      /\ \A q \in Workers : builder'[q] = IF q = p THEN S!Idle ELSE builder[q]
  BY SearchAssumption DEF SearchInv, SearchTypes, IndexLocked
<1>2. \A q \in Workers \ {p} : builder'[q] = builder[q]
                               /\ builder[q].at \notin {"search", "legacy"}
  BY <1>1 DEF SearchInv, IndexLocked
<1>3. IndexLocked' /\ builder'[p] = S!Idle
  BY <1>1, <1>2, Apart, SearchAssumption DEF IndexLocked
<1>4. ~HalfPublished' /\ (HalfPublished <=> builder[p].at = "legacy" /\ builder[p].write)
  BY <1>1, <1>2, Apart DEF HalfPublished
<1>5. HonestBuilder(S!Idle)
  BY Apart DEF HonestBuilder
<1>6. QED
  BY <1>2, <1>3, <1>4, <1>5 DEF SearchInv, Agreement

LEMMA LegacyIsPublished == ASSUME SearchInv, NEW p \in Workers, S!PublishLegacy(p) PROVE SearchInv'
<1>1. PICK r : r = builder[p]
  OBVIOUS
<1>2. /\ r.at = "legacy" /\ builder[p].at = "legacy" /\ legacy' = S!ContentsOf(r.new.docs)
      /\ UNCHANGED <<text, clock, search, torn, query>> /\ publisher' = None
      /\ builder' = [builder EXCEPT ![p] = S!Idle]
      /\ built' # built => r.quiet /\ built' = r.new.docs
  BY <1>1 DEF S!PublishLegacy, S!Finish, S!owned
<1>3. built' # built => built' = [f \in S!Existing |-> text[f]]
  BY <1>1, <1>2, PublisherIs
<1>4. /\ \A q \in Workers \ {p} : builder'[q] = builder[q]
                                  /\ builder[q].at \notin {"search", "legacy"}
      /\ builder'[p] = S!Idle /\ IndexLocked' /\ ~HalfPublished' /\ HonestBuilder(S!Idle)
      /\ ~torn => \A q \in Workers : Compared(builder[q])
  BY <1>2, PublisherStops
<1>5. Agreement'
  <2>1. SUFFICES ASSUME ~torn
                 PROVE  /\ \A q \in Workers : Compared(builder[q])'
                        /\ search # None => legacy' = S!ContentsOf(search.docs)
    BY <1>2, <1>4 DEF Agreement, S!ContentsOf
  <2>2. search # None => legacy' = S!ContentsOf(search.docs)
    BY <1>1, <1>2, <1>4, <2>1 DEF Compared
  <2>3. Compared(builder[p])'
    BY <1>4, Apart DEF Compared
  <2>4. \A q \in Workers \ {p} : Compared(builder[q])'
    BY <1>2, <1>4, <2>1 DEF Compared, S!Generation, S!ContentsOf
  <2>5. QED
    BY <2>2, <2>3, <2>4
<1>6. /\ search' \in Indexes \cup {None} /\ torn' \in BOOLEAN
      /\ search' # None => Honest(search'.docs)
  BY <1>2 DEF SearchInv, SearchTypes, Honesty
<1>7. QED
  BY <1>2, <1>3, <1>4, <1>5, <1>6, BuilderSteps

LEMMA PublicationFails == ASSUME SearchInv, NEW p \in Workers, S!PublishFails(p) PROVE SearchInv'
<1>1. PICK r : r = builder[p]
  OBVIOUS
<1>2. /\ r.at \in {"search", "legacy"} /\ builder[p].at \in {"search", "legacy"}
      /\ search' = IF r.at = "legacy" /\ r.write THEN r.backup ELSE search
      /\ UNCHANGED <<text, clock, legacy, built, query>> /\ publisher' = None
      /\ builder' = [builder EXCEPT ![p] = S!Idle]
  BY <1>1 DEF S!PublishFails, S!Restored, S!owned
<1>3. torn' <=> torn \/ \E q \in Workers \ {p} : builder[q].at \in {"read", "publish"}
  BY DEF S!PublishFails
<1>4. torn' \in BOOLEAN
  BY DEF S!PublishFails, SearchInv, SearchTypes
<1>5. /\ \A q \in Workers \ {p} : builder'[q] = builder[q]
                                  /\ builder[q].at \notin {"search", "legacy"}
      /\ builder'[p] = S!Idle /\ IndexLocked' /\ ~HalfPublished' /\ HonestBuilder(S!Idle)
      /\ HalfPublished <=> r.at = "legacy" /\ r.write
      /\ ~torn => \A q \in Workers : Compared(builder[q])
  BY <1>1, <1>2, PublisherStops
<1>6. /\ search' \in Indexes \cup {None} /\ (search' # None => Honest(search'.docs))
  BY <1>1, <1>2, PublisherIs DEF SearchInv, SearchTypes, Honesty
<1>7. Agreement'
  <2>1. SUFFICES ASSUME ~torn'
                 PROVE  /\ \A q \in Workers : Compared(builder[q])'
                        /\ search' # None => legacy = S!ContentsOf(search'.docs)
    BY <1>2, <1>5 DEF Agreement, S!ContentsOf
  <2>2. Compared(builder[p])'
    BY <1>5, Apart DEF Compared
  <2>3. \A q \in Workers \ {p} : Compared(builder[q])'
    BY <1>3, <1>5, <2>1 DEF Compared
  <2>4. search' # None => legacy = S!ContentsOf(search'.docs)
    <3>1. CASE r.at = "legacy" /\ r.write
      BY <1>1, <1>2, <1>3, <1>5, <2>1, <3>1 DEF Compared
    <3>2. CASE ~(r.at = "legacy" /\ r.write)
      BY <1>2, <1>3, <1>5, <2>1, <3>2 DEF SearchInv, Agreement
    <3>3. QED
      BY <3>1, <3>2
  <2>5. QED
    BY <2>2, <2>3, <2>4
<1>8. QED
  BY <1>2, <1>4, <1>5, <1>6, <1>7, BuilderSteps

LEMMA BuilderKilled == ASSUME SearchInv, NEW p \in Workers, S!Killed(p) PROVE SearchInv'
<1>1. /\ UNCHANGED <<text, clock, search, legacy, built, query>>
      /\ builder' = [builder EXCEPT ![p] = S!Idle]
      /\ publisher' = IF publisher = p THEN None ELSE publisher
      /\ torn' <=> torn \/ (builder[p].at = "legacy" /\ builder[p].write)
  BY DEF S!Killed, S!owned
<1>2. torn' \in BOOLEAN
  BY DEF S!Killed, SearchInv, SearchTypes
<1>3. \A q \in Workers : builder'[q] = IF q = p THEN S!Idle ELSE builder[q]
  BY <1>1 DEF SearchInv, SearchTypes
<1>4. IndexLocked'
  BY <1>1, <1>3, Apart, SearchAssumption DEF SearchInv, IndexLocked
<1>5. Agreement'
  <2>1. SUFFICES ASSUME ~torn'
                 PROVE  /\ \A q \in Workers : Compared(builder[q])'
                        /\ ~HalfPublished' /\ search # None => legacy = S!ContentsOf(search.docs)
    BY <1>1 DEF Agreement, S!ContentsOf
  <2>2. ~torn /\ (HalfPublished' <=> HalfPublished)
    BY <1>1, <1>3, <2>1, Apart DEF HalfPublished
  <2>3. \A q \in Workers : q # p => Compared(builder[q])'
    BY <1>1, <1>3, <2>2
    DEF SearchInv, Agreement, Compared, S!Generation, S!ContentsOf
  <2>4. Compared(builder[p])'
    BY <1>3, Apart DEF Compared
  <2>5. QED
    BY <2>2, <2>3, <2>4 DEF SearchInv, Agreement
<1>6. /\ search' \in Indexes \cup {None} /\ publisher' \in Workers \cup {None}
      /\ search' # None => Honest(search'.docs)
  BY <1>1 DEF SearchInv, SearchTypes, Honesty
<1>7. HonestBuilder(S!Idle)
  BY Apart DEF HonestBuilder
<1>8. QED
  BY <1>1, <1>2, <1>4, <1>5, <1>6, <1>7, BuilderSteps

\* A delivery goes on to d.
LEMMA QueryMoves ==
  ASSUME SearchInv, NEW d \in Queries \cup {S!Idle},
         UNCHANGED <<text, clock, search, legacy, publisher, torn, built, builder>>, query' = d,
         d \in Queries => Honest(d.docs),
         d \in Queries /\ d.at = "scan" /\ d.quiet /\ ~d.changed =>
           \A f \in Files \ d.todo :
             /\ f \in DOMAIN d.docs <=> f \in S!Existing
             /\ f \in DOMAIN d.docs => d.docs[f].mtime = text[f].mtime
  PROVE  SearchInv'
<1>1. S!Existing' = S!Existing
  BY DEF S!Existing
<1>2. SearchTypes'
  BY DEF SearchInv, SearchTypes
<1>3. Honesty'
  BY <1>1 DEF SearchInv, Honesty, HonestBuilder, Honest
<1>4. Incremental'
  BY <1>1 DEF SearchInv, Incremental, Undisturbed, S!IncrementalIsFull
<1>5. IndexLocked' /\ Agreement'
  BY DEF SearchInv, IndexLocked, Agreement, Compared, HalfPublished, S!Generation, S!ContentsOf
<1>6. Covering'
  BY <1>1 DEF Covering
<1>7. QED
  BY <1>2, <1>3, <1>4, <1>5, <1>6 DEF SearchInv

LEMMA DeliveryBegins == ASSUME SearchInv, S!Search PROVE SearchInv'
<1>1. PICK d : d = [at |-> "load", docs |-> search.docs, loaded |-> TRUE,
                    todo |-> DOMAIN search.docs, changed |-> FALSE, quiet |-> TRUE]
  OBVIOUS
<1>2. /\ search # None /\ query' = d
      /\ UNCHANGED <<text, clock, search, legacy, publisher, torn, built, builder>>
  BY <1>1 DEF S!Search, S!owned, S!published
<1>3. search.docs \in MapsTo(Docs) /\ DOMAIN search.docs \subseteq Files /\ Honest(search.docs)
  <2>1. search.docs \in MapsTo(Docs) /\ Honest(search.docs)
    BY <1>2 DEF SearchInv, SearchTypes, Honesty, Indexes
  <2>2. QED
    BY <2>1, MapOfFiles
<1>4. d \in Queries /\ d.at = "load" /\ d.docs = search.docs
  BY <1>1, <1>3 DEF Queries
<1>5. QED
  BY <1>2, <1>3, <1>4, QueryMoves

\* What is known of a delivery under way.
LEMMA QueryIs ==
  ASSUME SearchInv, query.at \in {"load", "scan"}
  PROVE  /\ query \in Queries /\ Honest(query.docs) /\ query.docs \in MapsTo(Docs)
         /\ query.todo \subseteq Files /\ query.loaded \in BOOLEAN /\ query.changed \in BOOLEAN
<1>1. query \in Queries
  BY Apart DEF SearchInv, SearchTypes
<1>2. QED
  BY <1>1 DEF SearchInv, Honesty, Queries

LEMMA ItemIsLoaded == ASSUME SearchInv, S!LoadItem PROVE SearchInv'
<1>1. PICK q : q = query
  OBVIOUS
<1>2. PICK f : f = S!First(query.todo)
  OBVIOUS
<1>3. PICK l \in BOOLEAN :
        l = (q.loaded /\ text[f] # None /\ text[f].content = q.docs[f].content)
  OBVIOUS
<1>4. PICK d : d = [q EXCEPT !.todo = q.todo \ {f}, !.loaded = l]
  OBVIOUS
<1>5. /\ q.at = "load" /\ query.at = "load" /\ query' = d
      /\ UNCHANGED <<text, clock, search, legacy, publisher, torn, built, builder>>
  BY <1>1, <1>2, <1>3, <1>4 DEF S!LoadItem, S!owned, S!published
<1>6. q \in Queries /\ Honest(q.docs)
  BY <1>1, <1>5, QueryIs
<1>7. d \in Queries /\ d.at = "load" /\ d.docs = q.docs
  BY <1>4, <1>5, <1>6 DEF Queries
<1>8. QED
  BY <1>5, <1>6, <1>7, QueryMoves

LEMMA CoverageIsOpened == ASSUME SearchInv, S!OpenCoverage PROVE SearchInv'
<1>1. PICK q : q = query
  OBVIOUS
<1>2. PICK d : d = IF search = None \/ ~search.sound THEN S!Idle
                   ELSE [q EXCEPT !.at = "scan", !.docs = search.docs, !.todo = Files]
  OBVIOUS
<1>3. /\ q.at = "load" /\ query.at = "load" /\ query' = d
      /\ UNCHANGED <<text, clock, search, legacy, publisher, torn, built, builder>>
  BY <1>1, <1>2 DEF S!OpenCoverage, S!owned, S!published
<1>4. CASE d = S!Idle
  BY <1>3, <1>4, Apart, QueryMoves
<1>5. CASE d # S!Idle
  <2>1. search # None /\ d = [q EXCEPT !.at = "scan", !.docs = search.docs, !.todo = Files]
    BY <1>2, <1>5
  <2>2. search.docs \in MapsTo(Docs) /\ Honest(search.docs)
    BY <2>1 DEF SearchInv, SearchTypes, Honesty, Indexes
  <2>3. q \in Queries
    BY <1>1, <1>3, QueryIs
  <2>4. d \in Queries /\ d.docs = search.docs /\ d.todo = Files
    BY <2>1, <2>2, <2>3 DEF Queries
  <2>5. QED
    BY <1>3, <2>2, <2>4, QueryMoves
<1>6. QED
  BY <1>4, <1>5

LEMMA FileIsScanned == ASSUME SearchInv, S!Scan PROVE SearchInv'
<1>1. PICK q : q = query
  OBVIOUS
<1>2. PICK f : f = S!First(query.todo)
  OBVIOUS
<1>3. PICK same : same = IF f \in DOMAIN q.docs
                         THEN text[f] # None /\ text[f].mtime = q.docs[f].mtime
                         ELSE text[f] = None
  OBVIOUS
<1>4. PICK c \in BOOLEAN : c = (q.changed \/ ~same)
  OBVIOUS
<1>5. PICK d : d = [q EXCEPT !.todo = q.todo \ {f}, !.changed = c]
  OBVIOUS
<1>6. /\ q.at = "scan" /\ query.at = "scan" /\ query' = d
      /\ UNCHANGED <<text, clock, search, legacy, publisher, torn, built, builder>>
  BY <1>1, <1>2, <1>3, <1>4, <1>5 DEF S!Scan, S!owned, S!published
<1>7. /\ q \in Queries /\ Honest(q.docs) /\ f \in q.todo /\ f \in Files
      /\ f \in S!Existing <=> text[f] # None
  <2>1. q \in Queries /\ Honest(q.docs) /\ q.todo \subseteq Files
    BY <1>1, <1>6, QueryIs
  <2>2. f \in q.todo
    BY <1>1, <1>2 DEF S!Scan, S!First
  <2>3. QED
    BY <2>1, <2>2 DEF S!Existing
<1>8. /\ d \in Queries /\ d.at = "scan" /\ d.docs = q.docs /\ d.todo = q.todo \ {f}
      /\ d.quiet = q.quiet /\ d.changed = c
  BY <1>4, <1>5, <1>6, <1>7 DEF Queries
<1>9. ASSUME d.quiet, ~d.changed, NEW g \in Files \ d.todo
      PROVE  /\ g \in DOMAIN d.docs <=> g \in S!Existing
             /\ g \in DOMAIN d.docs => d.docs[g].mtime = text[g].mtime
  <2>1. ~q.changed /\ same /\ q.quiet
    BY <1>4, <1>8, <1>9
  <2>2. CASE g = f
    BY <1>3, <1>7, <1>8, <2>1, <2>2
  <2>3. CASE g # f
    BY <1>1, <1>6, <1>7, <1>8, <1>9, <2>1, <2>3 DEF SearchInv, Covering
  <2>4. QED
    BY <2>2, <2>3
<1>10. QED
  BY <1>6, <1>7, <1>8, <1>9, QueryMoves

LEMMA SearchInvariant == Spec => []SearchInv
<1>1. Init => SearchInv
  BY SearchInit DEF Init
<1>2. SearchInv /\ [Next]_vars => SearchInv'
  <2> SUFFICES ASSUME SearchInv, [Next]_vars PROVE SearchInv'
    OBVIOUS
  <2>1. CASE S!Next
    <3>1. ASSUME NEW f \in Files, NEW c \in Contents \cup {None}, S!Write(f, c) PROVE SearchInv'
      BY <3>1, SearchWritten
    <3>2. CASE S!Rot
      BY <3>2, SearchRots
    <3>3. ASSUME NEW p \in Workers, NEW strict \in BOOLEAN, S!Begin(p, strict) PROVE SearchInv'
      BY <3>3, BuilderBegins
    <3>4. ASSUME NEW p \in Workers,
                 S!Measure(p) \/ S!Previous(p) \/ S!ReadFile(p) \/ S!Decide(p)
          PROVE  SearchInv'
      BY <3>4, BuilderMeasures, BuilderTakesOver, BuilderReads, BuilderDecides
    <3>5. ASSUME NEW p \in Workers,
                 \/ S!LockIndex(p) \/ S!PublishSearch(p) \/ S!PublishLegacy(p)
                 \/ S!PublishFails(p) \/ S!Killed(p)
          PROVE  SearchInv'
      BY <3>5, IndexIsLocked, SearchIsPublished, LegacyIsPublished, PublicationFails,
         BuilderKilled
    <3>6. CASE S!Search \/ S!LoadItem \/ S!OpenCoverage \/ S!Scan
      BY <3>6, DeliveryBegins, ItemIsLoaded, CoverageIsOpened, FileIsScanned
    <3>7. CASE S!Answer
      BY <3>7, Apart, QueryMoves DEF S!Answer, S!owned, S!published
    <3>8. QED
      BY <2>1, <3>1, <3>2, <3>3, <3>4, <3>5, <3>6, <3>7 DEF S!Next
  <2>2. CASE UNCHANGED searchVars
    <3>1. UNCHANGED <<text, clock, search, legacy, publisher, torn, built, builder, query>>
      BY <2>2 DEF searchVars
    <3>2. query \in Queries \cup {S!Idle}
      BY DEF SearchInv, SearchTypes
    <3>3. QED
      BY <3>1, <3>2, QueryMoves DEF SearchInv, Honesty, Covering
  <2>3. QED
    BY <2>1, <2>2 DEF Next, InstallationNext, ContentNext, vars
<1>3. QED
  BY <1>1, <1>2, PTL DEF Spec

\* For any builders, files, contents and numbers of writes and builds: no
\* document that would be reused is wrong, what an undisturbed build has made
\* is what a full reading makes, the two indexes agree unless a builder died or
\* failed between them or a generation came back, and a complete delivery is of
\* all files.
THEOREM Search == Spec => []SearchSound
<1>1. SearchInv => SearchSound
  <2> SUFFICES ASSUME SearchInv
               PROVE  /\ S!NeverStaleForGood /\ S!IncrementalIsFull /\ S!ProjectionsAgree
                      /\ S!CompleteTrue
    BY DEF SearchSound
  <2>1. S!NeverStaleForGood
    BY DEF SearchInv, Honesty, Honest, S!NeverStaleForGood
  <2>2. S!ProjectionsAgree
    BY SearchAssumption DEF SearchInv, IndexLocked, Agreement, HalfPublished, S!ProjectionsAgree
  <2>3. S!CompleteTrue
    <3>1. SUFFICES ASSUME query # S!Idle, S!Complete, query.quiet
                   PROVE  S!ContentsOf(query.docs) = [f \in S!Existing |-> text[f].content]
      BY DEF S!CompleteTrue
    <3>2. /\ query \in Queries /\ Honest(query.docs) /\ DOMAIN query.docs \subseteq Files
          /\ query.at = "scan" /\ query.todo = {} /\ ~query.changed
      BY <3>1, QueryIs, MapOfFiles DEF S!Complete
    <3>3. \A f \in Files : /\ f \in DOMAIN query.docs <=> f \in S!Existing
                           /\ f \in DOMAIN query.docs => query.docs[f].mtime = text[f].mtime
      BY <3>1, <3>2 DEF SearchInv, Covering
    <3>4. DOMAIN query.docs = S!Existing
      BY <3>2, <3>3 DEF S!Existing
    <3>5. \A f \in S!Existing : query.docs[f] = text[f]
      BY <3>2, <3>3, <3>4 DEF Honest
    <3>6. QED
      BY <3>4, <3>5 DEF S!ContentsOf
  <2>4. QED
    BY <2>1, <2>2, <2>3 DEF SearchInv, Incremental
<1>2. QED
  BY <1>1, SearchInvariant, PTL

(***************************************************************************)
(* The types of the lifecycle and of the search index: what the invariants *)
(* above leave out are the bounds of the model.                            *)
(***************************************************************************)
\* The target under way is one of the plan, and what was registered was there.
CleanupBounds ==
  litem \in 0 .. LastItem /\ (inventory = None \/ inventory \in [L!Targets -> L!Versions])

LEMMA CleanupBoundsStay ==
  ASSUME CleanupInv, CleanupBounds, L!Next
  PROVE  CleanupBounds'
<1>1. L!Planned \in SUBSET L!Targets /\ L!Targets \subseteq 0 .. LastItem /\ 0 \in 0 .. LastItem
  BY ComponentAssumption DEF L!Planned, L!Targets
<1>2. ASSUME litem' \in L!Targets \cup {0}, UNCHANGED inventory PROVE CleanupBounds'
  BY <1>1, <1>2 DEF CleanupBounds
<1>3. ASSUME UNCHANGED <<litem, inventory>> PROVE CleanupBounds'
  BY <1>3 DEF CleanupBounds
<1>4. CASE L!CopyOut \/ L!Remove \/ L!CopyBack
  <2>1. litem \in L!Planned
    BY <1>4 DEF L!CopyOut, L!Remove, L!CopyBack, CleanupInv, AtWork
  <2>2. PICK next : L!Step(next) /\ UNCHANGED inventory
    BY <1>4 DEF L!CopyOut, L!Remove, L!CopyBack
  <2>3. \/ litem' = L!First(L!Planned)
        \/ L!Left # {} /\ litem' = L!First(L!Left)
    BY <2>2 DEF L!Step
  <2>4. L!Left \in SUBSET L!Targets
    BY <1>1 DEF L!Left
  <2>5. litem' \in L!Targets
    BY <1>1, <2>1, <2>3, <2>4, FirstOf
  <2>6. QED
    BY <1>2, <2>2, <2>5
<1>5. CASE L!StartCleanup
  <2>1. L!Planned # {} /\ litem' = L!First(L!Planned) /\ UNCHANGED inventory
    BY <1>5 DEF L!StartCleanup
  <2>2. QED
    BY <1>1, <1>2, <2>1, FirstOf
<1>6. CASE L!StartRestore
  <2>1. L!Planned # {}
    BY <1>6 DEF L!StartRestore, CleanupInv, Checkpointed
  <2>2. litem' = L!First(L!Planned) /\ UNCHANGED inventory
    BY <1>6 DEF L!StartRestore
  <2>3. QED
    BY <1>1, <1>2, <2>1, <2>2, FirstOf
<1>7. CASE L!CleanupFails \/ L!EndTransaction \/ L!RestoreFails \/ L!Killed
  BY <1>2, <1>7 DEF L!CleanupFails, L!EndTransaction, L!RestoreFails, L!Killed
<1>8. CASE L!WriteManifest \/ L!Forget
  BY <1>3, <1>8 DEF L!WriteManifest, L!Forget
<1>9. ASSUME NEW t \in L!Targets, L!Rewrite(t) PROVE CleanupBounds'
  BY <1>3, <1>9 DEF L!Rewrite
<1>10. ASSUME NEW ts \in SUBSET L!Targets, L!PlanCleanup(ts) PROVE CleanupBounds'
  BY <1>3, <1>10 DEF L!PlanCleanup
<1>11. ASSUME NEW known \in [L!Targets -> L!Versions], L!Register(known) PROVE CleanupBounds'
  BY <1>11 DEF L!Register, CleanupBounds
<1>12. QED
  BY <1>4, <1>5, <1>6, <1>7, <1>8, <1>9, <1>10, <1>11 DEF L!Next

\* lifecycle.py: the types of a cleanup.
LEMMA CleanupTyped == Spec => [](focus = "lifecycle" => L!TypeOK)
<1>1. Init => (focus = "lifecycle" => CleanupBounds)
  BY ComponentAssumption DEF Init, L!Init, CleanupBounds
<1>2. (focus = "lifecycle" => CleanupInv /\ CleanupBounds) /\ [Next]_vars
        => (focus = "lifecycle" => CleanupBounds)'
  <2> SUFFICES ASSUME focus = "lifecycle", CleanupInv, CleanupBounds, [Next]_vars
               PROVE  CleanupBounds'
    BY DEF Next, InstallationNext, ContentNext, vars
  <2>1. CASE L!Next
    BY <2>1, CleanupBoundsStay
  <2>2. CASE UNCHANGED lifecycleVars
    BY <2>2 DEF lifecycleVars, CleanupBounds
  <2>3. QED
    BY <2>1, <2>2 DEF Next, InstallationNext, ContentNext, vars
<1>3. CleanupInv /\ CleanupBounds => L!TypeOK
  BY DEF CleanupInv, CleanupTypes, CleanupBounds, L!TypeOK, L!Planned
<1>4. QED
  BY <1>1, <1>2, <1>3, CleanupInvariant, PTL DEF Spec

\* search_index.py: the types of the indexes and their builders.
LEMMA SearchTyped == Spec => [](focus = "search" => S!TypeOK)
<1>1. Init => builds \in 0 .. MaxBegun
  BY BoundAssumption DEF Init, S!Init
<1>2. builds \in 0 .. MaxBegun /\ [Next]_vars => (builds \in 0 .. MaxBegun)'
  <2> SUFFICES ASSUME builds \in 0 .. MaxBegun, [Next]_vars PROVE builds' \in 0 .. MaxBegun
    OBVIOUS
  <2>1. CASE S!Next
    <3>1. \/ UNCHANGED builds
          \/ builds < MaxBegun /\ builds' = builds + 1
      <4>1. ASSUME NEW f \in Files, NEW c \in Contents \cup {None}, S!Write(f, c)
            PROVE  UNCHANGED builds
        BY <4>1 DEF S!Write
      <4>2. CASE S!Rot
        BY <4>2 DEF S!Rot
      <4>3. ASSUME NEW p \in Workers, NEW strict \in BOOLEAN, S!Begin(p, strict)
            PROVE  builds < MaxBegun /\ builds' = builds + 1
        BY <4>3 DEF S!Begin
      <4>4. ASSUME NEW p \in Workers,
                   S!Measure(p) \/ S!Previous(p) \/ S!ReadFile(p) \/ S!Decide(p)
            PROVE  UNCHANGED builds
        BY <4>4 DEF S!Measure, S!Previous, S!ReadFile, S!Decide
      <4>5. ASSUME NEW p \in Workers,
                   \/ S!LockIndex(p) \/ S!PublishSearch(p) \/ S!PublishLegacy(p)
                   \/ S!PublishFails(p) \/ S!Killed(p)
            PROVE  UNCHANGED builds
        BY <4>5 DEF S!LockIndex, S!PublishSearch, S!PublishLegacy, S!PublishFails, S!Killed
      <4>6. CASE S!Search
        BY <4>6 DEF S!Search
      <4>7. CASE S!LoadItem \/ S!OpenCoverage \/ S!Scan \/ S!Answer
        BY <4>7 DEF S!LoadItem, S!OpenCoverage, S!Scan, S!Answer
      <4>8. QED
        BY <2>1, <4>1, <4>2, <4>3, <4>4, <4>5, <4>6, <4>7 DEF S!Next
    <3>2. QED
      BY <3>1, BoundAssumption
  <2>2. CASE UNCHANGED searchVars
    BY <2>2 DEF searchVars
  <2>3. QED
    BY <2>1, <2>2 DEF Next, InstallationNext, ContentNext, vars
<1>3. SearchInv /\ builds \in 0 .. MaxBegun => S!TypeOK
  BY DEF SearchInv, SearchTypes, Honesty, IndexLocked, S!TypeOK
<1>4. QED
  BY <1>1, <1>2, <1>3, SearchInvariant, PTL DEF Spec
=============================================================================
