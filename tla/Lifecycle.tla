----------------------------- MODULE Lifecycle -----------------------------
(***************************************************************************)
(* lifecycle.py: removing explicit targets behind an outside checkpoint,   *)
(* restoring them from it, and registering the records of a workspace.     *)
(*                                                                         *)
(* Cleanup and restore run inside a writer transaction that tracks none of *)
(* their targets, so that its rollback knows nothing of them; what they    *)
(* have moved they move back themselves, in an except block.  A command    *)
(* may fail between any two targets, or halfway through one, and its       *)
(* process may be killed; the owner then recovers the lock with the doctor,*)
(* which has no target to roll back.                                       *)
(***************************************************************************)
EXTENDS Integers, FiniteSets

CONSTANTS
  Last,         \* the targets are 1 .. Last, in the order of a plan
  MaxVersion,   \* bound on the versions of a target
  Gone, Torn,   \* no version: the target is absent, or half of one
  None

Targets == 1 .. Last
Versions == 1 .. MaxVersion

\* A target is at a version, or Gone, or Torn by a removal or a copy that
\* ended halfway.
VARIABLES
  ws,        \* ws[t]: target t in the workspace
  plan,      \* plan[t]: the version a cleanup plan captured, or None
  copy,      \* copy[t]: what the checkpoint directory holds of t
  manifest,  \* has the checkpoint its manifest?
  dir,       \* does the checkpoint directory exist?
  pc, item,  \* where the holder of workspace.lock is
  done,      \* the targets this command has moved
  state,     \* lifecycle/state.json: the inventory it registered, or None
  hurt       \* did a command end halfway through a target, or by a kill?

checkpoint == <<copy, manifest, dir>>
vars == <<ws, plan, checkpoint, pc, item, done, state, hurt>>

Empty == [t \in Targets |-> None]

Init ==
  /\ ws \in [Targets -> {1}]
  /\ plan = Empty /\ copy = Empty /\ manifest = FALSE /\ dir = FALSE
  /\ pc = "idle" /\ item = 0 /\ done = {}
  /\ state = None /\ hurt = FALSE

Planned == {t \in Targets : plan[t] # None}
First(ts) == CHOOSE t \in ts : \A u \in ts : t <= u

\* A checkpoint goes to a directory that does not exist yet.
NewCheckpoint == ~dir

\* What is registered: every durable record with its content.
Inventory == ws

\* Another command of the workspace rewrites a target, under the same lock.  An owner
\* who makes a file where one was cleaned up is left out: a restore refuses it.
Rewrite(t) ==
  /\ pc = "idle" /\ ws[t] \in Versions /\ ws[t] < MaxVersion
  /\ ws' = [ws EXCEPT ![t] = @ + 1]
  /\ UNCHANGED <<plan, checkpoint, pc, item, done, state, hurt>>

(***************************************************************************)
(* plan_cleanup and apply_cleanup                                          *)
(***************************************************************************)
\* Every target must verify, and the checkpoint must be new.
PlanCleanup(ts) ==
  /\ pc = "idle" /\ NewCheckpoint /\ ts # {}
  /\ \A t \in ts : ws[t] \in Versions
  /\ plan' = [t \in Targets |-> IF t \in ts THEN ws[t] ELSE None]
  /\ UNCHANGED <<ws, checkpoint, pc, item, done, state, hurt>>

\* The basis is compared once more under the lock.
StartCleanup ==
  /\ pc = "idle" /\ NewCheckpoint /\ Planned # {}
  /\ \A t \in Planned : ws[t] = plan[t]
  /\ dir' = TRUE
  /\ pc' = "copy" /\ item' = First(Planned) /\ done' = {}
  /\ UNCHANGED <<ws, plan, copy, manifest, state, hurt>>

Left == Planned \ (done \cup {item})
Step(next) ==
  IF Left = {} THEN pc' = next /\ item' = First(Planned) /\ done' = {}
  ELSE pc' = pc /\ item' = First(Left) /\ done' = done \cup {item}

CopyOut ==
  /\ pc = "copy"
  /\ copy' = [copy EXCEPT ![item] = ws[item]]
  /\ Step("manifest")
  /\ UNCHANGED <<ws, plan, manifest, dir, state, hurt>>

WriteManifest ==
  /\ pc = "manifest"
  /\ manifest' = TRUE
  /\ pc' = "remove"
  /\ UNCHANGED <<ws, plan, copy, dir, item, done, state, hurt>>

Remove ==
  /\ pc = "remove"
  /\ ws' = [ws EXCEPT ![item] = Gone]
  /\ Step("end")
  /\ UNCHANGED <<plan, checkpoint, state, hurt>>

CleanupGivesUp ==  \* an exception that only clears the checkpoint away
  /\ pc \in {"copy", "manifest", "remove"}
  /\ IF manifest THEN UNCHANGED checkpoint
     ELSE dir' = FALSE /\ manifest' = FALSE /\ copy' = Empty
  /\ pc' = "idle" /\ done' = {} /\ item' = 0
  /\ UNCHANGED <<ws, plan, state, hurt>>

\* An exception: what was removed is copied back; a checkpoint without a
\* manifest is deleted.  A target whose own removal stopped halfway is not
\* among the removed and stays as it is.
CleanupFails ==
  /\ pc \in {"copy", "manifest", "remove"}
  /\ \E torn \in BOOLEAN :
       /\ torn => pc = "remove"
       /\ ws' = [t \in Targets |-> IF pc = "remove" /\ t \in done THEN copy[t]
                                   ELSE IF torn /\ t = item THEN Torn ELSE ws[t]]
       /\ hurt' = (hurt \/ torn)
  /\ IF manifest THEN UNCHANGED checkpoint
     ELSE dir' = FALSE /\ manifest' = FALSE /\ copy' = Empty
  /\ pc' = "idle" /\ done' = {} /\ item' = 0
  /\ UNCHANGED <<plan, state>>

\* The end of either command: the transaction closes.
EndTransaction ==
  /\ pc \in {"end", "restored"}
  /\ pc' = "idle" /\ done' = {} /\ item' = 0
  /\ UNCHANGED <<ws, plan, checkpoint, state, hurt>>

(***************************************************************************)
(* restore_cleanup                                                         *)
(***************************************************************************)
\* Only into an empty place, and only from a copy that verifies.
StartRestore ==
  /\ pc = "idle" /\ manifest
  /\ \A t \in Planned : ws[t] = Gone /\ copy[t] = plan[t]
  /\ pc' = "restore" /\ item' = First(Planned) /\ done' = {}
  /\ UNCHANGED <<ws, plan, checkpoint, state, hurt>>

CopyBack ==
  /\ pc = "restore"
  /\ ws' = [ws EXCEPT ![item] = copy[item]]
  /\ Step("restored")
  /\ UNCHANGED <<plan, checkpoint, state, hurt>>

RestoreFails ==
  /\ pc = "restore"
  /\ \E torn \in BOOLEAN :
       /\ ws' = [t \in Targets |-> IF t \in done THEN Gone
                                   ELSE IF torn /\ t = item THEN Torn ELSE ws[t]]
       /\ hurt' = (hurt \/ torn)
  /\ pc' = "idle" /\ done' = {} /\ item' = 0
  /\ UNCHANGED <<plan, checkpoint, state>>

\* The process dies; the doctor's recovery frees the lock and restores nothing.
Killed ==
  /\ pc # "idle"
  /\ \E torn \in BOOLEAN :
       /\ torn => pc \in {"remove", "restore"}
       /\ ws' = IF torn THEN [ws EXCEPT ![item] = Torn] ELSE ws
  /\ hurt' = TRUE
  /\ pc' = "idle" /\ done' = {} /\ item' = 0
  /\ UNCHANGED <<plan, checkpoint, state>>

\* The owner puts a checkpoint away and may plan again with a new one.
Forget ==
  /\ pc = "idle" /\ dir
  /\ \A t \in Planned : ws[t] \in Versions
  /\ plan' = Empty /\ copy' = Empty /\ manifest' = FALSE /\ dir' = FALSE
  /\ UNCHANGED <<ws, pc, item, done, state, hurt>>

(***************************************************************************)
(* plan_migration and apply_migration                                      *)
(***************************************************************************)
\* The registration is refused unless the inventory is the planned one; it is
\* made once.  The inventory is the whole workspace, read under the lock.
Register(inventory) ==
  /\ pc = "idle" /\ state = None
  /\ inventory = Inventory
  /\ state' = inventory
  /\ UNCHANGED <<ws, plan, checkpoint, pc, item, done, hurt>>

Next ==
  \/ \E t \in Targets : Rewrite(t)
  \/ \E ts \in SUBSET Targets : PlanCleanup(ts)
  \/ StartCleanup \/ CopyOut \/ WriteManifest \/ Remove \/ CleanupFails
  \/ EndTransaction \/ StartRestore \/ CopyBack \/ RestoreFails \/ Killed \/ Forget
  \/ \E inventory \in [Targets -> Versions] : Register(inventory)

Spec == Init /\ [][Next]_vars

(***************************************************************************)
(* Properties                                                              *)
(***************************************************************************)
States == Versions \cup {Gone, Torn}

TypeOK ==
  /\ ws \in [Targets -> States]
  /\ plan \in [Targets -> Versions \cup {None}] /\ copy \in [Targets -> Versions \cup {None}]
  /\ item \in 0 .. Last /\ done \subseteq Targets
  /\ state = None \/ state \in [Targets -> Versions]

\* Whatever is missing from the workspace, or torn, is whole in a checkpoint
\* that has its manifest, even after kills and failures of both commands.
NothingLost == \A t \in Targets : ws[t] \in {Gone, Torn} => manifest /\ copy[t] = plan[t]

\* Between commands the targets of a checkpoint are all there or all gone, as
\* long as no process died and none stopped halfway through one target.
AllOrNothing ==
  (pc = "idle" /\ ~hurt) =>
    \/ \A t \in Planned : ws[t] \in Versions
    \/ \A t \in Planned : ws[t] = Gone
=============================================================================
