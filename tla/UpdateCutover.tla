--------------------------- MODULE UpdateCutover ---------------------------
(***************************************************************************)
(* The multi-component update of transactional_update.py: one approved     *)
(* plan, applied, replayed and recovered under writer.lock, by processes   *)
(* that may be killed anywhere or meet an exception.                       *)
(*                                                                         *)
(* A component is a directory whose content is the plan's original, "old", *)
(* its candidate, "new", or "part" of a copy that was cut short.  It may   *)
(* be present in four places.  Nothing else writes to them: the drift the  *)
(* code also looks for is left out.                                        *)
(***************************************************************************)
EXTENDS Naturals

CONSTANTS
  Last,   \* the components are 1 .. Last, in the order of the plan
  None

Components == 1 .. Last
Nowhere == [c \in Components |-> None]

VARIABLES
  active, retired, backup, staging,  \* the content of each component there
  roots,    \* which of the plan's "retired" and "staging" directories exist
  journal,  \* is there a journal.json?
  receipt,  \* is there a success receipt of the plan?
  intent,   \* is there a recovery intent of the plan?
  pc,       \* where the holder of writer.lock is, or "idle"
  item,     \* the component it works on
  back,     \* where it goes after a recovery
  torn      \* has a kill left a partial copy behind? (history)

places == <<active, retired, backup, staging, roots>>
marks == <<journal, receipt, intent>>
vars == <<places, marks, pc, item, back, torn>>

Init ==
  /\ active = [c \in Components |-> "old"]
  /\ retired = Nowhere /\ backup = Nowhere /\ staging = Nowhere
  /\ roots = {}
  /\ journal = FALSE /\ receipt = FALSE /\ intent = FALSE
  /\ pc = "idle" /\ item = 0 /\ back = "idle" /\ torn = FALSE

\* The whole restore set is looked at before anything is moved.
Preflight ==
  \A c \in Components :
    /\ active[c] # "part" /\ retired[c] \in {None, "old"}
    /\ backup[c] \in {None, "old"} /\ staging[c] \in {None, "new"}
    /\ retired[c] = None /\ backup[c] = None => active[c] = "old"

Goto(p, c) == pc' = p /\ item' = c

(***************************************************************************)
(* apply_update_plan                                                       *)
(***************************************************************************)
\* A recovery that was begun is finished before anything else is decided.
Apply ==
  /\ pc = "idle"
  /\ IF intent THEN Goto("recover", 0) ELSE Goto("replay", 0)
  /\ back' = "replay"
  /\ UNCHANGED <<places, marks, torn>>

\* A receipt is answered again, or refused when the active state has drifted.
Replay ==
  /\ pc = "replay"
  /\ IF receipt THEN Goto("idle", 0) /\ back' = back
     ELSE IF journal /\ roots # {} THEN Goto("recover", 0) /\ back' = "check"
     ELSE Goto("check", 0) /\ back' = back
  /\ UNCHANGED <<places, marks, torn>>

\* Disk space and the caller's check of the candidate may refuse as well.
Check ==
  /\ pc = "check"
  /\ \/ active = [c \in Components |-> "old"] /\ Goto("backup", 1)
     \/ Goto("idle", 0)
  /\ UNCHANGED <<places, marks, back, torn>>

SkipBackup ==  \* relies on the retired original alone
  /\ pc = "backup"
  /\ Goto("staging", item)
  /\ UNCHANGED <<places, marks, back, torn>>

\* A copy that is there already must be the right one.
CopyBackup ==
  /\ pc = "backup" /\ backup[item] \in {None, "old"}
  /\ backup' = [backup EXCEPT ![item] = "old"]
  /\ Goto("staging", item)
  /\ UNCHANGED <<active, retired, staging, roots, marks, back, torn>>

CopyStaging ==
  /\ pc = "staging" /\ staging[item] \in {None, "new"}
  /\ staging' = [staging EXCEPT ![item] = "new"]
  /\ roots' = roots \cup {"staging"}
  /\ IF item < Last THEN Goto("backup", item + 1) ELSE Goto("journal", 1)
  /\ UNCHANGED <<active, retired, backup, marks, back, torn>>

StagedVerified ==
  /\ pc = "journal"
  /\ journal' = TRUE
  /\ Goto("retire", 1)
  /\ UNCHANGED <<places, receipt, intent, back, torn>>

Retire ==
  /\ pc = "retire"
  /\ retired' = [retired EXCEPT ![item] = active[item]]
  /\ active' = [active EXCEPT ![item] = None]
  /\ roots' = roots \cup {"retired"}
  /\ Goto("activate", item)
  /\ UNCHANGED <<backup, staging, marks, back, torn>>

Activate ==
  /\ pc = "activate"
  /\ active' = [active EXCEPT ![item] = staging[item]]
  /\ staging' = [staging EXCEPT ![item] = None]
  /\ IF item < Last THEN Goto("retire", item + 1) ELSE Goto("runtime", 0)
  /\ UNCHANGED <<retired, backup, roots, marks, back, torn>>

\* The caller's check of the new runtime, with the original still at hand.
RuntimeCheck ==
  /\ pc = "runtime"
  /\ active = [c \in Components |-> "new"]
  /\ Goto("keepStaging", 0)
  /\ UNCHANGED <<places, marks, back, torn>>

\* _preserve_directory renames the whole directory away.
KeepStaging ==
  /\ pc \in {"keepStaging", "dropStaging"}
  /\ staging' = Nowhere /\ roots' = roots \ {"staging"}
  /\ Goto(IF pc = "keepStaging" THEN "keepRetired" ELSE "dropRetired", 0)
  /\ UNCHANGED <<active, retired, backup, marks, back, torn>>

LeaveRetired ==  \* goes on with the retired original in its place
  /\ pc \in {"keepRetired", "dropRetired"}
  /\ Goto(IF pc = "keepRetired" THEN "receipt" ELSE "rolledBack", 0)
  /\ UNCHANGED <<places, marks, back, torn>>

KeepRetired ==
  /\ pc \in {"keepRetired", "dropRetired"}
  /\ retired' = Nowhere /\ roots' = roots \ {"retired"}
  /\ Goto(IF pc = "keepRetired" THEN "receipt" ELSE "rolledBack", 0)
  /\ UNCHANGED <<active, backup, staging, marks, back, torn>>

Complete ==
  /\ pc = "receipt"
  /\ receipt' = TRUE
  /\ Goto("completed", 0)
  /\ UNCHANGED <<places, journal, intent, back, torn>>

Completed ==
  /\ pc = "completed"
  /\ journal' = TRUE
  /\ Goto("idle", 0)
  /\ UNCHANGED <<places, receipt, intent, back, torn>>

\* Any exception once copying has begun, a failed check of the runtime too,
\* enters the recovery and is raised again.
ApplyFails ==
  /\ pc \in {"backup", "staging", "journal", "retire", "activate", "runtime",
             "keepStaging", "keepRetired", "receipt", "completed"}
  /\ Goto("recover", 0)
  /\ back' = "idle"
  /\ UNCHANGED <<places, marks, torn>>

(***************************************************************************)
(* _recover_unlocked                                                       *)
(***************************************************************************)
\* recover_interrupted_update
Recover ==
  /\ pc = "idle"
  /\ Goto("recover", 0)
  /\ back' = "idle"
  /\ UNCHANGED <<places, marks, torn>>

WriteIntent ==
  /\ pc = "recover"
  /\ IF Preflight THEN intent' = TRUE /\ Goto("restore", Last)
                  ELSE intent' = intent /\ Goto("idle", 0)
  /\ UNCHANGED <<places, journal, receipt, back, torn>>

\* What is active makes way for the original.
MoveAside ==
  /\ pc = "restore" /\ active[item] # None
  /\ \/ retired[item] # None
     \/ active[item] = "new" /\ backup[item] # None
  /\ active' = [active EXCEPT ![item] = None]
  /\ UNCHANGED <<retired, backup, staging, roots, marks, pc, item, back, torn>>

PutBack ==
  /\ pc = "restore" /\ active[item] = None
  /\ retired[item] # None \/ backup[item] # None
  /\ active' = [active EXCEPT ![item] = IF retired[item] # None THEN retired[item]
                                                                ELSE backup[item]]
  /\ retired' = [retired EXCEPT ![item] = None]
  /\ UNCHANGED <<backup, staging, roots, marks, pc, item, back, torn>>

Restored ==
  /\ pc = "restore" /\ active[item] = "old" /\ retired[item] = None
  /\ IF item > 1 THEN Goto("restore", item - 1) ELSE Goto("dropStaging", 0)
  /\ UNCHANGED <<places, marks, back, torn>>

\* The receipt of an update that is taken back is archived under its digest.
ArchiveReceipt ==
  /\ pc = "rolledBack"
  /\ journal' = TRUE
  /\ receipt' = FALSE
  /\ Goto("forget", 0)
  /\ UNCHANGED <<places, intent, back, torn>>

ForgetIntent ==
  /\ pc = "forget"
  /\ intent' = FALSE
  /\ Goto(back, 0)
  /\ UNCHANGED <<places, journal, receipt, back, torn>>

(***************************************************************************)
(* The holder dies, or an exception ends a recovery                        *)
(***************************************************************************)
Stop ==
  /\ pc # "idle"
  /\ Goto("idle", 0)
  /\ UNCHANGED <<places, marks, back, torn>>

\* It dies inside a copytree.
StopCopying ==
  /\ \/ /\ pc = "backup" /\ backup[item] = None
        /\ backup' = [backup EXCEPT ![item] = "part"]
        /\ UNCHANGED <<active, staging, roots>>
     \/ /\ pc = "staging" /\ staging[item] = None
        /\ staging' = [staging EXCEPT ![item] = "part"]
        /\ roots' = roots \cup {"staging"}
        /\ UNCHANGED <<active, backup>>
     \/ /\ pc = "restore" /\ active[item] = None /\ retired[item] = None
        /\ active' = [active EXCEPT ![item] = "part"]
        /\ UNCHANGED <<backup, staging, roots>>
  /\ torn' = TRUE
  /\ Goto("idle", 0)
  /\ UNCHANGED <<retired, marks, back>>

Next ==
  \/ Apply \/ Replay \/ Check \/ CopyBackup \/ CopyStaging \/ StagedVerified
  \/ Retire \/ Activate \/ RuntimeCheck \/ KeepStaging \/ KeepRetired \/ Complete \/ Completed
  \/ ApplyFails \/ Recover \/ WriteIntent \/ MoveAside \/ PutBack \/ Restored
  \/ ArchiveReceipt \/ ForgetIntent \/ Stop \/ StopCopying

Spec == Init /\ [][Next]_vars

(***************************************************************************)
(* Readers                                                                 *)
(***************************************************************************)
\* read_update_generation, under the same lock: one of the two generations,
\* or a refusal.
Generation ==
  CASE \A c \in Components : active[c] = "old" -> "SOURCE"
    [] \A c \in Components : active[c] = "new" -> "TARGET"
    [] OTHER -> "refused"

\* update_postflight
Postflight ==
  IF receipt /\ Generation = "TARGET" /\ roots = {} /\ backup # Nowhere
  THEN "GREEN" ELSE "REPAIR_REQUIRED"

(***************************************************************************)
(* Properties                                                              *)
(***************************************************************************)
Conditions == {None, "old", "new", "part"}

TypeOK ==
  /\ active \in [Components -> Conditions] /\ backup \in [Components -> Conditions]
  /\ staging \in [Components -> Conditions] /\ retired \in [Components -> {None, "old"}]
  /\ roots \subseteq {"retired", "staging"}
  /\ item \in 0 .. Last

\* The original of every component survives whole somewhere, whatever dies.
OriginalKept ==
  \A c \in Components : "old" \in {active[c], retired[c], backup[c]}

\* While nobody recovers it, a success receipt is the truth: postflight is
\* green, and a replay of the plan finds the target generation.
ReceiptIsTrue == receipt /\ ~intent /\ pc = "idle" => Postflight = "GREEN"

\* As long as no copy was cut short, every state a process leaves behind can
\* be recovered.
Recoverable == pc = "idle" /\ ~torn => Preflight

=============================================================================
