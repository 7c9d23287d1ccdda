---------------------------- MODULE Transaction ----------------------------
(***************************************************************************)
(* One mutation after the other under integrity.py's Transaction: the      *)
(* journal directory of writer_transaction, its backups and phase records, *)
(* abort and complete, the diagnosis of doctor_workspace and the rollback  *)
(* of recover_workspace, with the process killed between any two steps.    *)
(*                                                                         *)
(* Module WriterLock has the races for the lock file; here the lock is a   *)
(* variable that names its holder.  The journal is that of the transaction *)
(* begun last; those that earlier ones have left in transactions/active    *)
(* are never touched again, as no lock file has the digest they name.      *)
(***************************************************************************)
EXTENDS Sequences, FiniteSets, SequencesExt

CONSTANTS
  Targets,         \* managed files a mutation tracks before it changes them
  Receipt,         \* the receipt: written first and tracked afterwards
  Values,          \* contents a file may have
  Absent,          \* the digest of a file that does not exist
  WriterMayCrash,
  RecoveryMayCrash,
  IOMayFail,       \* may a step outside the body raise an OSError?
  OperatorWaits    \* is a recovery planned only once the writer is dead?

Files == Targets \cup {Receipt}
Contents == Values \cup {Absent}

ASSUME FilesAssumption ==
  /\ Receipt \notin Targets
  /\ Absent \notin Values
  /\ Values # {}

ASSUME SwitchAssumption ==
  {WriterMayCrash, RecoveryMayCrash, IOMayFail, OperatorWaits} \subseteq BOOLEAN

VARIABLES
  file,       \* file[f]: the content of managed file f on disk
  stage,      \* where the writer is in writer_transaction
  place,      \* where the transaction directory lies
  durable,    \* has the INTENT_DURABLE phase been recorded?
  tracked,    \* the target records, in the order of their index
  before,     \* before[f]: previous_sha256 of a tracked file
  copies,     \* tracked files whose copy under previous/ exists
  published,  \* published[f]: digest in the last phase that proves f, or None
  torn,       \* does an evidence file hold only part of its JSON?
  todo,       \* records a rollback still has to restore, last one first
  moved,      \* has the rollback moved the file of the next record away?
  lock,       \* the holder of the writer lock
  rstage,     \* where the recoverer is in recover_workspace
  plan,       \* the records the recoverer has read
  backedUp,   \* does the recovery backup directory exist?
  left,       \* does active/ also hold the directory of an earlier one?
  origin      \* file as it was when the transaction began (history)

journal == <<place, durable, tracked, before, copies, published, torn>>
recovery == <<rstage, plan, backedUp>>
vars == <<file, stage, journal, todo, moved, lock, recovery, origin, left>>

None == "None"
Stages == {"idle", "made", "intended", "body", "completed", "purged", "aborting",
           "aborted", "archived", "gaveUp", "dead"}
RecoveryStages == {"idle", "planned", "overtaken", "locked", "rollback", "recovered", "closing"}

TypeOK ==
  /\ file \in [Files -> Contents]
  /\ stage \in Stages
  /\ place \in {"none", "active", "completed", "rolledBack", "recovered"}
  /\ durable \in BOOLEAN
  /\ tracked \in Seq(Files)
  /\ before \in [Files -> Contents]
  /\ copies \subseteq Files
  /\ published \in [Files -> Contents \cup {None}]
  /\ torn \in BOOLEAN
  /\ todo \in Seq(Files)
  /\ moved \in BOOLEAN
  /\ lock \in {"free", "writer", "stale", "recoverer"}
  /\ rstage \in RecoveryStages
  /\ plan \in Seq(Files)
  /\ backedUp \in BOOLEAN
  /\ left \in BOOLEAN
  /\ origin \in [Files -> Contents]

Init ==
  /\ file \in [Files -> Contents]
  /\ file[Receipt] = Absent
  /\ stage = "idle"
  /\ place = "none"
  /\ durable = FALSE
  /\ tracked = << >>
  /\ before = [f \in Files |-> Absent]
  /\ copies = {}
  /\ published = [f \in Files |-> None]
  /\ torn = FALSE
  /\ todo = << >>
  /\ moved = FALSE
  /\ lock = "free"
  /\ rstage = "idle"
  /\ plan = << >>
  /\ backedUp = FALSE
  /\ left = FALSE
  /\ origin = file

(***************************************************************************)
(* Helpers                                                                 *)
(***************************************************************************)
Step(from, to) == stage = from /\ stage' = to
RStep(from, to) == rstage = from /\ rstage' = to

IsTracked(f) == f \in ToSet(tracked)

\* The content a record's file must have for its phase proofs to hold.
Expected(f) == IF published[f] # None THEN published[f] ELSE before[f]

\* _load_targets, _phase_records and the digest comparison all succeed on the
\* given records: what doctor reports as RECOVERY_REQUIRED with an id, and
\* what recover_workspace accepts.  Anything else is UNSAFE_UNKNOWN_STATE.
Diagnosable ==
  /\ place = "active"
  /\ durable
  /\ ~torn
  /\ \A f \in ToSet(tracked) :
       /\ before[f] # Absent => f \in copies
       /\ file[f] = Expected(f)

\* os.replace of the file that stands where the next record is restored.
MoveAway ==
  /\ todo # << >>
  /\ ~moved
  /\ file' = [file EXCEPT ![Last(todo)] = Absent]
  /\ moved' = TRUE
  /\ UNCHANGED todo

\* The copy under previous/ is put back and compared with previous_sha256.
PutBack ==
  /\ todo # << >>
  /\ moved
  /\ Last(todo) \in copies \/ before[Last(todo)] = Absent
  /\ file' = [file EXCEPT ![Last(todo)] = before[Last(todo)]]
  /\ todo' = Front(todo)
  /\ moved' = FALSE

(***************************************************************************)
(* writer_transaction up to its body                                       *)
(***************************************************************************)
\* Only the lock file is looked at: what a failed complete, abort or recovery has
\* left in active/ stays there, and its targets are as it left them.
Begin ==
  /\ lock = "free"
  /\ Step("idle", "made")
  /\ lock' = "writer"
  /\ place' = "active"
  /\ durable' = FALSE
  /\ tracked' = << >>
  /\ before' = [f \in Files |-> Absent]
  /\ copies' = {}
  /\ published' = [f \in Files |-> None]
  /\ torn' = FALSE
  /\ backedUp' = FALSE
  /\ file' = [file EXCEPT ![Receipt] = Absent]  \* a new receipt has a new name
  /\ origin' = file'
  /\ left' = (left \/ place = "active")
  /\ rstage' = IF rstage = "planned" THEN "overtaken" ELSE rstage
  /\ UNCHANGED <<todo, moved, plan>>

WriteIntent ==
  /\ Step("made", "intended")
  /\ UNCHANGED <<file, journal, todo, moved, lock, recovery, origin, left>>

IntentDurable ==
  /\ Step("intended", "body")
  /\ durable' = TRUE
  /\ UNCHANGED <<file, place, tracked, before, copies, published, torn, todo, moved, lock,
                 recovery, origin, left>>

(***************************************************************************)
(* The body of the mutation                                                *)
(***************************************************************************)
\* Mutant: the record takes the digest of the last phase, not that of the file.
TrackLastPublished(f) ==
  /\ stage = "body"
  /\ f \in Targets
  /\ ~IsTracked(f)
  /\ tracked' = Append(tracked, f)
  /\ before' = [before EXCEPT ![f] = published[f]]
  /\ copies' = IF file[f] = Absent THEN copies ELSE copies \cup {f}
  /\ UNCHANGED <<file, stage, place, durable, published, torn, todo, moved, lock, recovery,
                 origin, left>>

\* track_target: copy what is there, then record it.  Callers track a target once.
Track(f) ==
  /\ stage = "body"
  /\ f \in Targets
  /\ ~IsTracked(f)
  /\ tracked' = Append(tracked, f)
  /\ before' = [before EXCEPT ![f] = file[f]]
  /\ copies' = IF file[f] = Absent THEN copies ELSE copies \cup {f}
  /\ UNCHANGED <<file, stage, place, durable, published, torn, todo, moved, lock, recovery,
                 origin, left>>

\* Mutant: a target is changed without having been tracked.
PublishUntracked(f) ==
  /\ stage = "body"
  /\ f \in Targets
  /\ \E v \in Values : file' = [file EXCEPT ![f] = v]
  /\ UNCHANGED <<stage, journal, todo, moved, lock, recovery, origin, left>>

\* Every caller changes a target only after tracking it.
Publish(f) ==
  /\ stage = "body"
  /\ IsTracked(f)
  /\ \E v \in Values : file' = [file EXCEPT ![f] = v]
  /\ UNCHANGED <<stage, journal, todo, moved, lock, recovery, origin, left>>

MarkTargetPublished(f) ==
  /\ stage = "body"
  /\ IsTracked(f)
  /\ published' = [published EXCEPT ![f] = file[f]]
  /\ UNCHANGED <<file, stage, place, durable, tracked, before, copies, torn, todo, moved,
                 lock, recovery, origin, left>>

MarkPublished ==
  /\ stage = "body"
  /\ published' = [f \in Files |-> IF IsTracked(f) THEN file[f] ELSE published[f]]
  /\ UNCHANGED <<file, stage, place, durable, tracked, before, copies, torn, todo, moved,
                 lock, recovery, origin, left>>

WriteReceipt ==
  /\ stage = "body"
  /\ file[Receipt] = Absent
  /\ \E v \in Values : file' = [file EXCEPT ![Receipt] = v]
  /\ UNCHANGED <<stage, journal, todo, moved, lock, recovery, origin, left>>

\* mark_receipted: the receipt becomes a target that was absent before.
MarkReceipted ==
  /\ stage = "body"
  /\ ~IsTracked(Receipt)
  /\ file[Receipt] # Absent
  /\ tracked' = Append(tracked, Receipt)
  /\ before' = [before EXCEPT ![Receipt] = Absent]
  /\ published' = [published EXCEPT ![Receipt] = file[Receipt]]
  /\ UNCHANGED <<file, stage, place, durable, copies, torn, todo, moved, lock, recovery,
                 origin, left>>

(***************************************************************************)
(* complete(): the body returned                                           *)
(***************************************************************************)
Complete ==
  /\ Step("body", "completed")
  /\ UNCHANGED <<file, journal, todo, moved, lock, recovery, origin, left>>

\* rmtree of previous/: from here on nothing can be rolled back.
Purge ==
  /\ Step("completed", "purged")
  /\ copies' = {}
  /\ UNCHANGED <<file, place, durable, tracked, before, published, torn, todo, moved, lock,
                 recovery, origin, left>>

\* completion.json, then os.replace of the directory to completed/.
Archive ==
  /\ stage \in {"purged", "aborted"}
  /\ stage' = "archived"
  /\ place' = IF stage = "purged" THEN "completed" ELSE "rolledBack"
  /\ UNCHANGED <<file, durable, tracked, before, copies, published, torn, todo, moved, lock,
                 recovery, origin, left>>

(***************************************************************************)
(* abort(): the body raised                                                *)
(***************************************************************************)
Raise ==
  /\ Step("body", "aborting")
  /\ todo' = tracked
  /\ moved' = FALSE
  /\ UNCHANGED <<file, journal, lock, recovery, origin, left>>

Restore ==
  /\ stage = "aborting"
  /\ MoveAway \/ PutBack
  /\ UNCHANGED <<stage, journal, lock, recovery, origin, left>>

\* Mutant: the abort is recorded although records are left to restore.
RestoredEarly ==
  /\ Step("aborting", "aborted")
  /\ todo' = << >>
  /\ UNCHANGED <<file, journal, moved, lock, recovery, origin, left>>

\* Every record is restored: the ABORTED_ROLLED_BACK phase is written.
Restored ==
  /\ todo = << >>
  /\ Step("aborting", "aborted")
  /\ UNCHANGED <<file, journal, todo, moved, lock, recovery, origin, left>>

\* An error before the body, or inside complete() or abort(): the exception
\* leaves the directory in active/.
GiveUp ==
  /\ IOMayFail
  /\ stage \in {"made", "intended", "completed", "purged", "aborting", "aborted"}
  /\ stage' = "gaveUp"
  /\ todo' = << >>
  /\ moved' = FALSE
  /\ UNCHANGED <<file, journal, lock, recovery, origin, left>>

\* The finally block of _locks, whatever happened before.
ReleaseLock ==
  /\ stage \in {"archived", "gaveUp"}
  /\ stage' = "idle"
  /\ lock' = "free"
  /\ UNCHANGED <<file, journal, todo, moved, recovery, origin, left>>

(***************************************************************************)
(* The writer is killed.  A JSON record it was writing may be cut off, and *)
(* rmtree may have removed only some of the copies.                        *)
(***************************************************************************)
WritesRecord ==
  \/ stage \in {"made", "intended", "body"}
  \/ stage = "aborting" /\ todo = << >>

Crash ==
  /\ WriterMayCrash
  /\ stage \notin {"idle", "dead"}
  /\ stage' = "dead"
  /\ lock' = "stale"
  /\ torn' \in (IF WritesRecord THEN BOOLEAN ELSE {torn})
  /\ copies' \in (IF stage = "completed" THEN SUBSET copies ELSE {copies})
  /\ todo' = << >>
  /\ moved' = FALSE
  /\ UNCHANGED <<file, place, durable, tracked, before, published, recovery, origin, left>>

(***************************************************************************)
(* recover_workspace(apply=True)                                           *)
(***************************************************************************)
\* Targets, phases and digests are read and compared before any lock.
Plan ==
  /\ Diagnosable
  /\ OperatorWaits => stage = "dead"
  /\ RStep("idle", "planned")
  /\ plan' = tracked
  /\ UNCHANGED <<file, stage, journal, todo, moved, lock, backedUp, origin, left>>

\* The lock file is stale and its digest is the one the intent names.
LockStale ==
  /\ lock = "stale"
  /\ RStep("planned", "locked")
  /\ lock' = "recoverer"
  /\ UNCHANGED <<file, stage, journal, todo, moved, plan, backedUp, origin, left>>

\* "Another writer is active.", or the lock file is gone or another one.
LockRefused ==
  /\ \/ RStep("planned", "idle") /\ lock # "stale"
     \/ RStep("overtaken", "idle")
  /\ plan' = << >>
  /\ UNCHANGED <<file, stage, journal, todo, moved, lock, backedUp, origin, left>>

\* mkdir(backup) must create the directory; then the active directory, the
\* current targets and the manifest are copied into it.
BackUp ==
  /\ IF backedUp \/ place # "active" THEN RStep("locked", "closing")
                                    ELSE RStep("locked", "rollback")
  /\ backedUp' = TRUE
  /\ todo' = plan
  /\ moved' = FALSE
  /\ UNCHANGED <<file, stage, journal, lock, plan, origin, left>>

RollBack ==
  /\ rstage = "rollback"
  /\ MoveAway \/ PutBack
  /\ UNCHANGED <<stage, journal, lock, recovery, origin, left>>

\* os.replace of the directory to completed/<id>-recovered, then the receipt.
ArchiveRecovered ==
  /\ todo = << >>
  /\ RStep("rollback", "closing")
  /\ place' = "recovered"
  /\ UNCHANGED <<file, stage, durable, tracked, before, copies, published, torn, todo, moved,
                 lock, plan, backedUp, origin, left>>

RecoveryFails ==
  /\ IOMayFail
  /\ \/ RStep("locked", "closing")
     \/ RStep("rollback", "closing")
  /\ todo' = << >>
  /\ moved' = FALSE
  /\ UNCHANGED <<file, stage, journal, lock, plan, backedUp, origin, left>>

\* Mutant: the stale lock file is closed but not removed.
CloseRecoveryKeepsLock ==
  /\ RStep("closing", "idle")
  /\ lock' = "stale"
  /\ plan' = << >>
  /\ todo' = << >>
  /\ UNCHANGED <<file, stage, journal, moved, backedUp, origin, left>>

\* The finally block removes the lock file, whether or not all went well.
CloseRecovery ==
  /\ RStep("closing", "idle")
  /\ stage' = "idle"
  /\ lock' = "free"
  /\ plan' = << >>
  /\ todo' = << >>
  /\ UNCHANGED <<file, journal, moved, backedUp, origin, left>>

RecoveryCrash ==
  /\ RecoveryMayCrash
  /\ rstage # "idle"
  /\ rstage' = "idle"
  /\ lock' = IF lock = "recoverer" THEN "stale" ELSE lock
  /\ plan' = << >>
  /\ todo' = IF lock = "recoverer" THEN << >> ELSE todo
  /\ moved' = IF lock = "recoverer" THEN FALSE ELSE moved
  /\ UNCHANGED <<file, stage, journal, backedUp, origin, left>>

-----------------------------------------------------------------------------
Body ==
  \/ \E f \in Files : Track(f) \/ Publish(f) \/ MarkTargetPublished(f)
  \/ MarkPublished \/ WriteReceipt \/ MarkReceipted

\* What a running writer, or a running recovery, does next.
Writer ==
  \/ WriteIntent \/ IntentDurable \/ Complete \/ Purge \/ Archive
  \/ Raise \/ Restore \/ Restored \/ GiveUp \/ ReleaseLock

Recoverer ==
  \/ LockStale \/ LockRefused \/ BackUp \/ RollBack \/ ArchiveRecovered
  \/ RecoveryFails \/ CloseRecovery

Next ==
  \/ Begin \/ Body \/ Writer \/ Crash
  \/ Plan \/ Recoverer \/ RecoveryCrash

Spec == Init /\ [][Next]_vars

\* A body returns or raises; a process that runs goes on; somebody runs the
\* recovery that doctor asks for.
FairSpec ==
  /\ Spec
  /\ WF_vars(Writer)
  /\ WF_vars(Plan)
  /\ WF_vars(Recoverer)

(***************************************************************************)
(* Properties                                                              *)
(***************************************************************************)
\* Seen from outside, through the managed targets, mutations are atomic: they
\* are archived as committed with all their changes or as rolled back with
\* none, whether they return, raise, or are killed and recovered.  One whose
\* completion, abort or recovery failed, or whose recovery was killed, may be
\* given up half done; then its journal stays, whoever writes afterwards.
Open == place = "active" /\ lock # "free"

Atomic == INSTANCE AtomicMutation WITH
  store <- [t \in Targets |-> IF Open THEN origin[t] ELSE file[t]],
  open <- Open,
  outcome <- CASE place = "completed" -> "committed"
               [] place \in {"rolledBack", "recovered"} -> "rolled_back"
               [] place = "active" /\ lock = "free" -> "abandoned"
               [] OTHER -> "none",
  unfinished <- left \/ (place = "active" /\ lock = "free"),
  MayAbandon <- IOMayFail \/ RecoveryMayCrash
ImplementsAtomicMutation == Atomic!Spec

\* What doctor offers for rollback can be rolled back exactly: every target that
\* differs from its content before the mutation has a record of that content,
\* however far the body, the completion or an abort had come.
DiagnosisIsSound ==
  Diagnosable => \A t \in Targets :
    origin[t] = IF IsTracked(t) THEN before[t] ELSE file[t]

\* A recoverable transaction of a killed writer is recovered, once somebody
\* runs the command, and the workspace is free for the next writer.
RecoveryCompletes ==
  stage = "dead" /\ Diagnosable ~> place = "recovered" /\ lock = "free"
=============================================================================
