------------------------- MODULE TransactionProofs -------------------------
(***************************************************************************)
(* Transaction implements AtomicMutation, for any targets and contents and *)
(* whatever crashes and fails, provided a recovery is planned only after   *)
(* the writer has died.                                                    *)
(***************************************************************************)
EXTENDS Transaction, SequenceTheorems, TLAPS

LEMMA ToSetOfAppend ==
  ASSUME NEW s \in Seq(Files), NEW f \in Files
  PROVE  Append(s, f) \in Seq(Files) /\ ToSet(Append(s, f)) = ToSet(s) \cup {f}
<1> DEFINE a == Append(s, f)
<1>1. /\ a \in Seq(Files)
      /\ DOMAIN a = 1 .. Len(s) + 1 /\ DOMAIN s = 1 .. Len(s) /\ Len(s) \in Nat
  OBVIOUS
<1>2. a[Len(s) + 1] = f /\ \A i \in 1 .. Len(s) : a[i] = s[i]
  OBVIOUS
<1> HIDE DEF a
<1>3. ToSet(a) = ToSet(s) \cup {f}
  BY <1>1, <1>2 DEF ToSet
<1>4. QED
  BY <1>1, <1>3 DEF a

LEMMA ToSetOfFront ==
  ASSUME NEW s \in Seq(Files), s # << >>
  PROVE  /\ Front(s) \in Seq(Files)
         /\ Last(s) \in Files
         /\ ToSet(s) = ToSet(Front(s)) \cup {Last(s)}
<1> DEFINE n == Len(s)
           t == SubSeq(s, 1, n - 1)
<1>1. n \in Nat \ {0} /\ DOMAIN s = 1 .. n /\ \A i \in 1 .. n : s[i] \in Files
  BY EmptySeq, LenProperties
<1> HIDE DEF n
<1>2. 1 \in Int /\ n - 1 \in Int /\ \A i \in 1 .. n - 1 : s[i] \in Files
  BY <1>1
<1>3. /\ t \in Seq(Files)
      /\ Len(t) = IF 1 <= n - 1 THEN (n - 1) - 1 + 1 ELSE 0
      /\ \A i \in 1 .. (n - 1) - 1 + 1 : t[i] = s[1 + i - 1]
  BY <1>2, SubSeqProperties
<1> HIDE DEF t
<1>4. DOMAIN t = 1 .. n - 1 /\ \A i \in 1 .. n - 1 : t[i] = s[i]
  BY <1>1, <1>3, LenProperties
<1>5. ToSet(s) = ToSet(t) \cup {s[n]}
  BY <1>1, <1>4 DEF ToSet
<1>6. QED
  BY <1>1, <1>3, <1>5 DEF Front, Last, n, t

-----------------------------------------------------------------------------
(***************************************************************************)
(* Typing                                                                  *)
(***************************************************************************)
LEMMA NoRecords == << >> \in Seq(Files)
OBVIOUS

LEMMA TypeInit == Init => TypeOK
BY FilesAssumption, NoRecords DEF Init, TypeOK, Contents, Files, Stages, RecoveryStages

LEMMA UndoTypes ==
  ASSUME TypeOK, MoveAway \/ PutBack
  PROVE  file' \in [Files -> Contents] /\ todo' \in Seq(Files) /\ moved' \in BOOLEAN
<1>1. CASE MoveAway
  BY <1>1, ToSetOfFront DEF TypeOK, MoveAway, Contents
<1>2. CASE PutBack
  BY <1>2, ToSetOfFront DEF TypeOK, PutBack, Contents
<1>3. QED
  BY <1>1, <1>2

\* Where only the steps of a process and what a recovery has read or still has to do change.
LEMMA TypesKept ==
  ASSUME TypeOK, UNCHANGED <<file, journal, lock, origin, left>>,
         stage' \in Stages, rstage' \in RecoveryStages, todo' \in Seq(Files),
         moved' \in BOOLEAN, plan' \in Seq(Files), backedUp' \in BOOLEAN
  PROVE  TypeOK'
BY DEF TypeOK, journal

LEMMA BodyTypes == ASSUME TypeOK, Begin \/ Body PROVE TypeOK'
<1> USE FilesAssumption, NoRecords DEF TypeOK, journal, recovery, Contents, Files, Stages, RecoveryStages
<1>1. CASE Begin BY <1>1 DEF Begin, Step
<1>2. ASSUME NEW f \in Files, Track(f) PROVE TypeOK'
  BY <1>2, ToSetOfAppend DEF Track
<1>3. ASSUME NEW f \in Files, Publish(f) PROVE TypeOK'
  BY <1>3 DEF Publish
<1>4. ASSUME NEW f \in Files, MarkTargetPublished(f) PROVE TypeOK'
  BY <1>4 DEF MarkTargetPublished
<1>5. CASE MarkPublished BY <1>5 DEF MarkPublished
<1>6. CASE WriteReceipt BY <1>6 DEF WriteReceipt
<1>7. CASE MarkReceipted BY <1>7, ToSetOfAppend DEF MarkReceipted
<1>8. QED
  BY <1>1, <1>2, <1>3, <1>4, <1>5, <1>6, <1>7 DEF Body

LEMMA WriterTypes == ASSUME TypeOK, Writer \/ Crash PROVE TypeOK'
<1> USE NoRecords DEF TypeOK, journal, recovery, Stages, RecoveryStages, Step
<1>1. CASE WriteIntent BY <1>1 DEF WriteIntent
<1>2. CASE IntentDurable BY <1>2 DEF IntentDurable
<1>3. CASE Complete BY <1>3 DEF Complete
<1>4. CASE Purge BY <1>4 DEF Purge
<1>5. CASE Archive BY <1>5 DEF Archive
<1>6. CASE Raise
  <2>1. /\ stage' \in Stages /\ rstage' \in RecoveryStages /\ todo' \in Seq(Files)
        /\ moved' \in BOOLEAN /\ plan' \in Seq(Files) /\ backedUp' \in BOOLEAN
        /\ UNCHANGED <<file, journal, lock, origin, left>>
    BY <1>6 DEF Raise
  <2> HIDE DEF TypeOK, journal, Stages, RecoveryStages
  <2>2. QED
    BY <2>1, TypesKept
<1>7. CASE Restore BY <1>7, UndoTypes DEF Restore
<1>8. CASE Restored BY <1>8 DEF Restored
<1>9. CASE GiveUp
  <2>1. /\ stage' \in Stages /\ rstage' \in RecoveryStages /\ todo' \in Seq(Files)
        /\ moved' \in BOOLEAN /\ plan' \in Seq(Files) /\ backedUp' \in BOOLEAN
        /\ UNCHANGED <<file, journal, lock, origin, left>>
    BY <1>9 DEF GiveUp
  <2> HIDE DEF TypeOK, journal, Stages, RecoveryStages
  <2>2. QED
    BY <2>1, TypesKept
<1>10. CASE ReleaseLock BY <1>10 DEF ReleaseLock
<1>11. CASE Crash
  <2>1. torn' \in BOOLEAN /\ copies' \subseteq Files
    BY <1>11 DEF Crash
  <2>2. QED
    BY <1>11, <2>1 DEF Crash
<1>12. QED
  BY <1>1, <1>2, <1>3, <1>4, <1>5, <1>6, <1>7, <1>8, <1>9, <1>10, <1>11 DEF Writer

LEMMA RecoveryTypes == ASSUME TypeOK, Plan \/ Recoverer \/ RecoveryCrash PROVE TypeOK'
<1> USE NoRecords DEF TypeOK, journal, recovery, Stages, RecoveryStages, RStep
<1>1. CASE Plan BY <1>1 DEF Plan
<1>2. CASE LockStale BY <1>2 DEF LockStale
<1>3. CASE LockRefused
  <2>1. /\ stage' \in Stages /\ rstage' \in RecoveryStages /\ todo' \in Seq(Files)
        /\ moved' \in BOOLEAN /\ plan' \in Seq(Files) /\ backedUp' \in BOOLEAN
        /\ UNCHANGED <<file, journal, lock, origin, left>>
    BY <1>3 DEF LockRefused
  <2> HIDE DEF TypeOK, journal, Stages, RecoveryStages
  <2>2. QED
    BY <2>1, TypesKept
<1>4. CASE BackUp
  <2>1. /\ stage' \in Stages /\ rstage' \in RecoveryStages /\ todo' \in Seq(Files)
        /\ moved' \in BOOLEAN /\ plan' \in Seq(Files) /\ backedUp' \in BOOLEAN
        /\ UNCHANGED <<file, journal, lock, origin, left>>
    BY <1>4 DEF BackUp
  <2> HIDE DEF TypeOK, journal, Stages, RecoveryStages
  <2>2. QED
    BY <2>1, TypesKept
<1>5. CASE RollBack BY <1>5, UndoTypes DEF RollBack
<1>6. CASE ArchiveRecovered BY <1>6 DEF ArchiveRecovered
<1>7. CASE RecoveryFails
  <2>1. /\ stage' \in Stages /\ rstage' \in RecoveryStages /\ todo' \in Seq(Files)
        /\ moved' \in BOOLEAN /\ plan' \in Seq(Files) /\ backedUp' \in BOOLEAN
        /\ UNCHANGED <<file, journal, lock, origin, left>>
    BY <1>7 DEF RecoveryFails
  <2> HIDE DEF TypeOK, journal, Stages, RecoveryStages
  <2>2. QED
    BY <2>1, TypesKept
<1>8. CASE CloseRecovery BY <1>8 DEF CloseRecovery
<1>9. CASE RecoveryCrash BY <1>9, ZenonT(40) DEF RecoveryCrash
<1>10. QED
  BY <1>1, <1>2, <1>3, <1>4, <1>5, <1>6, <1>7, <1>8, <1>9 DEF Recoverer

\* Every variable keeps its type, for any set of files and contents.
THEOREM Typing == Spec => []TypeOK
<1>1. TypeOK /\ [Next]_vars => TypeOK'
  <2> SUFFICES ASSUME TypeOK, [Next]_vars PROVE TypeOK'
    OBVIOUS
  <2>1. CASE UNCHANGED vars
    BY <2>1 DEF vars, journal, recovery, TypeOK
  <2>2. CASE Next
    BY <2>2, BodyTypes, WriterTypes, RecoveryTypes DEF Next
  <2>3. QED
    BY <2>1, <2>2
<1>2. QED
  BY TypeInit, <1>1, PTL DEF Spec

-----------------------------------------------------------------------------
(***************************************************************************)
(* The inductive invariant.  While the directory is in active/ the records *)
(* describe the state before the mutation; a rollback works them off from  *)
(* the last to the first, and everything it has passed is as it was.       *)
(***************************************************************************)
\* Who is at work, and on what.
Roles ==
  /\ lock = "writer" <=> stage \notin {"idle", "dead"}
  /\ lock \in {"stale", "recoverer"} => stage = "dead"
  /\ rstage \in {"locked", "rollback", "closing"} <=> lock = "recoverer"
  /\ stage \in {"made", "intended", "body", "completed", "purged", "aborting", "aborted"}
       => place = "active"
  /\ rstage = "rollback" => place = "active"
  /\ rstage \in {"planned", "locked", "rollback"} =>
       stage = "dead" /\ plan = tracked /\ place = "active"
  /\ rstage # "overtaken"

RecordsDescribeOrigin ==
  place = "active" => \A t \in Targets :
    origin[t] = IF t \in ToSet(tracked) THEN before[t] ELSE file[t]

RollingBack == stage = "aborting" \/ rstage = "rollback"

RollbackProgress ==
  /\ RollingBack => ToSet(todo) \subseteq ToSet(tracked)
  /\ RollingBack => \A t \in Targets \ ToSet(todo) : file[t] = origin[t]
  /\ stage = "aborted" => \A t \in Targets : file[t] = origin[t]

\* Only what fails or is killed leaves a transaction without an end.
NoneAbandoned ==
  ~IOMayFail /\ ~RecoveryMayCrash =>
    /\ stage # "gaveUp"
    /\ stage = "archived" \/ rstage = "closing" => place # "active"
    /\ backedUp /\ place = "active" => rstage = "rollback"

UndoInv == TypeOK /\ Roles /\ RecordsDescribeOrigin /\ RollbackProgress

LEMMA UndoKeepsOrigin ==
  ASSUME UndoInv, RollingBack, place = "active", MoveAway \/ PutBack,
         UNCHANGED <<journal, origin>>
  PROVE  /\ RecordsDescribeOrigin'
         /\ ToSet(todo') \subseteq ToSet(tracked)
         /\ \A t \in Targets \ ToSet(todo') : file'[t] = origin[t]
<1>1. todo \in Seq(Files) /\ todo # << >>
  BY DEF UndoInv, TypeOK, MoveAway, PutBack
<1>2. /\ Last(todo) \in ToSet(todo)
      /\ ToSet(todo) = ToSet(Front(todo)) \cup {Last(todo)}
      /\ ToSet(todo) \subseteq ToSet(tracked)
  BY <1>1, ToSetOfFront DEF UndoInv, RollbackProgress
<1>3. \A t \in Targets : t # Last(todo) => file'[t] = file[t]
  BY DEF UndoInv, TypeOK, Files, MoveAway, PutBack
<1>4. RecordsDescribeOrigin'
  BY <1>2, <1>3 DEF UndoInv, RecordsDescribeOrigin, journal
<1>5. CASE MoveAway
  BY <1>2, <1>3, <1>4, <1>5 DEF MoveAway, UndoInv, RollbackProgress
<1>6. CASE PutBack
  <2>1. Last(todo) \in Targets => file'[Last(todo)] = origin[Last(todo)]
    BY <1>2, <1>6
    DEF PutBack, UndoInv, TypeOK, Files, RecordsDescribeOrigin
  <2>2. QED
    BY <1>2, <1>3, <1>4, <1>6, <2>1 DEF PutBack, UndoInv, RollbackProgress
<1>7. QED
  BY <1>5, <1>6

LEMMA BodyKeepsUndo ==
  ASSUME UndoInv, TypeOK', Begin \/ Body
  PROVE  UndoInv'
<1> USE FilesAssumption, NoRecords
    DEF UndoInv, TypeOK, Roles, RecordsDescribeOrigin, RollbackProgress, RollingBack,
        IsTracked, Files, journal, recovery
<1>1. CASE Begin
  <2>1. ToSet(<< >>) = {}
    BY DEF ToSet
  <2>2. QED
    BY <1>1, <2>1 DEF Begin, Step
<1>2. ASSUME NEW f \in Files, Track(f) PROVE UndoInv'
  <2>1. ToSet(tracked') = ToSet(tracked) \cup {f} /\ f \notin ToSet(tracked)
    BY <1>2, ToSetOfAppend DEF Track
  <2>2. before'[f] = origin[f] /\ \A t \in Targets : t # f => before'[t] = before[t]
    BY <1>2 DEF Track
  <2>3. RecordsDescribeOrigin'
    BY <1>2, <2>1, <2>2 DEF Track
  <2>4. Roles' /\ RollbackProgress'
    BY <1>2 DEF Track
  <2>5. QED
    BY <2>3, <2>4
<1>3. ASSUME NEW f \in Files, Publish(f) PROVE UndoInv'
  BY <1>3 DEF Publish
<1>4. ASSUME NEW f \in Files, MarkTargetPublished(f) PROVE UndoInv'
  BY <1>4 DEF MarkTargetPublished
<1>5. CASE MarkPublished BY <1>5 DEF MarkPublished
<1>6. CASE WriteReceipt BY <1>6 DEF WriteReceipt
<1>7. CASE MarkReceipted BY <1>7, ToSetOfAppend DEF MarkReceipted
<1>8. QED
  BY <1>1, <1>2, <1>3, <1>4, <1>5, <1>6, <1>7 DEF Body

LEMMA WriterKeepsUndo ==
  ASSUME UndoInv, TypeOK', Writer \/ Crash
  PROVE  UndoInv'
<1> USE DEF UndoInv, Roles, RecordsDescribeOrigin, RollbackProgress, RollingBack, journal,
            recovery, Step
<1>0. ToSet(<< >>) = {}
  BY DEF ToSet
<1>1. CASE WriteIntent BY <1>1 DEF WriteIntent
<1>2. CASE IntentDurable BY <1>2 DEF IntentDurable
<1>3. CASE Complete BY <1>3 DEF Complete
<1>4. CASE Purge BY <1>4 DEF Purge
<1>5. CASE Archive BY <1>5 DEF Archive
<1>6. CASE Raise BY <1>6 DEF Raise
<1>7. CASE Restore
  <2>1. place = "active" /\ stage = "aborting" /\ rstage \notin {"rollback", "locked", "planned"}
    BY <1>7 DEF Restore
  <2>2. UNCHANGED <<journal, origin>> /\ (MoveAway \/ PutBack)
    BY <1>7 DEF Restore
  <2>3. /\ RecordsDescribeOrigin'
        /\ ToSet(todo') \subseteq ToSet(tracked)
        /\ \A t \in Targets \ ToSet(todo') : file'[t] = origin[t]
    BY <2>1, <2>2, UndoKeepsOrigin
  <2>4. QED
    BY <1>7, <2>1, <2>3 DEF Restore
<1>8. CASE Restored BY <1>0, <1>8 DEF Restored
<1>9. CASE GiveUp BY <1>9 DEF GiveUp
<1>10. CASE ReleaseLock BY <1>10 DEF ReleaseLock
<1>11. CASE Crash BY <1>11 DEF Crash
<1>12. QED
  BY <1>1, <1>2, <1>3, <1>4, <1>5, <1>6, <1>7, <1>8, <1>9, <1>10, <1>11 DEF Writer

LEMMA RecoveryKeepsUndo ==
  ASSUME OperatorWaits, UndoInv, TypeOK', Plan \/ Recoverer \/ RecoveryCrash
  PROVE  UndoInv'
<1> USE DEF UndoInv, Roles, RecordsDescribeOrigin, RollbackProgress, RollingBack, journal,
            recovery, RStep
<1>1. CASE Plan BY <1>1 DEF Plan, Diagnosable
<1>2. CASE LockStale BY <1>2 DEF LockStale
<1>3. CASE LockRefused BY <1>3 DEF LockRefused
<1>4. CASE BackUp BY <1>4 DEF BackUp
<1>5. CASE RollBack
  <2>1. place = "active" /\ rstage = "rollback" /\ stage = "dead"
    BY <1>5 DEF RollBack
  <2>2. UNCHANGED <<journal, origin>> /\ (MoveAway \/ PutBack)
    BY <1>5 DEF RollBack
  <2>3. /\ RecordsDescribeOrigin'
        /\ ToSet(todo') \subseteq ToSet(tracked)
        /\ \A t \in Targets \ ToSet(todo') : file'[t] = origin[t]
    BY <2>1, <2>2, UndoKeepsOrigin
  <2>4. QED
    BY <1>5, <2>1, <2>3 DEF RollBack
<1>6. CASE ArchiveRecovered BY <1>6 DEF ArchiveRecovered
<1>7. CASE RecoveryFails BY <1>7 DEF RecoveryFails
<1>8. CASE CloseRecovery BY <1>8 DEF CloseRecovery
<1>9. CASE RecoveryCrash BY <1>9 DEF RecoveryCrash
<1>10. QED
  BY <1>1, <1>2, <1>3, <1>4, <1>5, <1>6, <1>7, <1>8, <1>9 DEF Recoverer

LEMMA UndoInvariant == ASSUME OperatorWaits PROVE Spec => []UndoInv
<1>1. Init => UndoInv
  BY TypeInit DEF Init, UndoInv, Roles, RecordsDescribeOrigin, RollbackProgress, RollingBack
<1>2. UndoInv /\ TypeOK' /\ [Next]_vars => UndoInv'
  <2> SUFFICES ASSUME UndoInv, TypeOK', [Next]_vars PROVE UndoInv'
    OBVIOUS
  <2>1. CASE UNCHANGED vars
    BY <2>1 DEF vars, journal, recovery, UndoInv, Roles, RecordsDescribeOrigin,
                RollbackProgress, RollingBack
  <2>2. CASE Next
    BY <2>2, BodyKeepsUndo, WriterKeepsUndo, RecoveryKeepsUndo DEF Next
  <2>3. QED
    BY <2>1, <2>2
<1>3. QED
  BY <1>1, <1>2, Typing, PTL DEF Spec

\* What doctor_workspace offers for rollback can be rolled back exactly.
THEOREM DiagnosisSound == ASSUME OperatorWaits PROVE Spec => []DiagnosisIsSound
<1>1. UndoInv => DiagnosisIsSound
  BY DEF UndoInv, RecordsDescribeOrigin, DiagnosisIsSound, Diagnosable, IsTracked
<1>2. QED
  BY <1>1, UndoInvariant, PTL

-----------------------------------------------------------------------------
(***************************************************************************)
(* Refinement                                                              *)
(***************************************************************************)
LEMMA AbandonInvariant == ASSUME OperatorWaits PROVE Spec => [](UndoInv /\ NoneAbandoned)
<1>1. Init => NoneAbandoned
  BY DEF Init, NoneAbandoned
<1>2. UndoInv /\ NoneAbandoned /\ [Next]_vars => NoneAbandoned'
  <2> SUFFICES ASSUME UndoInv, NoneAbandoned, [Next]_vars, ~IOMayFail, ~RecoveryMayCrash
               PROVE  NoneAbandoned'
    BY DEF NoneAbandoned
  <2> USE DEF NoneAbandoned, UndoInv, Roles, journal, recovery, Step, RStep
  <2>1. CASE UNCHANGED vars
    BY <2>1 DEF vars
  <2>2. CASE Begin \/ Body
    BY <2>2 DEF Begin, Body, Track, Publish, MarkTargetPublished, MarkPublished, WriteReceipt,
                MarkReceipted
  <2>3. CASE Writer \/ Crash
    BY <2>3 DEF Writer, Crash, WriteIntent, IntentDurable, Complete, Purge, Archive, Raise,
                Restore, Restored, GiveUp, ReleaseLock
  <2>4. CASE Plan \/ Recoverer \/ RecoveryCrash
    BY <2>4 DEF Plan, Recoverer, RecoveryCrash, LockStale, LockRefused, BackUp, RollBack,
                ArchiveRecovered, RecoveryFails, CloseRecovery
  <2>5. QED
    BY <2>1, <2>2, <2>3, <2>4 DEF Next
<1>3. QED
  BY <1>1, <1>2, UndoInvariant, PTL DEF Spec

LEMMA InitImplements == Init => Atomic!Init
BY FilesAssumption DEF Init, Atomic!Init, Files, Open

Store == [t \in Targets |-> IF Open THEN origin[t] ELSE file[t]]

Outcome == CASE place = "completed" -> "committed"
             [] place \in {"rolledBack", "recovered"} -> "rolled_back"
             [] place = "active" /\ lock = "free" -> "abandoned"
             [] OTHER -> "none"

Unfinished == left \/ (place = "active" /\ lock = "free")

\* A step of neither writer nor recoverer that is seen from outside is a beginning.
LEMMA BeginImplements ==
  ASSUME UndoInv, TypeOK', Begin
  PROVE  Atomic!Open
<1>1. ~Open /\ Open' /\ Outcome' = "none" /\ Unfinished' = Unfinished
  BY DEF Begin, Step, Open, Outcome, Unfinished, UndoInv, TypeOK
<1>2. Store' = Store
  BY <1>1, FilesAssumption DEF Store, Begin, UndoInv, TypeOK, Files
<1>3. QED
  BY <1>1, <1>2 DEF Atomic!Open, Store, Outcome, Unfinished

\* A transaction ends by its archive, or because its lock is given back.
LEMMA EndImplements ==
  ASSUME UndoInv, NoneAbandoned, TypeOK', Archive \/ ArchiveRecovered \/ ReleaseLock \/ CloseRecovery
  PROVE  Atomic!Next \/ UNCHANGED <<Store, Open, Outcome, Unfinished>>
<1> USE DEF UndoInv, Roles
<1>1. CASE Archive /\ stage = "purged"
  <2>1. Open /\ ~Open' /\ Outcome' = "committed" /\ Unfinished' = Unfinished
    BY <1>1 DEF Archive, Open, Outcome, Unfinished
  <2>2. Store' \in [Targets -> Contents]
    BY <2>1 DEF Store, TypeOK, Files
  <2>3. Atomic!Commit
    BY <2>1, <2>2 DEF Atomic!Commit, Store, Outcome, Unfinished
  <2>4. QED
    BY <2>3 DEF Atomic!Next
<1>2. CASE (Archive /\ stage = "aborted") \/ ArchiveRecovered
  <2>1. Open /\ ~Open' /\ Outcome' = "rolled_back" /\ Unfinished' = Unfinished
    BY <1>2 DEF Archive, ArchiveRecovered, RStep, Open, Outcome, Unfinished
  <2>2. \A t \in Targets : file'[t] = origin[t]
    BY <1>2 DEF Archive, ArchiveRecovered, RStep, RollbackProgress, RollingBack, ToSet
  <2>3. Store' = Store
    BY <2>1, <2>2 DEF Store
  <2>4. Atomic!RollBack
    BY <2>1, <2>3 DEF Atomic!RollBack, Store, Outcome, Unfinished
  <2>5. QED
    BY <2>4 DEF Atomic!Next
<1>3. CASE (ReleaseLock \/ CloseRecovery) /\ place = "active"
  <2>1. Open /\ ~Open' /\ Outcome' = "abandoned" /\ Unfinished' = TRUE
    BY <1>3 DEF ReleaseLock, CloseRecovery, RStep, Open, Outcome, Unfinished, journal, recovery
  <2>2. Store' \in [Targets -> Contents]
    BY <2>1 DEF Store, TypeOK, Files
  <2>3. IOMayFail \/ RecoveryMayCrash
    BY <1>3 DEF NoneAbandoned, ReleaseLock, CloseRecovery, RStep
  <2>4. Atomic!Abandon
    BY <2>1, <2>2, <2>3 DEF Atomic!Abandon, Store, Outcome, Unfinished
  <2>5. QED
    BY <2>4 DEF Atomic!Next
<1>4. CASE (ReleaseLock \/ CloseRecovery) /\ place # "active"
  BY <1>4 DEF ReleaseLock, CloseRecovery, journal, Store, Open, Outcome, Unfinished
<1>5. QED
  BY <1>1, <1>2, <1>3, <1>4 DEF Archive

\* Nothing else is seen: the lock changes hands while the journal is active, and
\* files change only then.
LEMMA OtherImplements ==
  ASSUME UndoInv, [Next]_vars, ~Begin, ~Archive, ~ArchiveRecovered, ~ReleaseLock, ~CloseRecovery
  PROVE  UNCHANGED <<Store, Open, Outcome, Unfinished>>
<1> USE DEF UndoInv, Roles, journal, recovery, Step, RStep
<1>1. /\ UNCHANGED <<place, origin, left>>
      /\ lock' = lock \/ (lock # "free" /\ lock' # "free")
  BY DEF Next, Body, Writer, Recoverer, vars, Track, Publish, MarkTargetPublished,
         MarkPublished, WriteReceipt, MarkReceipted, WriteIntent, IntentDurable, Complete,
         Purge, Raise, Restore, Restored, GiveUp, Crash, Plan, LockStale, LockRefused, BackUp,
         RollBack, RecoveryFails, RecoveryCrash
<1>2. ~Open => file' = file
  BY DEF Open, Next, Body, Writer, Recoverer, vars, Track, Publish, MarkTargetPublished,
         MarkPublished, WriteReceipt, MarkReceipted, WriteIntent, IntentDurable, Complete,
         Purge, Raise, Restore, Restored, GiveUp, Crash, Plan, LockStale, LockRefused, BackUp,
         RollBack, RecoveryFails, RecoveryCrash
<1>3. Open' = Open
  BY <1>1 DEF Open
<1>4. QED
  BY <1>1, <1>2, <1>3 DEF Store, Outcome, Unfinished, Open

\* With any set of targets and contents, with crashes of the writer and of the
\* recovery and with failing steps of either, Transaction is an implementation
\* of the atomic mutation.  Writers go on over what a failed abort, completion or
\* recovery has left; where nothing fails but the writer, none is abandoned.
THEOREM Implements == ASSUME OperatorWaits PROVE Spec => ImplementsAtomicMutation
<1>1. UndoInv /\ NoneAbandoned /\ TypeOK' /\ [Next]_vars =>
        [Atomic!Next]_<<Store, Open, Outcome, Unfinished>>
  BY BeginImplements, EndImplements, OtherImplements DEF Atomic!Next
<1>2. QED
  BY InitImplements, <1>1, AbandonInvariant, Typing, PTL
  DEF Spec, ImplementsAtomicMutation, Atomic!Spec, Store, Outcome, Unfinished
=============================================================================
