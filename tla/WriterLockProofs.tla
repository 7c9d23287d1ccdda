-------------------------- MODULE WriterLockProofs --------------------------
(***************************************************************************)
(* Theorems about WriterLock for every number of writers, doctors, inodes  *)
(* and lock ids.                                                           *)
(***************************************************************************)
EXTENDS WriterLock, TLAPS

\* Who carries the metadata of a lock, so that "the id of p" is an id.
HasIdPcs == {"written", "unlinking"} \cup Critical
HasId ==
  /\ \A w \in Writers : pc[w] \in HasIdPcs => lockId[w] \in LockIds
  /\ \A r \in Recoverers : pc[r] # "idle" => lockId[r] \in LockIds

TypeInv == TypeOK /\ HasId

LEMMA TypeInvInit == Init => TypeInv
<1> USE DEF WriterPcs, DoctorPcs, RecoverPcs, ProbePcs, OwnerPcs, Critical, Procs
<1>1. ASSUME Init PROVE TypeOK
  BY <1>1 DEF Init, TypeOK
<1>2. ASSUME Init PROVE HasId
  BY <1>2 DEF Init, HasId, HasIdPcs
<1>3. QED
  BY <1>1, <1>2 DEF TypeInv

\* The steps of a writer, one by one.
LEMMA WriterTypes ==
  ASSUME TypeInv, NEW w \in Writers,
         OpenNew(w) \/ OpenExists(w) \/ WriterStep(w)
  PROVE  TypeInv'
<1> USE ProcsAssumption, SentinelAssumption
    DEF TypeInv, TypeOK, HasId, HasIdPcs, Procs, disk, Goto,
        WriterPcs, DoctorPcs, RecoverPcs, ProbePcs, OwnerPcs, Critical
<1>1. CASE OpenNew(w) BY <1>1 DEF OpenNew
<1>2. CASE OpenExists(w) BY <1>2 DEF OpenExists
<1>3. CASE ExistsUnreadable(w) BY <1>3 DEF ExistsUnreadable, Return
<1>4. CASE ExistsReadable(w) BY <1>4 DEF ExistsReadable
<1>5. CASE WriteZero(w) BY <1>5 DEF WriteZero
<1>6. CASE LockNew(w) BY <1>6 DEF LockNew
<1>7. CASE LockNewRefused(w) BY <1>7 DEF LockNewRefused, CloseFile
<1>8. CASE WriteMetadata(w)
  <2>1. PICK k \in LockIds : /\ content' = [content EXCEPT ![handle[w]] = k]
                            /\ lockId' = [lockId EXCEPT ![w] = k]
    BY <1>8 DEF WriteMetadata
  <2>2. TypeOK'
    BY <1>8, <2>1 DEF WriteMetadata
  <2>3. HasId'
    BY <1>8, <2>1 DEF WriteMetadata
  <2>4. QED
    BY <2>2, <2>3
<1>9. CASE SyncLockDirectory(w) BY <1>9 DEF SyncLockDirectory
<1>10. CASE CreateFails(w) BY <1>10 DEF CreateFails, CloseFile
<1>11. CASE Undo(w) BY <1>11 DEF Undo, Return
<1>12. CASE BeginTxn(w) BY <1>12 DEF BeginTxn
<1>13. CASE BasisChanged(w) BY <1>13 DEF BasisChanged
<1>14. CASE EndTxn(w) BY <1>14 DEF EndTxn
<1>15. CASE EndTxnFails(w) BY <1>15 DEF EndTxnFails
<1>16. CASE ProbeOpen(w) BY <1>16 DEF ProbeOpen
<1>gone. CASE ProbeGone(w) BY <1>gone DEF ProbeGone, NotActive, Return
<1>17. CASE ProbeLock(w) BY <1>17 DEF ProbeLock
<1>18. CASE ProbeActive(w) BY <1>18 DEF ProbeActive, Return, CloseFile
<1>19. CASE ProbeUnlock(w) BY <1>19 DEF ProbeUnlock, NotActive, Return, CloseFile
<1>20. CASE Unlock(w) BY <1>20 DEF Unlock, CloseFile
<1>21. CASE Unlink(w) BY <1>21 DEF Unlink, Return
<1>22. QED
  BY <1>1, <1>2, <1>3, <1>4, <1>5, <1>6, <1>7, <1>8, <1>9, <1>10, <1>11, <1>12,
     <1>13, <1>14, <1>15, <1>16, <1>gone, <1>17, <1>18, <1>19, <1>20, <1>21
  DEF WriterStep, CreateLock, Probe, Transact, Release

\* The steps of a doctor.
LEMMA DoctorTypes ==
  ASSUME TypeInv, NEW d \in Doctors, DoctorList(d) \/ DoctorStep(d)
  PROVE  TypeInv'
<1> USE ProcsAssumption, SentinelAssumption
    DEF TypeInv, TypeOK, HasId, HasIdPcs, Procs, disk, Goto,
        WriterPcs, DoctorPcs, RecoverPcs, ProbePcs, OwnerPcs, Critical
<1>1. CASE DoctorList(d) BY <1>1 DEF DoctorList
<1>2. CASE DoctorStat(d) BY <1>2 DEF DoctorStat
<1>3. CASE DoctorStatGone(d) BY <1>3 DEF DoctorStatGone, Return
<1>4. CASE ProbeOpen(d) BY <1>4 DEF ProbeOpen
<1>gone. CASE ProbeGone(d) BY <1>gone DEF ProbeGone, NotActive, Return
<1>5. CASE ProbeLock(d) BY <1>5 DEF ProbeLock
<1>6. CASE ProbeActive(d) BY <1>6 DEF ProbeActive, Return, CloseFile
<1>7. CASE ProbeUnlock(d) BY <1>7 DEF ProbeUnlock, NotActive, Return, CloseFile
<1>8. QED
  BY <1>1, <1>2, <1>3, <1>4, <1>gone, <1>5, <1>6, <1>7 DEF DoctorStep, Probe

\* The steps of a recoverer.
LEMMA RecovererTypes ==
  ASSUME TypeInv, NEW r \in Recoverers, Plan(r) \/ RecoverStep(r)
  PROVE  TypeInv'
<1> USE ProcsAssumption, SentinelAssumption
    DEF TypeInv, TypeOK, HasId, HasIdPcs, Procs, disk, Goto,
        WriterPcs, DoctorPcs, RecoverPcs, ProbePcs, OwnerPcs, Critical
<1>1. CASE Plan(r) BY <1>1 DEF Plan
<1>2. CASE LockPathPresent(r) BY <1>2 DEF LockPathPresent
<1>3. CASE DigestMatches(r) BY <1>3 DEF DigestMatches
<1>4. CASE OpenStale(r) BY <1>4 DEF OpenStale
<1>5. CASE LockStale(r) BY <1>5 DEF LockStale
<1>6. CASE RecoverRefused(r) BY <1>6 DEF RecoverRefused, Return, CloseFile
<1>7. CASE Backup(r) BY <1>7 DEF Backup
<1>8. CASE Rollback(r) BY <1>8 DEF Rollback
<1>9. CASE RollbackFails(r) BY <1>9 DEF RollbackFails
<1>10. CASE ProbeOpen(r) BY <1>10 DEF ProbeOpen
<1>gone. CASE ProbeGone(r) BY <1>gone DEF ProbeGone, NotActive, Return
<1>11. CASE ProbeLock(r) BY <1>11 DEF ProbeLock
<1>12. CASE ProbeActive(r) BY <1>12 DEF ProbeActive, Return, CloseFile
<1>13. CASE ProbeUnlock(r) BY <1>13 DEF ProbeUnlock, NotActive, Return, CloseFile
<1>14. CASE Unlock(r) BY <1>14 DEF Unlock, CloseFile
<1>15. CASE Unlink(r) BY <1>15 DEF Unlink, Return
<1>16. QED
  BY <1>1, <1>2, <1>3, <1>4, <1>5, <1>6, <1>7, <1>8, <1>9, <1>10, <1>gone, <1>11,
     <1>12, <1>13, <1>14, <1>15
  DEF RecoverStep, Recover, Probe, Release

LEMMA CrashTypes ==
  ASSUME TypeInv, NEW p \in Procs, Crash(p)
  PROVE  TypeInv'
BY DEF TypeInv, TypeOK, HasId, HasIdPcs, Procs, disk, Crash, Return, Goto, CloseFile,
       WriterPcs, DoctorPcs, RecoverPcs, ProbePcs, OwnerPcs, Critical

LEMMA TypeInvNext == TypeInv /\ [Next]_vars => TypeInv'
<1> SUFFICES ASSUME TypeInv, [Next]_vars PROVE TypeInv'
  OBVIOUS
<1>1. CASE UNCHANGED vars
  BY <1>1 DEF vars, disk, TypeInv, TypeOK, HasId
<1>2. CASE Next
  BY <1>2, WriterTypes, DoctorTypes, RecovererTypes, CrashTypes DEF Next
<1>3. QED
  BY <1>1, <1>2

\* Every variable keeps its type and every process stays in the states of its
\* own kind of operation, in every behaviour with any number of processes.
THEOREM Typing == Spec => []TypeOK
<1>1. Spec => []TypeInv
  BY TypeInvInit, TypeInvNext, PTL DEF Spec
<1>2. TypeInv => TypeOK
  BY DEF TypeInv
<1>3. QED
  BY <1>1, <1>2, PTL

-----------------------------------------------------------------------------
(***************************************************************************)
(* Exclusion between writers, doctors probing, one recovery at a time and  *)
(* processes dying at will.  The lock file has at most one owner, from the *)
(* exclusive creation to the unlink; everything else follows from who may  *)
(* change the path, the flock and the content of an owned file.  A         *)
(* recovery touches the path only once the digest matched, and then the    *)
(* file belongs to nobody: its writer is dead.                             *)
(***************************************************************************)
\* The operator waits until the writer is dead, and runs one recovery at a time.
OneRecovery == OperatorWaits /\ \A r, s \in Recoverers : r = s

Owner(w) == pc[w] \in OwnerPcs

OneOwner ==
  /\ \A w \in Writers : Owner(w) => dirEntry # NoInode
  /\ \A w, v \in Writers : Owner(w) /\ Owner(v) => w = v

\* What the owner has made of the file so far.
OwnerFile ==
  \A w \in Writers :
    /\ pc[w] \in OwnerPcs \ {"undo", "unlinking"} => handle[w] = dirEntry
    /\ pc[w] \in {"locked", "written"} \cup Critical => flock[dirEntry] = w
    /\ pc[w] \in HasIdPcs => content[dirEntry] = lockId[w]
    /\ pc[w] \in OwnerPcs \ HasIdPcs => content[dirEntry] \in {"empty", "zero", lockId[w]}

\* From the digest comparison to the unlink.
StalePcs == {"openStale", "lockStale", "backup", "rollback", "ending", "unlinking"}

\* The lock file a recovery works on is the dead writer's, and nobody's now.
StaleFile ==
  \A r \in Recoverers :
    /\ pc[r] # "idle" => Unowned(lockId[r])
    /\ pc[r] \in StalePcs =>
         /\ dirEntry # NoInode /\ content[dirEntry] = lockId[r]
         /\ \A w \in Writers : ~Owner(w)

ExclusionInv == TypeInv /\ OneOwner /\ OwnerFile /\ StaleFile

LEMMA WriterKeepsExclusion ==
  ASSUME OneRecovery, ExclusionInv, TypeInv', NEW w \in Writers,
         OpenNew(w) \/ OpenExists(w) \/ WriterStep(w)
  PROVE  (OneOwner /\ OwnerFile /\ StaleFile)'
<1> USE ProcsAssumption, SentinelAssumption
    DEF ExclusionInv, TypeInv, TypeOK, HasId, OneOwner, OwnerFile, StaleFile, Owner, Unowned,
        HasIdPcs, StalePcs, Procs, disk, Goto, WriterPcs, DoctorPcs, RecoverPcs, ProbePcs,
        OwnerPcs, Critical
<1>1. CASE OpenNew(w) BY <1>1 DEF OpenNew
<1>2. CASE OpenExists(w) BY <1>2 DEF OpenExists
<1>3. CASE ExistsUnreadable(w) BY <1>3 DEF ExistsUnreadable, Return
<1>4. CASE ExistsReadable(w) BY <1>4 DEF ExistsReadable
<1>5. CASE WriteZero(w) BY <1>5 DEF WriteZero
<1>6. CASE LockNew(w) BY <1>6 DEF LockNew
<1>7. CASE LockNewRefused(w) BY <1>7 DEF LockNewRefused, CloseFile
<1>8. CASE WriteMetadata(w) BY <1>8 DEF WriteMetadata, FreshId
<1>9. CASE SyncLockDirectory(w) BY <1>9 DEF SyncLockDirectory
<1>10. CASE CreateFails(w) BY <1>10 DEF CreateFails, CloseFile
<1>11. CASE Undo(w) BY <1>11 DEF Undo, Return
<1>12. CASE BeginTxn(w) BY <1>12 DEF BeginTxn
<1>13. CASE BasisChanged(w) BY <1>13 DEF BasisChanged
<1>14. CASE EndTxn(w) BY <1>14 DEF EndTxn
<1>15. CASE EndTxnFails(w) BY <1>15 DEF EndTxnFails
<1>16. CASE ProbeOpen(w) BY <1>16 DEF ProbeOpen
<1>17. CASE ProbeGone(w) BY <1>17 DEF ProbeGone, NotActive, Return
<1>18. CASE ProbeLock(w) BY <1>18 DEF ProbeLock
<1>19. CASE ProbeActive(w) BY <1>19 DEF ProbeActive, Return, CloseFile
<1>20. CASE ProbeUnlock(w) BY <1>20 DEF ProbeUnlock, NotActive, Return, CloseFile
<1>21. CASE Unlock(w) BY <1>21 DEF Unlock, CloseFile
<1>22. CASE Unlink(w) BY <1>22 DEF Unlink, Return
<1>23. QED
  BY <1>1, <1>2, <1>3, <1>4, <1>5, <1>6, <1>7, <1>8, <1>9, <1>10, <1>11, <1>12,
     <1>13, <1>14, <1>15, <1>16, <1>17, <1>18, <1>19, <1>20, <1>21, <1>22
  DEF WriterStep, CreateLock, Probe, Transact, Release

LEMMA DoctorKeepsExclusion ==
  ASSUME OneRecovery, ExclusionInv, TypeInv', NEW d \in Doctors,
         DoctorList(d) \/ DoctorStep(d)
  PROVE  (OneOwner /\ OwnerFile /\ StaleFile)'
<1> USE ProcsAssumption, SentinelAssumption
    DEF ExclusionInv, TypeInv, TypeOK, HasId, OneOwner, OwnerFile, StaleFile, Owner, Unowned,
        HasIdPcs, StalePcs, Procs, disk, Goto, WriterPcs, DoctorPcs, RecoverPcs, ProbePcs,
        OwnerPcs, Critical
<1>1. CASE DoctorList(d) BY <1>1 DEF DoctorList
<1>2. CASE DoctorStat(d) BY <1>2 DEF DoctorStat
<1>3. CASE DoctorStatGone(d) BY <1>3 DEF DoctorStatGone, Return
<1>4. CASE ProbeOpen(d) BY <1>4 DEF ProbeOpen
<1>5. CASE ProbeGone(d) BY <1>5 DEF ProbeGone, NotActive, Return
<1>6. CASE ProbeLock(d) BY <1>6 DEF ProbeLock
<1>7. CASE ProbeActive(d) BY <1>7 DEF ProbeActive, Return, CloseFile
<1>8. CASE ProbeUnlock(d) BY <1>8 DEF ProbeUnlock, NotActive, Return, CloseFile
<1>9. QED
  BY <1>1, <1>2, <1>3, <1>4, <1>5, <1>6, <1>7, <1>8
  DEF DoctorStep, Probe

LEMMA RecovererKeepsExclusion ==
  ASSUME OneRecovery, ExclusionInv, TypeInv', NEW r \in Recoverers,
         Plan(r) \/ RecoverStep(r)
  PROVE  (OneOwner /\ OwnerFile /\ StaleFile)'
<1> USE ProcsAssumption, SentinelAssumption
    DEF ExclusionInv, TypeInv, TypeOK, HasId, OneOwner, OwnerFile, StaleFile, Owner, Unowned,
        HasIdPcs, StalePcs, Procs, disk, Goto, WriterPcs, DoctorPcs, RecoverPcs, ProbePcs,
        OwnerPcs, Critical
<1> USE DEF OneRecovery
<1>1. CASE Plan(r) BY <1>1 DEF Plan
<1>2. CASE LockPathPresent(r) BY <1>2 DEF LockPathPresent
<1>3. CASE DigestMatches(r) BY <1>3 DEF DigestMatches, Readable
<1>4. CASE OpenStale(r) BY <1>4 DEF OpenStale
<1>5. CASE LockStale(r) BY <1>5 DEF LockStale
<1>6. CASE RecoverRefused(r) BY <1>6 DEF RecoverRefused, Return, CloseFile
<1>7. CASE Backup(r) BY <1>7 DEF Backup
<1>8. CASE Rollback(r) BY <1>8 DEF Rollback
<1>9. CASE RollbackFails(r) BY <1>9 DEF RollbackFails
<1>10. CASE ProbeOpen(r) BY <1>10 DEF ProbeOpen
<1>11. CASE ProbeGone(r) BY <1>11 DEF ProbeGone, NotActive, Return
<1>12. CASE ProbeLock(r) BY <1>12 DEF ProbeLock
<1>13. CASE ProbeActive(r) BY <1>13 DEF ProbeActive, Return, CloseFile
<1>14. CASE ProbeUnlock(r) BY <1>14 DEF ProbeUnlock, NotActive, Return, CloseFile
<1>15. CASE Unlock(r) BY <1>15 DEF Unlock, CloseFile
<1>16. CASE Unlink(r) BY <1>16 DEF Unlink, Return
<1>17. QED
  BY <1>1, <1>2, <1>3, <1>4, <1>5, <1>6, <1>7, <1>8, <1>9, <1>10, <1>11, <1>12,
     <1>13, <1>14, <1>15, <1>16
  DEF RecoverStep, Recover, Probe, Release

LEMMA CrashKeepsExclusion ==
  ASSUME OneRecovery, ExclusionInv, TypeInv', NEW p \in Procs, Crash(p)
  PROVE  (OneOwner /\ OwnerFile /\ StaleFile)'
BY ProcsAssumption, SentinelAssumption
DEF ExclusionInv, TypeInv, TypeOK, HasId, OneOwner, OwnerFile, StaleFile, Owner, Unowned,
    HasIdPcs, StalePcs, Procs, Crash, Return, Goto, CloseFile, WriterPcs, ProbePcs,
    OwnerPcs, Critical

LEMMA ExclusionInvNext ==
  ASSUME OneRecovery PROVE ExclusionInv /\ [Next]_vars => ExclusionInv'
<1> SUFFICES ASSUME ExclusionInv, [Next]_vars PROVE ExclusionInv'
  OBVIOUS
<1>1. TypeInv'
  BY TypeInvNext DEF ExclusionInv
<1>2. CASE UNCHANGED vars
  BY <1>1, <1>2
  DEF vars, disk, ExclusionInv, OneOwner, OwnerFile, StaleFile, Owner, Unowned
<1>3. CASE Next
  BY <1>1, <1>3, WriterKeepsExclusion, DoctorKeepsExclusion, RecovererKeepsExclusion,
     CrashKeepsExclusion
  DEF Next, ExclusionInv
<1>4. QED
  BY <1>2, <1>3

LEMMA ExclusionInvInit == Init => ExclusionInv
BY TypeInvInit
DEF Init, Procs, ExclusionInv, OneOwner, OwnerFile, StaleFile, Owner, HasIdPcs, StalePcs,
    OwnerPcs, Critical

\* At most one process is inside a mutation or a rollback: for every number of
\* writers, doctors and crashes, in every behaviour in which the operator starts
\* one recovery at a time and only of a writer that is dead.
THEOREM Exclusion ==
  ASSUME OneRecovery PROVE Spec => []MutualExclusion
<1>1. Spec => []ExclusionInv
  BY ExclusionInvInit, ExclusionInvNext, PTL DEF Spec
<1>2. ExclusionInv => MutualExclusion
  BY DEF ExclusionInv, TypeInv, TypeOK, OneOwner, StaleFile, Owner, OneRecovery,
         MutualExclusion, InMutation, Procs, StalePcs, OwnerPcs, Critical, DoctorPcs,
         ProbePcs, WriterPcs, RecoverPcs
<1>3. QED
  BY <1>1, <1>2, PTL

\* A writer inside its transaction holds the file the path names, flocked and
\* with its own metadata in it, also while a recovery looks at another one.
THEOREM LockNames ==
  ASSUME OneRecovery PROVE Spec => []LockNamesItsWriter
<1>1. Spec => []ExclusionInv
  BY ExclusionInvInit, ExclusionInvNext, PTL DEF Spec
<1>2. ExclusionInv => LockNamesItsWriter
  BY DEF ExclusionInv, OwnerFile, LockNamesItsWriter, HasIdPcs, OwnerPcs, Critical
<1>3. QED
  BY <1>1, <1>2, PTL

-----------------------------------------------------------------------------
(***************************************************************************)
(* An interrupted transaction stays behind its lock file, as long as no    *)
(* abort, completion or rollback fails and no recovery is killed: an owner *)
(* that is not mutating leaves nothing in active/, a transaction without   *)
(* an owner keeps the path taken, and a recovery that is about to remove   *)
(* the lock file has moved its transaction away.  A recovery that dies     *)
(* between its backup and its rollback breaks it: the next one finds the   *)
(* backup directory, gives up and removes the lock file all the same.      *)
(***************************************************************************)
QuietOwner ==
  "failure" \notin faults =>
    \A w \in Writers : Owner(w) /\ pc[w] # "mutating" => journal = {}

QuietRecovery ==
  "failure" \notin faults =>
    /\ \A r \in Recoverers : pc[r] \in {"ending", "unlinking"} => journal = {}
    /\ \A k \in journal \cap backups :
         \E r \in Recoverers : pc[r] = "rollback" /\ lockId[r] = k

\* Backups are named after transactions whose writer is gone.
BackupsUnowned == \A w \in Writers : lockId[w] \notin backups

JournalInv == ExclusionInv /\ JournalCovered /\ QuietOwner /\ QuietRecovery /\ BackupsUnowned

LEMMA WriterKeepsJournal ==
  ASSUME OneRecovery, JournalInv, ExclusionInv', NEW w \in Writers,
         OpenNew(w) \/ OpenExists(w) \/ WriterStep(w)
  PROVE  (JournalCovered /\ QuietOwner /\ QuietRecovery /\ BackupsUnowned)'
<1> USE ProcsAssumption, SentinelAssumption
    DEF JournalInv, JournalCovered, QuietOwner, QuietRecovery, BackupsUnowned, ExclusionInv,
        TypeInv, TypeOK, HasId, OneOwner, OwnerFile, StaleFile, Owner, Unowned, HasIdPcs,
        StalePcs, Procs, disk, Goto, WriterPcs, DoctorPcs, RecoverPcs, ProbePcs, OwnerPcs,
        Critical
<1>1. CASE OpenNew(w) BY <1>1 DEF OpenNew
<1>2. CASE OpenExists(w) BY <1>2 DEF OpenExists
<1>3. CASE ExistsUnreadable(w) BY <1>3 DEF ExistsUnreadable, Return
<1>4. CASE ExistsReadable(w) BY <1>4 DEF ExistsReadable
<1>5. CASE WriteZero(w) BY <1>5 DEF WriteZero
<1>6. CASE LockNew(w) BY <1>6 DEF LockNew
<1>7. CASE LockNewRefused(w) BY <1>7 DEF LockNewRefused, CloseFile
<1>8. CASE WriteMetadata(w) BY <1>8 DEF WriteMetadata, FreshId
<1>9. CASE SyncLockDirectory(w) BY <1>9 DEF SyncLockDirectory
<1>10. CASE CreateFails(w) BY <1>10 DEF CreateFails, CloseFile
<1>11. CASE Undo(w) BY <1>11 DEF Undo, Return
<1>12. CASE BeginTxn(w) BY <1>12 DEF BeginTxn
<1>13. CASE BasisChanged(w) BY <1>13 DEF BasisChanged
<1>14. CASE EndTxn(w)
  <2>1. CASE "failure" \in faults
    BY <1>14, <2>1 DEF EndTxn
  <2>2. CASE "failure" \notin faults
    <3>1. journal \subseteq {lockId[w]}
      BY <1>14, <2>2 DEF EndTxn
    <3>2. journal' = {}
      BY <1>14, <3>1 DEF EndTxn
    <3>3. QED
      BY <1>14, <3>2 DEF EndTxn
  <2>3. QED
    BY <2>1, <2>2
<1>15. CASE EndTxnFails(w) BY <1>15 DEF EndTxnFails
<1>16. CASE ProbeOpen(w) BY <1>16 DEF ProbeOpen
<1>17. CASE ProbeGone(w) BY <1>17 DEF ProbeGone, NotActive, Return
<1>18. CASE ProbeLock(w) BY <1>18 DEF ProbeLock
<1>19. CASE ProbeActive(w) BY <1>19 DEF ProbeActive, Return, CloseFile
<1>20. CASE ProbeUnlock(w) BY <1>20 DEF ProbeUnlock, NotActive, Return, CloseFile
<1>21. CASE Unlock(w) BY <1>21 DEF Unlock, CloseFile
<1>22. CASE Unlink(w) BY <1>22 DEF Unlink, Return
<1>23. QED
  BY <1>1, <1>2, <1>3, <1>4, <1>5, <1>6, <1>7, <1>8, <1>9, <1>10, <1>11, <1>12,
     <1>13, <1>14, <1>15, <1>16, <1>17, <1>18, <1>19, <1>20, <1>21, <1>22
  DEF WriterStep, CreateLock, Probe, Transact, Release

LEMMA RecovererKeepsJournal ==
  ASSUME OneRecovery, JournalInv, ExclusionInv', NEW r \in Recoverers,
         Plan(r) \/ RecoverStep(r)
  PROVE  (JournalCovered /\ QuietOwner /\ QuietRecovery /\ BackupsUnowned)'
<1> USE ProcsAssumption, SentinelAssumption
    DEF JournalInv, JournalCovered, QuietOwner, QuietRecovery, BackupsUnowned, ExclusionInv,
        TypeInv, TypeOK, HasId, OneOwner, OwnerFile, StaleFile, Owner, Unowned, HasIdPcs,
        StalePcs, Procs, disk, Goto, WriterPcs, DoctorPcs, RecoverPcs, ProbePcs, OwnerPcs,
        Critical
<1>1. CASE Plan(r) BY <1>1 DEF Plan
<1>2. CASE LockPathPresent(r) BY <1>2 DEF LockPathPresent
<1>3. CASE DigestMatches(r) BY <1>3 DEF DigestMatches, Readable
<1>4. CASE OpenStale(r) BY <1>4 DEF OpenStale
<1>5. CASE LockStale(r) BY <1>5 DEF LockStale
<1>6. CASE RecoverRefused(r) BY <1>6 DEF RecoverRefused, Return, CloseFile
<1>7. CASE Backup(r)
  <2>1. CASE "failure" \in faults
    BY <1>7, <2>1 DEF Backup
  <2>2. CASE "failure" \notin faults
    <3>1. journal \subseteq {lockId[r]}
      BY <1>7, <2>2 DEF Backup
    <3>2. \A k \in journal \cap backups : FALSE
      BY <1>7, <2>2 DEF Backup, OneRecovery
    <3>3. QED
      BY <1>7, <3>1, <3>2 DEF Backup
  <2>3. QED
    BY <2>1, <2>2
<1>8. CASE Rollback(r)
  <2>1. CASE "failure" \in faults
    BY <1>8, <2>1 DEF Rollback
  <2>2. CASE "failure" \notin faults
    <3>1. journal \subseteq {lockId[r]}
      BY <1>8, <2>2 DEF Rollback
    <3>2. journal' = {}
      BY <1>8, <3>1 DEF Rollback
    <3>3. QED
      BY <1>8, <3>2 DEF Rollback
  <2>3. QED
    BY <2>1, <2>2
<1>9. CASE RollbackFails(r) BY <1>9 DEF RollbackFails
<1>10. CASE ProbeOpen(r) BY <1>10 DEF ProbeOpen
<1>11. CASE ProbeGone(r) BY <1>11 DEF ProbeGone, NotActive, Return
<1>12. CASE ProbeLock(r) BY <1>12 DEF ProbeLock
<1>13. CASE ProbeActive(r) BY <1>13 DEF ProbeActive, Return, CloseFile
<1>14. CASE ProbeUnlock(r) BY <1>14 DEF ProbeUnlock, NotActive, Return, CloseFile
<1>15. CASE Unlock(r) BY <1>15 DEF Unlock, CloseFile
<1>16. CASE Unlink(r) BY <1>16 DEF Unlink, Return
<1>17. QED
  BY <1>1, <1>2, <1>3, <1>4, <1>5, <1>6, <1>7, <1>8, <1>9, <1>10, <1>11, <1>12,
     <1>13, <1>14, <1>15, <1>16
  DEF RecoverStep, Recover, Probe, Release

LEMMA OthersKeepJournal ==
  ASSUME JournalInv, Recoverers \cap Crashable = {},
         \/ \E d \in Doctors : DoctorList(d) \/ DoctorStep(d)
         \/ \E p \in Procs : Crash(p)
  PROVE  (JournalCovered /\ QuietOwner /\ QuietRecovery /\ BackupsUnowned)'
<1>1. /\ journal' = journal /\ backups' = backups
      /\ dirEntry' = dirEntry /\ content' = content
      /\ "failure" \in faults <=> "failure" \in faults'
  BY DEF DoctorList, DoctorStep, DoctorStat, DoctorStatGone, Probe, ProbeOpen, ProbeGone, ProbeLock,
         ProbeActive, ProbeUnlock, Crash, disk
<1>2. /\ \A w \in Writers : pc'[w] \in {pc[w], "idle"} /\ lockId'[w] \in {lockId[w], NoId}
      /\ \A r \in Recoverers : pc'[r] = pc[r] /\ lockId'[r] = lockId[r]
  BY ProcsAssumption
  DEF JournalInv, ExclusionInv, TypeInv, TypeOK, Procs, DoctorList, DoctorStep, DoctorStat,
      DoctorStatGone, Probe, ProbeOpen, ProbeGone, ProbeLock, ProbeActive, ProbeUnlock,
      Crash, Return,
      NotActive, Goto
<1>3. NoId \notin backups
  BY SentinelAssumption DEF JournalInv, ExclusionInv, TypeInv, TypeOK
<1>4. (JournalCovered /\ QuietOwner)'
  BY <1>1, <1>2 DEF JournalInv, JournalCovered, QuietOwner, Owner, OwnerPcs, Critical
<1>5. (QuietRecovery /\ BackupsUnowned)'
  BY <1>1, <1>2, <1>3 DEF JournalInv, QuietRecovery, BackupsUnowned
<1>6. QED
  BY <1>4, <1>5

\* What a crash leaves half done stays covered by its own lock file, so that no
\* later writer enters the workspace: the reason why writers never look into
\* active/.  An abort, a completion or a rollback that fails breaks it, as the
\* property says: its lock file is removed although the transaction is still
\* there.
THEOREM Covered ==
  ASSUME OneRecovery, Recoverers \cap Crashable = {} PROVE Spec => []JournalCovered
<1>1. Init => JournalInv
  BY ExclusionInvInit
  DEF Init, Procs, JournalInv, JournalCovered, QuietOwner, QuietRecovery, BackupsUnowned,
      Owner, OwnerPcs, Critical
<1>2. JournalInv /\ [Next]_vars => JournalInv'
  <2> SUFFICES ASSUME JournalInv, [Next]_vars PROVE JournalInv'
    OBVIOUS
  <2>1. ExclusionInv'
    BY ExclusionInvNext DEF JournalInv
  <2>2. CASE UNCHANGED vars
    BY <2>1, <2>2
    DEF vars, disk, JournalInv, JournalCovered, QuietOwner, QuietRecovery, BackupsUnowned,
        Owner
  <2>3. CASE Next
    BY <2>1, <2>3, WriterKeepsJournal, RecovererKeepsJournal, OthersKeepJournal
    DEF Next, JournalInv
  <2>4. QED
    BY <2>2, <2>3
<1>3. QED
  BY <1>1, <1>2, PTL DEF Spec, JournalInv

-----------------------------------------------------------------------------
(***************************************************************************)
(* No lock is left without an owner, recoveries or not: the path is given  *)
(* a file by somebody who owns it from then on, and ownership ends in an   *)
(* unlink or a kill.                                                       *)
(***************************************************************************)
LEMMA OwnedUntilUnlinked ==
  ASSUME TypeInv, NoLockLeft, Next
  PROVE  NoLockLeft'
<1> USE DEF Next, OpenExists, WriterStep, CreateLock, ExistsUnreadable, ExistsReadable,
            WriteZero, LockNew, LockNewRefused, WriteMetadata, SyncLockDirectory, CreateFails,
            Undo, Probe, ProbeOpen, ProbeGone, ProbeLock, ProbeActive, ProbeUnlock, Transact,
            BeginTxn, BasisChanged, EndTxn, EndTxnFails, Release, Unlock, Unlink, DoctorList,
            DoctorStep, DoctorStat, DoctorStatGone, Plan, RecoverStep, Recover,
            LockPathPresent, DigestMatches, OpenStale, LockStale, RecoverRefused, Backup,
            Rollback, RollbackFails, Crash
<1> SUFFICES ASSUME "kill" \notin faults', dirEntry' # NoInode
             PROVE  \E w \in Writers : pc'[w] \in OwnerPcs
  BY DEF NoLockLeft
<1>1. "kill" \notin faults
  BY DEF OpenNew
<1>2. CASE \E w \in Writers : OpenNew(w)
  BY <1>2 DEF OpenNew, Goto, TypeInv, TypeOK, Procs, OwnerPcs
<1>3. CASE ~ \E w \in Writers : OpenNew(w)
  <2>1. dirEntry' = dirEntry
    BY <1>3
  <2>2. PICK w \in Writers : pc[w] \in OwnerPcs
    BY <1>1, <2>1 DEF NoLockLeft
  <2>3. pc'[w] \in OwnerPcs
    BY <1>1, <1>3, <2>1, <2>2, ProcsAssumption, SMTT(30)
    DEF TypeInv, TypeOK, Procs, Goto, Return, NotActive, OwnerPcs, Critical
  <2>4. QED
    BY <2>3
<1>4. QED
  BY <1>2, <1>3

\* Without a kill no lock file outlives the operation that made it, whichever
\* step of a creation, an end or a recovery failed, for any number of processes
\* of each kind.
THEOREM NothingLeft == Spec => []NoLockLeft
<1>1. Init => NoLockLeft
  BY DEF Init, NoLockLeft
<1>2. TypeInv /\ NoLockLeft /\ [Next]_vars => NoLockLeft'
  BY OwnedUntilUnlinked DEF vars, NoLockLeft
<1>3. Spec => []TypeInv
  BY TypeInvInit, TypeInvNext, PTL DEF Spec
<1>4. QED
  BY <1>1, <1>2, <1>3, PTL DEF Spec
=============================================================================
