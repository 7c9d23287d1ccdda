----------------------------- MODULE WriterLock -----------------------------
(***************************************************************************)
(* The writer-lock file of one lock path (workspace.lock, or one task's    *)
(* lock): integrity.py's _FileLock and _locks, with the three kinds of     *)
(* process that touch the file.  Writers create it exclusively, flock it   *)
(* and unlink it; doctors probe it with is_active; recoverers of an        *)
(* interrupted transaction reopen it with open_stale and unlink it.        *)
(*                                                                         *)
(* POSIX semantics: a directory entry names an inode, a flock belongs to   *)
(* an open file and dies with its process, unlink works on the path and    *)
(* not on the inode somebody holds open.  Every step below is one system   *)
(* call of the code, so another process may run between any two of them.   *)
(* The transaction itself is reduced to one fact, the set of lock ids      *)
(* whose journal lies in transactions/active; module Transaction has the   *)
(* rest.                                                                   *)
(***************************************************************************)
EXTENDS Naturals, FiniteSets

CONSTANTS
  Writers,       \* processes running writer_transaction
  Doctors,       \* processes running doctor_workspace
  Recoverers,    \* processes running recover_workspace(apply=True)
  Crashable,     \* the processes that may be killed
  EndMayFail,    \* may Transaction.abort or complete, or a rollback, fail?
  OperatorWaits, \* is recovery started only once the transaction's owner is dead?
  Inodes,        \* inodes the file system can give to a lock file
  LockIds,       \* lock metadata documents, each with its own uuid
  NoInode,
  NoProc,
  NoId

Procs == Writers \cup Doctors \cup Recoverers

ASSUME ProcsAssumption ==
  /\ Writers \cap Doctors = {}
  /\ Writers \cap Recoverers = {}
  /\ Doctors \cap Recoverers = {}
  /\ Crashable \subseteq Procs

ASSUME SentinelAssumption ==
  /\ NoInode \notin Inodes
  /\ NoProc \notin Procs
  /\ NoId \notin LockIds
  /\ {"empty", "zero"} \cap LockIds = {}

VARIABLES
  dirEntry,  \* the inode the lock path names, or NoInode
  content,   \* content[i]: "empty", "zero" (the byte "0") or lock metadata
  flock,     \* flock[i]: the process whose open file holds the flock on i
  handle,    \* handle[p]: the inode p has open, or NoInode
  pc,        \* pc[p]: where process p is in the code
  lockId,    \* lockId[p]: a writer's own metadata, a recoverer's target
  journal,   \* lock ids whose transaction directory lies in active/
  backups,   \* lock ids whose recovery backup directory exists
  faults     \* what has gone wrong so far: kills, failed ends (history)

disk == <<journal, backups>>
vars == <<dirEntry, content, flock, handle, pc, lockId, disk, faults>>

\* A writer owns the lock file from its creation until it has unlinked it.
Critical == {"holding", "mutating", "ending"}
OwnerPcs == {"opened", "zeroed", "locked", "written", "undo", "unlinking"} \cup Critical
ProbePcs == {"idle", "probeOpen", "probeLock", "probeUnlock"}
WriterPcs  == ProbePcs \cup OwnerPcs \cup {"exists"}
DoctorPcs  == ProbePcs \cup {"listed"}
RecoverPcs == ProbePcs \cup {"planned", "digest", "openStale", "lockStale", "backup",
                              "rollback", "ending", "unlinking"}

TypeOK ==
  /\ dirEntry \in Inodes \cup {NoInode}
  /\ content \in [Inodes -> {"empty", "zero"} \cup LockIds]
  /\ flock \in [Inodes -> Procs \cup {NoProc}]
  /\ handle \in [Procs -> Inodes \cup {NoInode}]
  /\ pc \in [Procs -> WriterPcs \cup DoctorPcs \cup RecoverPcs]
  /\ \A w \in Writers : pc[w] \in WriterPcs
  /\ \A d \in Doctors : pc[d] \in DoctorPcs
  /\ \A r \in Recoverers : pc[r] \in RecoverPcs
  /\ lockId \in [Procs -> LockIds \cup {NoId}]
  /\ journal \subseteq LockIds
  /\ backups \subseteq LockIds
  /\ faults \in SUBSET {"kill", "failure"}

Init ==
  /\ dirEntry = NoInode
  /\ content = [i \in Inodes |-> "empty"]
  /\ flock = [i \in Inodes |-> NoProc]
  /\ handle = [p \in Procs |-> NoInode]
  /\ pc = [p \in Procs |-> "idle"]
  /\ lockId = [p \in Procs |-> NoId]
  /\ journal = {}
  /\ backups = {}
  /\ faults = {}

(***************************************************************************)
(* Helpers                                                                 *)
(***************************************************************************)
Goto(p, from, to) ==
  /\ pc[p] = from
  /\ pc' = [pc EXCEPT ![p] = to]

\* The operation of p ends, by returning or raising.
Return(p, from) ==
  /\ Goto(p, from, "idle")
  /\ lockId' = [lockId EXCEPT ![p] = NoId]

\* The file system may give out an inode that no path and no open file uses.
FreeInode(i) == i # dirEntry /\ \A p \in Procs : handle[p] # i

\* A uuid nobody has seen: in no file, no journal, no backup, no process.
FreshId(k) ==
  /\ k \notin journal \cup backups
  /\ \A i \in Inodes : content[i] = k => FreeInode(i)
  /\ \A p \in Procs : lockId[p] # k

\* The file at the lock path holds complete lock metadata.
Readable == dirEntry # NoInode /\ content[dirEntry] \in LockIds

\* Closing p's file releases whatever flock that open file held.
CloseFile(p) ==
  /\ flock' = [i \in Inodes |-> IF flock[i] = p THEN NoProc ELSE flock[i]]
  /\ handle' = [handle EXCEPT ![p] = NoInode]

\* is_active returned False to p: a writer asks for recovery, a doctor reports
\* it, a recoverer goes on to the digest.
NotActive(p, from) ==
  \/ p \in Recoverers /\ Goto(p, from, "digest") /\ UNCHANGED lockId
  \/ p \notin Recoverers /\ Return(p, from)

\* The process of an interrupted transaction is dead (or has lost its lock).
Unowned(k) == \A w \in Writers : lockId[w] # k

(***************************************************************************)
(* _FileLock.create                                                        *)
(***************************************************************************)
\* Mutant: open("w+b"), which truncates whatever file is there.
OpenNewTruncating(w) ==
  /\ Goto(w, "idle", "opened")
  /\ \E i \in Inodes :
       /\ i = dirEntry \/ (dirEntry = NoInode /\ FreeInode(i))
       /\ dirEntry' = i
       /\ content' = [content EXCEPT ![i] = "empty"]
       /\ handle' = [handle EXCEPT ![w] = i]
  /\ UNCHANGED <<flock, lockId, disk, faults>>

\* path.open("x+b") succeeds: the entry names a new, empty inode.
OpenNew(w) ==
  /\ dirEntry = NoInode
  /\ Goto(w, "idle", "opened")
  /\ \E i \in Inodes :
       /\ FreeInode(i)
       /\ dirEntry' = i
       /\ content' = [content EXCEPT ![i] = "empty"]
       /\ handle' = [handle EXCEPT ![w] = i]
  /\ UNCHANGED <<flock, lockId, disk, faults>>

\* path.open("x+b") raises FileExistsError.
OpenExists(w) ==
  /\ dirEntry # NoInode
  /\ Goto(w, "idle", "exists")
  /\ UNCHANGED <<dirEntry, content, flock, handle, lockId, disk, faults>>

\* Mutant: the clean-up of a failed creation also runs when the file existed.
ExistsUnreadableUndone(w) ==
  /\ ~Readable
  /\ Goto(w, "exists", "undo")
  /\ UNCHANGED <<dirEntry, content, flock, handle, lockId, disk, faults>>

\* The file is gone again or holds no metadata yet: "Another writer is active."
ExistsUnreadable(w) ==
  /\ ~Readable
  /\ Return(w, "exists")
  /\ UNCHANGED <<dirEntry, content, flock, handle, disk, faults>>

\* The file holds lock metadata: ask is_active whose it is.
ExistsReadable(w) ==
  /\ Readable
  /\ Goto(w, "exists", "probeOpen")
  /\ UNCHANGED <<dirEntry, content, flock, handle, lockId, disk, faults>>

WriteZero(w) ==
  /\ Goto(w, "opened", "zeroed")
  /\ content' = [content EXCEPT ![handle[w]] = "zero"]
  /\ UNCHANGED <<dirEntry, flock, handle, lockId, disk, faults>>

LockNew(w) ==
  /\ Goto(w, "zeroed", "locked")
  /\ flock[handle[w]] = NoProc
  /\ flock' = [flock EXCEPT ![handle[w]] = w]
  /\ UNCHANGED <<dirEntry, content, handle, lockId, disk, faults>>

\* Somebody holds a flock on the file w has just created: "Another writer is
\* active."
LockNewRefused(w) ==
  /\ Goto(w, "zeroed", "undo")
  /\ flock[handle[w]] # NoProc
  /\ CloseFile(w)
  /\ UNCHANGED <<dirEntry, content, lockId, disk, faults>>

\* Mutant: the metadata is written but the lock's digest is not kept.
WriteMetadataForgotten(w) ==
  /\ Goto(w, "locked", "written")
  /\ \E k \in LockIds :
       /\ FreshId(k)
       /\ content' = [content EXCEPT ![handle[w]] = k]
  /\ UNCHANGED <<dirEntry, flock, handle, lockId, disk, faults>>

WriteMetadata(w) ==
  /\ Goto(w, "locked", "written")
  /\ \E k \in LockIds :
       /\ FreshId(k)
       /\ content' = [content EXCEPT ![handle[w]] = k]
       /\ lockId' = [lockId EXCEPT ![w] = k]
  /\ UNCHANGED <<dirEntry, flock, handle, disk, faults>>

\* sync_directory(path.parent): the lock is held.
SyncLockDirectory(w) ==
  /\ Goto(w, "written", "holding")
  /\ UNCHANGED <<dirEntry, content, flock, handle, lockId, disk, faults>>

\* A write, fsync or directory flush fails: close the file, then unlink.
CreateFails(w) ==
  /\ \E from \in {"opened", "zeroed", "locked", "written"} : Goto(w, from, "undo")
  /\ CloseFile(w)
  /\ UNCHANGED <<dirEntry, content, lockId, disk, faults>>

\* Mutant: a failed creation leaves its file behind.
UndoKeepsFile(w) ==
  /\ Return(w, "undo")
  /\ UNCHANGED <<dirEntry, content, flock, handle, disk, faults>>

\* path.unlink(missing_ok=True), and the error is raised.
Undo(w) ==
  /\ Return(w, "undo")
  /\ dirEntry' = NoInode
  /\ UNCHANGED <<content, flock, handle, disk, faults>>

(***************************************************************************)
(* _FileLock.is_active: open, try the flock, release it again.  A writer   *)
(* that found a lock file, a doctor and a recoverer all call it.           *)
(***************************************************************************)
ProbeOpen(p) ==
  /\ dirEntry # NoInode
  /\ Goto(p, "probeOpen", "probeLock")
  /\ handle' = [handle EXCEPT ![p] = dirEntry]
  /\ UNCHANGED <<dirEntry, content, flock, lockId, disk, faults>>

\* open("r+b") raises an OSError, the file is gone: this counts as "not active".
ProbeGone(p) ==
  /\ dirEntry = NoInode
  /\ NotActive(p, "probeOpen")
  /\ UNCHANGED <<dirEntry, content, flock, handle, disk, faults>>

ProbeLock(p) ==
  /\ Goto(p, "probeLock", "probeUnlock")
  /\ flock[handle[p]] = NoProc
  /\ flock' = [flock EXCEPT ![handle[p]] = p]
  /\ UNCHANGED <<dirEntry, content, handle, lockId, disk, faults>>

\* The flock is taken: is_active is True, nobody goes any further.
ProbeActive(p) ==
  /\ Return(p, "probeLock")
  /\ flock[handle[p]] # NoProc
  /\ CloseFile(p)
  /\ UNCHANGED <<dirEntry, content, disk, faults>>

ProbeUnlock(p) ==
  /\ NotActive(p, "probeUnlock")
  /\ CloseFile(p)
  /\ UNCHANGED <<dirEntry, content, disk, faults>>

(***************************************************************************)
(* _locks and writer_transaction, with the transaction reduced to whether  *)
(* its directory lies in active/                                           *)
(***************************************************************************)
\* The intent naming this lock is durable.
BeginTxn(w) ==
  /\ Goto(w, "holding", "mutating")
  /\ journal' = journal \cup {lockId[w]}
  /\ UNCHANGED <<dirEntry, content, flock, handle, lockId, backups, faults>>

\* The basis changed under the caller: no transaction directory is made.
BasisChanged(w) ==
  /\ Goto(w, "holding", "ending")
  /\ UNCHANGED <<dirEntry, content, flock, handle, lockId, disk, faults>>

\* Mutant: the directory is never moved out of active/.
EndTxnKeepsJournal(w) ==
  /\ Goto(w, "mutating", "ending")
  /\ UNCHANGED <<dirEntry, content, flock, handle, lockId, disk, faults>>

\* complete() or abort() has moved the directory to completed/.
EndTxn(w) ==
  /\ Goto(w, "mutating", "ending")
  /\ journal' = journal \ {lockId[w]}
  /\ UNCHANGED <<dirEntry, content, flock, handle, lockId, backups, faults>>

\* complete() or abort() raises: the directory stays in active/.
EndTxnFails(w) ==
  /\ EndMayFail
  /\ Goto(w, "mutating", "ending")
  /\ faults' = faults \cup {"failure"}
  /\ UNCHANGED <<dirEntry, content, flock, handle, lockId, disk>>

\* _FileLock.close, first half: release the flock and close the file.
Unlock(p) ==
  /\ Goto(p, "ending", "unlinking")
  /\ CloseFile(p)
  /\ UNCHANGED <<dirEntry, content, lockId, disk, faults>>

\* Mutant: close(remove=False).
UnlinkKeepsFile(p) ==
  /\ Return(p, "unlinking")
  /\ UNCHANGED <<dirEntry, content, flock, handle, disk, faults>>

\* _FileLock.close, second half: unlink the path, whatever it names by now.  A
\* failing unlink, here or in the clean-up of create, is left out: the file then
\* stays as after a kill, and the same recovery is due.
Unlink(p) ==
  /\ Return(p, "unlinking")
  /\ dirEntry' = NoInode
  /\ UNCHANGED <<content, flock, handle, disk, faults>>

(***************************************************************************)
(* doctor_workspace: list the lock files, then examine each one            *)
(***************************************************************************)
DoctorList(d) ==
  /\ dirEntry # NoInode
  /\ Goto(d, "idle", "listed")
  /\ UNCHANGED <<dirEntry, content, flock, handle, lockId, disk, faults>>

DoctorStat(d) ==
  /\ dirEntry # NoInode
  /\ Goto(d, "listed", "probeOpen")
  /\ UNCHANGED <<dirEntry, content, flock, handle, lockId, disk, faults>>

\* The listed path is no longer a file: "Lock path is unsafe."
DoctorStatGone(d) ==
  /\ dirEntry = NoInode
  /\ Return(d, "listed")
  /\ UNCHANGED <<dirEntry, content, flock, handle, disk, faults>>

(***************************************************************************)
(* recover_workspace(apply=True)                                           *)
(***************************************************************************)
\* The journal is read and validated before any lock is looked at.
Plan(r) ==
  /\ Goto(r, "idle", "planned")
  /\ \E k \in journal :
       /\ OperatorWaits => Unowned(k)
       /\ lockId' = [lockId EXCEPT ![r] = k]
  /\ UNCHANGED <<dirEntry, content, flock, handle, disk, faults>>

LockPathPresent(r) ==
  /\ dirEntry # NoInode
  /\ Goto(r, "planned", "probeOpen")
  /\ UNCHANGED <<dirEntry, content, flock, handle, lockId, disk, faults>>

\* read_bytes and the digest comparison with the intent's lock record.
DigestMatches(r) ==
  /\ Readable
  /\ content[dirEntry] = lockId[r]
  /\ Goto(r, "digest", "openStale")
  /\ UNCHANGED <<dirEntry, content, flock, handle, lockId, disk, faults>>

\* open_stale: reopen the path ...
OpenStale(r) ==
  /\ dirEntry # NoInode
  /\ Goto(r, "openStale", "lockStale")
  /\ handle' = [handle EXCEPT ![r] = dirEntry]
  /\ UNCHANGED <<dirEntry, content, flock, lockId, disk, faults>>

\* ... and take its flock; the metadata must parse but is compared with nothing.
LockStale(r) ==
  /\ Goto(r, "lockStale", "backup")
  /\ flock[handle[r]] = NoProc
  /\ content[handle[r]] \in LockIds
  /\ flock' = [flock EXCEPT ![handle[r]] = r]
  /\ UNCHANGED <<dirEntry, content, handle, lockId, disk, faults>>

\* Every check that refuses before the stale lock is held leaves it alone.
RecoverRefused(r) ==
  /\ \/ pc[r] = "planned" /\ dirEntry = NoInode
     \/ pc[r] = "digest" /\ ~(Readable /\ content[dirEntry] = lockId[r])
     \/ pc[r] = "openStale" /\ dirEntry = NoInode
     \/ /\ pc[r] = "lockStale"
        /\ flock[handle[r]] # NoProc \/ content[handle[r]] \notin LockIds
  /\ Return(r, pc[r])
  /\ CloseFile(r)
  /\ UNCHANGED <<dirEntry, content, disk, faults>>

\* mkdir(backup) with exist_ok=False, then copytree of the active directory.
Backup(r) ==
  /\ Goto(r, "backup", IF lockId[r] \in journal \ backups THEN "rollback" ELSE "ending")
  /\ backups' = backups \cup {lockId[r]}
  /\ UNCHANGED <<dirEntry, content, flock, handle, lockId, journal, faults>>

\* Targets restored, directory moved to completed/<id>-recovered.
Rollback(r) ==
  /\ Goto(r, "rollback", "ending")
  /\ journal' = journal \ {lockId[r]}
  /\ UNCHANGED <<dirEntry, content, flock, handle, lockId, backups, faults>>

RollbackFails(r) ==
  /\ EndMayFail
  /\ Goto(r, "rollback", "ending")
  /\ faults' = faults \cup {"failure"}
  /\ UNCHANGED <<dirEntry, content, flock, handle, lockId, disk>>

(***************************************************************************)
(* A process is killed: the kernel closes its file.                        *)
(***************************************************************************)
Crash(p) ==
  /\ p \in Crashable
  /\ pc[p] # "idle"
  /\ Return(p, pc[p])
  /\ CloseFile(p)
  /\ faults' = faults \cup {"kill"}
  /\ UNCHANGED <<dirEntry, content, disk>>

-----------------------------------------------------------------------------
Probe(p) ==
  ProbeOpen(p) \/ ProbeGone(p) \/ ProbeLock(p) \/ ProbeActive(p) \/ ProbeUnlock(p)

CreateLock(w) ==
  \/ ExistsUnreadable(w) \/ ExistsReadable(w)
  \/ WriteZero(w) \/ LockNew(w) \/ LockNewRefused(w)
  \/ WriteMetadata(w) \/ SyncLockDirectory(w) \/ CreateFails(w) \/ Undo(w)

Transact(w) == BeginTxn(w) \/ BasisChanged(w) \/ EndTxn(w) \/ EndTxnFails(w)

Recover(r) ==
  \/ LockPathPresent(r) \/ DigestMatches(r) \/ OpenStale(r) \/ LockStale(r)
  \/ RecoverRefused(r) \/ Backup(r) \/ Rollback(r) \/ RollbackFails(r)

Release(p) == Unlock(p) \/ Unlink(p)

\* The steps of an operation already under way: nothing in them waits.
WriterStep(w)  == CreateLock(w) \/ Probe(w) \/ Transact(w) \/ Release(w)
DoctorStep(d)  == DoctorStat(d) \/ DoctorStatGone(d) \/ Probe(d)
RecoverStep(r) == Recover(r) \/ Probe(r) \/ Release(r)

Next ==
  \/ \E w \in Writers : OpenNew(w) \/ OpenExists(w) \/ WriterStep(w)
  \/ \E d \in Doctors : DoctorList(d) \/ DoctorStep(d)
  \/ \E r \in Recoverers : Plan(r) \/ RecoverStep(r)
  \/ \E p \in Procs : Crash(p)

Spec == Init /\ [][Next]_vars

\* A process that has begun an operation goes on with it until it ends or dies.
Fairness ==
  /\ \A w \in Writers : WF_vars(WriterStep(w))
  /\ \A d \in Doctors : WF_vars(DoctorStep(d))
  /\ \A r \in Recoverers : WF_vars(RecoverStep(r))

FairSpec == Spec /\ Fairness

(***************************************************************************)
(* Properties                                                              *)
(***************************************************************************)
\* No two processes are inside a mutation or a rollback at the same time,
\* however their creations, probes, crashes and unlinks interleave
\* (writer_transaction promises a single writer).
InMutation(p) == pc[p] \in Critical \cup {"backup", "rollback"}
MutualExclusion ==
  \A p, q \in Procs : InMutation(p) /\ InMutation(q) => p = q

\* While a writer is inside its transaction the file at the lock path is the
\* one it holds flocked and carries its metadata: a second writer is refused,
\* doctor says ACTIVE, and after a crash the lock digest still matches the
\* intent that recover_workspace compares it with.
LockNamesItsWriter ==
  \A w \in Writers : pc[w] \in Critical =>
    /\ dirEntry = handle[w]
    /\ flock[handle[w]] = w
    /\ content[handle[w]] = lockId[w]

\* A transaction directory in active/ is always covered by its own lock file,
\* unless a complete(), an abort() or a rollback has failed.
\* Writers never look into active/; this is what keeps them off the
\* half-written targets of an interrupted transaction.
JournalCovered ==
  "failure" \notin faults =>
    \A k \in journal : dirEntry # NoInode /\ content[dirEntry] = k

\* Without a crash no lock file outlives the operation that made it, whichever
\* step of the creation failed.
NoLockLeft ==
  "kill" \notin faults /\ (\A w \in Writers : pc[w] \notin OwnerPcs) => dirEntry = NoInode

\* The path becomes free again and again: no refused, failed or finished
\* writer leaves the workspace locked for good.
LockReleased == []<>(dirEntry = NoInode)

=============================================================================
