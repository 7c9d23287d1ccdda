--------------------------- MODULE TaskWorkspace ----------------------------
(***************************************************************************)
(* The tasks of one workspace (workflow.py): an append-only chain of       *)
(* events per task, its TASK.md card and its artifacts, changed by         *)
(* concurrent commands.  A command that appends an event reads the chain   *)
(* without a lock, then takes the lock of its task and compares the head   *)
(* of the chain; a proposal digests all of TASKS, then takes the workspace *)
(* lock and compares the digest.  The two locks exclude nobody from each   *)
(* other, and reading takes no lock at all.                                *)
(*                                                                         *)
(* A transaction (module Transaction) is here what it does to TASKS: the   *)
(* abort of a failed body and the recovery of a killed one are one step.   *)
(* Texts, actors, inputs and receipts are left out.                        *)
(***************************************************************************)
EXTENDS Naturals, Sequences, FiniteSets, SequencesExt

CONSTANTS
  Tasks,        \* task ids
  Procs,        \* processes, each running one command at a time
  Kinds,        \* event types the commands write, "proposal" included
  Proposed,     \* tasks that begin with a committed proposal
  MaxAttempts,  \* MAX_TOTAL_ATTEMPTS
  MayFail,      \* may a mutation fail half-way for a reason of its own?
  MayCrash,     \* may a process be killed?
  Workspace,    \* the name of the workspace lock
  NoProc

ASSUME TaskAssumption ==
  /\ Workspace \notin Tasks
  /\ NoProc \notin Procs
  /\ Proposed \subseteq Tasks
  /\ MaxAttempts \in Nat \ {0}
  /\ {MayFail, MayCrash} \subseteq BOOLEAN

VARIABLES
  events,     \* events[t]: the event files of t; << >> if t has no directory
  card,       \* card[t]: how many events TASK.md shows
  result,     \* result[t]: the process that put the result file there, or NoProc
  evidence,   \* evidence[t]: number of attempt artifacts
  partial,    \* partial[t]: processes whose half-copied file lies in artifacts/
  lock,       \* holder of each lock file, alive or dead
  pc,         \* pc[p]: where the command of p is
  op,         \* op[p]: the event it writes
  chain,      \* chain[p]: the chain it has read
  digest,     \* digest[p]: the tree of TASKS it has digested
  dead,       \* killed inside a transaction that is not recovered yet
  committed   \* committed[t]: the chain at the last commit to t (history)

tree == <<events, card, result, evidence, partial>>
mine == <<op, chain, digest>>
vars == <<tree, lock, pc, mine, dead, committed>>

-----------------------------------------------------------------------------
(***************************************************************************)
(* EVENT_SPECS, as the set of legal <<type, from, to>>                     *)
(***************************************************************************)
Terminal == {"CLOSED", "CANCELLED", "SUPERSEDED"}
Open == {"AWAITING_OWNER_APPROVAL", "APPROVED_FOR_EXECUTION", "IN_EXECUTION",
         "RESULT_READY", "AWAITING_OWNER_ACCEPTANCE", "OWNER_ACCEPTED", "RETURNED", "BLOCKED"}

Ending == { <<"cancellation", s, "CANCELLED">> : s \in Open }
          \cup { <<"superseded", s, "SUPERSEDED">> : s \in Open }

\* Mutant: a running task can be approved, and begun, again.
EventSpecsReapproved ==
  { <<"proposal", "none", "AWAITING_OWNER_APPROVAL">>,
    <<"owner-approval", "AWAITING_OWNER_APPROVAL", "APPROVED_FOR_EXECUTION">>,
    <<"owner-approval", "IN_EXECUTION", "APPROVED_FOR_EXECUTION">>,
    <<"execution-begun", "APPROVED_FOR_EXECUTION", "IN_EXECUTION">> } \cup Ending

EventSpecs ==
  { <<"proposal", "none", "AWAITING_OWNER_APPROVAL">>,
    <<"owner-approval", "AWAITING_OWNER_APPROVAL", "APPROVED_FOR_EXECUTION">>,
    <<"execution-begun", "APPROVED_FOR_EXECUTION", "IN_EXECUTION">>,
    <<"result", "IN_EXECUTION", "RESULT_READY">>,
    <<"architect-review", "RESULT_READY", "AWAITING_OWNER_ACCEPTANCE">>,
    <<"architect-review", "RESULT_READY", "RETURNED">>,
    <<"owner-acceptance", "AWAITING_OWNER_ACCEPTANCE", "OWNER_ACCEPTED">>,
    <<"owner-acceptance", "AWAITING_OWNER_ACCEPTANCE", "RETURNED">>,
    <<"closure", "OWNER_ACCEPTED", "CLOSED">>,
    <<"objective-attempt", "IN_EXECUTION", "IN_EXECUTION">>,
    <<"objective-attempt", "IN_EXECUTION", "BLOCKED">> }
  \cup Ending

EventTypes == { spec[1] : spec \in EventSpecs }
Statuses == Terminal \cup Open

\* An event record; "head" is the record digest of its predecessor, for which
\* the predecessor's number, type and writer stand.
Heads == Nat \X (EventTypes \cup {"none"}) \X (Procs \cup {NoProc})
NoHead == <<0, "none", NoProc>>
Events == [type : EventTypes, number : Nat, from : Statuses \cup {"none"},
           to : Statuses, by : Procs \cup {NoProc}, head : Heads]

Status(c) == IF c = << >> THEN "none" ELSE Last(c).to
RecordDigest(c) == IF c = << >> THEN NoHead ELSE <<Last(c).number, Last(c).type, Last(c).by>>
Has(c, type) == \E i \in DOMAIN c : c[i].type = type
Attempts(c) == Cardinality({ i \in DOMAIN c : c[i].type = "objective-attempt" })

NewEvent(p, c, type, to) ==
  [type |-> type, number |-> Len(c) + 1, from |-> Status(c), to |-> to, by |-> p,
   head |-> RecordDigest(c)]

\* _validate_event: event i of chain c follows the one before it.
FollowsOn(c, i) ==
  /\ c[i].number = i
  /\ <<c[i].type, c[i].from, c[i].to>> \in EventSpecs
  /\ c[i].from = Status(SubSeq(c, 1, i - 1))
  /\ c[i].head = RecordDigest(SubSeq(c, 1, i - 1))
ValidChain(c) == \A i \in DOMAIN c : FollowsOn(c, i)

\* _validate_artifact_inventory: the files the events name and no other ones.
InventoryMatches(t) ==
  /\ partial[t] = {}
  /\ result[t] # NoProc <=> Has(events[t], "result")
  /\ evidence[t] = Attempts(events[t])

\* _load_chain accepts the task.
Loadable(t) == events[t] # << >> /\ InventoryMatches(t) /\ ValidChain(events[t])

\* _event(chain, ...): the events a command needs to find in the chain.
Needs(type) ==
  CASE type = "execution-begun" -> {"owner-approval"}
    [] type = "result" -> {"execution-begun"}
    [] type = "architect-review" -> {"result"}
    [] type = "owner-acceptance" -> {"result", "architect-review"}
    [] type = "closure" -> {"owner-approval", "result", "architect-review", "owner-acceptance"}
    [] OTHER -> {}

\* The status an attempt leads to: the limits (module Attempts) block the task,
\* the total number of attempts at the latest.
AttemptTo(c) ==
  IF Attempts(c) + 1 >= MaxAttempts THEN {"BLOCKED"} ELSE {"IN_EXECUTION", "BLOCKED"}

\* What each command requires of the chain it has loaded, before any lock.
MayAppend(t, type, to) ==
  /\ events[t] # << >>
  /\ \A needed \in Needs(type) : Has(events[t], needed)
  /\ type \in {"result", "objective-attempt"} => Status(events[t]) = "IN_EXECUTION"
  /\ type = "result" => card[t] = Len(events[t])
  /\ type = "objective-attempt" => to \in AttemptTo(events[t])
  /\ type = "superseded" => \E new \in Tasks \ {t} : events[new] = << >>

TypeOK ==
  /\ events \in [Tasks -> Seq(Events)]
  /\ card \in [Tasks -> Nat]
  /\ result \in [Tasks -> Procs \cup {NoProc}]
  /\ evidence \in [Tasks -> Nat]
  /\ partial \in [Tasks -> SUBSET Procs]
  /\ lock \in [Tasks \cup {Workspace} -> Procs \cup {NoProc}]
  /\ pc \in [Procs -> {"idle", "loaded", "copying", "ready", "open", "copied", "written",
                        "viewed", "cleanup", "digested", "proposing", "checked", "created"}]
  /\ op \in [Procs -> [type : EventTypes, task : Tasks, to : Statuses] \cup {<< >>}]
  /\ chain \in [Procs -> Seq(Events)]
  /\ dead \subseteq Procs
  /\ committed \in [Tasks -> Seq(Events)]

FirstProposal == NewEvent(NoProc, << >>, "proposal", "AWAITING_OWNER_APPROVAL")

Init ==
  /\ events = [t \in Tasks |-> IF t \in Proposed THEN <<FirstProposal>> ELSE << >>]
  /\ card = [t \in Tasks |-> Len(events[t])]
  /\ result = [t \in Tasks |-> NoProc]
  /\ evidence = [t \in Tasks |-> 0]
  /\ partial = [t \in Tasks |-> {}]
  /\ lock = [l \in Tasks \cup {Workspace} |-> NoProc]
  /\ pc = [p \in Procs |-> "idle"]
  /\ op = [p \in Procs |-> << >>]
  /\ chain = [p \in Procs |-> << >>]
  /\ digest = [p \in Procs |-> << >>]
  /\ dead = {}
  /\ committed = events

(***************************************************************************)
(* Helpers                                                                 *)
(***************************************************************************)
Goto(p, from, to) ==
  /\ p \notin dead
  /\ pc[p] = from
  /\ pc' = [pc EXCEPT ![p] = to]

\* The command of p returns or raises; what it has read is forgotten.
Return(p) ==
  /\ pc' = [pc EXCEPT ![p] = "idle"]
  /\ op' = [op EXCEPT ![p] = << >>]
  /\ chain' = [chain EXCEPT ![p] = << >>]
  /\ digest' = [digest EXCEPT ![p] = << >>]

Take(p, l) ==
  /\ lock[l] = NoProc
  /\ lock' = [lock EXCEPT ![l] = p]

Release(l) == lock' = [lock EXCEPT ![l] = NoProc]

TaskOf(p) == op[p].task
LockOf(p) == IF op[p].type = "proposal" THEN Workspace ELSE TaskOf(p)
InTransaction(p) == pc[p] \in {"open", "copied", "written", "viewed",
                               "proposing", "checked", "created"}

(***************************************************************************)
(* A command that appends an event: load, check, build the payload         *)
(***************************************************************************)
Load(p, t, type, to) ==
  /\ Goto(p, "idle", IF type = "result" THEN "loaded" ELSE "ready")
  /\ MayAppend(t, type, to)
  /\ Loadable(t)
  /\ op' = [op EXCEPT ![p] = [type |-> type, task |-> t, to |-> to]]
  /\ chain' = [chain EXCEPT ![p] = events[t]]
  /\ UNCHANGED <<tree, lock, digest, dead, committed>>

\* submit_result copies the result before any lock is taken: first under a
\* temporary name; "Existing artifact is not overwritten."
StartCopy(p) ==
  /\ Goto(p, "loaded", "copying")
  /\ result[TaskOf(p)] = NoProc
  /\ partial' = [partial EXCEPT ![TaskOf(p)] = @ \cup {p}]
  /\ UNCHANGED <<events, card, result, evidence, lock, mine, dead, committed>>

CopyRefused(p) ==
  /\ pc[p] = "loaded"
  /\ result[TaskOf(p)] # NoProc
  /\ Return(p)
  /\ UNCHANGED <<tree, lock, dead, committed>>

\* os.replace to the final name.
FinishCopy(p) ==
  /\ Goto(p, "copying", "ready")
  /\ partial' = [partial EXCEPT ![TaskOf(p)] = @ \ {p}]
  /\ result' = [result EXCEPT ![TaskOf(p)] = p]
  /\ UNCHANGED <<events, card, evidence, lock, mine, dead, committed>>

(***************************************************************************)
(* _append_event                                                           *)
(***************************************************************************)
\* Mutant: the head is not compared again under the lock.
OpenTransactionStale(p) ==
  /\ Goto(p, "ready", "open")
  /\ Take(p, TaskOf(p))
  /\ UNCHANGED <<tree, mine, dead, committed>>

\* The task lock is free and the head of the chain is the one that was read.
OpenTransaction(p) ==
  /\ Goto(p, "ready", "open")
  /\ events[TaskOf(p)] = chain[p]
  /\ Take(p, TaskOf(p))
  /\ UNCHANGED <<tree, mine, dead, committed>>

\* IntegrityError: "Another writer is active.", a stale lock, or "Transaction
\* basis changed before publication."; no caller cleans up after it.
Refused(p) ==
  /\ pc[p] = "ready"
  /\ lock[TaskOf(p)] # NoProc \/ events[TaskOf(p)] # chain[p]
  /\ Return(p)
  /\ UNCHANGED <<tree, lock, dead, committed>>

\* _ensure_managed_view and _new_event_value let the event through.
BodyAccepts(p) ==
  /\ events[TaskOf(p)] # << >>
  /\ card[TaskOf(p)] = Len(chain[p])
  /\ <<op[p].type, Status(chain[p]), op[p].to>> \in EventSpecs

CopyEvidence(p) ==
  /\ Goto(p, "open", "copied")
  /\ op[p].type = "objective-attempt"
  /\ BodyAccepts(p)
  /\ evidence' = [evidence EXCEPT ![TaskOf(p)] = @ + 1]
  /\ UNCHANGED <<events, card, result, partial, lock, mine, dead, committed>>

WriteEvent(p) ==
  /\ \/ Goto(p, "open", "written") /\ op[p].type # "objective-attempt"
     \/ Goto(p, "copied", "written")
  /\ BodyAccepts(p)
  /\ events' = [events EXCEPT ![TaskOf(p)] =
                  Append(@, NewEvent(p, chain[p], op[p].type, op[p].to))]
  /\ UNCHANGED <<card, result, evidence, partial, lock, mine, dead, committed>>

\* Mutant: the card is rendered from the chain read before the event.
WriteCardStale(p) ==
  /\ Goto(p, "written", "viewed")
  /\ Loadable(TaskOf(p))
  /\ card' = [card EXCEPT ![TaskOf(p)] = Len(chain[p])]
  /\ UNCHANGED <<events, result, evidence, partial, lock, mine, dead, committed>>

\* The chain is read back, and the card replaced.
WriteCard(p) ==
  /\ Goto(p, "written", "viewed")
  /\ Loadable(TaskOf(p))
  /\ card' = [card EXCEPT ![TaskOf(p)] = Len(events[TaskOf(p)])]
  /\ UNCHANGED <<events, result, evidence, partial, lock, mine, dead, committed>>

\* Receipt, complete(), and the lock is released.
Commit(p) ==
  /\ p \notin dead
  /\ pc[p] = "viewed"
  /\ committed' = [committed EXCEPT ![TaskOf(p)] = events[TaskOf(p)]]
  /\ Release(TaskOf(p))
  /\ Return(p)
  /\ UNCHANGED <<tree, dead>>

\* Mutant: the last event goes, whether or not this transaction wrote it.
RestoreTaskLast(p) ==
  LET t == TaskOf(p)
  IN /\ events' = [events EXCEPT ![t] = IF @ # << >> THEN Front(@) ELSE @]
     /\ card' = [card EXCEPT ![t] = IF pc[p] = "viewed" /\ @ # 0 THEN Len(chain[p]) ELSE @]
     /\ evidence' = [evidence EXCEPT ![t] =
                       IF op[p].type = "objective-attempt" /\ pc[p] # "open" /\ @ # 0
                       THEN @ - 1 ELSE @]
     /\ UNCHANGED <<result, partial>>

\* Mutant: the evidence goes, whether or not it has been copied.
RestoreTaskEvidence(p) ==
  LET t == TaskOf(p)
      written == pc[p] \in {"written", "viewed"} /\ events[t] # << >>
  IN /\ events' = [events EXCEPT ![t] = IF written THEN Front(@) ELSE @]
     /\ card' = [card EXCEPT ![t] = IF pc[p] = "viewed" /\ @ # 0 THEN Len(chain[p]) ELSE @]
     /\ evidence' = [evidence EXCEPT ![t] = @ - 1]
     /\ UNCHANGED <<result, partial>>

\* The transaction's targets go back to what they were: the event file and the
\* evidence are removed, the card is restored if its directory is still there.
RestoreTask(p) ==
  LET t == TaskOf(p)
      written == pc[p] \in {"written", "viewed"} /\ events[t] # << >>
  IN /\ events' = [events EXCEPT ![t] = IF written THEN Front(@) ELSE @]
     /\ card' = [card EXCEPT ![t] = IF pc[p] = "viewed" /\ @ # 0 THEN Len(chain[p]) ELSE @]
     /\ evidence' = [evidence EXCEPT ![t] =
                       IF op[p].type = "objective-attempt" /\ pc[p] # "open" /\ @ # 0
                       THEN @ - 1 ELSE @]
     /\ UNCHANGED <<result, partial>>

\* The body raises a WorkflowError (or, if MayFail, anything) and is rolled
\* back; submit_result goes on to clean up after a WorkflowError only.
Abort(p) ==
  /\ p \notin dead
  /\ pc[p] \in {"open", "copied", "written", "viewed"}
  /\ \/ MayFail
     \/ pc[p] \in {"open", "copied"} /\ ~BodyAccepts(p)
     \/ pc[p] = "written" /\ ~Loadable(TaskOf(p))
  /\ RestoreTask(p)
  /\ Release(TaskOf(p))
  /\ \/ op[p].type = "result" /\ Goto(p, pc[p], "cleanup") /\ UNCHANGED mine
     \/ (op[p].type # "result" \/ MayFail) /\ Return(p)
  /\ UNCHANGED <<dead, committed>>

\* The copied result is removed unless a result event with the next number is
\* there; the path is unlinked, whoever put the file there.
CleanUp(p) ==
  /\ p \notin dead
  /\ pc[p] = "cleanup"
  /\ result' = IF \E i \in DOMAIN events[TaskOf(p)] :
                     i = Len(chain[p]) + 1 /\ events[TaskOf(p)][i].type = "result"
               THEN result
               ELSE [result EXCEPT ![TaskOf(p)] = NoProc]
  /\ Return(p)
  /\ UNCHANGED <<events, card, evidence, partial, lock, dead, committed>>

(***************************************************************************)
(* propose_task                                                            *)
(***************************************************************************)
Digest(p, t) ==
  /\ Goto(p, "idle", "digested")
  /\ op' = [op EXCEPT ![p] = [type |-> "proposal", task |-> t,
                              to |-> "AWAITING_OWNER_APPROVAL"]]
  /\ digest' = [digest EXCEPT ![p] = tree]
  /\ UNCHANGED <<tree, lock, chain, dead, committed>>

\* Mutant: the digest is compared, but no workspace lock is taken.
OpenProposalUnlocked(p) ==
  /\ Goto(p, "digested", "proposing")
  /\ digest[p] = tree
  /\ UNCHANGED <<tree, lock, mine, dead, committed>>

OpenProposal(p) ==
  /\ Goto(p, "digested", "proposing")
  /\ digest[p] = tree
  /\ Take(p, Workspace)
  /\ UNCHANGED <<tree, mine, dead, committed>>

ProposalRefused(p) ==
  /\ pc[p] = "digested"
  /\ lock[Workspace] # NoProc \/ digest[p] # tree
  /\ Return(p)
  /\ UNCHANGED <<tree, lock, dead, committed>>

\* _ensure_single_active reads every task, whatever is going on in it.
SingleActive ==
  \A t \in Tasks : events[t] # << >> => Loadable(t) /\ Status(events[t]) \in Terminal

\* Mutant: only the new task's own directory is looked at.
EnsureNewTask(p) ==
  /\ Goto(p, "proposing", "checked")
  /\ events[TaskOf(p)] = << >>
  /\ UNCHANGED <<tree, lock, mine, dead, committed>>

EnsureSingleActive(p) ==
  /\ Goto(p, "proposing", "checked")
  /\ SingleActive
  /\ events[TaskOf(p)] = << >>
  /\ UNCHANGED <<tree, lock, mine, dead, committed>>

\* os.replace of the staged directory, which has a hidden name until then; what a
\* kill leaves of it is left out.
CreateTask(p) ==
  /\ Goto(p, "checked", "created")
  /\ events[TaskOf(p)] = << >>
  /\ events' = [events EXCEPT ![TaskOf(p)] = <<NewEvent(p, << >>, "proposal", op[p].to)>>]
  /\ card' = [card EXCEPT ![TaskOf(p)] = 1]
  /\ UNCHANGED <<result, evidence, partial, lock, mine, dead, committed>>

\* The chain was loaded again between the creation, when it was sound, and the
\* commit, which does not look at it; that the load may fail is in AbortProposal.
\* The task is there: only the holder of the workspace lock removes one.
CommitProposal(p) ==
  /\ p \notin dead
  /\ pc[p] = "created" /\ events[TaskOf(p)] # << >>
  /\ committed' = [committed EXCEPT ![TaskOf(p)] =
                     IF @ = << >> THEN <<Head(events[TaskOf(p)])>> ELSE @]
  /\ Release(Workspace)
  /\ Return(p)
  /\ UNCHANGED <<tree, dead>>

\* The target was absent: its directory goes, with everything in it.
RemoveTask(p) ==
  LET t == TaskOf(p) IN
  IF pc[p] = "created"
  THEN /\ events' = [events EXCEPT ![t] = << >>]
       /\ card' = [card EXCEPT ![t] = 0]
       /\ result' = [result EXCEPT ![t] = NoProc]
       /\ evidence' = [evidence EXCEPT ![t] = 0]
       /\ partial' = [partial EXCEPT ![t] = {}]
  ELSE UNCHANGED tree

AbortProposal(p) ==
  /\ p \notin dead
  /\ pc[p] \in {"proposing", "checked", "created"}
  /\ \/ MayFail
     \/ pc[p] = "proposing" /\ ~(SingleActive /\ events[TaskOf(p)] = << >>)
     \/ pc[p] = "checked" /\ events[TaskOf(p)] # << >>
     \/ pc[p] = "created" /\ ~Loadable(TaskOf(p))
  /\ RemoveTask(p)
  /\ Release(Workspace)
  /\ Return(p)
  /\ UNCHANGED <<dead, committed>>

(***************************************************************************)
(* Processes are killed, and recover_workspace rolls a transaction back.   *)
(***************************************************************************)
Crash(p) ==
  /\ MayCrash
  /\ p \notin dead
  /\ pc[p] # "idle"
  /\ IF InTransaction(p)
     THEN dead' = dead \cup {p} /\ UNCHANGED <<pc, mine>>
     ELSE Return(p) /\ UNCHANGED dead
  /\ UNCHANGED <<tree, lock, committed>>

\* A proposed task somebody else has changed no longer matches its digest.
Recover(p) ==
  /\ p \in dead
  /\ IF op[p].type = "proposal"
     THEN /\ pc[p] = "created" =>
               /\ Len(events[TaskOf(p)]) = 1
               /\ result[TaskOf(p)] = NoProc /\ partial[TaskOf(p)] = {}
          /\ RemoveTask(p)
     ELSE RestoreTask(p)
  /\ Release(LockOf(p))
  /\ Return(p)
  /\ dead' = dead \ {p}
  /\ UNCHANGED committed

-----------------------------------------------------------------------------
Begin(p) ==
  \/ \E t \in Tasks, spec \in EventSpecs :
       spec[1] \in Kinds \ {"proposal"} /\ Load(p, t, spec[1], spec[3])
  \/ "proposal" \in Kinds /\ \E t \in Tasks : Digest(p, t)

Step(p) ==
  \/ StartCopy(p) \/ CopyRefused(p) \/ FinishCopy(p)
  \/ OpenTransaction(p) \/ Refused(p) \/ CopyEvidence(p) \/ WriteEvent(p) \/ WriteCard(p)
  \/ Commit(p) \/ Abort(p) \/ CleanUp(p)
  \/ OpenProposal(p) \/ ProposalRefused(p) \/ EnsureSingleActive(p) \/ CreateTask(p)
  \/ CommitProposal(p) \/ AbortProposal(p)

Next == \E p \in Procs : Begin(p) \/ Step(p) \/ Crash(p) \/ Recover(p)

Spec == Init /\ [][Next]_vars

(***************************************************************************)
(* The abort of a proposal, or the recovery from it, removes the directory *)
(* of its task.  Commands that have seen it take the lock of the task, the *)
(* proposal holds the workspace lock: it may remove what they are writing  *)
(* or have committed there.  StandingSpec has the behaviours without this. *)
(***************************************************************************)
TakesBack(p) ==
  /\ pc[p] = "created"
  /\ lock[TaskOf(p)] # NoProc \/ committed[TaskOf(p)] # << >>
  /\ AbortProposal(p) \/ Recover(p)

StandingSpec == Init /\ [][Next /\ \A p \in Procs : ~TakesBack(p)]_vars

(***************************************************************************)
(* Properties                                                              *)
(***************************************************************************)
\* The event files of a task always form a chain that _load_chain accepts,
\* also while an event is being appended and whatever was read before the lock
\* was taken: no status skipped, no number used twice, no broken digest.
ChainsValid == \A t \in Tasks : ValidChain(events[t])

\* A committed event never disappears and never changes, whichever commands
\* fail, are killed or are rolled back afterwards ("append-only task chain").
CommittedStay == \A t \in Tasks : IsPrefix(committed[t], events[t])

\* When no transaction is open on a task, its card shows its latest event and
\* the artifacts of its attempts are those the events name.
AtRest(t) == lock[t] = NoProc /\ lock[Workspace] = NoProc
CardCurrent ==
  \A t \in Tasks : AtRest(t) =>
    card[t] = Len(events[t]) /\ evidence[t] = Attempts(events[t])

\* A task blocked by the attempt limits takes no further attempt and no result.
BlockedStays ==
  \A t \in Tasks : \A i, j \in DOMAIN events[t] :
    i < j /\ events[t][i].to = "BLOCKED" => events[t][j].type \in {"cancellation", "superseded"}

\* The committed chains refine the board, whatever fails or is killed between
\* commits: no command acts on a chain that was read before another commit.
Ledger == INSTANCE TaskBoard WITH status <- [t \in Tasks |-> Status(committed[t])]
LedgerImplementsBoard == Ledger!Spec

\* As long as no mutation fails, already the event files on disk refine it: a
\* proposal may take effect before the cancellation it has seen is committed.
Disk == INSTANCE TaskBoard WITH status <- [t \in Tasks |-> Status(events[t])]
DiskImplementsBoard == Disk!Spec

\* At most one task is not closed, cancelled or superseded.
OneActiveTask ==
  \A t, u \in Tasks :
    /\ events[t] # << >> /\ Status(events[t]) \notin Terminal
    /\ events[u] # << >> /\ Status(events[u]) \notin Terminal
    => t = u
=============================================================================
