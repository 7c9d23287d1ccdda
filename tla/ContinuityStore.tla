-------------------------- MODULE ContinuityStore --------------------------
(***************************************************************************)
(* The continuity store, .opencntx/continuity: continuity.py's ledger and  *)
(* the files bound to it, with start_flow, advance_flow (PASS and FAIL,    *)
(* the classified recovery, the pending result and its replay),            *)
(* record_execution_checkpoint, and host_protocol.py's claims and parked   *)
(* inputs.  Hosts are processes that give one command at a time and repeat *)
(* an advance whose fate they do not know.                                 *)
(*                                                                         *)
(* The ledger is one file, replaced atomically by every batch of events;   *)
(* it is modelled by the state _reduce folds out of it.  The head digest   *)
(* is left out: every batch changes that state, and only a roadmap where   *)
(* some assignments have a class and some have none can come back to one.  *)
(* Every other file is written by a step of its own, so that a host may    *)
(* die between any two writes.                                             *)
(*                                                                         *)
(* One assumption on the owner: a roadmap is started while no command runs *)
(* and none is in doubt, and no command is given before the first start.   *)
(***************************************************************************)
EXTENDS Naturals, Sequences, FiniteSets, FiniteSetsExt

CONSTANTS
  Hosts,        \* processes that give commands
  Last,         \* the roadmap lists the assignments 1 .. Last
  DependsOn,    \* DependsOn[a]: the assignments a waits for
  Depth,        \* a witness that the dependencies have no cycle
  Class,        \* Class[a]: "CHAIN", "STANDALONE" or, in old roadmaps, "NONE"
  Reasons,      \* failure fingerprints, told apart by number
  Points,       \* checkpoint ids
  Gives,        \* Gives[h]: the kinds of command host h gives
  Inputs,       \* ids of parked inputs, numbered in the order of their names
  MaxStores,    \* bound on store directories ever made
  Crashable,    \* hosts that may be killed
  NoHost

Assignments == 1 .. Last

ASSUME RoadmapAssumption ==
  /\ Last \in Nat \ {0}
  /\ DependsOn \in [Assignments -> SUBSET Assignments]
  /\ Depth \in [Assignments -> Nat]
  /\ \A a \in Assignments : \A d \in DependsOn[a] : Depth[d] < Depth[a]
  /\ Class \in [Assignments -> {"CHAIN", "STANDALONE", "NONE"}]

ASSUME BoundAssumption ==
  /\ Reasons \subseteq Nat /\ Points \subseteq Nat /\ Inputs \subseteq Nat
  /\ MaxStores \in Nat
  /\ Crashable \subseteq Hosts /\ NoHost \notin Hosts /\ "kill" \notin Hosts

VARIABLES
  exists,     \* does the store's directory exist?
  made,       \* how many stores have been started
  flock,      \* the host that holds .operation.lock, or NoHost
  ledger,     \* history/events.jsonl, reduced
  context,    \* the assignment in context/current.json, or 0
  handoffs,   \* assignments with a file in handoffs/
  claimFile,  \* claimFile[a]: the host in claims/a.json, or NoHost
  cache,      \* state.json
  pending,    \* the request in operations/pending-return.json, or NoCall
  parked,     \* parked[i]: the anchor in host-inputs/, or NoAnchor
  acked,      \* inputs with a file in host-input-acks/
  pc,         \* pc[h]: where host h is in its command
  call,       \* call[h]: the command and its arguments, or NoCall
  basis,      \* basis[h]: the ledger h has read, until it has appended to it
  doubt,      \* hosts that have had no answer and will repeat their advance
  landed,     \* landed[h]: batches h's advance has appended so far (history)
  lapses      \* hosts that died while their result was nowhere recorded,
              \* and "kill" once anybody has died (history)

bound == <<context, handoffs, claimFile>>
inputs == <<parked, acked>>
files == <<ledger, bound, cache, pending, inputs>>
place == <<exists, made>>
session == <<call, basis, doubt, landed, lapses>>
vars == <<place, flock, files, pc, session>>

NoCall == [by |-> NoHost, op |-> "none", item |-> 0, global |-> FALSE, claim |-> 0]

NoLedger == [status |-> "none", current |-> 0, done |-> {}, skipped |-> {},
             failures |-> << >>, claims |-> [a \in Assignments |-> NoHost],
             points |-> {}, stranded |-> FALSE]
NoAnchor == [by |-> NoHost, task |-> 0, state |-> NoLedger, sequence |-> 0]

Ledgers == [status : {"none", "RUNNING", "RECOVERY_REQUIRED", "BLOCKED", "COMPLETE"},
            current : Assignments \cup {0}, done : SUBSET Assignments,
            skipped : SUBSET Assignments, failures : Seq(Reasons),
            claims : [Assignments -> Hosts \cup {NoHost}],
            points : SUBSET Points, stranded : BOOLEAN]

\* The commands host h may give: an advance names the assignment whose claim it
\* is bound to, a failure the strategy and whether it brings a global analysis.
Calls(h) ==
  [by : {h}, op : {"pass"}, item : {0}, global : {FALSE}, claim : Assignments \cup {0}]
    \cup [by : {h}, op : {"fail"}, item : Reasons, global : BOOLEAN,
          claim : Assignments \cup {0}]
    \cup [by : {h}, op : {"claim"}, item : {0}, global : {FALSE}, claim : {0}]
    \cup [by : {h}, op : {"checkpoint"}, item : Points, global : {FALSE}, claim : {0}]
    \cup [by : {h}, op : {"park", "return"}, item : Inputs, global : {FALSE}, claim : {0}]
AllCalls == UNION {Calls(h) : h \in Hosts}

Anchors == [by : Hosts, task : Assignments, state : Ledgers, sequence : Nat]

InLock == {"locked", "loaded", "handed", "prepared", "appended", "cleared", "cached",
           "claimed", "noted"}
Pcs == InLock \cup {"idle", "starting", "lock", "saved", "answering"}

TypeOK ==
  /\ exists \in BOOLEAN /\ made \in 0 .. MaxStores
  /\ flock \in Hosts \cup {NoHost}
  /\ ledger \in Ledgers /\ cache \in Ledgers
  /\ context \in Assignments \cup {0}
  /\ handoffs \subseteq Assignments
  /\ claimFile \in [Assignments -> Hosts \cup {NoHost}]
  /\ pending \in AllCalls \cup {NoCall}
  /\ parked \in [Inputs -> Anchors \cup {NoAnchor}]
  /\ acked \subseteq Inputs
  /\ pc \in [Hosts -> Pcs]
  /\ call \in [Hosts -> AllCalls \cup {NoCall}]
  /\ basis \in [Hosts -> Ledgers]
  /\ doubt \subseteq Hosts
  /\ landed \in [Hosts -> Nat]
  /\ lapses \subseteq Hosts \cup {"kill"}

(***************************************************************************)
(* What a batch of events does to the reduced ledger                       *)
(***************************************************************************)
Active(l) == l.status \in {"RUNNING", "RECOVERY_REQUIRED"} /\ l.current # 0

Ready(done, skipped) ==
  {a \in Assignments \ (done \cup skipped) : DependsOn[a] \subseteq done}

\* FLOW_STARTED and the selection of the first ready assignment.
Started ==
  [NoLedger EXCEPT !.status = "RUNNING", !.current = Min(Ready({}, {}))]

\* _reduce remembers what was skipped only if every assignment has a class.
Classified == \A a \in Assignments : Class[a] # "NONE"

\* Mutant: a flow without a next assignment is complete, whatever was skipped.
LeaveComplete(l, done, skipped) ==
  LET next == Ready(done, skipped) IN
  [l EXCEPT
    !.done = done,
    !.skipped = IF Classified THEN skipped ELSE {},
    !.failures = << >>,
    !.current = IF next = {} THEN 0 ELSE Min(next),
    !.status = IF next # {} THEN "RUNNING" ELSE "COMPLETE"]

\* The current assignment has passed or is skipped: the next ready one is
\* selected; without one the flow is complete, or blocked by what was skipped.
Leave(l, done, skipped) ==
  LET next == Ready(done, skipped) IN
  [l EXCEPT
    !.done = done,
    !.skipped = IF Classified THEN skipped ELSE {},
    !.failures = << >>,
    !.current = IF next = {} THEN 0 ELSE Min(next),
    !.status = IF next # {} THEN "RUNNING" ELSE IF skipped = {} THEN "COMPLETE" ELSE "BLOCKED"]

\* A PASS that blocks the flow because of an earlier skip is followed neither by
\* NEXT_ASSIGNMENT_TRIGGERED nor by FLOW_COMPLETED, which _next_trigger demands.
Passed(l) ==
  LET after == Leave(l, l.done \cup {l.current}, l.skipped) IN
  [after EXCEPT !.stranded = after.status = "BLOCKED"]

\* ASSIGNMENT_FAILED, and FLOW_BLOCKED if this was the last attempt allowed.
Failing(l, reason, attempts) ==
  [l EXCEPT
    !.failures = Append(@, reason),
    !.status = IF Len(l.failures) + 1 = attempts THEN "BLOCKED" ELSE "RECOVERY_REQUIRED"]

\* Roadmaps without classes: the same strategy a third time, or a third round.
FailedLegacy(l, reason) ==
  IF l.failures = <<reason, reason>>
  THEN [l EXCEPT !.status = "BLOCKED"]
  ELSE Failing(l, reason, 3)

\* Classified assignments have four stages; only a standalone one is skipped.
Failed(l, reason) ==
  CASE Class[l.current] = "NONE" -> FailedLegacy(l, reason)
    [] Class[l.current] = "STANDALONE" /\ Len(l.failures) = 3 ->
         Leave(l, l.done, l.skipped \cup {l.current})
    [] OTHER -> Failing(l, reason, 4)

After(l, c) == IF c.op = "pass" THEN Passed(l) ELSE Failed(l, c.item)

\* record_failed_attempt: the global stages, and only they, bring an analysis,
\* and the second one a new approach with new evidence.
StageAllows(l, c) ==
  c.op = "fail" /\ Class[l.current] # "NONE" =>
    /\ c.global <=> Len(l.failures) >= 2
    /\ Len(l.failures) = 3 => c.item # l.failures[3]

\* _advance_claim_binding: a claimed assignment is advanced by its claimant, who
\* names the claim; nobody names a claim of another assignment.
BoundBy(l, c) ==
  IF l.claims[l.current] = NoHost THEN c.claim = 0
  ELSE l.claims[l.current] = c.by /\ c.claim = l.current

(***************************************************************************)
(* Reading the store                                                       *)
(***************************************************************************)
\* _load_store: every file is bound to the ledger, and nothing else lies there.
Loads ==
  /\ exists
  /\ context = ledger.current
  /\ handoffs = ledger.done
  /\ claimFile = ledger.claims
  /\ ~ledger.stranded

\* health_report: the store loads and state.json is what _reduce returns.
Healthy == Loads /\ cache = ledger

(***************************************************************************)
(* Commands and the lock                                                   *)
(***************************************************************************)
Goto(h, from, to) ==
  /\ pc[h] = from
  /\ pc' = [pc EXCEPT ![h] = to]

Forget(h) == basis' = [basis EXCEPT ![h] = NoLedger]

\* The command is over: its caller has an answer, or a refusal to act on.
Settle(h) ==
  /\ pc' = [pc EXCEPT ![h] = "idle"]
  /\ call' = [call EXCEPT ![h] = NoCall]
  /\ landed' = [landed EXCEPT ![h] = 0]
  /\ doubt' = doubt \ {h}
  /\ lapses' = lapses \ {h}
  /\ Forget(h)

\* An advance was refused in a way that leaves open whether it has landed.
Postpone(h) ==
  /\ pc' = [pc EXCEPT ![h] = "idle"]
  /\ doubt' = doubt \cup {h}
  /\ Forget(h)
  /\ UNCHANGED <<call, landed, lapses>>

Release == flock' = NoHost

Advancing(h) == call[h].op \in {"pass", "fail"}

Open == exists /\ \A g \in Hosts : pc[g] # "starting"

\* A command is given.  Claims and checkpoints name the state that was read
\* before, without a lock; an advance names the claim, a failure the stage its host
\* has seen last.
Begin(h) ==
  /\ h \notin doubt /\ Open
  /\ Goto(h, "idle", "lock")
  /\ \E c \in Calls(h) :
       /\ c.op \in Gives[h]
       /\ c.claim # 0 => c.claim = ledger.current /\ ledger.claims[c.claim] = h
       /\ c.op = "fail" => (c.global <=> Len(ledger.failures) >= 2)
       /\ c.op \in {"claim", "checkpoint"} => Loads
       /\ call' = [call EXCEPT ![h] = c]
       /\ basis' = IF c.op \in {"claim", "checkpoint"} THEN [basis EXCEPT ![h] = ledger] ELSE basis
  /\ UNCHANGED <<place, flock, files, doubt, landed, lapses>>

\* The caller repeats the advance it has had no answer to.
Retry(h) ==
  /\ h \in doubt /\ Open
  /\ Goto(h, "idle", "lock")
  /\ UNCHANGED <<place, flock, files, session>>

TakeLock(h) ==
  /\ Goto(h, "lock", "locked")
  /\ flock = NoHost
  /\ flock' = h
  /\ UNCHANGED <<place, files, session>>

\* "Another continuity writer is active."
LockRefused(h) ==
  /\ pc[h] = "lock"
  /\ flock # NoHost
  /\ IF Advancing(h) THEN Postpone(h) ELSE Settle(h)
  /\ UNCHANGED <<place, flock, files>>

(***************************************************************************)
(* advance_flow                                                            *)
(***************************************************************************)
\* The same request has left its result behind: return it, append nothing.
ReplayPending(h) ==
  /\ Advancing(h) /\ pending = call[h]
  /\ Goto(h, "locked", "answering")
  /\ pending' = NoCall
  /\ Release
  /\ UNCHANGED <<place, ledger, bound, cache, inputs, session>>

\* "Read the committed prior result before starting a different operation."
PendingRefused(h) ==
  /\ Advancing(h) /\ pending \notin {NoCall, call[h]}
  /\ pc[h] = "locked"
  /\ Postpone(h)
  /\ Release
  /\ UNCHANGED <<place, files>>

MayAdvance(h) ==
  Loads /\ Active(ledger) /\ BoundBy(ledger, call[h]) /\ StageAllows(ledger, call[h])

\* Mutant: the pending result is not looked for.
LoadAnyway(h) ==
  /\ Advancing(h) /\ MayAdvance(h)
  /\ Goto(h, "locked", "loaded")
  /\ basis' = [basis EXCEPT ![h] = ledger]
  /\ UNCHANGED <<place, flock, files, call, doubt, landed, lapses>>

Load(h) ==
  /\ Advancing(h) /\ pending = NoCall /\ MayAdvance(h)
  /\ Goto(h, "locked", "loaded")
  /\ basis' = [basis EXCEPT ![h] = ledger]
  /\ UNCHANGED <<place, flock, files, call, doubt, landed, lapses>>

\* The store does not load, the flow has ended, the claim is missing or another
\* host's, or the recovery stage is not the next one.
AdvanceRefused(h) ==
  /\ Advancing(h) /\ pending = NoCall /\ ~MayAdvance(h)
  /\ pc[h] = "locked"
  /\ Settle(h)
  /\ Release
  /\ UNCHANGED <<place, files>>

\* Mutant: the handoff is filed under the next assignment.
WriteHandoffNext(h) ==
  /\ Goto(h, "loaded", "handed")
  /\ handoffs' = IF call[h].op = "pass"
                 THEN handoffs \cup {After(basis[h], call[h]).current} ELSE handoffs
  /\ UNCHANGED <<place, flock, ledger, context, claimFile, cache, pending, inputs, session>>

\* The receipt, then the handoff, which _load_store expects to be in the ledger.
WriteHandoff(h) ==
  /\ Goto(h, "loaded", "handed")
  /\ handoffs' = IF call[h].op = "pass" THEN handoffs \cup {basis[h].current} ELSE handoffs
  /\ UNCHANGED <<place, flock, ledger, context, claimFile, cache, pending, inputs, session>>

\* _prepare_selection rewrites context/current.json for the next assignment; a
\* skip that leaves none removes the file; both happen before the append.
PrepareSelection(h) ==
  LET next == After(basis[h], call[h]).current IN
  /\ Goto(h, "handed", "prepared")
  /\ context' = IF next # 0 \/ call[h].op = "fail" THEN next ELSE context
  /\ UNCHANGED <<place, flock, ledger, handoffs, claimFile, cache, pending, inputs, session>>

\* _append_events: the ledger must still be the one that was read.
AppendEvents(h) ==
  /\ pc[h] = "prepared"
  /\ IF ledger = basis[h]
     THEN /\ pc' = [pc EXCEPT ![h] = "appended"]
          /\ ledger' = After(basis[h], call[h])
          /\ landed' = [landed EXCEPT ![h] = @ + 1]
          /\ Forget(h)
          /\ UNCHANGED <<flock, call, doubt, lapses>>
     ELSE Postpone(h) /\ Release /\ UNCHANGED ledger
  /\ UNCHANGED <<place, bound, cache, pending, inputs>>

\* Mutant: the context of a passed last assignment is kept.
ClearContextNever(h) ==
  /\ Goto(h, "appended", "cleared")
  /\ UNCHANGED <<place, flock, files, session>>

\* After a PASS that ends the flow context/current.json goes, too.
ClearContext(h) ==
  /\ Goto(h, "appended", "cleared")
  /\ context' = IF ledger.current = 0 THEN 0 ELSE context
  /\ UNCHANGED <<place, flock, ledger, handoffs, claimFile, cache, pending, inputs, session>>

CacheState(h) ==
  /\ Goto(h, "cleared", "cached")
  /\ cache' = ledger
  /\ UNCHANGED <<place, flock, ledger, bound, pending, inputs, session>>

\* The result is kept for a repetition of the request, and the lock released.
SavePending(h) ==
  /\ Goto(h, "cached", "saved")
  /\ pending' = call[h]
  /\ Release
  /\ UNCHANGED <<place, ledger, bound, cache, inputs, session>>

\* After the optional synchronisation the lock is taken once more to remove the
\* pending result; if another writer holds it, the whole advance is refused.
RemovePending(h) ==
  /\ pc[h] = "saved"
  /\ IF flock = NoHost
     THEN /\ pc' = [pc EXCEPT ![h] = "answering"]
          /\ pending' = NoCall
          /\ UNCHANGED session
     ELSE Postpone(h) /\ UNCHANGED pending
  /\ UNCHANGED <<place, flock, ledger, bound, cache, inputs>>

\* The result reaches the caller.
Answer(h) ==
  /\ pc[h] = "answering"
  /\ Settle(h)
  /\ UNCHANGED <<place, flock, files>>

(***************************************************************************)
(* claim_host and record_execution_checkpoint                              *)
(***************************************************************************)
\* The delivery digest binds the ledger: what was read is still there.
MayClaim(h) ==
  /\ Loads
  /\ ledger.status = "RUNNING" /\ ledger.current # 0
  /\ ledger.claims[ledger.current] = NoHost
  /\ ledger = basis[h]

\* The claim's file is written before the event that names it.
WriteClaim(h) ==
  /\ call[h].op = "claim" /\ MayClaim(h)
  /\ Goto(h, "locked", "claimed")
  /\ claimFile' = [claimFile EXCEPT ![ledger.current] = h]
  /\ UNCHANGED <<place, flock, ledger, context, handoffs, cache, pending, inputs, session>>

AppendClaim(h) ==
  /\ Goto(h, "claimed", "noted")
  /\ ledger' = [ledger EXCEPT !.claims[ledger.current] = h]
  /\ Forget(h)
  /\ UNCHANGED <<place, flock, bound, cache, pending, inputs, call, doubt, landed, lapses>>

MayCheckpoint(h) ==
  Loads /\ Active(ledger) /\ call[h].item \notin ledger.points /\ ledger = basis[h]

AppendCheckpoint(h) ==
  /\ call[h].op = "checkpoint" /\ MayCheckpoint(h)
  /\ Goto(h, "locked", "noted")
  /\ ledger' = [ledger EXCEPT !.points = @ \cup {call[h].item}]
  /\ Forget(h)
  /\ UNCHANGED <<place, flock, bound, cache, pending, inputs, call, doubt, landed, lapses>>

CacheNoted(h) ==
  /\ pc[h] = "noted"
  /\ cache' = ledger
  /\ Settle(h)
  /\ Release
  /\ UNCHANGED <<place, ledger, bound, pending, inputs>>

(***************************************************************************)
(* park_host_input and return_host_input                                   *)
(***************************************************************************)
Known == {i \in Inputs : parked[i] # NoAnchor}

\* Parking the same id again never matches the first record: its sequence number
\* counts the records that are there.
MayPark(h) ==
  /\ Loads
  /\ ledger.current # 0 /\ ledger.claims[ledger.current] = h
  /\ call[h].item \notin Known

Park(h) ==
  /\ call[h].op = "park" /\ MayPark(h)
  /\ pc[h] = "locked"
  /\ parked' = [parked EXCEPT ![call[h].item] =
       [by |-> h, task |-> ledger.current, state |-> ledger,
        sequence |-> Cardinality(Known) + 1]]
  /\ Settle(h)
  /\ Release
  /\ UNCHANGED <<place, ledger, bound, cache, pending, acked>>

\* The newest input is the last by file name; while its task is current, nothing
\* may have happened since.
MayReturn(h) ==
  LET i == call[h].item IN
  /\ Loads
  /\ i \in Known \ acked /\ parked[i].by = h
  /\ i = Max(Known \ acked)
  /\ ledger.current = parked[i].task => ledger = parked[i].state

Return(h) ==
  /\ call[h].op = "return" /\ MayReturn(h)
  /\ pc[h] = "locked"
  /\ acked' = acked \cup {call[h].item}
  /\ Settle(h)
  /\ Release
  /\ UNCHANGED <<place, ledger, bound, cache, pending, parked>>

\* A refusal, or the record that is already there: nothing changes.
NothingToDo(h) ==
  /\ pc[h] = "locked"
  /\ \/ call[h].op = "claim" /\ ~MayClaim(h)
     \/ call[h].op = "checkpoint" /\ ~MayCheckpoint(h)
     \/ call[h].op = "park" /\ ~MayPark(h)
     \/ call[h].op = "return" /\ ~MayReturn(h)
  /\ Settle(h)
  /\ Release
  /\ UNCHANGED <<place, files>>

(***************************************************************************)
(* start_flow and kills                                                    *)
(***************************************************************************)
EmptyStore ==
  /\ ledger' = NoLedger /\ cache' = NoLedger
  /\ context' = 0 /\ handoffs' = {}
  /\ claimFile' = [a \in Assignments |-> NoHost]
  /\ pending' = NoCall
  /\ parked' = [i \in Inputs |-> NoAnchor] /\ acked' = {}

Alone == doubt = {} /\ \A g \in Hosts : pc[g] = "idle"

\* The store of a complete roadmap is moved away.
StartArchive(h) ==
  /\ Alone /\ made < MaxStores
  /\ Loads /\ ledger.status = "COMPLETE"
  /\ Goto(h, "idle", "starting")
  /\ exists' = FALSE
  /\ EmptyStore
  /\ UNCHANGED <<made, flock, session>>

StartFresh(h) ==
  /\ Alone /\ made < MaxStores
  /\ ~exists
  /\ Goto(h, "idle", "starting")
  /\ UNCHANGED <<place, flock, files, session>>

\* The new store is built aside and put in place by one rename.
StartPublish(h) ==
  /\ Goto(h, "starting", "idle")
  /\ exists' = TRUE
  /\ made' = made + 1
  /\ ledger' = Started /\ cache' = Started
  /\ context' = Started.current
  /\ UNCHANGED <<flock, handoffs, claimFile, pending, inputs, session>>

\* The process is killed, or a write raises: the system releases its lock.  Whoever
\* was advancing asks again; other commands are forgotten.
Dies(h) ==
  /\ h \in Crashable /\ pc[h] # "idle"
  /\ pc' = [pc EXCEPT ![h] = "idle"]
  /\ flock' = IF flock = h THEN NoHost ELSE flock
  /\ call' = IF Advancing(h) THEN call ELSE [call EXCEPT ![h] = NoCall]
  /\ doubt' = IF Advancing(h) THEN doubt \cup {h} ELSE doubt
  /\ lapses' = lapses \cup {"kill"}
       \cup IF pc[h] \in {"appended", "cleared", "cached", "answering"} THEN {h} ELSE {}
  /\ Forget(h)
  /\ UNCHANGED <<place, files, landed>>

Init ==
  /\ exists = FALSE /\ made = 0 /\ flock = NoHost
  /\ ledger = NoLedger /\ cache = NoLedger
  /\ context = 0 /\ handoffs = {} /\ claimFile = [a \in Assignments |-> NoHost]
  /\ pending = NoCall
  /\ parked = [i \in Inputs |-> NoAnchor] /\ acked = {}
  /\ pc = [h \in Hosts |-> "idle"]
  /\ call = [h \in Hosts |-> NoCall]
  /\ basis = [h \in Hosts |-> NoLedger]
  /\ doubt = {} /\ landed = [h \in Hosts |-> 0] /\ lapses = {}

Next == \E h \in Hosts :
  \/ StartArchive(h) \/ StartFresh(h) \/ StartPublish(h)
  \/ Begin(h) \/ Retry(h) \/ TakeLock(h) \/ LockRefused(h)
  \/ ReplayPending(h) \/ PendingRefused(h) \/ Load(h) \/ AdvanceRefused(h)
  \/ WriteHandoff(h) \/ PrepareSelection(h) \/ AppendEvents(h) \/ ClearContext(h)
  \/ CacheState(h) \/ SavePending(h) \/ RemovePending(h) \/ Answer(h)
  \/ WriteClaim(h) \/ AppendClaim(h) \/ AppendCheckpoint(h) \/ CacheNoted(h)
  \/ Park(h) \/ Return(h) \/ NothingToDo(h)
  \/ Dies(h)

Spec == Init /\ [][Next]_vars

(***************************************************************************)
(* Properties                                                              *)
(***************************************************************************)
\* While work is left, and after success, nobody in a command means that all
\* files of the store belong to the ledger and state.json is up to date, as long
\* as no host has been killed: advance_flow, claim_host and the checkpoints leave
\* nothing half done, however they meet.
StoreHealthy ==
  (exists /\ ledger.status # "BLOCKED" /\ "kill" \notin lapses
     /\ \A h \in Hosts : pc[h] \notin InLock) => Healthy

\* An advance that is repeated until its caller has an answer is applied once: it
\* appends one batch, and is answered only after that, unless the host died between
\* the append and the pending record or between its removal and the answer.
AppliedOnce ==
  \A h \in Hosts \ lapses :
    landed[h] <= 1 /\ (pc[h] = "answering" => landed[h] = 1)

\* The ledger and the events in it carry the roadmap as its owner was promised.
Flow == INSTANCE RoadmapFlow WITH
  Standalone <- {a \in Assignments : Class[a] = "STANDALONE"}, MaxFailures <- 4,
  status <- ledger.status, current <- ledger.current, done <- ledger.done,
  skipped <- ledger.skipped, failures <- Len(ledger.failures)

FlowImplementsRoadmap == Flow!Spec

\* "A restart sees either the previous assignment or the complete next state": a
\* store that nobody is working on can be read.
RestartSees == exists /\ (\A h \in Hosts : pc[h] = "idle") => Loads
=============================================================================
