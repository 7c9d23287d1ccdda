------------------------------ MODULE Executors ------------------------------
(***************************************************************************)
(* Playbook revisions, the executor package of a task and the failed       *)
(* attempts it reports: playbook.py and attempts.py, for one task.         *)
(*                                                                         *)
(* A recorder reads the chain and checks its executor without a lock; only *)
(* the event is appended under one, if the chain is still what was read.   *)
(* Meanwhile others record attempts, finish the task, edit a pinned file   *)
(* or replace .opencntx/latest, the only context package of a workspace.   *)
(* A playbook and its role are one definition; the appended event and its  *)
(* view are one step, as module Transaction has it.                        *)
(***************************************************************************)
EXTENDS Naturals, Sequences, FiniteSets, SequencesExt

CONSTANTS
  Recorders,
  Bases,           \* contents of the files an attempt names as its inputs
  Errors,          \* command, target, exit status and error class together
  Evidence,        \* contents of a file of new evidence
  MaxEqual,        \* MAX_EQUAL_FINGERPRINTS
  MaxTotal,        \* MAX_TOTAL_ATTEMPTS
  MaxActions,      \* MAX_CUMULATIVE_ACTIONS; the time limit is alike
  MaxRevision,     \* bound on the revisions of the definition
  None

VARIABLES
  revisions,  \* the revisions of the definition; "proposed", "approved" or "litter"
  task,       \* the task: [status, pins], pins is the revision its inputs name
  chain,      \* its objective attempts
  intact,     \* are the files the task pins what it pins?
  latest,     \* the context package, or None
  executor,   \* None, [pins, context], or the Litter of a killed preparation
  rec         \* what a recorder has read

vars == <<revisions, task, chain, intact, latest, executor, rec>>

Idle == [at |-> "idle"]
Other == [task |-> "other"]
Litter == [pins |-> 0]

Init ==
  /\ revisions = << >> /\ task = [status |-> "none", pins |-> 0]
  /\ chain = << >> /\ intact = TRUE
  /\ latest = None /\ executor = None
  /\ rec = [r \in Recorders |-> Idle]

(***************************************************************************)
(* Definitions                                                             *)
(***************************************************************************)
\* A registration killed before its rename leaves a directory that no
\* definition directory may hold: no revision loads any more.
Loads(n) == n \in DOMAIN revisions /\ \A m \in DOMAIN revisions : revisions[m] # "litter"

Register(result) ==
  /\ Len(revisions) < MaxRevision
  /\ revisions # << >> => Loads(Len(revisions))
  /\ revisions' = Append(revisions, result)
  /\ UNCHANGED <<task, chain, intact, latest, executor, rec>>

Approve(n) ==
  /\ Loads(n) /\ intact /\ revisions[n] = "proposed"
  /\ revisions' = [revisions EXCEPT ![n] = "approved"]
  /\ UNCHANGED <<task, chain, intact, latest, executor, rec>>

(***************************************************************************)
(* The task: proposal to execution-begun, and its result                   *)
(***************************************************************************)
BeginTask(n) ==
  /\ task.status = "none" /\ intact /\ n \in DOMAIN revisions /\ revisions[n] # "litter"
  /\ task' = [status |-> "IN_EXECUTION", pins |-> n]
  /\ UNCHANGED <<revisions, chain, intact, latest, executor, rec>>

Finish ==
  /\ task.status = "IN_EXECUTION" /\ intact
  /\ task' = [task EXCEPT !.status = "SUBMITTED"]
  /\ UNCHANGED <<revisions, chain, intact, latest, executor, rec>>

\* Somebody edits a pinned file, or restores it.
Edit ==
  /\ intact' = ~intact
  /\ UNCHANGED <<revisions, task, chain, latest, executor, rec>>

(***************************************************************************)
(* .opencntx/latest                                                        *)
(***************************************************************************)
\* What build_context_package renders now: it names the last task record.
Rendered == [task |-> "this", pins |-> task.pins, at |-> Len(chain)]

BuildContext ==
  /\ task.status = "IN_EXECUTION" /\ intact
  /\ latest' = Rendered
  /\ UNCHANGED <<revisions, task, chain, intact, executor, rec>>

\* pack, or the context of another task.
BuildOther ==
  /\ latest' = Other
  /\ UNCHANGED <<revisions, task, chain, intact, executor, rec>>

(***************************************************************************)
(* prepare_executor                                                        *)
(***************************************************************************)
Verified == intact /\ latest = Rendered  \* verify_context_package

\* _render_assignment: the executor names its definition and its context.
Assignment == [pins |-> task.pins, context |-> latest]

\* One step: that a package already in its place is taken back, when its receipt
\* fails, is left out.
Prepare(killed) ==
  /\ task.status = "IN_EXECUTION" /\ intact
  /\ Loads(task.pins) /\ revisions[task.pins] = "approved"
  /\ Verified
  /\ executor = None
  /\ executor' = IF killed THEN Litter ELSE Assignment
  /\ UNCHANGED <<revisions, task, chain, intact, latest, rec>>

\* _load_assignment: a whole executor package, of an approved revision.
Assigned ==
  /\ executor \notin {None, Litter}
  /\ Loads(executor.pins) /\ revisions[executor.pins] = "approved"

\* _verify_assignment_live: once an attempt is recorded the context package is
\* only compared with the one the executor was given.
Live ==
  /\ Assigned /\ intact
  /\ task.status = "IN_EXECUTION"
  /\ latest = executor.context
  /\ chain = << >> => Verified

(***************************************************************************)
(* record_attempt                                                          *)
(***************************************************************************)
\* The fingerprint digests the inputs too.
Fingerprint(a) == <<a.error, a.basis>>

\* All actions of the attempts s, one by one, to be counted.
Actions(s) == UNION {{i} \X (1 .. s[i].actions) : i \in DOMAIN s}

\* The attempts of s that failed like a.
Equal(s, a) == {i \in DOMAIN s : Fingerprint(s[i]) = Fingerprint(a)}

Reached(previous, a) ==
  (IF Cardinality(Equal(previous, a)) + 1 >= MaxEqual THEN {"REPEAT"} ELSE {})
  \cup (IF Len(previous) + 1 >= MaxTotal THEN {"TOTAL"} ELSE {})
  \cup (IF Cardinality(Actions(previous)) + a.actions >= MaxActions THEN {"ACTIONS"} ELSE {})

\* A repetition needs other inputs than the attempt before, or evidence that
\* no attempt before has shown.
BasisStatus(previous, a) ==
  IF previous = << >> THEN "INITIAL"
  ELSE IF a.basis # Last(previous).basis THEN "INPUT_DIGEST_CHANGED"
  ELSE IF a.evidence # None /\ \A i \in DOMAIN previous : previous[i].evidence # a.evidence
    THEN "NEW_EVIDENCE"
  ELSE "UNCHANGED"

ReadChain(r) ==
  /\ rec[r] = Idle /\ task.status = "IN_EXECUTION" /\ intact
  /\ rec' = [rec EXCEPT ![r] = [at |-> "read", seen |-> chain]]
  /\ UNCHANGED <<revisions, task, chain, intact, latest, executor>>

BindExecutor(r) ==
  /\ rec[r].at = "read"
  /\ rec' = [rec EXCEPT ![r] = IF Live THEN [at |-> "bound", seen |-> rec[r].seen] ELSE Idle]
  /\ UNCHANGED <<revisions, task, chain, intact, latest, executor>>

Prepared(seen, basis, error, evidence, actions) ==
  LET a == [basis |-> basis, error |-> error, evidence |-> evidence, actions |-> actions]
  IN [basis |-> basis, error |-> error, evidence |-> evidence, actions |-> actions,
      status |-> BasisStatus(seen, a), limits |-> Reached(seen, a)]

AnyHead(r) == task.status = "IN_EXECUTION"  \* looks at the status, not at the head

\* The head of the chain is the one the recorder has read.
SameHead(r) == rec[r].seen = chain /\ task.status = "IN_EXECUTION"

AppendAttempt(r, a) ==
  /\ rec[r].at = "bound"
  /\ a.status # "UNCHANGED"
  /\ rec' = [rec EXCEPT ![r] = Idle]
  /\ IF SameHead(r)
     THEN /\ chain' = Append(chain, a)
          /\ task' = IF a.limits = {} THEN task ELSE [task EXCEPT !.status = "BLOCKED"]
     ELSE UNCHANGED <<chain, task>>
  /\ UNCHANGED <<revisions, intact, latest, executor>>

Next ==
  \/ \E result \in {"proposed", "litter"} : Register(result)
  \/ \E n \in 1 .. MaxRevision : Approve(n) \/ BeginTask(n)
  \/ Finish \/ Edit \/ BuildContext \/ BuildOther
  \/ \E killed \in BOOLEAN : Prepare(killed)
  \/ \E r \in Recorders :
       \/ ReadChain(r) \/ BindExecutor(r)
       \/ \E basis \in Bases, error \in Errors, evidence \in Evidence \cup {None},
             actions \in 1 .. 2 :
            AppendAttempt(r, Prepared(rec[r].seen, basis, error, evidence, actions))

Spec == Init /\ [][Next]_vars

(***************************************************************************)
(* Properties                                                              *)
(***************************************************************************)
TypeOK ==
  /\ Len(chain) <= MaxTotal
  /\ task.status \in {"none", "IN_EXECUTION", "SUBMITTED", "BLOCKED"}
  /\ \A r \in Recorders : rec[r].at \in {"idle", "read", "bound"}

\* However recorders race, the chain is one that loads again: every attempt
\* carries the basis and the limits that the attempts before it give, and
\* none has nothing new.
ChainLoads ==
  \A i \in DOMAIN chain :
    LET before == SubSeq(chain, 1, i - 1) IN
    /\ chain[i].status = BasisStatus(before, chain[i]) /\ chain[i].status # "UNCHANGED"
    /\ chain[i].limits = Reached(before, chain[i])

\* While the task is open no budget is used up: not the attempts, not the
\* actions, not the repetitions of one failure; and an attempt that used one up
\* has blocked the task for good.
BudgetHolds ==
  LET used == \/ Len(chain) >= MaxTotal
              \/ Cardinality(Actions(chain)) >= MaxActions
              \/ \E i \in DOMAIN chain : Cardinality(Equal(chain, chain[i])) >= MaxEqual
  IN used <=> task.status = "BLOCKED"

\* An executor stands on an approved revision, the one its task pins, and on
\* the context of the task before any attempt.
ExecutorBound ==
  executor \notin {None, Litter} =>
    /\ revisions[executor.pins] = "approved" /\ executor.pins = task.pins
    /\ executor.context = [task |-> "this", pins |-> task.pins, at |-> 0]
=============================================================================
