------------------------------- MODULE Stores -------------------------------
(***************************************************************************)
(* The durable stores beside the native one: adaptive storage, connected   *)
(* view, goal hierarchy and outcomes, session handoffs, acquisition queue, *)
(* navigation index and replica.  Each has its own files and locks; focus  *)
(* chooses the one that runs, so that their spaces add.                    *)
(***************************************************************************)
EXTENDS Naturals, Sequences, FiniteSets

CONSTANTS
  None,
  Recent, KeepDays, KeepMonths, DaysInMonth, Records, Digests, Shards, ShardOf, Profiles,
  HardLimit, Days, MaxRevision,                                \* AdaptiveStorage
  Roadmaps, MaxEvents, MaxUpdates, MaxActive, MaxRecent, OwnerEntries,  \* ConnectedState
  Supervisors, Plans, MaxRepairs, MaxGoalState,                 \* GoalProgress
  Outcomes, Waits, Sources, MaxAttempts, MaxFacts,             \* GoalOutcomes
  Handoffs, Routes, MaxState,                                  \* SessionHandoff
  Workers, Items, Unidentified, Cached, BatchSize, Lease, MaxLeases, MaxTime,  \* AcquisitionQueue
  Keys, Texts, Metadata, MaxChats, MaxNotes,                   \* Navigation
  Syncers, MaxNativeEvents, MaxForeign, MaxSyncs               \* Replica

\* None is the null of the records: no handoff, revision or chat is one.
ASSUME NoneAssumption == None \notin Handoffs /\ None \notin Nat

ASSUME HandoffAssumption ==
  Routes \subseteq {"CONTINUE", "REQUEST_OWNER", "BLOCKED", "COMPLETE_ASSIGNMENT",
                    "COMPLETE_ROADMAP"}

\* Every digest has a shard, there is a first digest, and neither a digest nor a
\* plan is null (adaptive_storage.py).
ASSUME StorageAssumption ==
  /\ ShardOf \in [Digests -> Shards] /\ 1 \in Digests /\ None \notin Digests
  /\ None \notin [rev : Nat, cands : SUBSET Digests, ready : BOOLEAN, staged : SUBSET Digests,
                  cleaned : BOOLEAN, receipt : BOOLEAN]

\* Entries are about a roadmap, have a key and a sequence, and no combo is null
\* (combo.py).
ASSUME ComboAssumption ==
  LET entries == [id : Nat, key : Nat, seq : Nat] IN
    /\ MaxRecent \in Nat /\ Roadmaps \subseteq Nat /\ OwnerEntries \subseteq entries
    /\ None \notin [revision : Nat, active : SUBSET entries, recent : SUBSET entries,
                    history : SUBSET entries, sources : SUBSET Nat]

\* A lease ends at a time (lease_seconds, scale_assurance.py).
ASSUME QueueAssumption == Lease \in Nat

\* Outcomes have an order, and one attempt is allowed (goal_followup.py).
ASSUME OutcomeAssumption == Outcomes \subseteq Nat /\ MaxAttempts \in Nat \ {0}

\* Recoveries and events are counted (goal_progress.py).
ASSUME GoalAssumption == MaxRepairs \in Nat /\ MaxGoalState \in Nat

\* The bounds are numbers; the first roadmap, the first native state and the
\* first moment are within them.
ASSUME BoundAssumption ==
  /\ MaxRevision \in Nat /\ MaxEvents \in Nat /\ MaxActive \in Nat
  /\ MaxFacts \in Nat /\ MaxLeases \in Nat
  /\ MaxState \in Nat \ {0} /\ MaxTime \in Nat \ {0} /\ 1 \in Roadmaps

VARIABLES
  focus,
  profile, revision, records, objects, gens, blobs, index, work, plan, lapsed,
  flow, combo, rooted, view, pub, cli, reader, seen, recorded,
  first, progress, bindings, sup,
  source, report, synthesis, attempts, facts, bound, stopped, route, context,
  native, object, metadata, record, ack, giver, taker, lock,
  item, turn, now, worker, accepted,
  chats, notes, projections, answered,
  events, state, branch, pushed, error, receipt, sync, syncs

A == INSTANCE AdaptiveStorage

C == INSTANCE ConnectedState

G == INSTANCE GoalProgress WITH MaxState <- MaxGoalState, state <- bindings

O == INSTANCE GoalOutcomes

H == INSTANCE SessionHandoff WITH source <- giver, target <- taker

Q == INSTANCE AcquisitionQueue WITH MaxRevision <- MaxLeases, revision <- turn

N == INSTANCE Navigation

R == INSTANCE Replica WITH MaxEvents <- MaxNativeEvents

\* The first hierarchies are trees, as _nodes has it, numbered from their roots,
\* and without repairs.
ASSUME PlanAssumption ==
  \A p \in Plans :
    /\ p \in Seq([parent : Nat \cup {None}, children : SUBSET DOMAIN p,
                  outcomes : SUBSET p[1].outcomes, dependsOn : SUBSET DOMAIN p,
                  status : {"OPEN", "BLOCKED", "DELIVERED"}, repair : {FALSE}])
    /\ \A n \in DOMAIN p : p[n].parent # None => p[n].parent \in 1 .. n - 1
    /\ G!WellFormed(p)

storageVars == <<profile, revision, records, objects, gens, blobs, index, work, plan, lapsed>>
connectedVars == <<flow, combo, rooted, view, pub, cli, reader, seen, recorded>>
goalVars == <<first, progress, bindings, sup>>
outcomeVars == <<source, report, synthesis, attempts, facts, bound, stopped, route, context>>
handoffVars == <<native, object, metadata, record, ack, giver, taker, lock>>
queueVars == <<item, turn, now, worker, accepted>>
navigationVars == <<chats, notes, projections, answered>>
replicaVars == <<events, state, branch, pushed, error, receipt, sync, syncs>>
vars == <<focus, storageVars, connectedVars, goalVars, outcomeVars, handoffVars, queueVars,
          navigationVars, replicaVars>>

\* Several initial states only where they matter.
Init ==
  /\ focus \in {"storage", "connected", "goal", "outcome", "handoff", "queue", "navigation",
                "replica"}
  /\ A!Init /\ C!Init /\ G!Init /\ H!Init /\ O!Init /\ Q!Init /\ N!Init /\ R!Init
  /\ focus # "handoff" => native = <<CHOOSE r \in Routes : TRUE>>
  /\ focus # "goal" => first = CHOOSE p \in Plans : TRUE
  /\ focus # "outcome" => /\ source = [o \in Outcomes |-> CHOOSE c \in Sources[o] : TRUE]
                          /\ bound = CHOOSE o \in Outcomes : TRUE

Next ==
  /\ UNCHANGED focus
  /\ \/ /\ focus = "storage" /\ A!Next
        /\ UNCHANGED <<connectedVars, goalVars, outcomeVars, handoffVars,
                       queueVars, navigationVars, replicaVars>>
     \/ /\ focus = "connected" /\ C!Next
        /\ UNCHANGED <<storageVars, goalVars, outcomeVars, handoffVars,
                       queueVars, navigationVars, replicaVars>>
     \/ /\ focus = "goal" /\ G!Next
        /\ UNCHANGED <<storageVars, connectedVars, outcomeVars, handoffVars,
                       queueVars, navigationVars, replicaVars>>
     \/ /\ focus = "outcome" /\ O!Next
        /\ UNCHANGED <<storageVars, connectedVars, goalVars, handoffVars,
                       queueVars, navigationVars, replicaVars>>
     \/ /\ focus = "handoff" /\ H!Next
        /\ UNCHANGED <<storageVars, connectedVars, goalVars, outcomeVars,
                       queueVars, navigationVars, replicaVars>>
     \/ /\ focus = "queue" /\ Q!Next
        /\ UNCHANGED <<storageVars, connectedVars, goalVars, outcomeVars,
                       handoffVars, navigationVars, replicaVars>>
     \/ /\ focus = "navigation" /\ N!Next
        /\ UNCHANGED <<storageVars, connectedVars, goalVars, outcomeVars,
                       handoffVars, queueVars, replicaVars>>
     \/ /\ focus = "replica" /\ R!Next
        /\ UNCHANGED <<storageVars, connectedVars, goalVars, outcomeVars,
                       handoffVars, queueVars, navigationVars>>

Spec == Init /\ [][Next]_vars

\* The types of the component that runs; Replica states none.
TypeOK ==
  CASE focus = "storage" -> A!TypeOK
    [] focus = "connected" -> C!TypeOK
    [] focus = "goal" -> G!TypeOK
    [] focus = "outcome" -> O!TypeOK
    [] focus = "handoff" -> H!TypeOK
    [] focus = "queue" -> Q!TypeOK
    [] focus = "navigation" -> N!ValidIndex
    [] OTHER -> TRUE

\* adaptive_storage.py: what is named is stored, and indexes agree with records.
StorageSound == focus = "storage" => A!NothingDangles /\ A!SearchAgrees

\* connected_state.py and combo.py: completions stay findable through every
\* race of publisher and owner, and a lock-free CURRENT was true.
RoadmapsRemembered == focus = "connected" => C!CompletionsFindable /\ C!CurrentWasTrue

\* goal_progress.py: no outcome is closed by its repairs, and no recovery makes
\* the hierarchy wait for itself.
GoalsKept == focus = "goal" => G!OutcomesKept /\ G!NeverStuck

\* outcome_coverage.py and goal_followup.py: complete only when it is, no blind
\* repetition, and no handing back and forth.
GoalsTrue == focus = "outcome" => O!CompleteIsTrue /\ O!NoBlindRepeat /\ O!RebindProgresses

\* session_continuity.py: a target resumes only what was handed over, and a
\* source leaves only what is resumed or ended.
HandoffSound == focus = "handoff" => H!ResumedFromHandover /\ H!IdleIsCovered

\* scale_assurance.py and navigation.py: a lease has one answer and no item is
\* lost; a key is one chat and a rollover has one successor, retries included.
GivenOnce ==
  /\ focus = "queue" => Q!OneAnswer /\ Q!NothingLost
  /\ focus = "navigation" => N!OneSuccessor

\* continuity_sync.py: pushes lose nothing, the replica never goes back, and the
\* commit a receipt names is on the branch and no older than what was previewed.
ReplicaSound == focus = "replica" => R!NothingOverwritten /\ R!NeverGoesBack /\ R!ReceiptTrue
=============================================================================
