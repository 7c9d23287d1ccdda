---------------------------- MODULE GoalProgress ---------------------------
(***************************************************************************)
(* The hierarchy behind a bound goal, goal_progress.py: leaves that own    *)
(* outcomes, recoveries that split a leaf into a repair and a resumption,  *)
(* and the supervisors that load it, change it and bind it again to the    *)
(* native store by a compare-and-swap on the state they were bound to.     *)
(*                                                                         *)
(* Nodes are numbered in the order they come into being; 1 is the root.    *)
(* The texts of actions, the evidence and the digests that bind a value to *)
(* its request are left out: every value here is of the one request.       *)
(* Supervisors give build_goal_progress the progress they have loaded.     *)
(* Refusals that keep a hierarchy small are left out: recovery_round of    *)
(* the native store, fifty nodes, eight levels.  So more may happen here.  *)
(***************************************************************************)
EXTENDS Naturals, FiniteSets

CONSTANTS
  Supervisors,
  Plans,       \* first hierarchies: node n of plan p is p[n]
  MaxRepairs,  \* 3 in the code
  MaxState,    \* bound on the events of the native store
  None

VARIABLES
  first,     \* the first hierarchy of the goal
  progress,  \* the hierarchy the last native checkpoint binds, with the outcomes that
             \* were worked off, and those finish_recovery closed (history)
  state,     \* the revision of the native store
  sup        \* sup[s]: what supervisor s has loaded and built

vars == <<first, progress, state, sup>>

Idle == [base |-> None]

Leaves(ns) == {n \in DOMAIN ns : ns[n].children = {}}
Repairs(ns) == {n \in DOMAIN ns : ns[n].repair}

Ancestors(ns, n) ==
  LET up[m \in DOMAIN ns] ==
        {m} \cup IF ns[m].parent = None THEN {} ELSE up[ns[m].parent]
  IN up[n]

\* progress_readiness: an open leaf none of whose ancestors is blocked or waits.
Ready(ns) ==
  {n \in Leaves(ns) :
     /\ ns[n].status = "OPEN"
     /\ \A a \in Ancestors(ns, n) :
          /\ ns[a].status # "BLOCKED"
          /\ \A d \in ns[a].dependsOn : ns[d].status = "DELIVERED"}

OpenOutcomes(ns) ==
  UNION {ns[n].outcomes : n \in {m \in Leaves(ns) : ns[m].status # "DELIVERED"}}

\* _nodes and _acyclic: children cover what their parent owns, every node hangs
\* below the root, and no ancestor waits for its own descendant.  Cycles among the
\* dependencies alone are refused too, but only new leaves get new dependencies.
WellFormed(ns) ==
  /\ \A n \in DOMAIN ns \ {1} : ns[n].parent \in DOMAIN ns /\ n \in ns[ns[n].parent].children
  /\ \A n \in DOMAIN ns : \A c \in ns[n].children : c \in DOMAIN ns /\ ns[c].parent = n
  /\ \A n \in DOMAIN ns : ns[n].children # {} =>
       ns[n].outcomes = UNION {ns[c].outcomes : c \in ns[n].children}
  /\ \A n \in DOMAIN ns : \A a \in Ancestors(ns, n) \ {n} :
       1 \in Ancestors(ns, n) /\ n \notin ns[a].dependsOn /\ a \notin ns[n].dependsOn

\* build_goal_progress keeps the repairs it was given.
Keeps(before, ns) ==
  \A n \in Repairs(before) : n \in Repairs(ns) /\ ns[n].parent = before[n].parent

Init ==
  /\ first \in Plans
  /\ progress = [nodes |-> first, worked |-> first[1].outcomes \ OpenOutcomes(first),
                 named |-> {}]
  /\ state = 0
  /\ sup = [s \in Supervisors |-> Idle]

(***************************************************************************)
(* load_goal_progress, for a goal bound to the current state               *)
(***************************************************************************)
Load(s) ==
  /\ sup[s] = Idle
  /\ sup' = [sup EXCEPT ![s] = [base |-> state, old |-> progress.nodes,
                               nodes |-> progress.nodes, worked |-> progress.worked,
                               named |-> progress.named]]
  /\ UNCHANGED <<first, progress, state>>

Fresh(s) == sup[s].base # None /\ sup[s].nodes = sup[s].old

Build(s, ns, worked, named) ==
  /\ WellFormed(ns) /\ Keeps(sup[s].old, ns)
  /\ sup' = [sup EXCEPT ![s].nodes = ns, ![s].worked = @ \cup worked, ![s].named = @ \cup named]
  /\ UNCHANGED <<first, progress, state>>

\* begin_recovery: what the leaf depends on and its outcomes stay where they are.
\* The resumption takes over the action of the leaf: that of a repair is a repair.
Split(ns, n, testOnly) ==
  LET r == Cardinality(DOMAIN ns) + 1
      child == [ns[n] EXCEPT !.parent = n, !.children = {}, !.dependsOn = {},
                            !.status = "OPEN"]
  IN [m \in 1 .. r + 1 |->
        CASE m = r -> [child EXCEPT !.repair = TRUE,
                                    !.status = IF testOnly THEN "BLOCKED" ELSE "OPEN"]
          [] m = r + 1 -> [child EXCEPT !.dependsOn = {r}]
          [] m = n -> [ns[n] EXCEPT !.children = {r, r + 1}, !.status = "OPEN"]
          [] OTHER -> ns[m]]

BeginRecovery(s, n, testOnly) ==
  /\ Fresh(s) /\ n \in Leaves(sup[s].nodes)
  /\ sup[s].nodes[n].status # "DELIVERED"
  /\ Cardinality(Repairs(sup[s].nodes)) < MaxRepairs
  /\ Build(s, Split(sup[s].nodes, n, testOnly), {}, {})

Deliver(ns, n) == [ns EXCEPT ![n].status = "DELIVERED"]

DeliverBoth(ns, n) ==  \* takes the resumption for done with its repair
  [m \in DOMAIN ns |-> IF m = n \/ n \in ns[m].dependsOn
                       THEN [ns[m] EXCEPT !.status = "DELIVERED"] ELSE ns[m]]

UnderRepair(ns, n) == \E a \in Ancestors(ns, n) : ns[a].repair

\* The outcomes that leaf n closes, when it is delivered and no repair.
Closes(ns, n) ==
  IF n \in Leaves(ns) /\ ns[n].status # "DELIVERED" /\ ~UnderRepair(ns, n)
  THEN ns[n].outcomes ELSE {}

\* finish_recovery asks for a leaf that one beside it waits for, nothing more.
Finished(ns, n) == Deliver(ns, n)

FinishRecovery(s, n) ==
  /\ Fresh(s) /\ n \in Leaves(sup[s].nodes) \ {1}
  /\ \E m \in DOMAIN sup[s].nodes : /\ n \in sup[s].nodes[m].dependsOn
                                    /\ sup[s].nodes[m].parent = sup[s].nodes[n].parent
  /\ Build(s, Finished(sup[s].nodes, n), {}, Closes(sup[s].nodes, n))

\* The owner of the hierarchy delivers a ready leaf, or a node whose children
\* are all delivered, or finds that a leaf is blocked.
DeliverNode(s, n) ==
  /\ Fresh(s) /\ sup[s].nodes[n].status = "OPEN"
  /\ \/ n \in Ready(sup[s].nodes)
     \/ /\ n \notin Leaves(sup[s].nodes)
        /\ \A c \in sup[s].nodes[n].children : sup[s].nodes[c].status = "DELIVERED"
  /\ Build(s, Deliver(sup[s].nodes, n), Closes(sup[s].nodes, n), {})

Block(s, n) ==
  /\ Fresh(s) /\ n \in Ready(sup[s].nodes)
  /\ Build(s, [sup[s].nodes EXCEPT ![n].status = "BLOCKED"], {}, {})

(***************************************************************************)
(* persist_goal_progress                                                   *)
(***************************************************************************)
\* The evidence is prepared first and is inert; the checkpoint binds it only
\* in the state the goal was bound to.
Bind(s) == state = sup[s].base

Persist(s) ==
  /\ sup[s].base # None /\ ~Fresh(s)
  /\ IF Bind(s)
     THEN /\ progress' = [nodes |-> sup[s].nodes, worked |-> sup[s].worked,
                          named |-> sup[s].named]
          /\ state' = state + 1
     ELSE UNCHANGED <<progress, state>>
  /\ sup' = [sup EXCEPT ![s] = Idle]
  /\ UNCHANGED first

\* Another event of the native store; a supervisor that gives up or dies.
NativeEvent ==
  /\ state < MaxState
  /\ state' = state + 1
  /\ UNCHANGED <<first, progress, sup>>

Drop(s) ==
  /\ sup[s] # Idle
  /\ sup' = [sup EXCEPT ![s] = Idle]
  /\ UNCHANGED <<first, progress, state>>

Next ==
  \/ \E s \in Supervisors :
       \/ state < MaxState /\ Load(s)
       \/ Persist(s)
       \/ Drop(s)
       \/ sup[s] # Idle /\ \E n \in DOMAIN sup[s].nodes :
            \/ \E testOnly \in BOOLEAN : BeginRecovery(s, n, testOnly)
            \/ FinishRecovery(s, n) \/ DeliverNode(s, n) \/ Block(s, n)
  \/ NativeEvent

Spec == Init /\ [][Next]_vars

(***************************************************************************)
(* Properties                                                              *)
(***************************************************************************)
\* The last recovery may split a repair, whose resumption counts as well.
TypeOK ==
  /\ first \in Plans
  /\ WellFormed(progress.nodes) /\ state \in 0 .. MaxState + 1
  /\ Cardinality(Repairs(progress.nodes)) <= MaxRepairs + 1

\* An outcome is closed only by work on it, never by the repairs that were made on
\* its way, however they are nested; the exception is a finish_recovery that was
\* given an ordinary leaf, one of no repair, which a leaf beside it waits for.
OutcomesKept ==
  \A o \in first[1].outcomes :
    o \in OpenOutcomes(progress.nodes) \cup progress.worked \cup progress.named

\* Outcomes are open and nothing is blocked, but no leaf is ready and no parent
\* can be closed.
Stuck(ns) ==
  /\ OpenOutcomes(ns) # {} /\ \A n \in Leaves(ns) : ns[n].status # "BLOCKED"
  /\ Ready(ns) = {}
  /\ \A n \in DOMAIN ns \ Leaves(ns) :
       ns[n].status = "OPEN" => \E c \in ns[n].children : ns[c].status # "DELIVERED"

\* What a node waits for, and parts of a hierarchy that wait for themselves.
Needs(ns, n) == ns[n].children \cup UNION {ns[a].dependsOn : a \in Ancestors(ns, n)}

WaitsForItself(ns, T) == T # {} /\ \A n \in T : Needs(ns, n) \cap T # {}

Unfinished(ns) == UNION {Ancestors(ns, n) : n \in {m \in DOMAIN ns : ns[m].status # "DELIVERED"}}

\* Recoveries never make a goal wait for itself.  When it is stuck, the hierarchy it
\* began with had a blocked parent, blocked still, or a part that waits for itself,
\* which is not finished: _acyclic accepts such hierarchies.
NeverStuck ==
  Stuck(progress.nodes) =>
    \/ \E n \in DOMAIN first : /\ first[n].children # {} /\ first[n].status = "BLOCKED"
                              /\ progress.nodes[n].status = "BLOCKED"
    \/ \E T \in SUBSET (DOMAIN first \cap Unfinished(progress.nodes)) : WaitsForItself(first, T)
=============================================================================
