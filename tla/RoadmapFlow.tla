---------------------------- MODULE RoadmapFlow ----------------------------
(***************************************************************************)
(* What the continuity store promises its hosts: a roadmap is worked off   *)
(* one assignment at a time, in dependency order.  An assignment leaves    *)
(* the flow by passing or, if nothing depends on it, by being skipped      *)
(* after bounded failures; a flow with a skipped or an exhausted           *)
(* assignment never counts as complete, and a blocked flow stays blocked.  *)
(***************************************************************************)
EXTENDS Naturals

CONSTANTS Assignments, DependsOn, Standalone, MaxFailures

VARIABLES status, current, done, skipped, failures

vars == <<status, current, done, skipped, failures>>

None == 0

\* The assignments that may be worked on once d have passed and s are skipped.
Ready(d, s) == {a \in Assignments \ (d \cup s) : DependsOn[a] \subseteq d}

Active == status \in {"RUNNING", "RECOVERY_REQUIRED"}

Init ==
  /\ status = "none"
  /\ current = None
  /\ done = {}
  /\ skipped = {}
  /\ failures = 0

\* A new roadmap starts, for the first time or after a complete one.
Start ==
  /\ status \in {"none", "COMPLETE"}
  /\ status' = "RUNNING"
  /\ current' \in Ready({}, {})
  /\ done' = {}
  /\ skipped' = {}
  /\ failures' = 0

\* The completed roadmap has been archived, the next one has not started.
Archive ==
  /\ status = "COMPLETE"
  /\ status' = "none"
  /\ current' = None
  /\ done' = {}
  /\ skipped' = {}
  /\ failures' = 0

\* The next ready assignment is selected; without one the flow ends, and it is
\* complete only if every assignment has passed.
SelectNext ==
  /\ failures' = 0
  /\ \/ status' = "RUNNING" /\ current' \in Ready(done', skipped')
     \/ /\ current' = None
        /\ Ready(done', skipped') = {}
        /\ status' = IF done' = Assignments THEN "COMPLETE" ELSE "BLOCKED"

Pass ==
  /\ Active
  /\ done' = done \cup {current}
  /\ skipped' = skipped
  /\ SelectNext

Skip ==
  /\ Active
  /\ current \in Standalone
  /\ failures = MaxFailures - 1
  /\ done' = done
  /\ skipped' = skipped \cup {current}
  /\ SelectNext

Fail ==
  /\ Active
  /\ failures' \in {failures, failures + 1}
  /\ failures' <= MaxFailures
  /\ status' = "BLOCKED" \/ (status' = "RECOVERY_REQUIRED" /\ failures' > failures)
  /\ UNCHANGED <<current, done, skipped>>

Next == Start \/ Archive \/ Pass \/ Skip \/ Fail

Spec == Init /\ [][Next]_vars
=============================================================================
