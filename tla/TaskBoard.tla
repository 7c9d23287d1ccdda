------------------------------ MODULE TaskBoard -----------------------------
(***************************************************************************)
(* What the task commands promise to somebody who only looks at statuses:  *)
(* every task walks through its life one legal move at a time, and a task  *)
(* is proposed only when all the others are finally closed.                *)
(***************************************************************************)
CONSTANTS Tasks

VARIABLES status  \* status[t]: "none" until t is proposed

Terminal == {"CLOSED", "CANCELLED", "SUPERSEDED"}

\* From each status the ones a command may lead to; any open task may also be
\* cancelled or superseded.
Moves ==
  { <<"AWAITING_OWNER_APPROVAL", "APPROVED_FOR_EXECUTION">>,
    <<"APPROVED_FOR_EXECUTION", "IN_EXECUTION">>,
    <<"IN_EXECUTION", "BLOCKED">>,
    <<"IN_EXECUTION", "RESULT_READY">>,
    <<"RESULT_READY", "AWAITING_OWNER_ACCEPTANCE">>,
    <<"RESULT_READY", "RETURNED">>,
    <<"AWAITING_OWNER_ACCEPTANCE", "OWNER_ACCEPTED">>,
    <<"AWAITING_OWNER_ACCEPTANCE", "RETURNED">>,
    <<"OWNER_ACCEPTED", "CLOSED">> }

Finished(t) == status[t] \in Terminal \cup {"none"}

Init ==
  /\ status \in [Tasks -> {"none", "AWAITING_OWNER_APPROVAL"}]
  /\ \A t, u \in Tasks : Finished(t) \/ Finished(u) \/ t = u

Propose(t) ==
  /\ status[t] = "none"
  /\ \A u \in Tasks : Finished(u)
  /\ status' = [status EXCEPT ![t] = "AWAITING_OWNER_APPROVAL"]

Move(t) ==
  \E to \in {m[2] : m \in Moves} \cup {"CANCELLED", "SUPERSEDED"} :
    /\ ~Finished(t)
    /\ <<status[t], to>> \in Moves \/ to \in {"CANCELLED", "SUPERSEDED"}
    /\ status' = [status EXCEPT ![t] = to]

Next == \E t \in Tasks : Propose(t) \/ Move(t)

Spec == Init /\ [][Next]_status
=============================================================================
