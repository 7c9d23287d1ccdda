---------------------------- MODULE GoalOutcomes ----------------------------
(***************************************************************************)
(* Whether a bound goal goes on, outcome_coverage.py and goal_followup.py: *)
(* reports derived from one source per outcome, the matrix that integrates *)
(* them, the log of failed attempts, and compile_goal_context, which turns *)
(* both and the native route into one decision.                            *)
(*                                                                         *)
(* A source is what its query tells apart: how many records it holds,      *)
(* whether the first lacks a required field, whether it is a finding.  All *)
(* queries make claims under one key.  The facts of an outcome's action    *)
(* stand for its capabilities and preconditions.                           *)
(***************************************************************************)
EXTENDS Naturals, Sequences, FiniteSets

CONSTANTS
  Outcomes,     \* numbered in the order of their names
  Waits,        \* Waits[o]: the outcomes the leaf of o depends on
  Sources,      \* Sources[o]: the contents the source of o can have
  MaxAttempts,  \* 3 in the code
  MaxFacts,     \* bound on how often the facts of an action change
  None

VARIABLES
  source, report,  \* for each outcome
  synthesis,       \* the reports the synthesis binds, or None
  attempts,        \* for each outcome, the facts of its failed attempts
  facts,           \* the facts of each outcome's action now
  bound,           \* the outcome of the bound action
  stopped,         \* the owner stopped the goal
  route,           \* decide_finalization of the native capsule
  context          \* the last answer of compile_goal_context

vars == <<source, report, synthesis, attempts, facts, bound, stopped, route, context>>

(***************************************************************************)
(* outcome_coverage.py                                                     *)
(***************************************************************************)
\* _derive_report, for the first n records of a source.
Derive(s, n) ==
  [of |-> s, inspected |-> n,
   status |-> IF n > 0 /\ s.gap THEN "BLOCKED"
              ELSE IF n # s.size THEN "PARTIAL"
              ELSE "DELIVERED",
   finding |-> n > 0 /\ s.hit /\ ~s.gap]

\* verify_outcome_source: the report is what the source of now derives.
Verified(o) == report[o] # None => report[o].of = source[o]

Matrix(o) == IF report[o] = None THEN "NOT_ASSESSED" ELSE report[o].status

Reported == {o \in Outcomes : report[o] # None}
Claims == {report[o].finding : o \in {p \in Reported : report[p].status = "DELIVERED"}}

ProofBinds == synthesis = report

\* integrate_outcomes
TechnicallyComplete ==
  /\ \A o \in Outcomes : Matrix(o) = "DELIVERED"
  /\ Cardinality(Claims) <= 1
  /\ synthesis # None /\ ProofBinds

(***************************************************************************)
(* goal_followup.py                                                        *)
(***************************************************************************)
Recovery(o) ==
  LET mine == attempts[o] IN
    CASE stopped -> "OWNER_STOP"
      [] ~stopped /\ Len(mine) >= MaxAttempts -> "RECOVERY_EXHAUSTED"
      [] ~stopped /\ Len(mine) \in 1 .. MaxAttempts - 1 /\ mine[Len(mine)] = facts[o] ->
           "SUPPRESS_UNCHANGED"
      [] OTHER -> "CONTINUE"

Open == {o \in Outcomes : Matrix(o) # "DELIVERED"}

\* The leaves of the hierarchy are delivered with their reports.
ReadyOutcomes == {o \in Open : Waits[o] \cap Open = {}}

IndependentOfBound == ReadyOutcomes \ {bound}  \* forgets what failed before

Independent == {o \in ReadyOutcomes : attempts[o] = << >>}

LeastOf(S) == CHOOSE x \in S : \A y \in S : x <= y

\* compile_goal_context; it refuses when a report is no longer true.
Decision ==
  LET recovery == Recovery(bound)
      tried == recovery \in {"SUPPRESS_UNCHANGED", "RECOVERY_EXHAUSTED"}
      blocked(why) == [decision |-> "BLOCKED", reason |-> why, next |-> None]
  IN CASE recovery = "OWNER_STOP" -> blocked("OWNER_STOP")
       [] route = "COMPLETE_ROADMAP" /\ ~stopped /\ ~TechnicallyComplete ->
            blocked("OPEN_ORIGINAL_OUTCOMES")
       [] route = "CONTINUE" /\ tried /\ Independent # {} ->
            [decision |-> "CONTINUE", reason |-> "REBIND_INDEPENDENT_OUTCOME",
             next |-> LeastOf(Independent)]
       [] route = "CONTINUE" /\ tried /\ Independent = {} -> blocked(recovery)
       [] route = "CONTINUE" /\ recovery = "CONTINUE" /\ ReadyOutcomes = {} /\ ~TechnicallyComplete ->
            blocked("NO_READY_ORIGINAL_OUTCOME")
       [] OTHER -> [decision |-> route, reason |-> "BASE",
                    next |-> IF route = "CONTINUE" THEN bound ELSE None]

Init ==
  /\ source \in [Outcomes -> UNION {Sources[o] : o \in Outcomes}]
  /\ \A o \in Outcomes : source[o] \in Sources[o]
  /\ report = [o \in Outcomes |-> None]
  /\ synthesis = None /\ attempts = [o \in Outcomes |-> << >>]
  /\ facts = [o \in Outcomes |-> 0]
  /\ bound \in Outcomes
  /\ stopped = FALSE /\ route = "CONTINUE" /\ context = None

(***************************************************************************)
(* The supervisor                                                          *)
(***************************************************************************)
Compile ==
  /\ \A o \in Outcomes : Verified(o)
  /\ context' = Decision
  /\ UNCHANGED <<source, report, synthesis, attempts, facts, bound, stopped, route>>

\* The binding follows an answer that names another outcome.
Rebind ==
  /\ context # None /\ context.next \notin {None, bound}
  /\ bound' = context.next /\ context' = None
  /\ UNCHANGED <<source, report, synthesis, attempts, facts, stopped, route>>

\* run_source_query asks enforce_goal_followup and the native route.
Allowed == Recovery(bound) = "CONTINUE" /\ route = "CONTINUE"

Query(n) ==
  /\ Allowed /\ n <= source[bound].size
  /\ report' = [report EXCEPT ![bound] = Derive(source[bound], n)]
  /\ context' = None
  /\ UNCHANGED <<source, synthesis, attempts, facts, bound, stopped, route>>

QueryFails ==
  /\ Allowed /\ bound \in Open
  /\ attempts' = [attempts EXCEPT ![bound] = Append(@, facts[bound])]
  /\ context' = None
  /\ UNCHANGED <<source, report, synthesis, facts, bound, stopped, route>>

Synthesize ==
  /\ synthesis' = report /\ synthesis # report /\ context' = None
  /\ UNCHANGED <<source, report, attempts, facts, bound, stopped, route>>

(***************************************************************************)
(* Everybody else: the sources, the facts, the native store, the owner     *)
(***************************************************************************)
SourceChanges(o) ==
  /\ source' \in {[source EXCEPT ![o] = s] : s \in Sources[o]} /\ source' # source
  /\ context' = None
  /\ UNCHANGED <<report, synthesis, attempts, facts, bound, stopped, route>>

FactsChange(o) ==
  /\ facts[o] < MaxFacts
  /\ facts' = [facts EXCEPT ![o] = @ + 1] /\ context' = None
  /\ UNCHANGED <<source, report, synthesis, attempts, bound, stopped, route>>

NativeAdvances ==
  /\ route' \in {"COMPLETE_ROADMAP", "REQUEST_OWNER"} /\ route = "CONTINUE" /\ context' = None
  /\ UNCHANGED <<source, report, synthesis, attempts, facts, bound, stopped>>

OwnerStops ==
  /\ ~stopped /\ stopped' = TRUE /\ context' = None
  /\ UNCHANGED <<source, report, synthesis, attempts, facts, bound, route>>

Next ==
  \/ Compile \/ Rebind \/ QueryFails \/ Synthesize \/ NativeAdvances \/ OwnerStops
  \/ \E n \in 0 .. 1 : Query(n)
  \/ \E o \in Outcomes : SourceChanges(o) \/ FactsChange(o)

Spec == Init /\ [][Next]_vars

(***************************************************************************)
(* Properties                                                              *)
(***************************************************************************)
TypeOK ==
  /\ \A o \in Outcomes : source[o] \in Sources[o]
  /\ bound \in Outcomes
  /\ facts \in [Outcomes -> 0 .. MaxFacts] /\ stopped \in BOOLEAN

\* COMPLETE is answered only when every original outcome rests on a full look
\* at the source as it is, the claims agree, and the synthesis read exactly
\* these reports.
CompleteIsTrue ==
  context # None /\ context.decision = "COMPLETE_ROADMAP" =>
    /\ \A o \in Outcomes : report[o] = Derive(source[o], source[o].size)
    /\ \A o \in Outcomes : ~source[o].gap \/ source[o].size = 0
    /\ \A o, p \in Outcomes : report[o].finding = report[p].finding
    /\ \A o \in Outcomes : synthesis[o] = report[o]

\* The same action is not tried again on the same facts, nor a fourth time.
NoBlindRepeat ==
  \A o \in Outcomes : LET mine == attempts[o] IN
    /\ Len(mine) <= MaxAttempts
    /\ \A i \in 1 .. Len(mine) - 1 : mine[i] # mine[i + 1]

\* An answer that names another outcome names one that can be worked on, so
\* two outcomes that both failed are not handed back and forth; and it gives
\* up for failed attempts only when every ready outcome was tried.
RebindProgresses ==
  context # None =>
    /\ context.reason = "REBIND_INDEPENDENT_OUTCOME" =>
         context.next \in Open /\ Recovery(context.next) = "CONTINUE"
    /\ context.reason \in {"SUPPRESS_UNCHANGED", "RECOVERY_EXHAUSTED"} =>
         \A o \in ReadyOutcomes : attempts[o] # << >>
=============================================================================
