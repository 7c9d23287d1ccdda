------------------------- MODULE MCContinuityStore -------------------------
(***************************************************************************)
(* TLC instances of ContinuityStore.  Two assignments that do not wait for *)
(* each other, the first of them skippable, give every way a flow can end; *)
(* two strategies fill the four stages with and without a repetition.      *)
(***************************************************************************)
EXTENDS ContinuityStore, TLC

CONSTANTS h1, h2

Independent == << {}, {} >>
Chained == << {}, {1} >>
Ranks == << 0, 1 >>
FirstStandalone == << "STANDALONE", "CHAIN" >>

Everything == {"pass", "fail", "claim", "checkpoint", "park", "return"}
GivesAll == [h \in Hosts |-> Everything]

\* One host works and fails, the other passes what it has claimed.
GivesAdvances == [h \in Hosts |-> IF h = h1 THEN {"pass", "fail"} ELSE {"pass", "claim"}]

Symmetry == Permutations(Hosts)
=============================================================================
