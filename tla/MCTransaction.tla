--------------------------- MODULE MCTransaction ---------------------------
(***************************************************************************)
(* TLC instances of Transaction.  Two targets are enough to see a partly   *)
(* restored bundle; two contents tell a rewritten file from the original.  *)
(***************************************************************************)
EXTENDS Transaction, TLC

CONSTANTS t1, t2, v1, v2

Symmetry == Permutations(Targets) \cup Permutations(Values)
=============================================================================
