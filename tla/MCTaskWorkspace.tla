-------------------------- MODULE MCTaskWorkspace ---------------------------
(***************************************************************************)
(* TLC instances of TaskWorkspace.  Two processes and two tasks show every *)
(* pair of commands; the kinds of a run pick the commands that race.       *)
(***************************************************************************)
EXTENDS TaskWorkspace, TLC

CONSTANTS p1, p2, t1, t2

Symmetry == Permutations(Procs)
=============================================================================
