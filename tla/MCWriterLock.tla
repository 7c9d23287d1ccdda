---------------------------- MODULE MCWriterLock ----------------------------
(***************************************************************************)
(* TLC instances of WriterLock.  Writers are killed and restarted at will; *)
(* inodes and lock ids are interchangeable, and so are the writers.        *)
(***************************************************************************)
EXTENDS WriterLock, TLC

CONSTANTS w1, w2, d1, r1  \* the processes, shared out by each cfg

\* One inode per open file and one for the path: a fresh one always exists.
Symmetry == Permutations(Inodes) \cup Permutations(LockIds)
SymmetryWriters == Symmetry \cup Permutations(Writers)
=============================================================================
