--------------------------- MODULE AtomicMutation ---------------------------
(***************************************************************************)
(* What writer_transaction and recover_workspace promise to everybody who  *)
(* looks at the managed files while no transaction is open: a mutation     *)
(* either takes effect as a whole or leaves no trace, and the record it is *)
(* archived under says which.  Where a rollback or a completion can itself *)
(* fail, a mutation may also be abandoned: then targets hold whatever it   *)
(* had come to, and its journal is never archived.                         *)
(***************************************************************************)
CONSTANTS Targets, Contents,  \* managed files and what they may hold
          MayAbandon          \* can the end of a mutation fail?

VARIABLES store,   \* store[t]: the official content of target t
          open,    \* is a mutation in progress, or interrupted?
          outcome, \* what the archive says of the last mutation
          unfinished  \* has a mutation been abandoned?

TypeOK ==
  /\ store \in [Targets -> Contents]
  /\ open \in BOOLEAN
  /\ outcome \in {"none", "committed", "rolled_back", "abandoned"}
  /\ unfinished \in BOOLEAN

Init ==
  /\ store \in [Targets -> Contents]
  /\ open = FALSE
  /\ outcome = "none"
  /\ unfinished = FALSE

Open ==
  /\ ~open
  /\ open' = TRUE
  /\ outcome' = "none"
  /\ UNCHANGED <<store, unfinished>>

\* The mutation is published: any targets may have changed, all at once.
Commit ==
  /\ open
  /\ open' = FALSE
  /\ outcome' = "committed"
  /\ store' \in [Targets -> Contents]
  /\ UNCHANGED unfinished

\* The mutation is undone, by its own writer or by a recovery.
RollBack ==
  /\ open
  /\ open' = FALSE
  /\ outcome' = "rolled_back"
  /\ UNCHANGED <<store, unfinished>>

\* Its lock is given back before it has ended.
Abandon ==
  /\ MayAbandon /\ open
  /\ open' = FALSE
  /\ outcome' = "abandoned"
  /\ unfinished' = TRUE
  /\ store' \in [Targets -> Contents]

Next == Open \/ Commit \/ RollBack \/ Abandon

Spec == Init /\ [][Next]_<<store, open, outcome, unfinished>>
=============================================================================
