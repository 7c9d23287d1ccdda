------------------------------ MODULE Replica -------------------------------
(***************************************************************************)
(* The optional replica of the continuity store in a Git repository,       *)
(* continuity_sync.py.  A run reads the store three times: for the preview,*)
(* for the preview that apply_sync compares with it, and for the files it  *)
(* pushes.  Then it checks them while they are copied, pushes without      *)
(* force, reads the head back and writes a receipt.  No lock is taken:     *)
(* native writers append to the store, other people push to the branch,    *)
(* and several processes synchronise at once.                              *)
(*                                                                         *)
(* The store is its event files and its state file, each as the number of  *)
(* events it holds; the branch is the sequence of its commits.             *)
(***************************************************************************)
EXTENDS Naturals, Sequences, FiniteSets

CONSTANTS
  Syncers,
  MaxEvents, MaxForeign, MaxSyncs,  \* bounds
  None

VARIABLES
  events, state,  \* the store
  branch,         \* commits: who made it, the replica it holds
  pushed,         \* every commit that was accepted, with its place (history)
  error,          \* sync/last-error.json exists
  receipt,        \* sync/last-receipt.json
  sync,           \* sync[s]: what process s does
  syncs           \* how many were started

vars == <<events, state, branch, pushed, error, receipt, sync, syncs>>

Idle == [at |-> "idle"]
Empty == <<0, 0>>
Tip == Len(branch)
ReplicaAt(b) == IF b = 0 THEN Empty ELSE branch[b].replica

Init ==
  /\ events = 1 /\ state = 1
  /\ branch = << >> /\ pushed = {}
  /\ error = FALSE /\ receipt = None
  /\ sync = [s \in Syncers |-> Idle]
  /\ syncs = 0

\* The native writer: the event, then the state.
WriteEvent ==
  /\ events = state /\ events < MaxEvents
  /\ events' = events + 1
  /\ UNCHANGED <<state, branch, pushed, error, receipt, sync, syncs>>

WriteState ==
  /\ events # state
  /\ state' = events
  /\ UNCHANGED <<events, branch, pushed, error, receipt, sync, syncs>>

Accepted(who, replica) ==
  /\ branch' = Append(branch, [by |-> who, replica |-> replica])
  /\ pushed' = pushed \cup {<<Tip + 1, who, replica>>}

\* Somebody else pushes to the branch, outside the directory of the replica.
ForeignPush ==
  /\ Cardinality({p \in pushed : p[2] = None}) < MaxForeign
  /\ Accepted(None, ReplicaAt(Tip))
  /\ UNCHANGED <<events, state, error, receipt, sync, syncs>>

(***************************************************************************)
(* build_sync_preview and apply_sync                                       *)
(***************************************************************************)
\* health_report counts the events before it reads the state, and an event of
\* one is followed by the state of the same: when both agree there was a moment
\* at which they did.
Healthy == events = state

\* `opencntx continuity sync preview`, or a checkpoint.  A recorded error stops
\* only the checkpoint, which then does nothing; the command runs in spite of it.
Begin(s) ==
  /\ sync[s] = Idle /\ syncs < MaxSyncs
  /\ sync' = [sync EXCEPT ![s] = [at |-> "health", round |-> 1, seen |-> Empty,
                                  preview |-> Empty, base |-> 0]]
  /\ syncs' = syncs + 1
  /\ UNCHANGED <<events, state, branch, pushed, error, receipt>>

\* _candidates: the health check; later the names of the files; later still the
\* state file, which comes after the events in the order of the names.
CheckHealth(s) ==
  /\ sync[s].at = "health" /\ Healthy
  /\ sync' = [sync EXCEPT ![s].at = "list"]
  /\ UNCHANGED <<events, state, branch, pushed, error, receipt, syncs>>

ListEvents(s) ==
  /\ sync[s].at = "list"
  /\ sync' = [sync EXCEPT ![s].at = "state", ![s].seen = <<events, 0>>]
  /\ UNCHANGED <<events, state, branch, pushed, error, receipt, syncs>>

\* The third reading is pushed on top of the head of the second.
ReadState(s) ==
  /\ sync[s].at = "state"
  /\ sync' = [sync EXCEPT ![s].at = IF sync[s].round = 3 THEN "copy" ELSE "head",
                          ![s].seen = <<sync[s].seen[1], state>>]
  /\ UNCHANGED <<events, state, branch, pushed, error, receipt, syncs>>

Preview(s) ==
  /\ sync[s].at = "head" /\ sync[s].round = 1
  /\ sync' = [sync EXCEPT ![s].at = "health", ![s].round = 2,
                          ![s].preview = sync[s].seen, ![s].base = Tip]
  /\ UNCHANGED <<events, state, branch, pushed, error, receipt, syncs>>

\* The digests of the two previews are the same.
Recheck(s) ==
  /\ sync[s].at = "head" /\ sync[s].round = 2
  /\ sync[s].seen = sync[s].preview /\ sync[s].base = Tip
  /\ sync' = [sync EXCEPT ![s].at = "health", ![s].round = 3]
  /\ UNCHANGED <<events, state, branch, pushed, error, receipt, syncs>>

\* _materialize: event files never change; the state file must not have.
Materialize(s) ==
  /\ sync[s].at = "copy" /\ sync[s].seen[2] = state
  /\ sync' = [sync EXCEPT ![s].at = IF sync[s].seen = ReplicaAt(sync[s].base)
                                    THEN "readback" ELSE "push"]
  /\ UNCHANGED <<events, state, branch, pushed, error, receipt, syncs>>

PushForced(s) ==  \* --force: the branch becomes what was cloned and the commit
  /\ sync[s].at = "push"
  /\ branch' = Append(SubSeq(branch, 1, sync[s].base), [by |-> s, replica |-> sync[s].seen])
  /\ pushed' = pushed \cup {<<sync[s].base + 1, s, sync[s].seen>>}
  /\ sync' = [sync EXCEPT ![s].at = "readback", ![s].base = @ + 1]
  /\ UNCHANGED <<events, state, error, receipt, syncs>>

\* Accepted only on top of the head it was cloned from.
Push(s) ==
  /\ sync[s].at = "push" /\ sync[s].base = Tip
  /\ Accepted(s, sync[s].seen)
  /\ sync' = [sync EXCEPT ![s].at = "readback", ![s].base = @ + 1]
  /\ UNCHANGED <<events, state, error, receipt, syncs>>

Readback(s) ==
  /\ sync[s].at = "readback" /\ sync[s].base = Tip
  /\ sync' = [sync EXCEPT ![s].at = "receipt"]
  /\ UNCHANGED <<events, state, branch, pushed, error, receipt, syncs>>

\* The digest, the number of files and of bytes are those of the preview, the
\* commit holds the files of the third reading.
WriteReceipt(s) ==
  /\ sync[s].at = "receipt"
  /\ receipt' = [commit |-> sync[s].base, previewed |-> sync[s].preview]
  /\ sync' = [sync EXCEPT ![s].at = "clear"]
  /\ UNCHANGED <<events, state, branch, pushed, error, syncs>>

ClearError(s) ==
  /\ sync[s].at = "clear"
  /\ error' = FALSE /\ sync' = [sync EXCEPT ![s] = Idle]
  /\ UNCHANGED <<events, state, branch, pushed, receipt, syncs>>

\* Any refusal, and any answer of Git that is lost.  A checkpoint records it
\* (record_sync_error); the command only reports it.
Fails(s) ==
  /\ sync[s].at \in {"health", "head", "copy", "push", "readback"}
  /\ error' \in {error, TRUE} /\ sync' = [sync EXCEPT ![s] = Idle]
  /\ UNCHANGED <<events, state, branch, pushed, receipt, syncs>>

\* The owner configures the replica anew.
ConfigureSync ==
  /\ error /\ error' = FALSE
  /\ UNCHANGED <<events, state, branch, pushed, receipt, sync, syncs>>

Killed(s) ==
  /\ sync[s] # Idle
  /\ sync' = [sync EXCEPT ![s] = Idle]
  /\ UNCHANGED <<events, state, branch, pushed, error, receipt, syncs>>

Next ==
  \/ WriteEvent \/ WriteState \/ ForeignPush \/ ConfigureSync
  \/ \E s \in Syncers :
       \/ Begin(s) \/ CheckHealth(s) \/ ListEvents(s) \/ ReadState(s)
       \/ Preview(s) \/ Recheck(s) \/ Materialize(s) \/ Push(s)
       \/ Readback(s) \/ WriteReceipt(s) \/ ClearError(s) \/ Fails(s) \/ Killed(s)

Spec == Init /\ [][Next]_vars

(***************************************************************************)
(* Properties                                                              *)
(***************************************************************************)
\* No commit that was accepted leaves the branch, whoever made it.
NothingOverwritten == \A p \in pushed : p[1] <= Tip /\ branch[p[1]] = [by |-> p[2], replica |-> p[3]]

\* Two things keep the replica from going back: the head of the second reading is
\* taken before the files of the third are read, and git refuses a push onto any
\* other head.  So a process that was overtaken, while it read or while it copied,
\* never puts an older store over a newer one.
NeverGoesBack ==
  \A b \in 1 .. Tip - 1 : /\ branch[b].replica[1] <= branch[b + 1].replica[1]
                           /\ branch[b].replica[2] <= branch[b + 1].replica[2]

\* The receipt names a commit the branch still has, and that commit is not older
\* than what the receipt describes.  It may well be newer: a native write after the
\* second reading is in the commit, but not in the receipt's digest and counts.
ReceiptTrue == receipt # None =>
  /\ receipt.commit <= Tip
  /\ receipt.previewed[1] <= ReplicaAt(receipt.commit)[1]
  /\ receipt.previewed[2] <= ReplicaAt(receipt.commit)[2]
=============================================================================
