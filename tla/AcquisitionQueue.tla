-------------------------- MODULE AcquisitionQueue --------------------------
(***************************************************************************)
(* The local queue of identities to fetch, scale_assurance.py: workers     *)
(* lease a batch, fetch, and commit a result for every item of it.  Each   *)
(* call is one SQLite transaction that names the revision it expects; a    *)
(* worker takes that from its last answer or from the status, which is     *)
(* read before the transaction begins.                                     *)
(*                                                                         *)
(* Items are numbered in the order of their local ids.  A batch id is the  *)
(* digest of the revision it was leased at; it is that revision here.      *)
(***************************************************************************)
EXTENDS Naturals, FiniteSets

CONSTANTS
  Workers, Items,
  Unidentified,  \* the items without an external id
  Cached,        \* the items in the cache already
  BatchSize, Lease,
  MaxRevision, MaxTime,  \* bounds
  None

VARIABLES
  item,      \* the rows: status, batch, expires
  revision,
  now,
  worker,    \* worker[w]: the revision it knows, its batch and its items
  accepted   \* the workers' answers that were committed: item, batch (history)

vars == <<item, revision, now, worker, accepted>>

Row(status, batch, expires) == [status |-> status, batch |-> batch, expires |-> expires]
NoBatch == [known |-> 0, batch |-> None, items |-> {}]

\* initialize_acquisition_queue: the file is renamed into place when complete.
Init ==
  /\ item = [i \in Items |-> Row(CASE i \in Unidentified -> "REVIEW_REQUIRED"
                                   [] i \in Cached \ Unidentified -> "FETCHED"
                                   [] OTHER -> "PENDING", None, None)]
  /\ revision = 0 /\ now = 1
  /\ worker = [w \in Workers |-> NoBatch]
  /\ accepted = {}

\* acquisition_queue_status
ReadStatus(w) ==
  /\ worker[w].known # revision
  /\ worker' = [worker EXCEPT ![w].known = revision]
  /\ UNCHANGED <<item, revision, now, accepted>>

(***************************************************************************)
(* claim_acquisition_batch                                                 *)
(***************************************************************************)
Expired(row) == row.status \in {"IN_FLIGHT", "RETRY_AFTER"} /\ row.expires <= now

\* Expired leases and retries that are due become pending first; a retry keeps
\* the expiry it had.
Requeued ==
  [i \in Items |-> IF ~Expired(item[i]) THEN item[i]
                  ELSE IF item[i].status = "IN_FLIGHT" THEN Row("PENDING", None, None)
                  ELSE [item[i] EXCEPT !.status = "PENDING"]]

Pending(rows) == {i \in Items : rows[i].status = "PENDING"}

FirstOf(S) == {i \in S : Cardinality({j \in S : j < i}) < BatchSize}

Claim(w) ==
  LET taken == FirstOf(Pending(Requeued)) IN
    /\ worker[w].known = revision /\ revision < MaxRevision
    /\ taken # {}
    /\ item' = [i \in Items |-> IF i \in taken THEN Row("IN_FLIGHT", revision, now + Lease)
                                ELSE Requeued[i]]
    /\ revision' = revision + 1
    /\ worker' = [worker EXCEPT ![w] = [known |-> revision + 1, batch |-> revision,
                                        items |-> taken]]
    /\ UNCHANGED <<now, accepted>>

(***************************************************************************)
(* complete_acquisition_batch                                              *)
(***************************************************************************)
Leased(w) == {i \in Items : item[i].batch = worker[w].batch /\ item[i].status = "IN_FLIGHT"}

HoldsInFlight(w) == \A i \in worker[w].items : item[i].status = "IN_FLIGHT"  \* of any batch

Holds(w) == worker[w].items = Leased(w)

\* Results for exactly the items of the lease; only a retry carries a time.  The
\* answer may be lost: the worker then still believes in its lease.
Complete(w, status, retryAt) ==
  /\ worker[w].items # {}
  /\ worker[w].known = revision /\ revision < MaxRevision
  /\ Holds(w)
  /\ item' = [i \in Items |-> IF i \in worker[w].items
                              THEN Row(status[i], None, IF status[i] = "RETRY_AFTER" THEN retryAt
                                                        ELSE None)
                              ELSE item[i]]
  /\ revision' = revision + 1
  /\ accepted' = accepted \cup {<<i, worker[w].batch>> : i \in worker[w].items}
  /\ \/ worker' = [worker EXCEPT ![w] = [NoBatch EXCEPT !.known = revision + 1]]
     \/ UNCHANGED worker
  /\ UNCHANGED now

\* No results at all, for a batch that nothing is leased under any more.
CompleteNothing(w) ==
  /\ worker[w].known = revision /\ revision < MaxRevision
  /\ Leased(w) = {}
  /\ revision' = revision + 1
  /\ worker' = [worker EXCEPT ![w].known = revision + 1]
  /\ UNCHANGED <<item, now, accepted>>

Results == {"FETCHED", "NOT_FOUND", "RETRY_AFTER", "REVIEW_REQUIRED"}

\* The process dies with its batch; another one takes its place.
WorkerDies(w) ==
  /\ worker[w].items # {}
  /\ worker' = [worker EXCEPT ![w] = NoBatch]
  /\ UNCHANGED <<item, revision, now, accepted>>

Tick == now < MaxTime /\ now' = now + 1 /\ UNCHANGED <<item, revision, worker, accepted>>

Next ==
  \/ \E w \in Workers :
       \/ ReadStatus(w) \/ Claim(w) \/ CompleteNothing(w) \/ WorkerDies(w)
       \/ \E status \in [worker[w].items -> Results] : Complete(w, status, now + 1)
  \/ Tick

Spec == Init /\ [][Next]_vars

(***************************************************************************)
(* Properties                                                              *)
(***************************************************************************)
TypeOK ==
  /\ revision \in 0 .. MaxRevision /\ now \in 1 .. MaxTime
  /\ \A i \in Items : item[i].status \in
       {"PENDING", "IN_FLIGHT", "FETCHED", "NOT_FOUND", "RETRY_AFTER", "REVIEW_REQUIRED"}

\* A worker that lost its lease never answers for the worker that has it now:
\* a batch in flight has no other answer of the same or a later lease, and an
\* item that was fetched is never given out again.
OneAnswer ==
  \A i \in Items :
    /\ item[i].status = "IN_FLIGHT" => \A a \in accepted : a[1] = i => a[2] < item[i].batch
    /\ \A v, w \in Workers : v # w /\ worker[v].batch # None /\ worker[w].batch # None =>
         ~(i \in Leased(v) /\ i \in Leased(w))
    /\ item[i].status \in {"FETCHED", "NOT_FOUND"} /\ i \notin Cached =>
         \E a \in accepted : a[1] = i /\ \A w \in Workers : i \in worker[w].items =>
                                            worker[w].batch <= a[2]

\* No item is lost: what is neither pending nor answered comes back in time.
NothingLost ==
  \A i \in Items : item[i].status \in {"IN_FLIGHT", "RETRY_AFTER"} => item[i].expires # None
=============================================================================
