---------------------------- MODULE StoresProofs -----------------------------
(***************************************************************************)
(* Theorems about the stores beside the native one, for any instances of   *)
(* their parameters.  focus never changes, so that each component is       *)
(* proved by itself.                                                       *)
(***************************************************************************)
EXTENDS Stores, SequenceTheorems, FiniteSetTheorems, WellFoundedInduction, TLAPS

(***************************************************************************)
(* Session handoffs.  An object without metadata is one that a source has  *)
(* under the lock; a record and its acknowledgement name states that have  *)
(* been, with the evidence taken in them.                                  *)
(***************************************************************************)
Ends == {"BLOCKED", "COMPLETE_ASSIGNMENT", "COMPLETE_ROADMAP"}

Answers == {"RESUME_AUTOMATICALLY", "STOP_WITH_EVIDENCE", "WAIT_FOR_OWNER", "RECONCILE_REQUIRED"}
Giver == [pc : {"work", "object", "stored", "wait", "idle"}, snapshot : Nat \cup {None}]

Giving(h) ==
  /\ giver[h].pc = "object" => lock = h /\ giver[h].snapshot \notin metadata
  /\ giver[h].pc = "work" => giver[h].snapshot = None
  /\ giver[h].pc = "idle" => ack[h] # None /\ H!MayIdle(ack[h])

Recorded(h) ==
  record[h] # None /\ record[h].evidence # None =>
    H!Whole(record[h].evidence) /\ record[h].evidence = record[h].state

Acknowledged(h) ==
  ack[h] # None =>
    /\ record[h] # None /\ ack[h].state \in 1 .. Len(native)
    /\ ack[h].status = "RESUME_AUTOMATICALLY" =>
         ack[h].state = record[h].state /\ native[ack[h].state] = "CONTINUE"
    /\ ack[h].status = "STOP_WITH_EVIDENCE" => native[ack[h].state] \in Ends

HandoffTypes ==
  /\ native \in Seq(Routes) /\ Len(native) >= 1
  /\ record \in [Handoffs -> [state : Nat, evidence : Nat \cup {None}] \cup {None}]
  /\ ack \in [Handoffs -> [status : Answers, state : Nat] \cup {None}]
  /\ giver \in [Handoffs -> Giver]
  /\ lock \in Handoffs \cup {None}

HandoffInv == HandoffTypes /\ \A h \in Handoffs : Giving(h) /\ Recorded(h) /\ Acknowledged(h)

LEMMA HandoffInit == H!Init => HandoffInv
<1> SUFFICES ASSUME H!Init PROVE HandoffInv
  OBVIOUS
<1>1. native \in Seq(Routes) /\ Len(native) >= 1
  <2>1. PICK r \in Routes : native = <<r>>
    BY DEF H!Init
  <2>2. QED
    BY <2>1
<1>2. \A h \in Handoffs : /\ record[h] = None /\ ack[h] = None
                          /\ giver[h] = [pc |-> "work", snapshot |-> None]
  BY DEF H!Init
<1>3. HandoffTypes
  BY <1>1 DEF H!Init, HandoffTypes, Giver
<1>4. \A h \in Handoffs : Giving(h) /\ Recorded(h) /\ Acknowledged(h)
  BY <1>2 DEF Giving, Recorded, Acknowledged
<1>5. QED
  BY <1>3, <1>4 DEF HandoffInv

LEMMA HandoffStoring ==
  ASSUME HandoffInv, NEW h \in Handoffs,
         H!StoreObject(h) \/ H!StoreMetadata(h) \/ H!StoreFails(h) \/ H!SourceKilled(h)
  PROVE  HandoffInv'
<1>1. Len(native) \in Nat /\ HandoffTypes /\ \A k \in Handoffs : Giving(k) /\ Recorded(k)
  BY LenProperties DEF HandoffInv, HandoffTypes
<1>2. UNCHANGED <<native, record, ack>>
  BY DEF H!StoreObject, H!StoreMetadata, H!StoreFails, H!SourceKilled
<1>3. HandoffTypes'
  <2>1. CASE H!StoreObject(h)
    BY <1>1, <2>1 DEF HandoffTypes, Giver, H!StoreObject, H!state
  <2>2. CASE H!StoreMetadata(h)
    BY <1>1, <2>2 DEF HandoffTypes, Giver, H!StoreMetadata
  <2>3. CASE H!StoreFails(h)
    BY <1>1, <2>3 DEF HandoffTypes, Giver, H!StoreFails
  <2>4. CASE H!SourceKilled(h)
    BY <1>1, <2>4 DEF HandoffTypes, Giver, H!SourceKilled
  <2>5. QED
    BY <2>1, <2>2, <2>3, <2>4
<1>4. ASSUME NEW k \in Handoffs PROVE Giving(k)' /\ Recorded(k)'
  <2> USE <1>1, <1>2, HandoffAssumption, NoneAssumption
      DEF HandoffTypes, Giver, Giving, Recorded, H!Whole, H!MayIdle
  <2>1. CASE H!StoreObject(h)
    BY <2>1 DEF H!StoreObject, H!state
  <2>2. CASE H!StoreMetadata(h)
    BY <2>2 DEF H!StoreMetadata
  <2>3. CASE H!StoreFails(h)
    BY <2>3 DEF H!StoreFails
  <2>4. CASE H!SourceKilled(h)
    BY <2>4 DEF H!SourceKilled
  <2>5. QED
    BY <2>1, <2>2, <2>3, <2>4
<1>5. \A k \in Handoffs : Acknowledged(k)'
  BY <1>2 DEF HandoffInv, Acknowledged
<1>6. QED
  BY <1>3, <1>4, <1>5 DEF HandoffInv

\* What is recorded is bound to the live state, and its evidence was taken in it.
LEMMA HandoffPreparing ==
  ASSUME HandoffInv, NEW h \in Handoffs, H!Prepare(h) \/ H!PrepareAgain(h)
  PROVE  HandoffInv'
<1>1. /\ Len(native) \in Nat /\ HandoffTypes
      /\ \A k \in Handoffs : Giving(k) /\ Recorded(k) /\ Acknowledged(k)
  BY LenProperties DEF HandoffInv, HandoffTypes
<1>2. /\ UNCHANGED <<native, object, metadata, ack, lock>>
      /\ giver' = [giver EXCEPT ![h].pc = "wait"]
  BY DEF H!Prepare, H!PrepareAgain
<1>3. CASE H!Prepare(h)
  <2>1. /\ record[h] = None
        /\ record' = [record EXCEPT ![h] = [state |-> Len(native), evidence |-> giver[h].snapshot]]
        /\ giver[h].snapshot # None => H!Whole(giver[h].snapshot) /\ giver[h].snapshot = Len(native)
    BY <1>1, <1>3 DEF H!Prepare, H!state, Giving
  <2>2. HandoffTypes'
    BY <1>1, <1>2, <2>1 DEF HandoffTypes, Giver
  <2>3. ASSUME NEW k \in Handoffs PROVE Giving(k)' /\ Recorded(k)' /\ Acknowledged(k)'
    <3>1. Giving(k)'
      BY <1>1, <1>2 DEF HandoffTypes, Giver, Giving, H!MayIdle
    <3>2. Recorded(k)'
      BY <1>1, <1>2, <2>1 DEF HandoffTypes, Recorded, H!Whole
    <3>3. Acknowledged(k)'
      BY <1>1, <1>2, <2>1 DEF HandoffTypes, Acknowledged
    <3>4. QED
      BY <3>1, <3>2, <3>3
  <2>4. QED
    BY <2>2, <2>3 DEF HandoffInv
<1>4. CASE H!PrepareAgain(h)
  <2>1. record' = record
    BY <1>4 DEF H!PrepareAgain
  <2>2. HandoffTypes' /\ \A k \in Handoffs : Giving(k)'
    BY <1>1, <1>2, <2>1 DEF HandoffTypes, Giver, Giving, H!MayIdle
  <2>3. \A k \in Handoffs : Recorded(k)' /\ Acknowledged(k)'
    BY <1>1, <1>2, <2>1 DEF Recorded, Acknowledged, H!Whole
  <2>4. QED
    BY <2>2, <2>3 DEF HandoffInv
<1>5. QED
  BY <1>3, <1>4

LEMMA HandoffAnswer ==
  ASSUME HandoffInv, NEW h \in Handoffs, record[h] # None
  PROVE  LET status == H!Status(record[h]) IN
         /\ status \in Answers
         /\ status = "RESUME_AUTOMATICALLY" =>
              record[h].state = Len(native) /\ native[Len(native)] = "CONTINUE"
         /\ status = "STOP_WITH_EVIDENCE" => native[Len(native)] \in Ends
<1>1. Len(native) \in Nat /\ Len(native) >= 1 /\ native[Len(native)] \in Routes
  BY LenProperties DEF HandoffInv, HandoffTypes
<1>2. QED
  BY <1>1, HandoffAssumption, NoneAssumption DEF H!Status, H!BindingsEqual, H!state, Answers, Ends

LEMMA HandoffAccepting ==
  ASSUME HandoffInv, NEW h \in Handoffs, H!AcceptGoal(h) \/ H!Accept(h) \/ H!SourceIdles(h)
  PROVE  HandoffInv'
<1>1. /\ Len(native) \in Nat /\ Len(native) >= 1 /\ HandoffTypes
      /\ \A k \in Handoffs : Giving(k) /\ Recorded(k) /\ Acknowledged(k)
  BY LenProperties DEF HandoffInv, HandoffTypes
<1>2. CASE H!AcceptGoal(h)
  BY <1>2
  DEF H!AcceptGoal, HandoffInv, HandoffTypes, Giving, Recorded, Acknowledged, H!Whole, H!MayIdle
<1>3. CASE H!Accept(h)
  <2> DEFINE a == [status |-> H!Status(record[h]), state |-> Len(native)]
  <2>1. /\ UNCHANGED <<native, object, metadata, record, giver, lock>>
        /\ record[h] # None /\ ack[h] = None /\ ack' = [ack EXCEPT ![h] = a]
    BY <1>3 DEF H!Accept, H!state
  <2>2. /\ a.status \in Answers /\ a.state = Len(native)
        /\ a.status = "RESUME_AUTOMATICALLY" =>
             a.state = record[h].state /\ native[a.state] = "CONTINUE"
        /\ a.status = "STOP_WITH_EVIDENCE" => native[a.state] \in Ends
    BY <2>1, HandoffAnswer
  <2>3. a \in [status : Answers, state : Nat]
    BY <1>1, <2>2
  <2> HIDE DEF a
  <2>4. HandoffTypes'
    BY <1>1, <2>1, <2>3 DEF HandoffTypes
  <2>5. \A k \in Handoffs : Giving(k)' /\ Recorded(k)'
    BY <1>1, <2>1 DEF HandoffTypes, Giving, Recorded, H!Whole, H!MayIdle
  <2>6. \A k \in Handoffs : Acknowledged(k)'
    BY <1>1, <2>1, <2>2 DEF HandoffTypes, Acknowledged
  <2>7. QED
    BY <2>4, <2>5, <2>6 DEF HandoffInv
<1>4. CASE H!SourceIdles(h)
  <2>1. /\ UNCHANGED <<native, object, metadata, record, ack, lock>>
        /\ ack[h] # None /\ H!MayIdle(ack[h]) /\ giver' = [giver EXCEPT ![h].pc = "idle"]
    BY <1>4 DEF H!SourceIdles
  <2>2. HandoffTypes' /\ \A k \in Handoffs : Giving(k)'
    BY <1>1, <2>1 DEF HandoffTypes, Giver, Giving, H!MayIdle
  <2>3. \A k \in Handoffs : Recorded(k)' /\ Acknowledged(k)'
    BY <1>1, <2>1 DEF Recorded, Acknowledged, H!Whole
  <2>4. QED
    BY <2>2, <2>3 DEF HandoffInv
<1>5. QED
  BY <1>2, <1>3, <1>4

\* The states of the past stay what they were.
LEMMA HandoffNative == ASSUME HandoffInv, H!NativeEvent PROVE HandoffInv'
<1>1. PICK r \in Routes : native' = Append(native, r)
  BY DEF H!NativeEvent
<1>2. /\ UNCHANGED <<object, metadata, record, ack, giver, lock>>
      /\ native \in Seq(Routes) /\ Len(native) \in Nat /\ Len(native) >= 1
  BY LenProperties DEF H!NativeEvent, HandoffInv, HandoffTypes
<1>3. /\ native' \in Seq(Routes) /\ Len(native') = Len(native) + 1
      /\ \A i \in 1 .. Len(native) : native'[i] = native[i]
  BY <1>1, <1>2, AppendProperties
<1>4. HandoffTypes'
  BY <1>2, <1>3 DEF HandoffInv, HandoffTypes
<1>5. \A k \in Handoffs : Giving(k)' /\ Recorded(k)'
  BY <1>2 DEF HandoffInv, Giving, Recorded, H!Whole, H!MayIdle
<1>6. \A k \in Handoffs : Acknowledged(k)'
  BY <1>2, <1>3 DEF HandoffInv, HandoffTypes, Acknowledged
<1>7. QED
  BY <1>4, <1>5, <1>6 DEF HandoffInv

LEMMA HandoffInvariant == Spec => [](focus = "handoff" => HandoffInv)
<1>1. Init => (focus = "handoff" => HandoffInv)
  BY HandoffInit DEF Init
<1>2. (focus = "handoff" => HandoffInv) /\ [Next]_vars => (focus = "handoff" => HandoffInv)'
  <2> SUFFICES ASSUME focus = "handoff", HandoffInv, [Next]_vars PROVE HandoffInv'
    BY DEF Next, vars
  <2>1. CASE H!Next
    BY <2>1, HandoffStoring, HandoffPreparing, HandoffAccepting, HandoffNative DEF H!Next
  <2>2. CASE UNCHANGED handoffVars
    BY <2>2
    DEF handoffVars, HandoffInv, HandoffTypes, Giving, Recorded, Acknowledged, H!Whole, H!MayIdle
  <2>3. QED
    BY <2>1, <2>2 DEF Next, vars
<1>3. QED
  BY <1>1, <1>2, PTL DEF Spec

\* However sources, targets and native writers interleave and sources are
\* killed, a target goes on alone only from the state that was handed over to
\* it, and a source leaves only work that was resumed or had come to its end.
THEOREM Handoff == Spec => []HandoffSound
<1>1. (focus = "handoff" => HandoffInv) => HandoffSound
  <2> SUFFICES ASSUME HandoffInv PROVE H!ResumedFromHandover /\ H!IdleIsCovered
    BY DEF HandoffSound
  <2>1. H!ResumedFromHandover
    BY DEF HandoffInv, Recorded, Acknowledged, H!ResumedFromHandover
  <2>2. H!IdleIsCovered
    BY DEF HandoffInv, Giving, Acknowledged, H!MayIdle, Ends, H!IdleIsCovered
  <2>3. QED
    BY <2>1, <2>2
<1>2. QED
  BY <1>1, HandoffInvariant, PTL

-----------------------------------------------------------------------------
(***************************************************************************)
(* The acquisition queue.  A lease is the revision it was given at, so     *)
(* that no two are alike; a worker whose item was given out again knows    *)
(* an older lease than the row.                                            *)
(***************************************************************************)
Row == [status : {"PENDING", "IN_FLIGHT", "FETCHED", "NOT_FOUND", "RETRY_AFTER", "REVIEW_REQUIRED"},
        batch : Nat \cup {None}, expires : Nat \cup {None}]

QueueTypes ==
  /\ item \in [Items -> Row] /\ turn \in Nat /\ now \in Nat
  /\ worker \in [Workers -> [known : Nat, batch : Nat \cup {None}, items : SUBSET Items]]

\* A worker with items has a lease of its own, given in the past.
Leasing ==
  /\ \A w \in Workers : worker[w].items # {} => worker[w].batch # None
  /\ \A w \in Workers : worker[w].batch # None => worker[w].batch < turn
  /\ \A v, w \in Workers : v # w /\ worker[v].batch # None => worker[v].batch # worker[w].batch

InFlight(i) ==
  item[i].status = "IN_FLIGHT" =>
    /\ item[i].batch \in Nat /\ item[i].batch < turn
    /\ \A w \in Workers : i \in worker[w].items => worker[w].batch <= item[i].batch
    /\ \A a \in accepted : a[1] = i => a[2] < item[i].batch

Answered(i) ==
  item[i].status \in {"FETCHED", "NOT_FOUND"} /\ i \notin Cached =>
    \E a \in accepted :
      a[1] = i /\ \A w \in Workers : i \in worker[w].items => worker[w].batch <= a[2]

QueueInv ==
  /\ QueueTypes /\ Leasing
  /\ \A i \in Items : InFlight(i) /\ Answered(i)
  /\ \A a \in accepted : a \in Items \X Nat /\ a[2] < turn
  /\ Q!NothingLost

LEMMA QueueInit == Q!Init => QueueInv
<1> SUFFICES ASSUME Q!Init PROVE QueueInv
  OBVIOUS
<1>1. ASSUME NEW i \in Items
      PROVE  /\ item[i] \in Row /\ item[i].status \notin {"IN_FLIGHT", "RETRY_AFTER"}
             /\ item[i].status \in {"FETCHED", "NOT_FOUND"} => i \in Cached
  <2>1. item[i] = Q!Row(CASE i \in Unidentified -> "REVIEW_REQUIRED"
                          [] i \in Cached \ Unidentified -> "FETCHED"
                          [] OTHER -> "PENDING", None, None)
    BY DEF Q!Init
  <2>2. CASE i \in Unidentified
    BY <2>1, <2>2 DEF Q!Row, Row
  <2>3. CASE i \in Cached \ Unidentified
    BY <2>1, <2>3 DEF Q!Row, Row
  <2>4. CASE i \notin Cached /\ i \notin Unidentified
    BY <2>1, <2>4 DEF Q!Row, Row
  <2>5. QED
    BY <2>2, <2>3, <2>4
<1>2. /\ \A w \in Workers : worker[w] = [known |-> 0, batch |-> None, items |-> {}]
      /\ turn = 0 /\ now = 1 /\ accepted = {} /\ item \in [Items -> Row]
  BY <1>1 DEF Q!Init, Q!NoBatch
<1>3. QueueTypes
  BY <1>2 DEF Q!Init, Q!NoBatch, QueueTypes
<1>4. QED
  BY <1>1, <1>2, <1>3, NoneAssumption DEF QueueInv, Leasing, InFlight, Answered, Q!NothingLost

\* What a claim requeues was in flight or due again; nothing else changes.
LEMMA RequeuedIs ==
  ASSUME QueueInv, NEW i \in Items
  PROVE  /\ Q!Requeued[i] \in Row
         /\ \/ Q!Requeued[i] = item[i]
            \/ Q!Requeued[i].status = "PENDING" /\ item[i].status \in {"IN_FLIGHT", "RETRY_AFTER"}
<1>1. item[i] \in Row
  BY DEF QueueInv, QueueTypes
<1>2. CASE ~Q!Expired(item[i])
  <2>1. Q!Requeued[i] = item[i]
    BY <1>2 DEF Q!Requeued
  <2>2. QED
    BY <1>1, <2>1
<1>3. CASE Q!Expired(item[i]) /\ item[i].status = "IN_FLIGHT"
  <2>1. Q!Requeued[i] = Q!Row("PENDING", None, None)
    BY <1>3 DEF Q!Requeued
  <2>2. QED
    BY <1>3, <2>1 DEF Q!Row, Row
<1>4. CASE Q!Expired(item[i]) /\ item[i].status # "IN_FLIGHT"
  <2>1. Q!Requeued[i] = [item[i] EXCEPT !.status = "PENDING"]
    BY <1>4 DEF Q!Requeued
  <2>2. QED
    BY <1>1, <1>4, <2>1 DEF Q!Expired, Row
<1>5. QED
  BY <1>2, <1>3, <1>4

LEMMA QueueReadStatus == ASSUME QueueInv, NEW w \in Workers, Q!ReadStatus(w) PROVE QueueInv'
<1>1. /\ worker' = [worker EXCEPT ![w].known = turn] /\ UNCHANGED <<item, turn, now, accepted>>
      /\ QueueTypes
  BY DEF Q!ReadStatus, QueueInv
<1>2. QueueTypes'
  BY <1>1 DEF QueueTypes
<1>3. \A v \in Workers : worker'[v].batch = worker[v].batch /\ worker'[v].items = worker[v].items
  BY <1>1 DEF QueueTypes
<1>4. QED
  BY <1>1, <1>2, <1>3 DEF QueueInv, Leasing, InFlight, Answered, Q!NothingLost

LEMMA QueueWorkerDies == ASSUME QueueInv, NEW w \in Workers, Q!WorkerDies(w) PROVE QueueInv'
<1>1. /\ worker' = [worker EXCEPT ![w] = Q!NoBatch] /\ UNCHANGED <<item, turn, now, accepted>>
      /\ QueueTypes
  BY DEF Q!WorkerDies, QueueInv
<1>2. QueueTypes'
  BY <1>1 DEF QueueTypes, Q!NoBatch
<1>3. \A v \in Workers : \/ worker'[v] = worker[v]
                         \/ worker'[v].batch = None /\ worker'[v].items = {}
  BY <1>1 DEF QueueTypes, Q!NoBatch
<1>4. Leasing'
  BY <1>1, <1>3 DEF QueueInv, Leasing
<1>5. ASSUME NEW i \in Items PROVE InFlight(i)' /\ Answered(i)'
  BY <1>1, <1>3 DEF QueueInv, InFlight, Answered
<1>6. QED
  BY <1>1, <1>2, <1>4, <1>5 DEF QueueInv, Q!NothingLost

LEMMA QueueTick == ASSUME QueueInv, Q!Tick PROVE QueueInv'
  BY DEF Q!Tick, QueueInv, QueueTypes, Leasing, InFlight, Answered, Q!NothingLost

\* The lease is the revision it is given at: later than every lease before it.
LEMMA QueueClaim == ASSUME QueueInv, NEW w \in Workers, Q!Claim(w) PROVE QueueInv'
<1> DEFINE taken == Q!FirstOf(Q!Pending(Q!Requeued))
<1>1. /\ item' = [i \in Items |-> IF i \in taken THEN Q!Row("IN_FLIGHT", turn, now + Lease)
                                  ELSE Q!Requeued[i]]
      /\ turn' = turn + 1 /\ now' = now /\ accepted' = accepted
      /\ worker' = [worker EXCEPT ![w] = [known |-> turn + 1, batch |-> turn, items |-> taken]]
  BY DEF Q!Claim
<1>2. taken \in SUBSET Items
  BY DEF Q!FirstOf, Q!Pending
<1>3. QueueTypes /\ Leasing /\ turn \in Nat /\ now + Lease \in Nat
  BY QueueAssumption DEF QueueInv, QueueTypes
<1> HIDE DEF taken
<1>4. ASSUME NEW i \in Items
      PROVE  /\ i \in taken => item'[i] = Q!Row("IN_FLIGHT", turn, now + Lease)
             /\ i \notin taken =>
                  \/ item'[i] = item[i]
                  \/ item'[i].status = "PENDING" /\ item[i].status \in {"IN_FLIGHT", "RETRY_AFTER"}
             /\ item'[i] \in Row
  BY <1>1, <1>3, RequeuedIs DEF Q!Row, Row
<1>5. /\ worker'[w] = [known |-> turn + 1, batch |-> turn, items |-> taken]
      /\ \A v \in Workers \ {w} : worker'[v] = worker[v]
  BY <1>1, <1>3 DEF QueueTypes
<1>6. QueueTypes'
  <2>1. item' \in [Items -> Row]
    BY <1>1, <1>4
  <2>2. worker' \in [Workers -> [known : Nat, batch : Nat \cup {None}, items : SUBSET Items]]
    BY <1>1, <1>2, <1>3 DEF QueueTypes
  <2>3. QED
    BY <1>1, <1>3, <2>1, <2>2 DEF QueueTypes
<1>7. Leasing'
  <2>1. ASSUME NEW v \in Workers, worker'[v].batch # None
        PROVE  worker'[v].batch < turn' /\ (v # w => worker'[v].batch < turn)
    BY <1>1, <1>3, <1>5, <2>1 DEF Leasing, QueueTypes
  <2>2. \A v \in Workers : worker'[v].items # {} => worker'[v].batch # None
    BY <1>3, <1>5, NoneAssumption DEF Leasing
  <2>3. ASSUME NEW u \in Workers, NEW v \in Workers, u # v, worker'[u].batch # None
        PROVE  worker'[u].batch # worker'[v].batch
    BY <1>3, <1>5, <2>1, <2>3 DEF Leasing
  <2>4. QED
    BY <2>1, <2>2, <2>3 DEF Leasing
<1>8. ASSUME NEW i \in Items PROVE InFlight(i)' /\ Answered(i)'
  <2>1. CASE i \in taken
    <3>1. item'[i].status = "IN_FLIGHT" /\ item'[i].batch = turn
      BY <1>4, <2>1 DEF Q!Row
    <3>2. \A v \in Workers : i \in worker'[v].items => worker'[v].batch <= turn
      BY <1>3, <1>5 DEF Leasing, QueueTypes
    <3>3. \A a \in accepted : a[2] < turn
      BY DEF QueueInv
    <3>4. QED
      BY <1>1, <1>3, <3>1, <3>2, <3>3 DEF InFlight, Answered
  <2>2. CASE i \notin taken
    <3>1. \A v \in Workers : i \in worker'[v].items =>
            i \in worker[v].items /\ worker'[v] = worker[v]
      BY <1>5, <2>2
    <3>2. CASE item'[i] = item[i]
      BY <1>1, <1>3, <3>1, <3>2 DEF QueueInv, InFlight, Answered
    <3>3. CASE item'[i].status = "PENDING"
      BY <3>3 DEF InFlight, Answered
    <3>4. QED
      BY <1>4, <2>2, <3>2, <3>3
  <2>3. QED
    BY <2>1, <2>2
<1>9. Q!NothingLost'
  BY <1>3, <1>4, NoneAssumption DEF QueueInv, Q!NothingLost, Q!Row
<1>10. QED
  BY <1>1, <1>3, <1>6, <1>7, <1>8, <1>9 DEF QueueInv

\* Who still holds what is in flight answers for the lease the rows name.
LEMMA QueueComplete ==
  ASSUME QueueInv, NEW w \in Workers,
         NEW status \in [worker[w].items -> Q!Results],
         Q!Complete(w, status, now + 1)
  PROVE  QueueInv'
<1> DEFINE mine == worker[w].items
           batch == worker[w].batch
<1>1. /\ item' = [i \in Items |-> IF i \in mine
                                  THEN Q!Row(status[i], None, IF status[i] = "RETRY_AFTER"
                                                              THEN now + 1 ELSE None)
                                  ELSE item[i]]
      /\ turn' = turn + 1 /\ now' = now /\ accepted' = accepted \cup {<<i, batch>> : i \in mine}
      /\ \/ worker' = [worker EXCEPT ![w] = [Q!NoBatch EXCEPT !.known = turn + 1]]
         \/ worker' = worker
      /\ mine # {} /\ mine = Q!Leased(w)
  BY DEF Q!Complete, Q!Holds
<1>2. /\ QueueTypes /\ Leasing /\ turn \in Nat /\ now + 1 \in Nat
      /\ mine \in SUBSET Items /\ batch \in Nat /\ batch < turn
  BY <1>1 DEF QueueInv, QueueTypes, Leasing
<1>3. \A i \in mine : item[i].status = "IN_FLIGHT" /\ item[i].batch = batch
  BY <1>1 DEF Q!Leased
<1>4. \A v \in Workers : \/ worker'[v] = worker[v]
                         \/ worker'[v].batch = None /\ worker'[v].items = {}
  BY <1>1, <1>2 DEF QueueTypes, Q!NoBatch
<1> HIDE DEF batch, mine
<1>5. ASSUME NEW i \in Items
      PROVE  /\ i \notin mine => item'[i] = item[i]
             /\ i \in mine => /\ item'[i].status # "IN_FLIGHT"
                              /\ item'[i].status = "RETRY_AFTER" => item'[i].expires # None
             /\ item'[i] \in Row
  <2>1. CASE i \in mine
    <3>1. item'[i] = Q!Row(status[i], None, IF status[i] = "RETRY_AFTER" THEN now + 1 ELSE None)
      BY <1>1, <2>1
    <3>2. status[i] \in {"FETCHED", "NOT_FOUND", "RETRY_AFTER", "REVIEW_REQUIRED"}
      BY <2>1 DEF mine, Q!Results
    <3>3. QED
      BY <1>2, <2>1, <3>1, <3>2, NoneAssumption DEF Q!Row, Row
  <2>2. CASE i \notin mine
    BY <1>1, <1>2, <2>2 DEF QueueTypes
  <2>3. QED
    BY <2>1, <2>2
<1>6. QueueTypes'
  <2>1. item' \in [Items -> Row]
    BY <1>1, <1>5
  <2>2. worker' \in [Workers -> [known : Nat, batch : Nat \cup {None}, items : SUBSET Items]]
    BY <1>1, <1>2 DEF QueueTypes, Q!NoBatch
  <2>3. QED
    BY <1>1, <1>2, <2>1, <2>2 DEF QueueTypes
<1>7. Leasing'
  <2>1. ASSUME NEW v \in Workers, worker'[v].batch # None
        PROVE  worker'[v] = worker[v] /\ worker'[v].batch < turn'
    BY <1>1, <1>2, <1>4, <2>1 DEF Leasing, QueueTypes
  <2>2. \A v \in Workers : worker'[v].items # {} => worker'[v].batch # None
    BY <1>2, <1>4 DEF Leasing
  <2>3. ASSUME NEW u \in Workers, NEW v \in Workers, u # v, worker'[u].batch # None
        PROVE  worker'[u].batch # worker'[v].batch
    BY <1>2, <1>4, <2>1, <2>3 DEF Leasing
  <2>4. QED
    BY <2>1, <2>2, <2>3 DEF Leasing
<1>8. ASSUME NEW v \in Workers, NEW i \in worker'[v].items
      PROVE  worker'[v] = worker[v] /\ i \in worker[v].items
  BY <1>4, <1>8
<1>9. ASSUME NEW i \in Items PROVE InFlight(i)' /\ Answered(i)'
  <2>1. CASE i \in mine
    <3>1. <<i, batch>> \in accepted'
      BY <1>1, <2>1
    <3>2. \A v \in Workers : i \in worker'[v].items => worker'[v].batch <= batch
      BY <1>3, <1>8, <2>1 DEF QueueInv, InFlight
    <3>3. item'[i].status # "IN_FLIGHT"
      BY <1>5, <2>1
    <3>4. QED
      BY <3>1, <3>2, <3>3 DEF InFlight, Answered
  <2>2. CASE i \notin mine
    <3>1. \A a \in accepted' : a[1] = i => a \in accepted
      BY <1>1, <2>2
    <3>2. accepted \subseteq accepted' /\ item'[i] = item[i] /\ turn < turn'
      BY <1>1, <1>2, <1>5, <2>2
    <3>3. InFlight(i)'
      <4>1. item[i].status = "IN_FLIGHT" => item[i].batch \in Nat /\ item[i].batch < turn'
        BY <1>1, <1>2 DEF QueueInv, InFlight
      <4>2. QED
        BY <1>8, <3>1, <3>2, <4>1 DEF QueueInv, InFlight
    <3>4. Answered(i)'
      BY <1>8, <3>2 DEF QueueInv, Answered
    <3>5. QED
      BY <3>3, <3>4
  <2>3. QED
    BY <2>1, <2>2
<1>10. \A a \in accepted' : a \in Items \X Nat /\ a[2] < turn'
  <2>1. \A a \in accepted : a \in Items \X Nat /\ a[2] < turn'
    BY <1>1, <1>2 DEF QueueInv
  <2>2. QED
    BY <1>1, <1>2, <2>1
<1>11. Q!NothingLost'
  BY <1>3, <1>5 DEF QueueInv, Q!NothingLost
<1>12. QED
  BY <1>6, <1>7, <1>9, <1>10, <1>11 DEF QueueInv

LEMMA QueueCompleteNothing ==
  ASSUME QueueInv, NEW w \in Workers, Q!CompleteNothing(w) PROVE QueueInv'
<1>1. /\ turn' = turn + 1 /\ worker' = [worker EXCEPT ![w].known = turn + 1]
      /\ UNCHANGED <<item, now, accepted>> /\ QueueTypes
  BY DEF Q!CompleteNothing, QueueInv
<1>2. QueueTypes'
  BY <1>1 DEF QueueTypes
<1>3. \A v \in Workers : worker'[v].batch = worker[v].batch /\ worker'[v].items = worker[v].items
  BY <1>1 DEF QueueTypes
<1>4. turn \in Nat /\ turn < turn'
  BY <1>1 DEF QueueTypes
<1>5. Leasing'
  <2>1. \A v \in Workers : worker[v].batch # None => worker[v].batch < turn'
    BY <1>1, <1>4 DEF QueueInv, Leasing, QueueTypes
  <2>2. QED
    BY <1>3, <2>1 DEF QueueInv, Leasing
<1>6. ASSUME NEW i \in Items PROVE InFlight(i)' /\ Answered(i)'
  <2>1. item[i].status = "IN_FLIGHT" => item[i].batch \in Nat /\ item[i].batch < turn'
    BY <1>1, <1>4 DEF QueueInv, InFlight
  <2>2. QED
    BY <1>1, <1>3, <2>1 DEF QueueInv, InFlight, Answered
<1>7. \A a \in accepted' : a \in Items \X Nat /\ a[2] < turn'
  BY <1>1, <1>4 DEF QueueInv
<1>8. QED
  BY <1>1, <1>2, <1>5, <1>6, <1>7 DEF QueueInv, Q!NothingLost

LEMMA QueueInvariant == Spec => [](focus = "queue" => QueueInv)
<1>1. Init => (focus = "queue" => QueueInv)
  BY QueueInit DEF Init
<1>2. (focus = "queue" => QueueInv) /\ [Next]_vars => (focus = "queue" => QueueInv)'
  <2> SUFFICES ASSUME focus = "queue", QueueInv, [Next]_vars PROVE QueueInv'
    BY DEF Next, vars
  <2>1. CASE Q!Next
    BY <2>1, QueueReadStatus, QueueClaim, QueueWorkerDies, QueueComplete, QueueCompleteNothing,
       QueueTick DEF Q!Next
  <2>2. CASE UNCHANGED queueVars
    BY <2>2
    DEF queueVars, QueueInv, QueueTypes, Leasing, InFlight, Answered, Q!NothingLost
  <2>3. QED
    BY <2>1, <2>2 DEF Next, vars
<1>3. QED
  BY <1>1, <1>2, PTL DEF Spec

\* What the leases mean: no two workers hold an item, and it has one answer.
LEMMA LeasesAreExclusive == QueueInv => Q!OneAnswer /\ Q!NothingLost
<1> SUFFICES ASSUME QueueInv PROVE Q!OneAnswer /\ Q!NothingLost
  OBVIOUS
<1>1. ASSUME NEW i \in Items, NEW v \in Workers, NEW w \in Workers, v # w,
             worker[v].batch # None, i \in Q!Leased(v), i \in Q!Leased(w)
      PROVE  FALSE
  BY <1>1 DEF QueueInv, Leasing, Q!Leased
<1>2. QED
  BY <1>1 DEF QueueInv, InFlight, Answered, Q!OneAnswer

-----------------------------------------------------------------------------
(***************************************************************************)
(* The navigation index.  A key is one chat; a chat that was handed off    *)
(* names its successor, which names it back; and an answer once given is   *)
(* what the index still says.                                              *)
(***************************************************************************)
Chat == [key : Keys, provisional : Texts, parent : Nat \cup {None}, part : Nat,
         state : {"RESERVED", "ACTIVE", "FINALIZED", "HANDED_OFF"}, final : Texts \cup {None},
         metadata : Metadata \cup {None}, successor : Nat \cup {None}]

OneKey == \A c, d \in N!Chats : chats[c].key = chats[d].key => c = d

HandedOff(c) ==
  chats[c].state = "HANDED_OFF" =>
    /\ chats[c].successor \in N!Chats
    /\ chats[chats[c].successor].parent = c
    /\ chats[chats[c].successor].part = chats[c].part + 1

StillSays(a) ==
  /\ a[2] \in N!Chats /\ chats[a[2]].key = a[1]
  /\ a[3] # None =>
       /\ a[3] \in N!Chats
       /\ chats[a[3]].state = "HANDED_OFF" /\ chats[a[3]].successor = a[2]

NavigationInv ==
  /\ chats \in Seq(Chat) /\ OneKey
  /\ \A c \in N!Chats : HandedOff(c)
  /\ \A a \in answered : StillSays(a)

LEMMA NavigationInit == N!Init => NavigationInv
<1> SUFFICES ASSUME N!Init PROVE NavigationInv
  OBVIOUS
<1>1. chats = << >> /\ answered = {} /\ Len(chats) = 0
  BY DEF N!Init
<1>2. N!Chats = {}
  BY <1>1 DEF N!Chats
<1>3. QED
  BY <1>1, <1>2 DEF NavigationInv, OneKey

\* A new chat goes behind the others, which keep their places and contents,
\* but for the one that may be handed off in its favour.
LEMMA NewChat ==
  ASSUME NavigationInv, NEW key \in Keys, N!FreshKey(key), NEW new \in Chat, new.key = key,
         new.state = "RESERVED", NEW s \in Seq(Chat), Len(s) = Len(chats), chats' = Append(s, new),
         \A c \in N!Chats : s[c].key = chats[c].key,
         \A c \in N!Chats :
           \/ s[c] = chats[c]
           \/ /\ s[c].state = "HANDED_OFF" /\ chats[c].state # "HANDED_OFF"
              /\ s[c].successor = Len(chats) + 1 /\ new.parent = c
              /\ s[c].part = chats[c].part /\ s[c].parent = chats[c].parent
              /\ new.part = s[c].part + 1,
         NEW old, answered' = answered \cup {<<key, Len(chats) + 1, old>>},
         old # None => /\ old \in N!Chats /\ s[old].state = "HANDED_OFF"
                       /\ s[old].successor = Len(chats) + 1
  PROVE  NavigationInv'
<1>1. /\ chats \in Seq(Chat) /\ Len(chats) \in Nat
      /\ N!Chats = 1 .. Len(chats) /\ N!Chats' = 1 .. Len(chats) + 1
      /\ chats' \in Seq(Chat) /\ Len(chats') = Len(chats) + 1
      /\ \A c \in N!Chats : chats'[c] = s[c]
      /\ chats'[Len(chats) + 1] = new
  BY LenProperties, AppendProperties DEF NavigationInv, N!Chats
<1>2. \A c \in N!Chats : chats[c].key # key
  BY DEF N!FreshKey, N!ByKey
<1>3. \A c \in N!Chats' : c \in N!Chats \/ c = Len(chats) + 1
  BY <1>1
<1>4. OneKey'
  BY <1>1, <1>2, <1>3 DEF NavigationInv, OneKey
<1>5. ASSUME NEW c \in N!Chats
      PROVE  chats'[c].part = chats[c].part /\ chats'[c].parent = chats[c].parent
  BY <1>1
<1>6. ASSUME NEW c \in N!Chats' PROVE HandedOff(c)'
  <2>1. CASE c = Len(chats) + 1
    BY <1>1, <2>1 DEF HandedOff
  <2>2. CASE c \in N!Chats /\ s[c] = chats[c]
    <3>1. HandedOff(c)
      BY <2>2 DEF NavigationInv
    <3>2. \A d \in N!Chats : d \in N!Chats'
      BY <1>1
    <3>3. chats'[c] = chats[c]
      BY <1>1, <2>2
    <3>4. QED
      BY <1>5, <3>1, <3>2, <3>3, ZenonT(40) DEF HandedOff
  <2>3. CASE c \in N!Chats /\ s[c] # chats[c]
    <3>1. /\ s[c].successor = Len(chats) + 1 /\ new.parent = c
          /\ new.part = s[c].part + 1
      BY <2>3
    <3>2. QED
      BY <1>1, <2>3, <3>1 DEF HandedOff
  <2>4. QED
    BY <1>3, <2>1, <2>2, <2>3
<1>7. ASSUME NEW a \in answered' PROVE StillSays(a)'
  <2>1. CASE a \in answered
    <3>1. StillSays(a)
      BY <2>1 DEF NavigationInv
    <3>2. \A d \in N!Chats : d \in N!Chats'
      BY <1>1
    <3>3. \A d \in N!Chats : chats[d].state = "HANDED_OFF" => chats'[d] = chats[d]
      BY <1>1
    <3>4. \A d \in N!Chats : chats'[d].key = chats[d].key
      BY <1>1
    <3>5. QED
      BY <3>1, <3>2, <3>3, <3>4 DEF StillSays
  <2>2. CASE a = <<key, Len(chats) + 1, old>>
    <3>1. a[1] = key /\ a[2] = Len(chats) + 1 /\ a[3] = old
      BY <2>2
    <3>2. a[2] \in N!Chats' /\ chats'[a[2]].key = a[1]
      BY <1>1, <3>1
    <3>3. ASSUME old # None
          PROVE  /\ old \in N!Chats' /\ chats'[old].state = "HANDED_OFF"
                 /\ chats'[old].successor = a[2]
      BY <1>1, <3>1, <3>3
    <3>4. QED
      BY <3>1, <3>2, <3>3 DEF StillSays
  <2>3. QED
    BY <2>1, <2>2
<1>8. QED
  BY <1>1, <1>4, <1>6, <1>7 DEF NavigationInv

\* A chat that is not handed off changes without a change of key or part.
LEMMA ChatChanged ==
  ASSUME NavigationInv, NEW c \in N!Chats, NEW new \in Chat, chats[c].state # "HANDED_OFF",
         new.state # "HANDED_OFF", new.key = chats[c].key, new.parent = chats[c].parent,
         new.part = chats[c].part, chats' = [chats EXCEPT ![c] = new], answered' = answered
  PROVE  NavigationInv'
<1>1. /\ chats \in Seq(Chat) /\ chats' \in Seq(Chat) /\ N!Chats' = N!Chats
      /\ \A d \in N!Chats : chats'[d] = IF d = c THEN new ELSE chats[d]
  <2>1. chats \in Seq(Chat) /\ c \in 1 .. Len(chats)
    BY DEF NavigationInv, N!Chats
  <2>2. QED
    BY <2>1, ExceptSeq DEF N!Chats
<1>2. OneKey'
  BY <1>1 DEF NavigationInv, OneKey
<1>3. ASSUME NEW d \in N!Chats PROVE HandedOff(d)'
  BY <1>1 DEF NavigationInv, HandedOff
<1>4. ASSUME NEW a \in answered PROVE StillSays(a)'
  BY <1>1 DEF NavigationInv, StillSays
<1>5. QED
  BY <1>1, <1>2, <1>3, <1>4 DEF NavigationInv

LEMMA NavigationReserve ==
  ASSUME NavigationInv, NEW key \in Keys, NEW text \in Texts, NEW parent \in N!Chats \cup {None},
         NEW part \in 1 .. 2, N!ReserveChat(key, text, parent, part)
  PROVE  NavigationInv'
<1>1. CASE N!FreshKey(key) /\ chats' = Append(chats, N!Reserved(key, text, parent, part))
           /\ answered' = answered \cup {<<key, Len(chats) + 1, None>>}
  <2> DEFINE new == N!Reserved(key, text, parent, part)
  <2>1. new \in Chat /\ new.key = key /\ new.state = "RESERVED"
    BY DEF N!Reserved, Chat, N!Chats
  <2> HIDE DEF new
  <2>2. chats \in Seq(Chat)
    BY DEF NavigationInv
  <2>3. QED
    BY <1>1, <2>1, <2>2, NewChat DEF new
<1>2. CASE \E c \in N!ByKey(key) : answered' = answered \cup {<<key, c, None>>} /\ chats' = chats
  <2>1. PICK c \in N!ByKey(key) : answered' = answered \cup {<<key, c, None>>} /\ chats' = chats
    BY <1>2
  <2>2. c \in N!Chats /\ chats[c].key = key /\ N!Chats' = N!Chats
    BY <2>1 DEF N!ByKey, N!Chats
  <2>3. StillSays(<<key, c, None>>)'
    BY <2>1, <2>2 DEF StillSays
  <2>4. \A a \in answered' : StillSays(a)'
    BY <2>1, <2>2, <2>3 DEF NavigationInv, StillSays
  <2>5. QED
    BY <2>1, <2>2, <2>4 DEF NavigationInv, OneKey, HandedOff
<1>3. QED
  BY <1>1, <1>2 DEF N!ReserveChat

LEMMA NavigationChange ==
  ASSUME NavigationInv, NEW c \in N!Chats,
         \/ \E text \in Texts : N!FinalizeChat(c, text)
         \/ \E meta \in Metadata : N!ActivateChat(c, meta)
  PROVE  NavigationInv'
<1>1. chats \in Seq(Chat) /\ chats[c] \in Chat /\ answered' = answered
  BY DEF NavigationInv, N!Chats, N!FinalizeChat, N!ActivateChat
<1>2. CASE \E text \in Texts : N!FinalizeChat(c, text)
  <2>1. PICK text \in Texts : N!FinalizeChat(c, text)
    BY <1>2
  <2> DEFINE new == [chats[c] EXCEPT !.state = "FINALIZED", !.final = text]
  <2>2. /\ new \in Chat /\ new.state # "HANDED_OFF" /\ new.key = chats[c].key
        /\ new.parent = chats[c].parent /\ new.part = chats[c].part
    BY <1>1 DEF Chat
  <2>3. chats' = [chats EXCEPT ![c] = new] /\ chats[c].state # "HANDED_OFF"
    BY <2>1 DEF N!FinalizeChat
  <2> HIDE DEF new
  <2>4. QED
    BY <1>1, <2>2, <2>3, ChatChanged
<1>3. CASE \E meta \in Metadata : N!ActivateChat(c, meta)
  <2>1. PICK meta \in Metadata : N!ActivateChat(c, meta)
    BY <1>3
  <2> DEFINE new == [chats[c] EXCEPT !.state = "ACTIVE", !.metadata = meta]
  <2>2. /\ new \in Chat /\ new.state # "HANDED_OFF" /\ new.key = chats[c].key
        /\ new.parent = chats[c].parent /\ new.part = chats[c].part
    BY <1>1 DEF Chat
  <2>3. chats' = [chats EXCEPT ![c] = new] /\ chats[c].state # "HANDED_OFF"
    BY <2>1 DEF N!ActivateChat
  <2> HIDE DEF new
  <2>4. QED
    BY <1>1, <2>2, <2>3, ChatChanged
<1>4. QED
  BY <1>2, <1>3

LEMMA NavigationRollover ==
  ASSUME NavigationInv, NEW c \in N!Chats, NEW key \in Keys, NEW text \in Texts,
         N!RolloverChat(c, text, key)
  PROVE  NavigationInv'
<1> DEFINE old == [chats[c] EXCEPT !.state = "HANDED_OFF", !.final = text,
                                   !.successor = Len(chats) + 1]
           s == [chats EXCEPT ![c] = old]
           new == N!Reserved(key, text, c, chats[c].part + 1)
<1>1. /\ chats \in Seq(Chat) /\ c \in 1 .. Len(chats) /\ chats[c] \in Chat /\ Len(chats) \in Nat
      /\ c \in Nat
  BY LenProperties DEF NavigationInv, N!Chats
<1>2. /\ old \in Chat /\ old.state = "HANDED_OFF" /\ old.key = chats[c].key
      /\ old.successor = Len(chats) + 1
      /\ old.parent = chats[c].parent /\ old.part = chats[c].part
  <2>1. ASSUME NEW r \in Chat, NEW n \in Nat, NEW t \in Texts
        PROVE  /\ [r EXCEPT !.state = "HANDED_OFF", !.final = t, !.successor = n] \in Chat
               /\ [r EXCEPT !.state = "HANDED_OFF", !.final = t, !.successor = n].successor = n
               /\ [r EXCEPT !.state = "HANDED_OFF", !.final = t, !.successor = n].key = r.key
    BY DEF Chat
  <2>2. Len(chats) + 1 \in Nat
    BY <1>1
  <2>3. old \in Chat /\ old.key = chats[c].key /\ old.successor = Len(chats) + 1
    BY <1>1, <2>1, <2>2
  <2>4. /\ old.state = "HANDED_OFF"
        /\ old.parent = chats[c].parent /\ old.part = chats[c].part
    BY <1>1 DEF Chat
  <2>5. QED
    BY <2>3, <2>4
<1>3. /\ new \in Chat /\ new.key = key /\ new.state = "RESERVED" /\ new.parent = c
      /\ new.part = chats[c].part + 1
  BY <1>1 DEF Chat, N!Reserved
<1>4. /\ chats' = Append(s, new) /\ N!FreshKey(key) /\ chats[c].state # "HANDED_OFF"
      /\ answered' = answered \cup {<<key, Len(chats) + 1, c>>}
  BY DEF N!RolloverChat, N!CanRollOver
<1> HIDE DEF old, new
<1>5. /\ s \in Seq(Chat) /\ Len(s) = Len(chats)
      /\ \A d \in 1 .. Len(chats) : s[d] = IF d = c THEN old ELSE chats[d]
  BY <1>1, <1>2, ExceptSeq
<1> HIDE DEF s
<1>6. /\ \A d \in N!Chats : s[d].key = chats[d].key
      /\ \A d \in N!Chats :
           \/ s[d] = chats[d]
           \/ /\ s[d].state = "HANDED_OFF" /\ chats[d].state # "HANDED_OFF"
              /\ s[d].successor = Len(chats) + 1 /\ new.parent = d
              /\ s[d].part = chats[d].part /\ s[d].parent = chats[d].parent
              /\ new.part = s[d].part + 1
      /\ s[c].state = "HANDED_OFF" /\ s[c].successor = Len(chats) + 1
  BY <1>1, <1>2, <1>3, <1>4, <1>5 DEF N!Chats
<1>7. QED
  BY <1>3, <1>4, <1>5, <1>6, NewChat

LEMMA NavigationAgain ==
  ASSUME NavigationInv, NEW c \in N!Chats, NEW key \in Keys, N!RolloverAgain(c, key)
  PROVE  NavigationInv'
<1>1. /\ chats' = chats /\ N!Chats' = N!Chats /\ chats[c].state = "HANDED_OFF"
      /\ chats[c].successor \in N!Chats /\ chats[chats[c].successor].key = key
      /\ answered' = answered \cup {<<key, chats[c].successor, c>>}
  BY DEF N!RolloverAgain, N!ByKey, N!Chats
<1>2. StillSays(<<key, chats[c].successor, c>>)'
  BY <1>1 DEF StillSays
<1>3. \A a \in answered' : StillSays(a)'
  BY <1>1, <1>2 DEF NavigationInv, StillSays
<1>4. QED
  BY <1>1, <1>3 DEF NavigationInv, OneKey, HandedOff

LEMMA NavigationInvariant == Spec => [](focus = "navigation" => NavigationInv)
<1>1. Init => (focus = "navigation" => NavigationInv)
  BY NavigationInit DEF Init
<1>2. (focus = "navigation" => NavigationInv) /\ [Next]_vars
      => (focus = "navigation" => NavigationInv)'
  <2> SUFFICES ASSUME focus = "navigation", NavigationInv, [Next]_vars PROVE NavigationInv'
    BY DEF Next, vars
  <2>1. ASSUME chats' = chats, answered' = answered PROVE NavigationInv'
    BY <2>1 DEF NavigationInv, OneKey, HandedOff, StillSays, N!Chats
  <2>2. CASE N!Next
    <3>1. ASSUME NEW key \in Keys, NEW text \in Texts, N!ReserveNote(key, text) PROVE NavigationInv'
      BY <2>1, <3>1 DEF N!ReserveNote
    <3>2. ASSUME NEW c \in N!Chats, NEW meta \in Metadata, N!RegisterProjection(c, meta)
          PROVE  NavigationInv'
      BY <2>1, <3>2 DEF N!RegisterProjection
    <3>3. QED
      BY <2>2, <3>1, <3>2, NavigationReserve, NavigationRollover, NavigationAgain, NavigationChange
      DEF N!Next
  <2>3. CASE UNCHANGED navigationVars
    BY <2>1, <2>3 DEF navigationVars
  <2>4. QED
    BY <2>2, <2>3 DEF Next, vars
<1>3. QED
  BY <1>1, <1>2, PTL DEF Spec

LEMMA AnswersAgree == NavigationInv => N!OneSuccessor
<1> SUFFICES ASSUME NavigationInv PROVE N!OneSuccessor
  OBVIOUS
<1>1. \A a, b \in answered : a[1] = b[1] => a[2] = b[2]
  BY DEF NavigationInv, OneKey, StillSays
<1>2. ASSUME NEW a \in answered, a[3] # None
      PROVE  /\ chats[a[3]].state = "HANDED_OFF" /\ chats[a[3]].successor = a[2]
             /\ chats[a[2]].parent = a[3] /\ chats[a[2]].part = chats[a[3]].part + 1
  BY <1>2 DEF NavigationInv, StillSays, HandedOff
<1>3. QED
  BY <1>1, <1>2 DEF N!OneSuccessor

\* However workers lose leases, die and come back, and however often hosts ask
\* again: an item in flight belongs to one worker and has no later answer, no
\* item is lost, a key is one chat and a chat has one successor.
THEOREM Given == Spec => []GivenOnce
<1>1. (focus = "queue" => QueueInv) /\ (focus = "navigation" => NavigationInv) => GivenOnce
  BY LeasesAreExclusive, AnswersAgree DEF GivenOnce
<1>2. QED
  BY <1>1, QueueInvariant, NavigationInvariant, PTL

-----------------------------------------------------------------------------
(***************************************************************************)
(* The replica.  What a syncer pushes is not older than the commit it      *)
(* pushes onto, since that head was read before the files were, nor older  *)
(* than its preview; and nothing is newer than the store.                  *)
(***************************************************************************)
Replicas == Nat \X Nat
Commits == [by : Syncers \cup {None}, replica : Replicas]
Synced == {"readback", "receipt", "clear"}

\* The branch holds every accepted push, never goes back, and never runs ahead
\* of the store.
History ==
  /\ events \in Nat /\ state \in 0 .. events /\ branch \in Seq(Commits)
  /\ R!NothingOverwritten /\ \A p \in pushed : p[1] \in 1 .. R!Tip
  /\ R!NeverGoesBack
  /\ \A b \in 1 .. R!Tip :
       branch[b].replica[1] <= events /\ branch[b].replica[2] <= state

Reading == {"health", "list", "state", "head", "copy", "push"}
Active == [at : Reading \cup Synced, round : 1 .. 3, seen : Replicas, preview : Replicas,
           base : Nat]
SyncStates == [at : {"idle"}] \cup Active

\* What process y has previewed, cloned and read.  The head it clones is older
\* than the files of the third reading, and so is the preview.
Syncing(y) ==
  /\ y.at # "idle" => /\ y.base \in 0 .. R!Tip
                      /\ y.preview[1] <= events /\ y.preview[2] <= state
                      /\ y.seen[1] <= events /\ y.seen[2] <= state
  /\ (y.at = "state" /\ y.round = 3) \/ y.at \in {"copy", "push"} =>
       R!ReplicaAt(y.base)[1] <= y.seen[1] /\ y.preview[1] <= y.seen[1]
  /\ y.at \in {"copy", "push"} =>
       R!ReplicaAt(y.base)[2] <= y.seen[2] /\ y.preview[2] <= y.seen[2]
  /\ y.at \in Synced =>
       /\ R!ReplicaAt(y.base) = y.seen
       /\ y.preview[1] <= y.seen[1] /\ y.preview[2] <= y.seen[2]

\* Commit b is not older than preview p.
Covers(b, p) == p[1] <= R!ReplicaAt(b)[1] /\ p[2] <= R!ReplicaAt(b)[2]

Received ==
  receipt # None => receipt.commit \in 0 .. R!Tip /\ Covers(receipt.commit, receipt.previewed)

ReplicaInv ==
  /\ History /\ Received
  /\ sync \in [Syncers -> SyncStates] /\ \A s \in Syncers : Syncing(sync[s])

LEMMA ReplicaInit == R!Init => ReplicaInv
<1> SUFFICES ASSUME R!Init PROVE ReplicaInv
  OBVIOUS
<1>1. /\ events = 1 /\ state = 1 /\ branch = << >> /\ pushed = {} /\ receipt = None
      /\ sync = [s \in Syncers |-> [at |-> "idle"]] /\ R!Tip = 0
  BY DEF R!Init, R!Idle, R!Tip
<1>2. History
  BY <1>1 DEF History, R!NothingOverwritten, R!NeverGoesBack
<1>3. sync \in [Syncers -> SyncStates] /\ \A s \in Syncers : Syncing(sync[s])
  BY <1>1 DEF SyncStates, Active, Syncing, Synced
<1>4. QED
  BY <1>1, <1>2, <1>3 DEF ReplicaInv, Received

\* What any commit of the branch holds, none included.
LEMMA ReplicaOfBase ==
  ASSUME History, NEW b \in 0 .. R!Tip
  PROVE  /\ R!Tip \in Nat /\ R!ReplicaAt(b) \in Replicas
         /\ R!ReplicaAt(b)[1] <= events /\ R!ReplicaAt(b)[2] <= state
<1>1. R!Tip = Len(branch) /\ branch \in Seq(Commits) /\ events \in Nat /\ state \in Nat
  BY DEF History, R!Tip
<1>2. CASE b = 0
  BY <1>1, <1>2, LenProperties DEF R!ReplicaAt, R!Empty, Replicas
<1>3. CASE b # 0
  <2>1. b \in 1 .. Len(branch) /\ Len(branch) \in Nat
    BY <1>1, <1>3, LenProperties
  <2>2. branch[b] \in Commits
    BY <1>1, <2>1
  <2>3. R!ReplicaAt(b) = branch[b].replica
    BY <1>3 DEF R!ReplicaAt
  <2>4. QED
    BY <1>1, <2>1, <2>2, <2>3 DEF History, Commits
<1>4. QED
  BY <1>2, <1>3

\* A commit on top of the head, neither older than it nor newer than the store.
LEMMA CommitAdded ==
  ASSUME History, NEW who \in Syncers \cup {None}, NEW r \in Replicas, R!Accepted(who, r),
         R!ReplicaAt(R!Tip)[1] <= r[1], R!ReplicaAt(R!Tip)[2] <= r[2],
         r[1] <= events, r[2] <= state, UNCHANGED <<events, state>>
  PROVE  /\ History' /\ R!Tip \in Nat /\ R!Tip' = R!Tip + 1
         /\ \A b \in 0 .. R!Tip : R!ReplicaAt(b)' = R!ReplicaAt(b)
         /\ R!ReplicaAt(R!Tip)' = r
<1> DEFINE new == [by |-> who, replica |-> r]
<1>1. /\ branch \in Seq(Commits) /\ R!Tip = Len(branch) /\ R!Tip' = Len(branch')
      /\ branch' = Append(branch, new) /\ pushed' = pushed \cup {<<R!Tip + 1, who, r>>}
      /\ new \in Commits
  BY DEF History, R!Tip, R!Accepted, Commits
<1> HIDE DEF new
<1>2. /\ R!Tip \in Nat /\ R!Tip' = R!Tip + 1 /\ branch' \in Seq(Commits)
      /\ \A b \in 1 .. R!Tip : branch'[b] = branch[b]
      /\ branch'[R!Tip + 1] = new
  BY <1>1, LenProperties, AppendProperties
<1>3. new.by = who /\ new.replica = r
  BY DEF new
<1>4. \A b \in 0 .. R!Tip : R!ReplicaAt(b)' = R!ReplicaAt(b)
  BY <1>2 DEF R!ReplicaAt, R!Empty
<1>5. R!ReplicaAt(R!Tip)' = r
  <2>1. R!Tip' # 0
    BY <1>2
  <2>2. QED
    BY <1>2, <1>3, <2>1 DEF R!ReplicaAt
<1>6. \A b \in 1 .. R!Tip + 1 : b \in 1 .. R!Tip \/ b = R!Tip + 1
  BY <1>2
<1>7. R!NothingOverwritten' /\ \A p \in pushed' : p[1] \in 1 .. R!Tip'
  <2>1. ASSUME NEW p \in pushed
        PROVE  p[1] \in 1 .. R!Tip' /\ branch'[p[1]] = [by |-> p[2], replica |-> p[3]]
    <3>1. p[1] \in 1 .. R!Tip /\ branch[p[1]] = [by |-> p[2], replica |-> p[3]]
      BY DEF History, R!NothingOverwritten
    <3>2. QED
      BY <1>2, <3>1
  <2>2. ASSUME NEW p, p = <<R!Tip + 1, who, r>>
        PROVE  p[1] \in 1 .. R!Tip' /\ branch'[p[1]] = [by |-> p[2], replica |-> p[3]]
    BY <1>2, <2>2 DEF new
  <2>3. ASSUME NEW p \in pushed'
        PROVE  p[1] \in 1 .. R!Tip' /\ branch'[p[1]] = [by |-> p[2], replica |-> p[3]]
    BY <1>1, <2>1, <2>2, <2>3
  <2>4. R!Tip' \in Nat
    BY <1>2
  <2>5. ASSUME NEW p \in pushed' PROVE p[1] <= R!Tip'
    <3>1. p[1] \in 1 .. R!Tip'
      BY <2>3
    <3>2. QED
      BY <2>4, <3>1
  <2>6. QED
    BY <2>3, <2>5 DEF R!NothingOverwritten
<1>8. \A b \in 1 .. R!Tip' :
        branch'[b].replica[1] <= events' /\ branch'[b].replica[2] <= state'
  BY <1>2, <1>3, <1>6 DEF History
<1>9. R!NeverGoesBack'
  <2>1. ASSUME NEW b \in 1 .. R!Tip - 1
        PROVE  /\ branch'[b].replica[1] <= branch'[b + 1].replica[1]
               /\ branch'[b].replica[2] <= branch'[b + 1].replica[2]
    <3>1. b \in 1 .. R!Tip /\ b + 1 \in 1 .. R!Tip
      BY <1>2
    <3>2. QED
      BY <1>2, <3>1 DEF History, R!NeverGoesBack
  <2>2. ASSUME R!Tip # 0
        PROVE  /\ branch'[R!Tip].replica[1] <= branch'[R!Tip + 1].replica[1]
               /\ branch'[R!Tip].replica[2] <= branch'[R!Tip + 1].replica[2]
    <3>1. R!Tip \in 1 .. R!Tip /\ R!ReplicaAt(R!Tip) = branch[R!Tip].replica
      BY <1>2, <2>2 DEF R!ReplicaAt
    <3>2. QED
      BY <1>2, <1>3, <3>1
  <2>3. \A b \in 1 .. R!Tip' - 1 : b \in 1 .. R!Tip - 1 \/ (b = R!Tip /\ R!Tip # 0)
    BY <1>2
  <2>4. QED
    BY <2>1, <2>2, <2>3 DEF R!NeverGoesBack
<1>10. QED
  BY <1>2, <1>4, <1>5, <1>7, <1>8, <1>9 DEF History

\* What a process has read stays true of a longer branch and a later store.
LEMMA StillSyncing ==
  ASSUME History, History', NEW y \in SyncStates, Syncing(y), R!Tip <= R!Tip',
         \A b \in 0 .. R!Tip : R!ReplicaAt(b)' = R!ReplicaAt(b),
         events <= events', state <= state'
  PROVE  Syncing(y)'
<1>1. /\ R!Tip \in Nat /\ events \in Nat /\ state \in Nat /\ events' \in Nat /\ state' \in Nat
      /\ R!Tip' \in Nat
  BY LenProperties DEF History, R!Tip
<1>2. CASE y.at = "idle"
  BY <1>2 DEF Syncing, Synced
<1>3. CASE y.at # "idle"
  <2>1. y.base \in 0 .. R!Tip /\ y.base \in 0 .. R!Tip'
    BY <1>1, <1>3 DEF Syncing
  <2>2. R!ReplicaAt(y.base)' = R!ReplicaAt(y.base)
    BY <2>1
  <2>3. /\ y.seen[1] \in Nat /\ y.seen[2] \in Nat
        /\ y.preview[1] \in Nat /\ y.preview[2] \in Nat
    BY <1>3 DEF SyncStates, Active, Replicas
  <2>4. QED
    BY <1>1, <2>1, <2>2, <2>3 DEF Syncing
<1>4. QED
  BY <1>2, <1>3

LEMMA ReplicaStore ==
  ASSUME ReplicaInv, R!WriteEvent \/ R!WriteState \/ R!ConfigureSync
  PROVE  ReplicaInv'
<1>1. /\ UNCHANGED <<branch, pushed, receipt, sync>> /\ R!Tip' = R!Tip
      /\ \A b \in 0 .. R!Tip : R!ReplicaAt(b)' = R!ReplicaAt(b)
  BY DEF R!WriteEvent, R!WriteState, R!ConfigureSync, R!Tip, R!ReplicaAt, R!Empty
<1>2. /\ events \in Nat /\ state \in Nat /\ R!Tip \in Nat
      /\ \A b \in 1 .. R!Tip : branch[b] \in Commits
  BY LenProperties DEF ReplicaInv, History, R!Tip
<1>3. events' \in Nat /\ state' \in 0 .. events' /\ events <= events' /\ state <= state'
  BY <1>2 DEF ReplicaInv, History, R!WriteEvent, R!WriteState, R!ConfigureSync
<1>4. History'
  <2>1. R!NothingOverwritten' /\ R!NeverGoesBack' /\ \A p \in pushed' : p[1] \in 1 .. R!Tip'
    BY <1>1 DEF ReplicaInv, History, R!NothingOverwritten, R!NeverGoesBack
  <2>2. \A b \in 1 .. R!Tip : branch[b].replica[1] <= events' /\ branch[b].replica[2] <= state'
    BY <1>2, <1>3 DEF ReplicaInv, History, Commits, Replicas
  <2>3. QED
    BY <1>1, <1>3, <2>1, <2>2 DEF ReplicaInv, History
<1>5. \A s \in Syncers : Syncing(sync[s])'
  BY <1>1, <1>2, <1>3, <1>4, StillSyncing DEF ReplicaInv
<1>6. Received'
  BY <1>1 DEF ReplicaInv, Received, Covers, R!ReplicaAt, R!Empty
<1>7. QED
  BY <1>1, <1>4, <1>5, <1>6 DEF ReplicaInv

\* A step of one process that leaves the store and the branch alone.
LEMMA SyncerMoves ==
  ASSUME ReplicaInv, NEW s \in Syncers, NEW y \in SyncStates, Syncing(y),
         sync' = [sync EXCEPT ![s] = y], UNCHANGED <<events, state, branch, pushed>>, Received'
  PROVE  ReplicaInv'
<1>1. History'
  BY DEF ReplicaInv, History, R!NothingOverwritten, R!NeverGoesBack, R!Tip
<1>2. ASSUME NEW z, Syncing(z) PROVE Syncing(z)'
  BY <1>2 DEF Syncing, R!Tip, R!ReplicaAt, R!Empty
<1>3. sync \in [Syncers -> SyncStates] /\ \A t \in Syncers : Syncing(sync[t])
  BY DEF ReplicaInv
<1>4. /\ sync' \in [Syncers -> SyncStates]
      /\ \A t \in Syncers : sync'[t] = IF t = s THEN y ELSE sync[t]
  BY <1>3
<1>5. \A t \in Syncers : Syncing(sync[t])'
  BY <1>2, <1>3, <1>4
<1>6. QED
  BY <1>1, <1>4, <1>5 DEF ReplicaInv

\* A step of one process that leaves the receipt alone too.
LEMMA SyncerReads ==
  ASSUME ReplicaInv, NEW s \in Syncers, NEW y \in SyncStates, Syncing(y),
         sync' = [sync EXCEPT ![s] = y],
         UNCHANGED <<events, state, branch, pushed, receipt>>
  PROVE  ReplicaInv'
<1>1. Received'
  BY DEF ReplicaInv, Received, Covers, R!Tip, R!ReplicaAt, R!Empty
<1>2. QED
  BY <1>1, SyncerMoves

\* The first two readings, and what is compared in between.
LEMMA ReplicaPreviews ==
  ASSUME ReplicaInv, NEW s \in Syncers,
         R!Begin(s) \/ R!CheckHealth(s) \/ R!Preview(s) \/ R!Recheck(s)
  PROVE  ReplicaInv'
<1>1. /\ sync[s] \in SyncStates /\ Syncing(sync[s])
      /\ events \in Nat /\ state \in Nat /\ R!Tip \in Nat
  BY LenProperties DEF ReplicaInv, History, R!Tip
<1>2. UNCHANGED <<events, state, branch, pushed, receipt>>
  BY DEF R!Begin, R!CheckHealth, R!Preview, R!Recheck
<1>3. CASE R!Begin(s)
  <2> DEFINE y == [at |-> "health", round |-> 1, seen |-> R!Empty, preview |-> R!Empty,
                   base |-> 0]
  <2>1. y \in SyncStates /\ Syncing(y)
    BY <1>1 DEF SyncStates, Active, Reading, Replicas, Syncing, Synced, R!Empty
  <2>2. sync' = [sync EXCEPT ![s] = y]
    BY <1>3 DEF R!Begin
  <2> HIDE DEF y
  <2>3. QED
    BY <1>2, <2>1, <2>2, SyncerReads
<1>4. CASE R!CheckHealth(s)
  <2> DEFINE y == [sync[s] EXCEPT !.at = "list"]
  <2>1. y \in SyncStates /\ Syncing(y)
    BY <1>1, <1>4 DEF R!CheckHealth, SyncStates, Active, Reading, Syncing, Synced
  <2>2. sync' = [sync EXCEPT ![s] = y]
    BY <1>4 DEF R!CheckHealth
  <2> HIDE DEF y
  <2>3. QED
    BY <1>2, <2>1, <2>2, SyncerReads
<1>5. CASE R!Preview(s)
  <2> DEFINE w == [sync[s] EXCEPT !.at = "health"]
             z == [w EXCEPT !.round = 2]
             y == [z EXCEPT !.preview = sync[s].seen, !.base = R!Tip]
  <2>1. sync[s].at = "head" /\ sync' = [sync EXCEPT ![s] = y]
    BY <1>5 DEF R!Preview
  <2>2. w \in Active /\ w.at = "health" /\ w.seen = sync[s].seen /\ sync[s].seen \in Replicas
    BY <1>1, <2>1 DEF SyncStates, Active, Reading
  <2> HIDE DEF w
  <2>3. z \in Active /\ z.at = "health" /\ z.seen = sync[s].seen
    BY <2>2 DEF Active
  <2> HIDE DEF z
  <2>4. /\ y \in Active /\ y.at = "health" /\ y.preview = sync[s].seen
        /\ y.seen = sync[s].seen /\ y.base = R!Tip
    BY <1>1, <2>2, <2>3 DEF Active
  <2> HIDE DEF y
  <2>5. y \in SyncStates /\ Syncing(y)
    BY <1>1, <2>1, <2>4 DEF Syncing, Synced, SyncStates, Active
  <2>6. QED
    BY <1>2, <2>1, <2>5, SyncerReads
<1>6. CASE R!Recheck(s)
  <2> DEFINE z == [sync[s] EXCEPT !.at = "health"]
             y == [z EXCEPT !.round = 3]
  <2>1. sync[s].at = "head" /\ sync' = [sync EXCEPT ![s] = y]
    BY <1>6 DEF R!Recheck
  <2>2. /\ z \in Active /\ z.at = "health" /\ z.preview = sync[s].preview /\ z.seen = sync[s].seen
        /\ z.base = sync[s].base
    BY <1>1, <2>1 DEF SyncStates, Active, Reading
  <2> HIDE DEF z
  <2>3. /\ y \in Active /\ y.at = "health" /\ y.preview = sync[s].preview
        /\ y.seen = sync[s].seen /\ y.base = sync[s].base
    BY <2>2 DEF Active
  <2> HIDE DEF y
  <2>4. y \in SyncStates /\ Syncing(y)
    BY <1>1, <2>1, <2>3 DEF Syncing, Synced, SyncStates, Active
  <2>5. QED
    BY <1>2, <2>1, <2>4, SyncerReads
<1>7. QED
  BY <1>3, <1>4, <1>5, <1>6

\* The files, and their copy.
LEMMA ReplicaReads ==
  ASSUME ReplicaInv, NEW s \in Syncers,
         R!ListEvents(s) \/ R!ReadState(s) \/ R!Materialize(s)
  PROVE  ReplicaInv'
<1>1. /\ sync[s] \in SyncStates /\ Syncing(sync[s]) /\ History
      /\ events \in Nat /\ state \in Nat /\ R!Tip \in Nat
  BY LenProperties DEF ReplicaInv, History, R!Tip
<1>2. /\ UNCHANGED <<events, state, branch, pushed, receipt>> /\ sync[s].at # "idle"
  BY DEF R!ListEvents, R!ReadState, R!Materialize
<1>3. /\ sync[s].base \in 0 .. R!Tip /\ sync[s].preview \in Replicas
      /\ sync[s].seen \in Replicas
      /\ sync[s].preview[1] <= events /\ sync[s].preview[2] <= state
      /\ sync[s].seen[1] <= events /\ sync[s].seen[2] <= state
  BY <1>1, <1>2 DEF Syncing, SyncStates, Active
<1>4. /\ R!ReplicaAt(sync[s].base)[1] <= events /\ R!ReplicaAt(sync[s].base)[2] <= state
  BY <1>1, <1>3, ReplicaOfBase
<1>5. CASE R!ListEvents(s)
  <2> DEFINE y == [sync[s] EXCEPT !.at = "state", !.seen = <<events, 0>>]
  <2>1. sync[s].at = "list" /\ sync' = [sync EXCEPT ![s] = y]
    BY <1>5 DEF R!ListEvents
  <2>2. /\ y \in SyncStates /\ y.at = "state" /\ y.base = sync[s].base
        /\ y.preview = sync[s].preview /\ y.seen = <<events, 0>>
    BY <1>1, <2>1 DEF SyncStates, Active, Reading, Replicas, Synced
  <2> HIDE DEF y
  <2>3. Syncing(y)
    BY <1>1, <1>3, <1>4, <2>2 DEF Syncing, Synced
  <2>4. QED
    BY <1>2, <2>1, <2>2, <2>3, SyncerReads
<1>6. CASE R!ReadState(s)
  <2> DEFINE y == [sync[s] EXCEPT !.at = IF sync[s].round = 3 THEN "copy" ELSE "head",
                                  !.seen = <<sync[s].seen[1], state>>]
  <2>1. sync[s].at = "state" /\ sync' = [sync EXCEPT ![s] = y]
    BY <1>6 DEF R!ReadState
  <2>2. /\ y \in SyncStates /\ y.base = sync[s].base /\ y.preview = sync[s].preview
        /\ y.seen = <<sync[s].seen[1], state>>
        /\ y.at = IF sync[s].round = 3 THEN "copy" ELSE "head"
    BY <1>1, <1>3, <2>1 DEF SyncStates, Active, Reading, Replicas, Synced
  <2>3. sync[s].round = 3 =>
          /\ R!ReplicaAt(sync[s].base)[1] <= sync[s].seen[1]
          /\ sync[s].preview[1] <= sync[s].seen[1]
    BY <1>1, <2>1 DEF Syncing
  <2> HIDE DEF y
  <2>4. Syncing(y)
    BY <1>1, <1>3, <1>4, <2>2, <2>3 DEF Syncing, Synced
  <2>5. QED
    BY <1>2, <2>1, <2>2, <2>4, SyncerReads
<1>7. CASE R!Materialize(s)
  <2> DEFINE y == [sync[s] EXCEPT !.at = IF sync[s].seen = R!ReplicaAt(sync[s].base)
                                         THEN "readback" ELSE "push"]
  <2>1. sync[s].at = "copy" /\ sync' = [sync EXCEPT ![s] = y]
    BY <1>7 DEF R!Materialize
  <2>2. /\ y \in SyncStates /\ y.base = sync[s].base /\ y.seen = sync[s].seen
        /\ y.preview = sync[s].preview
        /\ y.at = IF sync[s].seen = R!ReplicaAt(sync[s].base) THEN "readback" ELSE "push"
    BY <1>1, <2>1 DEF SyncStates, Active, Reading, Synced
  <2> HIDE DEF y
  <2>3. Syncing(y)
    BY <1>1, <2>1, <2>2 DEF Syncing, Synced
  <2>4. QED
    BY <1>2, <2>1, <2>2, <2>3, SyncerReads
<1>8. QED
  BY <1>5, <1>6, <1>7

LEMMA ReplicaAnswers ==
  ASSUME ReplicaInv, NEW s \in Syncers,
         R!Readback(s) \/ R!WriteReceipt(s) \/ R!ClearError(s) \/ R!Fails(s) \/ R!Killed(s)
  PROVE  ReplicaInv'
<1>1. /\ sync[s] \in SyncStates /\ Syncing(sync[s]) /\ Received
      /\ UNCHANGED <<events, state, branch, pushed>>
  BY DEF ReplicaInv, R!Readback, R!WriteReceipt, R!ClearError, R!Fails, R!Killed
<1>2. CASE R!Readback(s)
  <2> DEFINE y == [sync[s] EXCEPT !.at = "receipt"]
  <2>1. y \in SyncStates /\ Syncing(y)
    BY <1>1, <1>2 DEF R!Readback, SyncStates, Active, Reading, Syncing, Synced
  <2>2. sync' = [sync EXCEPT ![s] = y] /\ receipt' = receipt
    BY <1>2 DEF R!Readback
  <2>3. Received'
    BY <1>1, <2>2 DEF Received, Covers, R!Tip, R!ReplicaAt, R!Empty
  <2> HIDE DEF y
  <2>4. QED
    BY <1>1, <2>1, <2>2, <2>3, SyncerMoves
<1>3. CASE R!WriteReceipt(s)
  <2> DEFINE y == [sync[s] EXCEPT !.at = "clear"]
  <2>1. y \in SyncStates /\ Syncing(y)
    BY <1>1, <1>3 DEF R!WriteReceipt, SyncStates, Active, Reading, Syncing, Synced
  <2>2. /\ sync' = [sync EXCEPT ![s] = y] /\ sync[s].at = "receipt"
        /\ receipt' = [commit |-> sync[s].base, previewed |-> sync[s].preview]
    BY <1>3 DEF R!WriteReceipt
  <2>3. sync[s].base \in 0 .. R!Tip /\ Covers(sync[s].base, sync[s].preview)
    BY <1>1, <2>2 DEF Syncing, Synced, Covers
  <2>4. receipt'.commit \in 0 .. R!Tip /\ Covers(receipt'.commit, receipt'.previewed)
    BY <2>2, <2>3
  <2>5. Received'
    BY <1>1, <2>4 DEF Received, Covers, R!Tip, R!ReplicaAt, R!Empty
  <2> HIDE DEF y
  <2>6. QED
    BY <1>1, <2>1, <2>2, <2>5, SyncerMoves
<1>4. CASE R!ClearError(s) \/ R!Fails(s) \/ R!Killed(s)
  <2>1. R!Idle \in SyncStates /\ Syncing(R!Idle)
    BY DEF R!Idle, SyncStates, Active, Syncing, Synced
  <2>2. sync' = [sync EXCEPT ![s] = R!Idle] /\ receipt' = receipt
    BY <1>4 DEF R!ClearError, R!Fails, R!Killed
  <2>3. Received'
    BY <1>1, <2>2 DEF Received, Covers, R!Tip, R!ReplicaAt, R!Empty
  <2>4. QED
    BY <1>1, <2>1, <2>2, <2>3, SyncerMoves
<1>5. QED
  BY <1>2, <1>3, <1>4

\* The commit and the receipt of before are where they were.
LEMMA ReplicaForeign == ASSUME ReplicaInv, R!ForeignPush PROVE ReplicaInv'
<1>1. /\ R!Accepted(None, R!ReplicaAt(R!Tip)) /\ UNCHANGED <<events, state, receipt, sync>>
      /\ History
  BY DEF ReplicaInv, R!ForeignPush
<1>2. /\ R!Tip \in Nat /\ R!ReplicaAt(R!Tip) \in Replicas
      /\ R!ReplicaAt(R!Tip)[1] <= events /\ R!ReplicaAt(R!Tip)[2] <= state
  <2>1. R!Tip \in 0 .. R!Tip
    BY <1>1, LenProperties DEF History, R!Tip
  <2>2. QED
    BY <1>1, <2>1, ReplicaOfBase
<1>3. R!ReplicaAt(R!Tip)[1] \in Nat /\ R!ReplicaAt(R!Tip)[2] \in Nat
  BY <1>2 DEF Replicas
<1>4. /\ History' /\ R!Tip' = R!Tip + 1
      /\ \A b \in 0 .. R!Tip : R!ReplicaAt(b)' = R!ReplicaAt(b)
  BY <1>1, <1>2, <1>3, CommitAdded
<1>5. \A s \in Syncers : Syncing(sync[s])'
  BY <1>1, <1>2, <1>4, StillSyncing DEF ReplicaInv, History
<1>6. Received'
  <2>1. ASSUME receipt # None
        PROVE  receipt.commit \in 0 .. R!Tip' /\ Covers(receipt.commit, receipt.previewed)'
    <3>1. receipt.commit \in 0 .. R!Tip /\ Covers(receipt.commit, receipt.previewed)
      BY <2>1 DEF ReplicaInv, Received
    <3>2. R!ReplicaAt(receipt.commit)' = R!ReplicaAt(receipt.commit)
      BY <1>1, <1>4, <3>1
    <3>3. QED
      BY <1>1, <1>2, <1>4, <3>1, <3>2 DEF Covers
  <2>2. QED
    BY <1>1, <2>1 DEF Received
<1>7. QED
  BY <1>1, <1>4, <1>5, <1>6 DEF ReplicaInv

LEMMA ReplicaPush == ASSUME ReplicaInv, NEW s \in Syncers, R!Push(s) PROVE ReplicaInv'
<1> DEFINE y == [sync[s] EXCEPT !.at = "readback", !.base = sync[s].base + 1]
           r == sync[s].seen
<1>1. /\ R!Accepted(s, r) /\ UNCHANGED <<events, state, receipt>> /\ History
      /\ sync[s].at = "push" /\ sync[s].base = R!Tip
      /\ sync' = [sync EXCEPT ![s] = y]
      /\ sync \in [Syncers -> SyncStates] /\ sync[s] \in SyncStates /\ Syncing(sync[s])
  BY DEF ReplicaInv, R!Push
<1>2. /\ r \in Replicas /\ R!ReplicaAt(R!Tip)[1] <= r[1] /\ R!ReplicaAt(R!Tip)[2] <= r[2]
      /\ r[1] <= events /\ r[2] <= state
      /\ sync[s].preview[1] <= r[1] /\ sync[s].preview[2] <= r[2]
  BY <1>1 DEF Syncing, SyncStates, Active
<1>3. /\ History' /\ R!Tip \in Nat /\ R!Tip' = R!Tip + 1
      /\ \A b \in 0 .. R!Tip : R!ReplicaAt(b)' = R!ReplicaAt(b)
      /\ R!ReplicaAt(R!Tip)' = r
  BY <1>1, <1>2, CommitAdded
<1>4. /\ y \in SyncStates /\ y.at = "readback" /\ y.base = R!Tip' /\ y.seen = r
      /\ y.preview = sync[s].preview
  <2>1. sync[s] \in Active /\ sync[s].base + 1 \in Nat
    BY <1>1, <1>3 DEF SyncStates, Active
  <2>2. y \in Active
    BY <2>1 DEF Active, Synced
  <2>3. /\ y.at = "readback" /\ y.base = sync[s].base + 1 /\ y.seen = r
        /\ y.preview = sync[s].preview
    BY <2>1
  <2>4. QED
    BY <1>1, <1>3, <2>2, <2>3 DEF SyncStates, Active
<1> HIDE DEF y, r
<1>5. /\ sync' \in [Syncers -> SyncStates]
      /\ \A t \in Syncers : sync'[t] = IF t = s THEN y ELSE sync[t]
  BY <1>1, <1>4
<1>6. Syncing(sync[s])'
  <2>1. /\ sync'[s].base = R!Tip' /\ sync'[s].seen = r /\ sync'[s].at = "readback"
        /\ sync'[s].preview = sync[s].preview
    BY <1>4, <1>5
  <2>2. R!Tip' \in 0 .. R!Tip' /\ r \in Replicas /\ sync[s].preview \in Replicas
    BY <1>1, <1>2, <1>3 DEF SyncStates, Active
  <2>3. r[1] <= events' /\ r[2] <= state'
    BY <1>1, <1>2
  <2>4. sync[s].preview[1] <= events' /\ sync[s].preview[2] <= state'
    BY <1>1 DEF Syncing
  <2>5. QED
    BY <1>2, <1>3, <2>1, <2>2, <2>3, <2>4 DEF Syncing
<1>7. ASSUME NEW t \in Syncers, t # s PROVE Syncing(sync[t])'
  <2>1. sync'[t] = sync[t] /\ sync[t] \in SyncStates /\ Syncing(sync[t])
    BY <1>1, <1>5, <1>7 DEF ReplicaInv
  <2>2. /\ R!Tip <= R!Tip' /\ events <= events' /\ state <= state'
    BY <1>1, <1>3 DEF History
  <2>3. QED
    BY <1>1, <1>3, <2>1, <2>2, StillSyncing
<1>8. Received'
  <2>1. ASSUME receipt # None
        PROVE  receipt.commit \in 0 .. R!Tip' /\ Covers(receipt.commit, receipt.previewed)'
    <3>1. receipt.commit \in 0 .. R!Tip /\ Covers(receipt.commit, receipt.previewed)
      BY <2>1 DEF ReplicaInv, Received
    <3>2. R!ReplicaAt(receipt.commit)' = R!ReplicaAt(receipt.commit)
      BY <1>1, <1>3, <3>1
    <3>3. QED
      BY <1>1, <1>3, <3>1, <3>2 DEF Covers
  <2>2. QED
    BY <1>1, <2>1 DEF Received
<1>9. QED
  BY <1>3, <1>5, <1>6, <1>7, <1>8 DEF ReplicaInv

LEMMA ReplicaInvariant == Spec => [](focus = "replica" => ReplicaInv)
<1>1. Init => (focus = "replica" => ReplicaInv)
  BY ReplicaInit DEF Init
<1>2. (focus = "replica" => ReplicaInv) /\ [Next]_vars => (focus = "replica" => ReplicaInv)'
  <2> SUFFICES ASSUME focus = "replica", ReplicaInv, [Next]_vars PROVE ReplicaInv'
    BY DEF Next, vars
  <2>1. CASE R!Next
    BY <2>1, ReplicaStore, ReplicaPreviews, ReplicaReads, ReplicaAnswers, ReplicaForeign,
       ReplicaPush DEF R!Next
  <2>2. CASE UNCHANGED replicaVars
    BY <2>2
    DEF replicaVars, ReplicaInv, History, Syncing, Received, Covers, R!NothingOverwritten,
        R!NeverGoesBack, R!Tip, R!ReplicaAt, R!Empty
  <2>3. QED
    BY <2>1, <2>2 DEF Next, vars
<1>3. QED
  BY <1>1, <1>2, PTL DEF Spec

\* However many processes synchronise while others write the store and push:
\* no accepted commit is lost, the replica never goes back, and the receipt
\* names a commit of the branch that is no older than what it describes.
THEOREM Replication == Spec => []ReplicaSound
<1>1. (focus = "replica" => ReplicaInv) => ReplicaSound
  <2> SUFFICES ASSUME ReplicaInv PROVE R!NothingOverwritten /\ R!NeverGoesBack /\ R!ReceiptTrue
    BY DEF ReplicaSound
  <2>1. R!Tip \in Nat
    BY LenProperties DEF ReplicaInv, History, R!Tip
  <2>2. QED
    BY <2>1 DEF ReplicaInv, History, Received, Covers, R!ReceiptTrue
<1>2. QED
  BY <1>1, ReplicaInvariant, PTL

\* Every non-empty set of numbers has a least one.
LEMMA LeastNumber ==
  ASSUME NEW T \in SUBSET Nat, T # {}
  PROVE  \E n \in T : \A m \in T : n <= m
<1> DEFINE Rel == StrictSubsetOrdering(Nat)
           Fin == FiniteSubsetsOf(Nat)
           Ints == {0 .. n : n \in T}
<1>1. IsWellFoundedOn(Rel, Fin)
  BY FS_StrictSubsetOrderingWellFounded
<1>2. Ints \subseteq Fin
  <2> SUFFICES ASSUME NEW n \in T PROVE 0 .. n \in Fin
    OBVIOUS
  <2> QED  BY FS_Interval DEF FiniteSubsetsOf
<1>3. Ints # {}
  OBVIOUS
<1>4. \E x \in Ints : \A y \in Ints : ~(<<y, x>> \in Rel)
  <2> HIDE DEF Rel, Fin, Ints
  <2> QED  BY <1>1, <1>2, <1>3, WFMin
<1>5. PICK n \in T : \A y \in Ints : ~(<<y, 0 .. n>> \in Rel)
  BY <1>4
<1>6. ASSUME NEW m \in T, m < n PROVE FALSE
  <2>1. 0 .. m \in SUBSET Nat /\ 0 .. n \in SUBSET Nat
    OBVIOUS
  <2>2. 0 .. m \subseteq 0 .. n /\ 0 .. m # 0 .. n
    BY <1>6
  <2> QED  BY <1>5, <2>1, <2>2, <1>2 DEF StrictSubsetOrdering, FiniteSubsetsOf
<1> QED  BY <1>6

(***************************************************************************)
(* Outcomes of a goal.  Whatever changes takes the answer back, so that an *)
(* answer is the decision of now; and a report is derived from a source    *)
(* its outcome can have.                                                   *)
(***************************************************************************)
Derived(o) == report[o] = None \/ \E s \in Sources[o], n \in 0 .. 1 : report[o] = O!Derive(s, n)

OutcomeInv ==
  /\ source \in [Outcomes -> UNION {Sources[o] : o \in Outcomes}]
  /\ \A o \in Outcomes : source[o] \in Sources[o]
  /\ bound \in Outcomes
  /\ report = [o \in Outcomes |-> report[o]]
  /\ \A o \in Outcomes : Derived(o)
  /\ attempts \in [Outcomes -> Seq(Nat)] /\ facts \in [Outcomes -> Nat]
  /\ O!NoBlindRepeat
  /\ context # None => context = O!Decision /\ \A o \in Outcomes : O!Verified(o)

LEMMA OutcomeInit == O!Init => OutcomeInv
<1> SUFFICES ASSUME O!Init PROVE OutcomeInv
  OBVIOUS
<1>1. attempts \in [Outcomes -> Seq(Nat)] /\ facts \in [Outcomes -> Nat]
  BY DEF O!Init
<1>2. \A o \in Outcomes : attempts[o] = << >>
  BY DEF O!Init
<1>3. O!NoBlindRepeat
  BY <1>2, OutcomeAssumption DEF O!NoBlindRepeat
<1>4. report = [o \in Outcomes |-> report[o]] /\ \A o \in Outcomes : Derived(o)
  BY DEF O!Init, Derived
<1>5. QED
  BY <1>1, <1>3, <1>4 DEF O!Init, OutcomeInv

\* What a decision reads.
LEMMA DecisionStays ==
  ASSUME UNCHANGED <<source, report, synthesis, attempts, facts, bound, stopped, route>>
  PROVE  O!Decision' = O!Decision /\ \A o \in Outcomes : O!Verified(o)' <=> O!Verified(o)
<1>1. O!Recovery(bound)' = O!Recovery(bound)
  BY DEF O!Recovery
<1>2. O!TechnicallyComplete' <=> O!TechnicallyComplete
  BY DEF O!TechnicallyComplete, O!Matrix, O!Claims, O!Reported, O!ProofBinds
<1>3. O!ReadyOutcomes' = O!ReadyOutcomes
  BY DEF O!ReadyOutcomes, O!Open, O!Matrix
<1>4. O!Independent' = O!Independent
  BY <1>3 DEF O!Independent
<1>5. \A o \in Outcomes : O!Verified(o)' <=> O!Verified(o)
  BY DEF O!Verified
<1>6. O!Decision' = O!Decision
  BY <1>1, <1>2, <1>3, <1>4 DEF O!Decision
<1>7. QED
  BY <1>5, <1>6

\* Another attempt is allowed on changed facts only, and only up to the limit.
LEMMA AttemptFails ==
  ASSUME OutcomeInv, O!QueryFails PROVE O!NoBlindRepeat' /\ attempts' \in [Outcomes -> Seq(Nat)]
<1>1. PICK mine \in Seq(Nat) : mine = attempts[bound]
  BY DEF OutcomeInv
<1>2. PICK f \in Nat : f = facts[bound]
  BY DEF OutcomeInv
<1>3. Len(mine) < MaxAttempts /\ (Len(mine) > 0 => mine[Len(mine)] # f)
  <2>1. O!Recovery(bound) = "CONTINUE"
    BY DEF O!QueryFails, O!Allowed
  <2>2. Len(mine) \in Nat
    BY <1>1
  <2>3. ~stopped
    BY <2>1 DEF O!Recovery
  <2>4. ~(Len(mine) >= MaxAttempts)
    BY <2>1, <2>2, <2>3, <1>1, OutcomeAssumption DEF O!Recovery
  <2>5. ~(Len(mine) \in 1 .. MaxAttempts - 1 /\ mine[Len(mine)] = f)
    BY <2>1, <2>2, <2>3, <2>4, <1>1, <1>2, OutcomeAssumption DEF O!Recovery
  <2>6. QED
    BY <2>2, <2>4, <2>5, OutcomeAssumption
<1>4. PICK more : more = Append(mine, f)
  OBVIOUS
<1>5. /\ more \in Seq(Nat) /\ Len(more) = Len(mine) + 1 /\ more[Len(mine) + 1] = f
      /\ \A i \in 1 .. Len(mine) : more[i] = mine[i]
  BY <1>1, <1>2, <1>4, AppendProperties
<1>6. attempts' = [attempts EXCEPT ![bound] = more]
  BY <1>1, <1>2, <1>4 DEF O!QueryFails
<1>7. Len(mine) \in Nat /\ \A i \in 1 .. Len(mine) - 1 : mine[i] # mine[i + 1]
  <2>1. bound \in Outcomes /\ O!NoBlindRepeat
    BY DEF OutcomeInv
  <2>2. Len(mine) \in Nat
    BY <1>1
  <2>3. ASSUME NEW i \in 1 .. Len(mine) - 1 PROVE mine[i] # mine[i + 1]
    BY <1>1, <2>1 DEF O!NoBlindRepeat
  <2>4. QED
    BY <2>2, <2>3
<1>8. Len(more) <= MaxAttempts /\ \A i \in 1 .. Len(more) - 1 : more[i] # more[i + 1]
  <2>1. Len(more) <= MaxAttempts
    BY <1>3, <1>5, <1>7, OutcomeAssumption
  <2>2. ASSUME NEW i \in 1 .. Len(more) - 1 PROVE more[i] # more[i + 1]
    <3>1. CASE i = Len(mine)
      BY <3>1, <1>3, <1>5, <1>7
    <3>2. CASE i < Len(mine)
      <4>1. i \in 1 .. Len(mine) - 1 /\ i \in 1 .. Len(mine) /\ i + 1 \in 1 .. Len(mine)
        BY <3>2, <2>2, <1>5, <1>7
      <4>2. more[i] = mine[i] /\ more[i + 1] = mine[i + 1]
        BY <4>1, <1>5
      <4>3. QED
        BY <4>1, <4>2, <1>7
    <3>3. QED
      BY <3>1, <3>2, <2>2, <1>5, <1>7
  <2>3. QED
    BY <2>1, <2>2
<1>9. QED
  BY <1>5, <1>6, <1>8 DEF OutcomeInv, O!NoBlindRepeat

LEMMA OutcomeStep == ASSUME OutcomeInv, O!Next PROVE OutcomeInv'
<1>1. CASE O!Compile
  <2>1. UNCHANGED <<source, report, synthesis, attempts, facts, bound, stopped, route>>
    BY <1>1 DEF O!Compile
  <2>2. context' = O!Decision' /\ \A o \in Outcomes : O!Verified(o)'
    BY <2>1, <1>1, DecisionStays DEF O!Compile
  <2>3. QED
    BY <2>1, <2>2 DEF OutcomeInv, Derived, O!NoBlindRepeat
<1>2. CASE O!Rebind
  <2>1. context # None /\ context = O!Decision /\ context.next \notin {None, bound}
    BY <1>2 DEF O!Rebind, OutcomeInv
  <2>2. context.next \in Outcomes
    <3>1. O!Independent # {} => O!LeastOf(O!Independent) \in Outcomes
      <4> SUFFICES ASSUME O!Independent # {} PROVE O!LeastOf(O!Independent) \in Outcomes
        OBVIOUS
      <4>1. O!Independent \subseteq Outcomes
        BY DEF O!Independent, O!ReadyOutcomes, O!Open
      <4>2. \E n \in O!Independent : \A m \in O!Independent : n <= m
        BY <4>1, OutcomeAssumption, LeastNumber
      <4>3. QED
        BY <4>1, <4>2 DEF O!LeastOf
    <3>2. QED
      BY <3>1, <2>1 DEF O!Decision, OutcomeInv
  <2>3. QED
    BY <2>2, <1>2 DEF O!Rebind, OutcomeInv, Derived, O!NoBlindRepeat
<1>3. CASE O!QueryFails
  BY <1>3, AttemptFails DEF O!QueryFails, OutcomeInv, Derived
<1>4. CASE O!Synthesize \/ O!NativeAdvances \/ O!OwnerStops
  BY <1>4 DEF O!Synthesize, O!NativeAdvances, O!OwnerStops, OutcomeInv, Derived, O!NoBlindRepeat
<1>5. ASSUME NEW n \in 0 .. 1, O!Query(n) PROVE OutcomeInv'
  <2>1. PICK r : r = O!Derive(source[bound], n)
    OBVIOUS
  <2>2. report' = [report EXCEPT ![bound] = r] /\ source[bound] \in Sources[bound]
    BY <1>5, <2>1 DEF O!Query, OutcomeInv
  <2>3. \A o \in Outcomes : Derived(o)'
    BY <2>1, <2>2 DEF OutcomeInv, Derived
  <2>4. report' = [o \in Outcomes |-> report'[o]]
    BY <2>2 DEF OutcomeInv
  <2>5. QED
    BY <2>3, <2>4, <1>5 DEF O!Query, OutcomeInv, O!NoBlindRepeat
<1>6. ASSUME NEW o \in Outcomes, O!SourceChanges(o) PROVE OutcomeInv'
  <2>1. PICK s \in Sources[o] : source' = [source EXCEPT ![o] = s]
    BY <1>6 DEF O!SourceChanges
  <2>2. /\ source' \in [Outcomes -> UNION {Sources[p] : p \in Outcomes}]
        /\ \A p \in Outcomes : source'[p] \in Sources[p]
    BY <2>1 DEF OutcomeInv
  <2>3. QED
    BY <2>2, <1>6 DEF O!SourceChanges, OutcomeInv, Derived, O!NoBlindRepeat
<1>7. ASSUME NEW o \in Outcomes, O!FactsChange(o) PROVE OutcomeInv'
  <2>1. PICK f \in Nat : f = facts[o] + 1
    <3>1. facts[o] \in Nat
      BY DEF OutcomeInv
    <3>2. QED
      BY <3>1
  <2>2. facts' \in [Outcomes -> Nat]
    BY <2>1, <1>7 DEF O!FactsChange, OutcomeInv
  <2>3. QED
    BY <2>2, <1>7 DEF O!FactsChange, OutcomeInv, Derived, O!NoBlindRepeat
<1>8. QED
  BY <1>1, <1>2, <1>3, <1>4, <1>5, <1>6, <1>7 DEF O!Next

LEMMA OutcomeInvariant == Spec => [](focus = "outcome" => OutcomeInv)
<1>1. Init => (focus = "outcome" => OutcomeInv)
  BY OutcomeInit DEF Init
<1>2. (focus = "outcome" => OutcomeInv) /\ [Next]_vars => (focus = "outcome" => OutcomeInv)'
  <2> SUFFICES ASSUME focus = "outcome" => OutcomeInv, [Next]_vars, focus' = "outcome"
               PROVE  OutcomeInv'
    OBVIOUS
  <2>1. focus = "outcome" /\ OutcomeInv
    BY DEF Next, vars
  <2>2. CASE Next
    BY <2>1, <2>2, OutcomeStep DEF Next
  <2>3. CASE UNCHANGED vars
    <3>1. UNCHANGED <<source, report, synthesis, attempts, facts, bound, stopped, route, context>>
      BY <2>3 DEF vars, outcomeVars
    <3>2. QED
      BY <3>1, <2>1, DecisionStays DEF OutcomeInv, Derived, O!NoBlindRepeat
  <2>4. QED
    BY <2>2, <2>3
<1>3. QED
  BY <1>1, <1>2, PTL DEF Spec

\* At most one thing is claimed: all claim the same.
LEMMA ClaimsAgree ==
  ASSUME OutcomeInv, O!TechnicallyComplete
  PROVE  \A o, p \in Outcomes : report[o].finding = report[p].finding
<1> DEFINE Found(o) == report[o].finding
<1>1. \A o \in Outcomes : report[o] # None /\ report[o].status = "DELIVERED"
  BY DEF O!TechnicallyComplete, O!Matrix
<1>2. \A o \in Outcomes : report[o].finding \in O!Claims
  BY <1>1 DEF O!Claims, O!Reported
<1>3. O!Claims \subseteq BOOLEAN
  <2> SUFFICES ASSUME NEW o \in Outcomes, report[o] # None PROVE report[o].finding \in BOOLEAN
    BY DEF O!Claims, O!Reported
  <2>1. PICK s \in Sources[o], n \in 0 .. 1 : report[o] = O!Derive(s, n)
    BY DEF OutcomeInv, Derived
  <2>2. QED
    BY <2>1 DEF O!Derive
<1>4. IsFiniteSet(O!Claims)
  <2>1. IsFiniteSet({} \cup {TRUE})
    BY FS_EmptySet, FS_AddElement
  <2>2. IsFiniteSet(({} \cup {TRUE}) \cup {FALSE})
    BY <2>1, FS_AddElement
  <2>3. BOOLEAN = ({} \cup {TRUE}) \cup {FALSE}
    OBVIOUS
  <2>4. IsFiniteSet(BOOLEAN)
    BY <2>2, <2>3
  <2>5. QED
    BY <1>3, <2>4, FS_Subset
<1>5. Cardinality(O!Claims) <= 1
  BY DEF O!TechnicallyComplete, O!Cardinality, Cardinality
<1>6. ASSUME NEW o \in Outcomes, NEW p \in Outcomes
      PROVE  report[o].finding = report[p].finding
  <2>1. Cardinality({report[o].finding}) = 1
    BY FS_Singleton
  <2>2. {report[o].finding} \in SUBSET O!Claims
    BY <1>2
  <2>3. Cardinality(O!Claims) = 1
    <3>1. Cardinality(O!Claims) \in Nat
      BY <1>4, FS_CardinalityType
    <3>2. Cardinality({report[o].finding}) <= Cardinality(O!Claims)
      BY <1>4, <2>2, FS_Subset
    <3>3. QED
      BY <3>1, <3>2, <2>1, <1>5
  <2>4. QED
    BY <1>2, <1>4, <2>3, FS_Singleton
<1>7. QED
  BY <1>6

\* What an answer that was derived from the sources says.
LEMMA CompleteIs ==
  ASSUME OutcomeInv, context # None, context.decision = "COMPLETE_ROADMAP"
  PROVE  O!TechnicallyComplete
<1>1. context = O!Decision
  BY DEF OutcomeInv
<1>2. O!Recovery(bound) # "OWNER_STOP"
  BY <1>1 DEF O!Decision
<1>3. ~stopped
  BY <1>2 DEF O!Recovery
<1>4. QED
  BY <1>1, <1>2, <1>3 DEF O!Decision

LEMMA CompleteMeans == OutcomeInv => O!CompleteIsTrue
<1> SUFFICES ASSUME OutcomeInv, context # None, context.decision = "COMPLETE_ROADMAP"
             PROVE  /\ \A o \in Outcomes : report[o] = O!Derive(source[o], source[o].size)
                    /\ \A o \in Outcomes : ~source[o].gap \/ source[o].size = 0
                    /\ \A o, p \in Outcomes : report[o].finding = report[p].finding
                    /\ \A o \in Outcomes : synthesis[o] = report[o]
  BY DEF O!CompleteIsTrue
<1>1. O!TechnicallyComplete /\ \A o \in Outcomes : O!Verified(o)
  BY CompleteIs DEF OutcomeInv
<1>2. ASSUME NEW o \in Outcomes
      PROVE  /\ report[o] = O!Derive(source[o], source[o].size)
             /\ ~source[o].gap \/ source[o].size = 0
  <2>1. report[o] # None /\ report[o].status = "DELIVERED"
    BY <1>1 DEF O!TechnicallyComplete, O!Matrix
  <2>2. PICK s \in Sources[o], n \in 0 .. 1 : report[o] = O!Derive(s, n)
    BY <2>1 DEF OutcomeInv, Derived
  <2>3. s = source[o]
    BY <2>1, <2>2, <1>1 DEF O!Verified, O!Derive
  <2>4. n = s.size /\ ~(n > 0 /\ s.gap)
    BY <2>1, <2>2 DEF O!Derive
  <2>5. QED
    BY <2>2, <2>3, <2>4
<1>3. QED
  BY <1>1, <1>2, ClaimsAgree DEF O!TechnicallyComplete, O!ProofBinds

LEMMA RebindingProgresses == OutcomeInv => O!RebindProgresses
<1> SUFFICES ASSUME OutcomeInv, context # None
             PROVE  /\ context.reason = "REBIND_INDEPENDENT_OUTCOME" =>
                         context.next \in O!Open /\ O!Recovery(context.next) = "CONTINUE"
                    /\ context.reason \in {"SUPPRESS_UNCHANGED", "RECOVERY_EXHAUSTED"} =>
                         \A o \in O!ReadyOutcomes : attempts[o] # << >>
  BY DEF O!RebindProgresses
<1>1. context = O!Decision
  BY DEF OutcomeInv
<1>2. O!Recovery(bound) \in {"OWNER_STOP", "RECOVERY_EXHAUSTED", "SUPPRESS_UNCHANGED", "CONTINUE"}
  BY DEF O!Recovery
<1>3. ASSUME context.reason = "REBIND_INDEPENDENT_OUTCOME"
      PROVE  context.next \in O!Open /\ O!Recovery(context.next) = "CONTINUE"
  <2>1. /\ O!Recovery(bound) \in {"SUPPRESS_UNCHANGED", "RECOVERY_EXHAUSTED"}
        /\ O!Independent # {} /\ context.next = O!LeastOf(O!Independent)
    BY <1>1, <1>2, <1>3 DEF O!Decision
  <2>2. ~stopped
    BY <2>1 DEF O!Recovery
  <2>3. O!Independent \subseteq Nat
    BY OutcomeAssumption DEF O!Independent, O!ReadyOutcomes, O!Open
  <2>4. PICK o \in O!Independent : o = context.next
    <3>1. \E n \in O!Independent : \A m \in O!Independent : n <= m
      BY <2>1, <2>3, LeastNumber
    <3>2. QED
      BY <2>1, <3>1 DEF O!LeastOf
  <2>5. o \in O!Open /\ attempts[o] = << >>
    BY <2>4 DEF O!Independent, O!ReadyOutcomes
  <2>6. O!Recovery(o) = "CONTINUE"
    BY <2>2, <2>5, OutcomeAssumption DEF O!Recovery
  <2>7. QED
    BY <2>4, <2>5, <2>6
<1>4. ASSUME context.reason \in {"SUPPRESS_UNCHANGED", "RECOVERY_EXHAUSTED"}
      PROVE  \A o \in O!ReadyOutcomes : attempts[o] # << >>
  <2>1. O!Independent = {}
    BY <1>1, <1>2, <1>4 DEF O!Decision
  <2>2. QED
    BY <2>1 DEF O!Independent
<1>5. QED
  BY <1>3, <1>4

\* For any outcomes, sources, facts and limit: a goal is called complete only
\* when every outcome rests on a full look at its source as it is; nothing is
\* tried again on the same facts; an answer that names another outcome names
\* one that can be worked on, so the binding is not handed back and forth.
THEOREM GoalTrue == Spec => []GoalsTrue
<1>1. (focus = "outcome" => OutcomeInv) => GoalsTrue
  BY CompleteMeans, RebindingProgresses DEF GoalsTrue, OutcomeInv
<1>2. QED
  BY <1>1, OutcomeInvariant, PTL

(***************************************************************************)
(* The hierarchy of a goal.  A parent is older than its children, so that  *)
(* the ancestors of a node are well defined; nodes wait for their children *)
(* and for what their ancestors depend on, and where a part waits for      *)
(* itself, the nodes above it did so in the first hierarchy.               *)
(***************************************************************************)
Whole == UNION {p[1].outcomes : p \in Plans}

Nodes ==
  [parent : Nat \cup {None}, children : SUBSET Nat, outcomes : SUBSET Whole,
   dependsOn : SUBSET Nat, status : {"OPEN", "BLOCKED", "DELIVERED"}, repair : BOOLEAN]

Tree(ns) ==
  \E k \in Nat :
    /\ ns \in [1 .. k -> Nodes]
    /\ \A n \in 1 .. k : /\ ns[n].parent # None => ns[n].parent \in 1 .. n - 1
                         /\ ns[n].children \subseteq 1 .. k /\ ns[n].dependsOn \subseteq 1 .. k
                         /\ \A c \in ns[n].children : ns[c].parent = n
                         /\ n # 1 => ns[n].parent # None /\ n \in ns[ns[n].parent].children

\* Ancestors, by those of the parent.
Upwards(ns, up, m) == {m} \cup IF ns[m].parent = None THEN {} ELSE up[ns[m].parent]

LEMMA UpwardsExists ==
  ASSUME NEW ns, NEW k \in Nat,
         \A n \in 1 .. k : ns[n].parent # None => ns[n].parent \in 1 .. n - 1
  PROVE  \E up : up = [m \in 1 .. k |-> Upwards(ns, up, m)]
<1> DEFINE Has(j) == \E up : up = [m \in 1 .. j |-> Upwards(ns, up, m)]
           T == {j \in 0 .. k : ~Has(j)}
<1>1. Has(0)
  <2> DEFINE up == [m \in 1 .. 0 |-> {}]
  <2>1. up = [m \in 1 .. 0 |-> Upwards(ns, up, m)]
    OBVIOUS
  <2> HIDE DEF up
  <2>2. QED
    BY <2>1
<1>2. ASSUME NEW j \in 1 .. k, Has(j - 1) PROVE Has(j)
  <2>1. PICK up : up = [m \in 1 .. j - 1 |-> Upwards(ns, up, m)]
    BY <1>2
  <2> DEFINE more == [m \in 1 .. j |-> Upwards(ns, up, m)]
  <2>2. \A m \in 1 .. j - 1 : up[m] = more[m]
    <3>1. \A m \in 1 .. j - 1 : up[m] = Upwards(ns, up, m)
      BY <2>1
    <3>2. QED
      BY <3>1
  <2>3. \A m \in 1 .. j : Upwards(ns, up, m) = Upwards(ns, more, m)
    <3> SUFFICES ASSUME NEW m \in 1 .. j PROVE Upwards(ns, up, m) = Upwards(ns, more, m)
      OBVIOUS
    <3> HIDE DEF more
    <3>1. ns[m].parent # None => ns[m].parent \in 1 .. j - 1
      OBVIOUS
    <3>2. QED
      BY <3>1, <2>2 DEF Upwards
  <2>4. more = [m \in 1 .. j |-> Upwards(ns, more, m)]
    <3>1. more = [m \in 1 .. j |-> Upwards(ns, up, m)]
      OBVIOUS
    <3> HIDE DEF more
    <3>2. QED
      BY <3>1, <2>3
  <2> HIDE DEF more
  <2>5. QED
    BY <2>4
<1>3. T = {}
  <2> SUFFICES ASSUME T # {} PROVE FALSE
    OBVIOUS
  <2>1. T \in SUBSET Nat
    OBVIOUS
  <2> HIDE DEF Has
  <2>2. PICK j \in T : \A m \in T : j <= m
    <3> HIDE DEF T
    <3>1. QED
      BY <2>1, LeastNumber
  <2>3. j \in 1 .. k
    BY <1>1, <2>2
  <2>4. Has(j - 1)
    <3>1. j - 1 \in 0 .. k /\ j - 1 \notin T
      BY <2>2, <2>3
    <3>2. QED
      BY <3>1
  <2>5. QED
    BY <1>2, <2>2, <2>3, <2>4
<1>4. QED
  BY <1>3

LEMMA AncestorsAre ==
  ASSUME NEW ns, Tree(ns), NEW n \in DOMAIN ns
  PROVE  G!Ancestors(ns, n) = {n} \cup IF ns[n].parent = None THEN {}
                                       ELSE G!Ancestors(ns, ns[n].parent)
<1>1. PICK k \in Nat : /\ DOMAIN ns = 1 .. k
                       /\ \A m \in 1 .. k : ns[m].parent # None => ns[m].parent \in 1 .. m - 1
  BY DEF Tree
<1> DEFINE Up == CHOOSE up : up = [m \in DOMAIN ns |-> Upwards(ns, up, m)]
<1>2. \A m : G!Ancestors(ns, m) = Up[m]
  BY DEF G!Ancestors, Upwards
<1>3. \E up : up = [m \in DOMAIN ns |-> Upwards(ns, up, m)]
  BY <1>1, UpwardsExists
<1>4. Up = [m \in DOMAIN ns |-> Upwards(ns, Up, m)]
  BY <1>3
<1>5. PICK up : up = Up
  OBVIOUS
<1> HIDE DEF Up
<1>6. up = [m \in DOMAIN ns |-> Upwards(ns, up, m)]
  BY <1>4, <1>5
<1>7. up[n] = Upwards(ns, up, n)
  BY <1>6
<1>8. QED
  BY <1>2, <1>5, <1>7 DEF Upwards

\* Ancestors are nodes, and all but the node itself have children.
LEMMA AncestorsHaveChildren ==
  ASSUME NEW ns, Tree(ns)
  PROVE  \A n \in DOMAIN ns :
           /\ n \in G!Ancestors(ns, n) /\ G!Ancestors(ns, n) \subseteq DOMAIN ns
           /\ \A a \in G!Ancestors(ns, n) : a # n => ns[a].children # {}
<1> DEFINE Right(n) == /\ n \in G!Ancestors(ns, n) /\ G!Ancestors(ns, n) \subseteq DOMAIN ns
                       /\ \A a \in G!Ancestors(ns, n) : a # n => ns[a].children # {}
           T == {n \in DOMAIN ns : ~Right(n)}
<1>1. PICK k \in Nat :
        /\ DOMAIN ns = 1 .. k
        /\ \A m \in 1 .. k :
             /\ ns[m].parent # None => ns[m].parent \in 1 .. m - 1
             /\ \A c \in ns[m].children : ns[c].parent = m
             /\ m # 1 => ns[m].parent # None /\ m \in ns[ns[m].parent].children
  BY DEF Tree
<1>2. T = {}
  <2> SUFFICES ASSUME T # {} PROVE FALSE
    OBVIOUS
  <2>1. T \in SUBSET Nat
    BY <1>1
  <2>2. PICK n \in T : \A m \in T : n <= m
    <3> HIDE DEF T
    <3>1. QED
      BY <2>1, LeastNumber
  <2>3. G!Ancestors(ns, n) = {n} \cup IF ns[n].parent = None THEN {}
                                      ELSE G!Ancestors(ns, ns[n].parent)
    BY AncestorsAre
  <2>4. CASE ns[n].parent = None
    BY <2>2, <2>3, <2>4
  <2>5. CASE ns[n].parent # None
    <3>1. PICK p \in 1 .. n - 1 : p = ns[n].parent
      BY <1>1, <2>2, <2>5
    <3>2. p \in DOMAIN ns /\ p < n /\ n # 1 /\ n \in 1 .. k
      BY <1>1, <2>2, <3>1
    <3>3. p \notin T
      BY <2>2, <3>2
    <3>4. Right(p)
      BY <3>2, <3>3
    <3>5. n \in ns[p].children
      BY <1>1, <3>1, <3>2
    <3>6. QED
      BY <2>2, <2>3, <2>5, <3>1, <3>4, <3>5
  <2>6. QED
    BY <2>4, <2>5
<1>3. QED
  BY <1>2

\* They depend on the parents alone.
LEMMA AncestorsAlike ==
  ASSUME NEW ns, NEW more, Tree(ns), Tree(more), DOMAIN ns \subseteq DOMAIN more,
         \A n \in DOMAIN ns : more[n].parent = ns[n].parent
  PROVE  \A n \in DOMAIN ns : G!Ancestors(more, n) = G!Ancestors(ns, n)
<1> DEFINE T == {n \in DOMAIN ns : G!Ancestors(more, n) # G!Ancestors(ns, n)}
<1>1. PICK k \in Nat : /\ DOMAIN ns = 1 .. k
                       /\ \A m \in 1 .. k : ns[m].parent # None => ns[m].parent \in 1 .. m - 1
  BY DEF Tree
<1>2. T = {}
  <2> SUFFICES ASSUME T # {} PROVE FALSE
    OBVIOUS
  <2>1. T \in SUBSET Nat
    BY <1>1
  <2>2. PICK n \in T : \A m \in T : n <= m
    <3> HIDE DEF T
    <3>1. QED
      BY <2>1, LeastNumber
  <2>3. /\ G!Ancestors(ns, n) = {n} \cup IF ns[n].parent = None THEN {}
                                         ELSE G!Ancestors(ns, ns[n].parent)
        /\ G!Ancestors(more, n) = {n} \cup IF more[n].parent = None THEN {}
                                           ELSE G!Ancestors(more, more[n].parent)
    BY <2>2, AncestorsAre
  <2>4. ns[n].parent # None => ns[n].parent \in DOMAIN ns /\ ns[n].parent \notin T
    BY <1>1, <2>2
  <2>5. QED
    BY <2>2, <2>3, <2>4
<1>3. QED
  BY <1>2

\* A part that waits for itself has such a part of the first hierarchy above it.
Above(ns, T) == UNION {G!Ancestors(ns, n) : n \in T}

Circles(f, ns) ==
  \A T \in SUBSET DOMAIN ns : G!WaitsForItself(ns, T) =>
    \E U \in SUBSET DOMAIN f : G!WaitsForItself(f, U) /\ U \subseteq Above(ns, T)

\* An outcome was closed, or a leaf that is no repair still owns it.
Owned(f, ns, closed) ==
  \A o \in f[1].outcomes :
    o \in closed \/ \E n \in G!Leaves(ns) : /\ o \in ns[n].outcomes /\ ns[n].status # "DELIVERED"
                                            /\ ~G!UnderRepair(ns, n)

BlockedParent(ns, n) == ns[n].children # {} /\ ns[n].status = "BLOCKED"

Hierarchy(f, ns, closed) ==
  /\ Tree(ns) /\ G!WellFormed(ns) /\ Circles(f, ns) /\ Owned(f, ns, closed)
  /\ \A n \in DOMAIN ns : BlockedParent(ns, n) => n \in DOMAIN f /\ BlockedParent(f, n)
  /\ G!Cardinality(G!Repairs(ns)) <= MaxRepairs + 1

GoalInv ==
  /\ first \in Plans
  /\ Hierarchy(first, progress.nodes, progress.worked \cup progress.named)
  /\ bindings \in 0 .. MaxGoalState
  /\ sup = [s \in Supervisors |-> sup[s]]
  /\ \A s \in Supervisors :
       sup[s].base # None =>
         /\ sup[s] = [base |-> sup[s].base, old |-> sup[s].old, nodes |-> sup[s].nodes,
                     worked |-> sup[s].worked, named |-> sup[s].named]
         /\ sup[s].base \in 0 .. MaxGoalState - 1
         /\ Hierarchy(first, sup[s].nodes, sup[s].worked \cup sup[s].named)

\* A goal that is stuck has a blocked parent, or a part that waits for itself.
LEMMA HierarchyMoves ==
  ASSUME NEW f, NEW ns, NEW closed, Hierarchy(f, ns, closed), G!Stuck(ns),
         \A n \in DOMAIN ns : ~BlockedParent(ns, n)
  PROVE  \E U \in SUBSET (DOMAIN f \cap G!Unfinished(ns)) : G!WaitsForItself(f, U)
<1> DEFINE T == {n \in DOMAIN ns : ns[n].status # "DELIVERED"}
<1>1. /\ \A n \in DOMAIN ns : /\ ns[n].status \in {"OPEN", "BLOCKED", "DELIVERED"}
                              /\ ns[n].children \subseteq DOMAIN ns
                              /\ ns[n].dependsOn \subseteq DOMAIN ns
  BY DEF Hierarchy, Tree, Nodes
<1>2. T \in SUBSET DOMAIN ns /\ T # {}
  BY DEF G!Stuck, G!OpenOutcomes, G!Leaves
<1>3. ASSUME NEW n \in T, G!Needs(ns, n) \cap T = {} PROVE FALSE
  <2>1. \A c \in ns[n].children : ns[c].status = "DELIVERED"
    BY <1>1, <1>3 DEF G!Needs
  <2>2. CASE ns[n].children # {}
    <3>1. n \in DOMAIN ns \ G!Leaves(ns) /\ ns[n].status = "OPEN"
      BY <1>1, <1>3, <2>2 DEF G!Leaves, BlockedParent
    <3>2. QED
      BY <2>1, <3>1 DEF G!Stuck
  <2>3. CASE ns[n].children = {}
    <3>1. n \in G!Leaves(ns) /\ ns[n].status = "OPEN"
      BY <1>1, <1>3, <2>3 DEF G!Leaves, G!Stuck
    <3>2. ASSUME NEW a \in G!Ancestors(ns, n)
          PROVE  ns[a].status # "BLOCKED" /\ \A d \in ns[a].dependsOn : ns[d].status = "DELIVERED"
      <4>1. a \in DOMAIN ns /\ (a # n => ns[a].children # {})
        BY <1>3, AncestorsHaveChildren DEF Hierarchy
      <4>2. ns[a].status # "BLOCKED"
        BY <3>1, <4>1 DEF BlockedParent
      <4>3. \A d \in ns[a].dependsOn : d \in G!Needs(ns, n) /\ d \in DOMAIN ns
        BY <1>1, <4>1 DEF G!Needs
      <4>4. QED
        BY <1>3, <4>2, <4>3
    <3>3. n \in G!Ready(ns)
      BY <3>1, <3>2 DEF G!Ready
    <3>4. QED
      BY <3>3 DEF G!Stuck
  <2>4. QED
    BY <2>2, <2>3
<1>4. PICK U \in SUBSET DOMAIN f : G!WaitsForItself(f, U) /\ U \subseteq Above(ns, T)
  <2>1. G!WaitsForItself(ns, T)
    BY <1>2, <1>3 DEF G!WaitsForItself
  <2>2. QED
    BY <1>2, <2>1 DEF Hierarchy, Circles
<1>5. Above(ns, T) = G!Unfinished(ns)
  BY DEF Above, G!Unfinished
<1>6. QED
  BY <1>4, <1>5

\* Owned outcomes are open ones.
LEMMA OwnedIsOpen ==
  ASSUME NEW f, NEW ns, NEW closed, Owned(f, ns, closed)
  PROVE  \A o \in f[1].outcomes : o \in G!OpenOutcomes(ns) \cup closed
BY DEF Owned, G!OpenOutcomes

\* A node changes its status.
LEMMA StatusChanges ==
  ASSUME NEW f, NEW ns, NEW closed, Hierarchy(f, ns, closed), NEW n \in DOMAIN ns,
         NEW status \in {"OPEN", "BLOCKED", "DELIVERED"},
         status = "BLOCKED" => n \in G!Leaves(ns), NEW done,
         status = "DELIVERED" => G!Closes(ns, n) \subseteq done,
         G!WellFormed([ns EXCEPT ![n].status = status])
  PROVE  Hierarchy(f, [ns EXCEPT ![n].status = status], closed \cup done)
<1> DEFINE More == [ns EXCEPT ![n].status = status]
<1>1. PICK more : more = More
  OBVIOUS
<1> HIDE DEF More
<1>2. PICK k \in Nat :
        /\ ns \in [1 .. k -> Nodes]
        /\ \A m \in 1 .. k :
             /\ ns[m].parent # None => ns[m].parent \in 1 .. m - 1
             /\ ns[m].children \subseteq 1 .. k /\ ns[m].dependsOn \subseteq 1 .. k
             /\ \A c \in ns[m].children : ns[c].parent = m
             /\ m # 1 => ns[m].parent # None /\ m \in ns[ns[m].parent].children
  BY DEF Hierarchy, Tree
<1>3. PICK me \in Nodes : me = ns[n]
  BY <1>2
<1>4. [me EXCEPT !.status = status] \in Nodes
  BY DEF Nodes
<1>5. more = [ns EXCEPT ![n] = [me EXCEPT !.status = status]]
  BY <1>1, <1>3 DEF More
<1>6. /\ more \in [1 .. k -> Nodes] /\ DOMAIN more = DOMAIN ns
      /\ \A m \in DOMAIN ns : /\ more[m].parent = ns[m].parent
                              /\ more[m].children = ns[m].children
                              /\ more[m].outcomes = ns[m].outcomes
                              /\ more[m].dependsOn = ns[m].dependsOn
                              /\ more[m].repair = ns[m].repair
                              /\ more[m].status = IF m = n THEN status ELSE ns[m].status
  BY <1>2, <1>3, <1>4, <1>5 DEF Nodes
<1>7. Tree(more)
  <2>1. ASSUME NEW m \in 1 .. k
        PROVE  /\ more[m].parent # None => more[m].parent \in 1 .. m - 1
               /\ more[m].children \subseteq 1 .. k /\ more[m].dependsOn \subseteq 1 .. k
               /\ \A c \in more[m].children : more[c].parent = m
    <3>1. m \in DOMAIN ns /\ \A c \in ns[m].children : c \in DOMAIN ns
      BY <1>2
    <3>2. QED
      BY <1>2, <1>6, <3>1
  <2>2. ASSUME NEW m \in 1 .. k, m # 1
        PROVE  more[m].parent # None /\ m \in more[more[m].parent].children
    <3>1. ns[m].parent # None /\ ns[m].parent \in 1 .. m - 1
      BY <1>2, <2>2
    <3>2. ns[m].parent \in DOMAIN ns /\ m \in DOMAIN ns
      BY <1>2, <3>1
    <3>3. QED
      BY <1>2, <1>6, <2>2, <3>1, <3>2
  <2>3. QED
    BY <1>6, <2>1, <2>2 DEF Tree
<1>8. \A m \in DOMAIN ns : /\ G!Ancestors(more, m) = G!Ancestors(ns, m)
                           /\ G!Ancestors(ns, m) \subseteq DOMAIN ns
  BY <1>6, <1>7, AncestorsAlike, AncestorsHaveChildren DEF Hierarchy
<1>9. Circles(f, more)
  <2>1. \A m \in DOMAIN ns : G!Needs(more, m) = G!Needs(ns, m)
    BY <1>6, <1>8 DEF G!Needs
  <2>2. ASSUME NEW T \in SUBSET DOMAIN ns, G!WaitsForItself(more, T)
        PROVE  G!WaitsForItself(ns, T) /\ Above(more, T) = Above(ns, T)
    BY <1>8, <2>1, <2>2 DEF G!WaitsForItself, Above
  <2>3. QED
    BY <1>6, <2>2 DEF Hierarchy, Circles
<1>10. /\ G!Leaves(more) = G!Leaves(ns) /\ G!Repairs(more) = G!Repairs(ns)
       /\ \A m \in DOMAIN ns : G!UnderRepair(more, m) <=> G!UnderRepair(ns, m)
  BY <1>6, <1>8 DEF G!Leaves, G!Repairs, G!UnderRepair
<1>11. Owned(f, more, closed \cup done)
  <2> SUFFICES ASSUME NEW o \in f[1].outcomes, o \notin closed, o \notin done
               PROVE  \E m \in G!Leaves(more) :
                        /\ o \in more[m].outcomes /\ more[m].status # "DELIVERED"
                        /\ ~G!UnderRepair(more, m)
    BY DEF Owned
  <2>1. PICK m \in G!Leaves(ns) : /\ o \in ns[m].outcomes /\ ns[m].status # "DELIVERED"
                                  /\ ~G!UnderRepair(ns, m)
    BY DEF Hierarchy, Owned
  <2>2. m \in DOMAIN ns
    BY <2>1 DEF G!Leaves
  <2>3. more[m].status # "DELIVERED"
    BY <1>6, <2>1, <2>2 DEF G!Closes
  <2>4. QED
    BY <1>6, <1>10, <2>1, <2>2, <2>3
<1>12. \A m \in DOMAIN more : BlockedParent(more, m) => m \in DOMAIN f /\ BlockedParent(f, m)
  BY <1>6 DEF Hierarchy, G!Leaves, BlockedParent
<1>13. Hierarchy(f, more, closed \cup done)
  BY <1>1, <1>7, <1>9, <1>10, <1>11, <1>12 DEF Hierarchy, More
<1>14. QED
  BY <1>1, <1>13 DEF More

\* A leaf is split into a repair and its resumption.
LEMMA LeafIsSplit ==
  ASSUME NEW f, NEW ns, NEW closed, Hierarchy(f, ns, closed), NEW n \in G!Leaves(ns),
         NEW testOnly \in BOOLEAN,
         ns[n].status # "DELIVERED", G!Cardinality(G!Repairs(ns)) < MaxRepairs,
         G!WellFormed(G!Split(ns, n, testOnly))
  PROVE  Hierarchy(f, G!Split(ns, n, testOnly), closed)
<1>1. PICK k \in Nat :
        /\ ns \in [1 .. k -> Nodes]
        /\ \A m \in 1 .. k :
             /\ ns[m].parent # None => ns[m].parent \in 1 .. m - 1
             /\ ns[m].children \subseteq 1 .. k /\ ns[m].dependsOn \subseteq 1 .. k
             /\ \A c \in ns[m].children : ns[c].parent = m
             /\ m # 1 => ns[m].parent # None /\ m \in ns[ns[m].parent].children
  BY DEF Hierarchy, Tree
<1>2. DOMAIN ns = 1 .. k /\ n \in 1 .. k /\ ns[n].children = {}
  BY <1>1 DEF G!Leaves
<1>3. G!Cardinality(DOMAIN ns) + 1 = k + 1
  <2>1. Cardinality(1 .. k) = k
    BY FS_Interval
  <2>2. QED
    BY <1>2, <2>1 DEF G!Cardinality, Cardinality
<1>4. PICK r \in Nat : r = k + 1
  OBVIOUS
<1>5. PICK me \in Nodes : me = ns[n]
  BY <1>1, <1>2
<1>6. PICK child : child = [me EXCEPT !.parent = n, !.children = {}, !.dependsOn = {},
                                      !.status = "OPEN"]
  OBVIOUS
<1>7. child \in Nodes /\ child = [parent |-> n, children |-> {}, outcomes |-> me.outcomes,
                                  dependsOn |-> {}, status |-> "OPEN", repair |-> me.repair]
  <2>1. DOMAIN me = {"parent", "children", "outcomes", "dependsOn", "status", "repair"}
    BY DEF Nodes
  <2>2. child = [parent |-> n, children |-> {}, outcomes |-> me.outcomes,
                 dependsOn |-> {}, status |-> "OPEN", repair |-> me.repair]
    BY <2>1, <1>6
  <2>3. me.outcomes \in SUBSET Whole /\ n \in Nat /\ me.repair \in BOOLEAN
    BY <1>2 DEF Nodes
  <2>4. QED
    BY <2>2, <2>3 DEF Nodes
<1>8. PICK mend : mend = [child EXCEPT !.repair = TRUE,
                                         !.status = IF testOnly THEN "BLOCKED" ELSE "OPEN"]
  OBVIOUS
<1>9. PICK resume : resume = [child EXCEPT !.dependsOn = {r}]
  OBVIOUS
<1>10. PICK split : split = [me EXCEPT !.children = {r, r + 1}, !.status = "OPEN"]
  OBVIOUS
<1>11. PICK more : more = [m \in 1 .. r + 1 |-> IF m = r THEN mend ELSE IF m = r + 1 THEN resume
                                                ELSE IF m = n THEN split ELSE ns[m]]
  OBVIOUS
<1>12. more = G!Split(ns, n, testOnly)
  <2>1. n # r /\ n # r + 1 /\ r # r + 1
    BY <1>2, <1>4
  <2>2. /\ child = [ns[n] EXCEPT !.parent = n, !.children = {}, !.dependsOn = {},
                                 !.status = "OPEN"]
        /\ split = [ns[n] EXCEPT !.children = {r, r + 1}, !.status = "OPEN"]
    BY <1>5, <1>6, <1>10
  <2>3. QED
    BY <2>1, <2>2, <1>3, <1>4, <1>8, <1>9, <1>11 DEF G!Split
<1>13. /\ mend \in Nodes /\ mend.parent = n /\ mend.children = {} /\ mend.dependsOn = {}
       /\ mend.status \in {"OPEN", "BLOCKED"} /\ mend.repair
  BY <1>7, <1>8 DEF Nodes
<1>14. /\ resume \in Nodes /\ resume.parent = n /\ resume.children = {} /\ resume.dependsOn = {r}
       /\ resume.status = "OPEN" /\ resume.repair = me.repair
       /\ resume.outcomes = me.outcomes
  BY <1>7, <1>9 DEF Nodes
<1>15. /\ split \in Nodes /\ split.parent = me.parent /\ split.children = {r, r + 1}
       /\ split.dependsOn = me.dependsOn /\ split.status = "OPEN" /\ split.repair = me.repair
  <2>1. {r, r + 1} \in SUBSET Nat
    OBVIOUS
  <2> DEFINE pair == {r, r + 1}
  <2> HIDE DEF pair
  <2>2. /\ [me EXCEPT !.children = pair, !.status = "OPEN"] \in Nodes
        /\ \A x : x = [me EXCEPT !.children = pair, !.status = "OPEN"] =>
             /\ x.parent = me.parent /\ x.children = pair /\ x.dependsOn = me.dependsOn
             /\ x.status = "OPEN" /\ x.repair = me.repair
    BY <2>1 DEF Nodes, pair
  <2>3. QED
    BY <2>2, <1>10 DEF pair
<1>16. DOMAIN more = 1 .. k + 2 /\ r \in DOMAIN more /\ r + 1 \in DOMAIN more
  BY <1>4, <1>11
<1>17. /\ more[r] = mend /\ more[r + 1] = resume /\ more[n] = split
       /\ \A m \in 1 .. k : m # n => more[m] = ns[m]
  BY <1>2, <1>4, <1>11
<1>18. more \in [1 .. k + 2 -> Nodes]
  BY <1>1, <1>4, <1>11, <1>13, <1>14, <1>15
<1>19. \A m \in 1 .. k : /\ more[m].parent = ns[m].parent /\ more[m].dependsOn = ns[m].dependsOn
                         /\ more[m].repair = ns[m].repair
                         /\ m # n => more[m].children = ns[m].children
  BY <1>5, <1>15, <1>17
<1> HIDE <1>11, <1>6, <1>8, <1>9, <1>10
<1>20. Tree(more)
  <2>1. ASSUME NEW m \in 1 .. k + 2
        PROVE  /\ more[m].parent # None => more[m].parent \in 1 .. m - 1
               /\ more[m].children \subseteq 1 .. k + 2 /\ more[m].dependsOn \subseteq 1 .. k + 2
               /\ \A c \in more[m].children : more[c].parent = m
               /\ m # 1 => more[m].parent # None /\ m \in more[more[m].parent].children
    <3>1. CASE m \in {r, r + 1}
      BY <3>1, <1>2, <1>4, <1>13, <1>14, <1>15, <1>17, NoneAssumption
    <3>2. CASE m = n
      <4>1. /\ more[m].parent = ns[n].parent /\ more[m].children = {r, r + 1}
            /\ more[m].dependsOn = ns[n].dependsOn
        BY <3>2, <1>5, <1>15, <1>17
      <4>2. m # 1 => ns[n].parent \in 1 .. n - 1 /\ n \in ns[ns[n].parent].children
        BY <3>2, <1>1, <1>2
      <4>3. m # 1 => more[ns[n].parent].children = ns[ns[n].parent].children
        BY <4>2, <1>2, <1>19
      <4>4. more[r].parent = n /\ more[r + 1].parent = n
        BY <1>13, <1>14, <1>17
      <4>5. ns[n].dependsOn \subseteq 1 .. k /\ 1 .. k \subseteq 1 .. k + 2
        BY <1>1, <1>2
      <4>6. {r, r + 1} \subseteq 1 .. k + 2
        BY <1>4
      <4>7. more[m].parent # None => more[m].parent \in 1 .. m - 1
        BY <4>1, <3>2, <1>1, <1>2
      <4>8. m # 1 => more[m].parent # None
        BY <4>1, <3>2, <1>1, <1>2
      <4>9. QED
        BY <3>2, <4>1, <4>2, <4>3, <4>4, <4>5, <4>6, <4>7, <4>8
    <3>3. CASE m \in 1 .. k /\ m # n
      <4>1. more[m] = ns[m]
        BY <3>3, <1>17
      <4>2. \A c \in ns[m].children : more[c].parent = m
        BY <3>3, <1>1, <1>19
      <4>3. m # 1 => /\ ns[m].parent \in 1 .. k /\ ns[m].parent # None
                     /\ m \in ns[ns[m].parent].children
        BY <3>3, <1>1
      <4>4. m # 1 => m \in more[ns[m].parent].children
        BY <4>3, <1>2, <1>19
      <4>5. ns[m].dependsOn \subseteq 1 .. k + 2 /\ ns[m].children \subseteq 1 .. k + 2
        BY <3>3, <1>1
      <4>6. QED
        BY <4>1, <4>2, <4>3, <4>4, <4>5, <3>3, <1>1
    <3>4. QED
      BY <3>1, <3>2, <3>3, <1>4
  <2>2. QED
    BY <1>18, <2>1 DEF Tree
<1>21. /\ \A m \in 1 .. k : /\ G!Ancestors(more, m) = G!Ancestors(ns, m)
                            /\ G!Ancestors(ns, m) \subseteq 1 .. k
                            /\ \A a \in G!Ancestors(ns, m) : a # m => ns[a].children # {}
       /\ n \in G!Ancestors(ns, n)
  BY <1>2, <1>16, <1>19, <1>20, AncestorsAlike, AncestorsHaveChildren DEF Hierarchy
<1>22. \A m \in {r, r + 1} : G!Ancestors(more, m) = {m} \cup G!Ancestors(ns, n)
  <2> SUFFICES ASSUME NEW m \in {r, r + 1}
               PROVE  G!Ancestors(more, m) = {m} \cup G!Ancestors(ns, n)
    OBVIOUS
  <2>1. m \in DOMAIN more /\ more[m].parent = n /\ n # None
    BY <1>2, <1>13, <1>14, <1>16, <1>17, NoneAssumption
  <2>2. QED
    BY <2>1, <1>2, <1>20, <1>21, AncestorsAre
<1>23. Circles(f, more)
  <2> SUFFICES ASSUME NEW T \in SUBSET (1 .. k + 2), G!WaitsForItself(more, T)
               PROVE  \E U \in SUBSET DOMAIN f : /\ G!WaitsForItself(f, U)
                                                /\ U \subseteq Above(more, T)
    BY <1>16 DEF Circles
  <2>1. ASSUME NEW m \in 1 .. k, m # n PROVE G!Needs(more, m) = G!Needs(ns, m)
    <3>1. \A a \in G!Ancestors(ns, m) : more[a].dependsOn = ns[a].dependsOn
      BY <2>1, <1>19, <1>21
    <3>2. QED
      BY <2>1, <3>1, <1>19, <1>21 DEF G!Needs
  <2>2. G!Needs(more, r) = UNION {ns[a].dependsOn : a \in G!Ancestors(ns, n)}
    <3>1. \A a \in G!Ancestors(ns, n) : more[a].dependsOn = ns[a].dependsOn
      BY <1>2, <1>19, <1>21
    <3>2. more[r].children = {} /\ more[r].dependsOn = {}
      BY <1>13, <1>17
    <3>3. QED
      BY <3>1, <3>2, <1>22 DEF G!Needs
  <2>3. G!Needs(more, r + 1) = {r} \cup UNION {ns[a].dependsOn : a \in G!Ancestors(ns, n)}
    <3>1. \A a \in G!Ancestors(ns, n) : more[a].dependsOn = ns[a].dependsOn
      BY <1>2, <1>19, <1>21
    <3>2. more[r + 1].children = {} /\ more[r + 1].dependsOn = {r}
      BY <1>14, <1>17
    <3>3. QED
      BY <3>1, <3>2, <1>22 DEF G!Needs
  <2>4. \A m \in 1 .. k : G!Needs(ns, m) \subseteq 1 .. k
    <3> SUFFICES ASSUME NEW m \in 1 .. k PROVE G!Needs(ns, m) \subseteq 1 .. k
      OBVIOUS
    <3>1. ns[m].children \subseteq 1 .. k
      BY <1>1
    <3>2. \A a \in G!Ancestors(ns, m) : ns[a].dependsOn \subseteq 1 .. k
      BY <1>1, <1>21
    <3>3. QED
      BY <3>1, <3>2 DEF G!Needs
  <2>5. CASE T \subseteq 1 .. k
    <3>1. ASSUME NEW m \in T PROVE G!Needs(ns, m) \cap T # {}
      <4>1. G!Needs(more, m) \cap T # {}
        BY DEF G!WaitsForItself
      <4>2. CASE m # n
        BY <2>1, <2>5, <4>1, <4>2
      <4>3. CASE m = n
        <5>1. \A a \in G!Ancestors(ns, n) : more[a].dependsOn = ns[a].dependsOn
          BY <1>2, <1>19, <1>21
        <5>2. G!Needs(more, n) \subseteq G!Needs(ns, n) \cup {r, r + 1}
          BY <5>1, <1>2, <1>15, <1>17, <1>21 DEF G!Needs
        <5>3. r \notin T /\ r + 1 \notin T
          BY <2>5, <1>4
        <5>4. QED
          BY <4>1, <4>3, <5>2, <5>3
      <4>4. QED
        BY <4>2, <4>3
    <3>2. G!WaitsForItself(ns, T) /\ T \in SUBSET DOMAIN ns
      BY <1>2, <2>5, <3>1 DEF G!WaitsForItself
    <3>3. Above(more, T) = Above(ns, T)
      BY <1>21, <2>5 DEF Above
    <3>4. QED
      BY <3>2, <3>3 DEF Hierarchy, Circles
  <2>6. CASE ~(T \subseteq 1 .. k)
    <3> DEFINE Old == (T \cap 1 .. k) \cup {n}
               Deps == UNION {ns[a].dependsOn : a \in G!Ancestors(ns, n)}
    <3>1. r \in T \/ r + 1 \in T
      BY <2>6, <1>4
    <3>2. Old \in SUBSET DOMAIN ns /\ Old # {} /\ n \in Old
      BY <1>2
    <3>3. ASSUME NEW m \in Old, m # n PROVE G!Needs(ns, m) \cap Old # {}
      <4>1. m \in T /\ m \in 1 .. k
        BY <3>3
      <4>2. G!Needs(ns, m) \cap T # {} /\ G!Needs(ns, m) \subseteq 1 .. k
        BY <2>1, <2>4, <3>3, <4>1 DEF G!WaitsForItself
      <4>3. QED
        BY <4>2
    <3>4. G!Needs(ns, n) \cap Old # {}
      <4>1. Deps \subseteq G!Needs(ns, n) /\ G!Needs(ns, n) \subseteq 1 .. k
        BY <1>2, <2>4 DEF G!Needs
      <4>2. Deps \cap T # {}
        <5> HIDE DEF Deps
        <5>1. G!Needs(more, r) = Deps /\ G!Needs(more, r + 1) = {r} \cup Deps
          BY <2>2, <2>3 DEF Deps
        <5>2. CASE r \in T
          BY <5>1, <5>2 DEF G!WaitsForItself
        <5>3. CASE r \notin T
          BY <3>1, <5>1, <5>3 DEF G!WaitsForItself
        <5>4. QED
          BY <5>2, <5>3
      <4>3. QED
        BY <4>1, <4>2
    <3>5. G!WaitsForItself(ns, Old)
      <4> HIDE DEF Old
      <4>1. QED
        BY <3>2, <3>3, <3>4 DEF G!WaitsForItself
    <3>6. Above(ns, Old) \subseteq Above(more, T)
      <4>1. G!Ancestors(ns, n) \subseteq Above(more, T)
        BY <1>22, <3>1 DEF Above
      <4>2. \A m \in T \cap 1 .. k : G!Ancestors(ns, m) \subseteq Above(more, T)
        BY <1>21 DEF Above
      <4>3. QED
        BY <4>1, <4>2 DEF Above
    <3> HIDE DEF Old, Deps
    <3>7. PICK U \in SUBSET DOMAIN f : G!WaitsForItself(f, U) /\ U \subseteq Above(ns, Old)
      BY <3>2, <3>5 DEF Hierarchy, Circles
    <3>8. QED
      BY <3>6, <3>7
  <2>7. QED
    BY <2>5, <2>6
<1>24. \A m \in 1 .. k : G!UnderRepair(more, m) <=> G!UnderRepair(ns, m)
  <2> SUFFICES ASSUME NEW m \in 1 .. k PROVE G!UnderRepair(more, m) <=> G!UnderRepair(ns, m)
    OBVIOUS
  <2>1. \A a \in G!Ancestors(ns, m) : more[a].repair = ns[a].repair
    BY <1>19, <1>21
  <2>2. QED
    BY <2>1, <1>21 DEF G!UnderRepair
<1>25. Owned(f, more, closed)
  <2> SUFFICES ASSUME NEW o \in f[1].outcomes, o \notin closed
               PROVE  \E m \in G!Leaves(more) :
                        /\ o \in more[m].outcomes /\ more[m].status # "DELIVERED"
                        /\ ~G!UnderRepair(more, m)
    BY DEF Owned
  <2>1. PICK m \in G!Leaves(ns) : /\ o \in ns[m].outcomes /\ ns[m].status # "DELIVERED"
                                  /\ ~G!UnderRepair(ns, m)
    BY DEF Hierarchy, Owned
  <2>2. m \in 1 .. k /\ ns[m].children = {}
    BY <1>2, <2>1 DEF G!Leaves
  <2>3. CASE m # n
    <3>1. more[m] = ns[m] /\ m \in DOMAIN more
      BY <1>16, <1>17, <2>2, <2>3
    <3>2. m \in G!Leaves(more)
      BY <2>2, <3>1 DEF G!Leaves
    <3>3. QED
      BY <1>24, <2>1, <2>2, <3>1, <3>2
  <2>4. CASE m = n
    <3>1. r + 1 \in G!Leaves(more)
      BY <1>14, <1>16, <1>17 DEF G!Leaves
    <3>2. o \in more[r + 1].outcomes /\ more[r + 1].status = "OPEN"
      BY <1>5, <1>14, <1>17, <2>1, <2>4
    <3>3. ~G!UnderRepair(more, r + 1)
      <4>1. \A a \in G!Ancestors(ns, n) : ~ns[a].repair /\ ~more[a].repair
        BY <1>2, <1>19, <1>21, <2>1, <2>4 DEF G!UnderRepair
      <4>2. ~more[r + 1].repair
        BY <1>5, <1>14, <1>17, <1>21, <4>1
      <4>3. QED
        BY <4>1, <4>2, <1>22 DEF G!UnderRepair
    <3>4. QED
      BY <3>1, <3>2, <3>3
  <2>5. QED
    BY <2>3, <2>4
<1>26. \A m \in DOMAIN more : BlockedParent(more, m) => m \in DOMAIN f /\ BlockedParent(f, m)
  <2> SUFFICES ASSUME NEW m \in 1 .. k + 2, BlockedParent(more, m)
               PROVE  m \in DOMAIN f /\ BlockedParent(f, m)
    BY <1>16
  <2>1. CASE m \in {r, r + 1}
    BY <2>1, <1>13, <1>14, <1>17 DEF BlockedParent
  <2>2. CASE m = n
    BY <2>2, <1>15, <1>17 DEF BlockedParent
  <2>3. CASE m \in 1 .. k /\ m # n
    BY <2>3, <1>2, <1>17 DEF Hierarchy, BlockedParent
  <2>4. QED
    BY <2>1, <2>2, <2>3, <1>4
<1>27. G!Cardinality(G!Repairs(more)) <= MaxRepairs + 1
  <2>1. G!Repairs(more) \in {G!Repairs(ns) \cup {r}, (G!Repairs(ns) \cup {r}) \cup {r + 1}}
    <3>1. r \in G!Repairs(more)
      BY <1>13, <1>16, <1>17 DEF G!Repairs
    <3>2. \A m \in 1 .. k : m \in G!Repairs(more) <=> m \in G!Repairs(ns)
      BY <1>2, <1>16, <1>19 DEF G!Repairs
    <3>3. G!Repairs(more) \subseteq 1 .. k + 2 /\ G!Repairs(ns) \subseteq 1 .. k
      BY <1>2, <1>16 DEF G!Repairs
    <3>4. \A m \in 1 .. k + 2 : m \in 1 .. k \/ m = r \/ m = r + 1
      BY <1>4
    <3>5. CASE r + 1 \in G!Repairs(more)
      BY <3>1, <3>2, <3>3, <3>4, <3>5
    <3>6. CASE r + 1 \notin G!Repairs(more)
      BY <3>1, <3>2, <3>3, <3>4, <3>6
    <3>7. QED
      BY <3>5, <3>6
  <2>2. IsFiniteSet(G!Repairs(ns)) /\ r \notin G!Repairs(ns) /\ r + 1 \notin G!Repairs(ns) \cup {r}
    <3>1. IsFiniteSet(1 .. k) /\ G!Repairs(ns) \in SUBSET (1 .. k)
      BY <1>2, FS_Interval DEF G!Repairs
    <3>2. QED
      BY <3>1, <1>4, FS_Subset
  <2>3. Cardinality(G!Repairs(ns)) \in Nat /\ Cardinality(G!Repairs(ns)) < MaxRepairs
    BY <2>2, FS_CardinalityType DEF G!Cardinality, Cardinality
  <2>4. /\ IsFiniteSet(G!Repairs(ns) \cup {r})
        /\ Cardinality(G!Repairs(ns) \cup {r}) = Cardinality(G!Repairs(ns)) + 1
    BY <2>2, FS_AddElement
  <2>5. Cardinality((G!Repairs(ns) \cup {r}) \cup {r + 1})
          = Cardinality(G!Repairs(ns) \cup {r}) + 1
    <3>1. PICK S : S = G!Repairs(ns) \cup {r}
      OBVIOUS
    <3>2. IsFiniteSet(S) /\ r + 1 \notin S
      BY <2>2, <2>4, <3>1
    <3>3. QED
      BY <3>1, <3>2, FS_AddElement
  <2>6. Cardinality(G!Repairs(more)) <= MaxRepairs + 1
    <3>1. PICK c \in Nat : c = Cardinality(G!Repairs(ns)) /\ c < MaxRepairs
      BY <2>3
    <3>2. CASE G!Repairs(more) = G!Repairs(ns) \cup {r}
      BY <2>4, <3>1, <3>2, GoalAssumption
    <3>3. CASE G!Repairs(more) = (G!Repairs(ns) \cup {r}) \cup {r + 1}
      <4>1. Cardinality(G!Repairs(more)) = (c + 1) + 1
        BY <2>4, <2>5, <3>1, <3>3
      <4>2. QED
        BY <3>1, <4>1, GoalAssumption
    <3>4. QED
      BY <2>1, <3>2, <3>3
  <2>7. QED
    BY <2>6 DEF G!Cardinality, Cardinality
<1>28. QED
  BY <1>12, <1>20, <1>23, <1>25, <1>26, <1>27 DEF Hierarchy

LEMMA GoalInit == G!Init => GoalInv
<1> SUFFICES ASSUME G!Init PROVE GoalInv
  OBVIOUS
<1> DEFINE Rec == [parent : Nat \cup {None}, children : SUBSET DOMAIN first,
                    outcomes : SUBSET first[1].outcomes, dependsOn : SUBSET DOMAIN first,
                    status : {"OPEN", "BLOCKED", "DELIVERED"}, repair : {FALSE}]
<1>1. first \in Plans
  BY DEF G!Init
<1>2. first \in Seq(Rec)
  BY <1>1, PlanAssumption
<1>3. /\ G!WellFormed(first)
      /\ \A n \in DOMAIN first : first[n].parent # None => first[n].parent \in 1 .. n - 1
  BY <1>1, PlanAssumption, Zenon
<1>4. PICK k \in Nat : DOMAIN first = 1 .. k /\ first \in [1 .. k -> Rec]
  <2> HIDE DEF Rec
  <2>1. Len(first) \in Nat /\ DOMAIN first = 1 .. Len(first) /\ first \in [1 .. Len(first) -> Rec]
    BY <1>2
  <2>2. QED
    BY <2>1
<1>5. \A x \in Rec : /\ x \in Nodes /\ ~x.repair
                     /\ x.children \subseteq 1 .. k /\ x.dependsOn \subseteq 1 .. k
  <2>1. PICK dom : dom = DOMAIN first
    OBVIOUS
  <2>2. dom = 1 .. k /\ dom \subseteq Nat
    BY <1>4, <2>1
  <2>3. PICK whole : whole = first[1].outcomes
    OBVIOUS
  <2>4. Rec = [parent : Nat \cup {None}, children : SUBSET dom, outcomes : SUBSET whole,
               dependsOn : SUBSET dom, status : {"OPEN", "BLOCKED", "DELIVERED"}, repair : {FALSE}]
    BY <2>1, <2>3, Zenon
  <2>5. whole \subseteq Whole
    BY <1>1, <2>3 DEF Whole
  <2> HIDE DEF Rec
  <2>6. QED
    BY <2>2, <2>4, <2>5 DEF Nodes
<1> HIDE DEF Rec
<1>6. Tree(first)
  <2>1. first \in [1 .. k -> Nodes]
    BY <1>4, <1>5
  <2>2. ASSUME NEW n \in 1 .. k
        PROVE  /\ first[n].children \subseteq 1 .. k /\ first[n].dependsOn \subseteq 1 .. k
               /\ \A c \in first[n].children : first[c].parent = n
    BY <1>3, <1>4, <1>5 DEF G!WellFormed
  <2>3. ASSUME NEW n \in 1 .. k, n # 1
        PROVE  first[n].parent # None /\ n \in first[first[n].parent].children
    BY <2>3, <1>3, <1>4, NoneAssumption DEF G!WellFormed
  <2>4. QED
    BY <2>1, <2>2, <2>3, <1>3, <1>4 DEF Tree
<1>7. Circles(first, first)
  <2>1. \A n \in DOMAIN first : n \in G!Ancestors(first, n)
    BY <1>6, AncestorsHaveChildren
  <2>2. \A T \in SUBSET DOMAIN first : T \subseteq Above(first, T)
    BY <2>1 DEF Above
  <2>3. QED
    BY <2>2 DEF Circles
<1>8. \A n \in DOMAIN first : ~G!UnderRepair(first, n)
  BY <1>4, <1>5, <1>6, AncestorsHaveChildren DEF G!UnderRepair
<1>9. Owned(first, first, first[1].outcomes \ G!OpenOutcomes(first))
  BY <1>8 DEF Owned, G!OpenOutcomes, G!Leaves
<1>10. G!Cardinality(G!Repairs(first)) <= MaxRepairs + 1
  <2>1. G!Repairs(first) = {}
    BY <1>4, <1>5 DEF G!Repairs
  <2>2. Cardinality({}) = 0
    BY FS_EmptySet
  <2>3. QED
    BY <2>1, <2>2, GoalAssumption DEF G!Cardinality, Cardinality
<1>11. Hierarchy(first, first, first[1].outcomes \ G!OpenOutcomes(first))
  BY <1>3, <1>6, <1>7, <1>9, <1>10 DEF Hierarchy
<1>12. /\ \A s \in Supervisors : sup[s].base = None
       /\ sup = [s \in Supervisors |-> sup[s]]
  BY DEF G!Init, G!Idle
<1>13. \A S : S \cup {} = S
  OBVIOUS
<1>14. Hierarchy(first, progress.nodes, progress.worked \cup progress.named)
  BY <1>11, <1>13 DEF G!Init
<1>15. QED
  BY <1>1, <1>12, <1>14, GoalAssumption DEF G!Init, GoalInv

\* A supervisor builds a hierarchy.
LEMMA SupervisorBuilds ==
  ASSUME GoalInv, NEW s \in Supervisors, sup[s].base # None, NEW nodes, NEW worked, NEW named,
         Hierarchy(first, nodes, (sup[s].worked \cup sup[s].named) \cup (worked \cup named)),
         UNCHANGED <<first, progress, bindings>>,
         sup' = [sup EXCEPT ![s].nodes = nodes, ![s].worked = @ \cup worked,
                            ![s].named = @ \cup named]
  PROVE  GoalInv'
<1>1. PICK me : me = sup[s]
  OBVIOUS
<1>2. me = [base |-> me.base, old |-> me.old, nodes |-> me.nodes, worked |-> me.worked,
            named |-> me.named]
  BY <1>1 DEF GoalInv
<1>3. PICK more : more = [base |-> me.base, old |-> me.old, nodes |-> nodes,
                         worked |-> me.worked \cup worked, named |-> me.named \cup named]
  OBVIOUS
<1>4. /\ sup'[s] = more
      /\ \A t \in Supervisors \ {s} : sup'[t] = sup[t]
      /\ sup' = [t \in Supervisors |-> sup'[t]]
  BY <1>1, <1>2, <1>3 DEF GoalInv
<1>5. ASSUME NEW t \in Supervisors, sup'[t].base # None
      PROVE  /\ sup'[t] = [base |-> sup'[t].base, old |-> sup'[t].old, nodes |-> sup'[t].nodes,
                          worked |-> sup'[t].worked, named |-> sup'[t].named]
             /\ sup'[t].base \in 0 .. MaxGoalState - 1
             /\ Hierarchy(first, sup'[t].nodes, sup'[t].worked \cup sup'[t].named)
  <2>1. CASE t = s
    <3>1. /\ more = [base |-> more.base, old |-> more.old, nodes |-> more.nodes,
                     worked |-> more.worked, named |-> more.named]
          /\ more.base = me.base /\ more.nodes = nodes
          /\ more.worked \cup more.named = (me.worked \cup me.named) \cup (worked \cup named)
      BY <1>3
    <3>2. me.base \in 0 .. MaxGoalState - 1
      BY <1>1 DEF GoalInv
    <3>3. Hierarchy(first, nodes, (me.worked \cup me.named) \cup (worked \cup named))
      BY <1>1
    <3>4. QED
      BY <2>1, <1>4, <3>1, <3>2, <3>3
  <2>2. CASE t # s
    BY <2>2, <1>4, <1>5 DEF GoalInv
  <2>3. QED
    BY <2>1, <2>2
<1>6. /\ Hierarchy(first, progress'.nodes, progress'.worked \cup progress'.named)
      /\ bindings' \in 0 .. MaxGoalState
  BY DEF GoalInv
<1>7. QED
  BY <1>4, <1>5, <1>6 DEF GoalInv

\* The others stay as they are.
LEMMA SupervisorLeaves ==
  ASSUME GoalInv, NEW s \in Supervisors, NEW x, sup' = [sup EXCEPT ![s] = x], UNCHANGED first,
         Hierarchy(first, progress'.nodes, progress'.worked \cup progress'.named),
         bindings' \in 0 .. MaxGoalState,
         x.base # None =>
           /\ x = [base |-> x.base, old |-> x.old, nodes |-> x.nodes, worked |-> x.worked,
                   named |-> x.named]
           /\ x.base \in 0 .. MaxGoalState - 1
           /\ Hierarchy(first, x.nodes, x.worked \cup x.named)
  PROVE  GoalInv'
<1>1. /\ sup'[s] = x /\ \A t \in Supervisors \ {s} : sup'[t] = sup[t]
      /\ sup' = [t \in Supervisors |-> sup'[t]]
  BY DEF GoalInv
<1>2. QED
  BY <1>1 DEF GoalInv

LEMMA GoalStep == GoalInv /\ G!Next => GoalInv'
<1> SUFFICES ASSUME GoalInv, G!Next PROVE GoalInv'
  OBVIOUS
<1>1. ASSUME NEW s \in Supervisors, bindings < MaxGoalState, G!Load(s) PROVE GoalInv'
  <2>1. PICK x : x = [base |-> bindings, old |-> progress.nodes, nodes |-> progress.nodes,
                      worked |-> progress.worked, named |-> progress.named]
    OBVIOUS
  <2>2. sup' = [sup EXCEPT ![s] = x] /\ UNCHANGED <<first, progress, bindings>>
    BY <1>1, <2>1 DEF G!Load
  <2>3. x.base \in 0 .. MaxGoalState - 1 /\ Hierarchy(first, x.nodes, x.worked \cup x.named)
    BY <1>1, <2>1, GoalAssumption DEF GoalInv
  <2>4. /\ Hierarchy(first, progress'.nodes, progress'.worked \cup progress'.named)
        /\ bindings' \in 0 .. MaxGoalState
    BY <2>2 DEF GoalInv
  <2>5. QED
    BY <2>1, <2>2, <2>3, <2>4, SupervisorLeaves
<1>2. ASSUME NEW s \in Supervisors, G!Persist(s) PROVE GoalInv'
  <2>1. sup' = [sup EXCEPT ![s] = G!Idle] /\ G!Idle.base = None /\ UNCHANGED first
    BY <1>2 DEF G!Persist, G!Idle
  <2>2. /\ sup[s].base \in 0 .. MaxGoalState - 1
        /\ Hierarchy(first, sup[s].nodes, sup[s].worked \cup sup[s].named)
    BY <1>2 DEF G!Persist, GoalInv
  <2>3. /\ Hierarchy(first, progress'.nodes, progress'.worked \cup progress'.named)
        /\ bindings' \in 0 .. MaxGoalState
    <3>1. CASE G!Bind(s)
      <4>1. /\ progress'.nodes = sup[s].nodes
            /\ progress'.worked = sup[s].worked /\ progress'.named = sup[s].named
            /\ bindings' = bindings + 1 /\ bindings = sup[s].base
        BY <1>2, <3>1 DEF G!Persist, G!Bind
      <4>2. QED
        BY <2>2, <4>1, GoalAssumption
    <3>2. CASE ~G!Bind(s)
      BY <1>2, <3>2 DEF G!Persist, GoalInv
    <3>3. QED
      BY <3>1, <3>2
  <2>4. QED
    BY <2>1, <2>3, SupervisorLeaves
<1>3. ASSUME NEW s \in Supervisors, G!Drop(s) PROVE GoalInv'
  <2>1. /\ sup' = [sup EXCEPT ![s] = G!Idle] /\ G!Idle.base = None
        /\ UNCHANGED <<first, progress, bindings>>
    BY <1>3 DEF G!Drop, G!Idle
  <2>2. /\ Hierarchy(first, progress'.nodes, progress'.worked \cup progress'.named)
        /\ bindings' \in 0 .. MaxGoalState
    BY <2>1 DEF GoalInv
  <2>3. QED
    BY <2>1, <2>2, SupervisorLeaves
<1>4. ASSUME NEW s \in Supervisors, NEW n \in DOMAIN sup[s].nodes, NEW testOnly \in BOOLEAN,
             G!BeginRecovery(s, n, testOnly)
      PROVE  GoalInv'
  <2>1. PICK ns : ns = sup[s].nodes
    OBVIOUS
  <2>2. PICK closed : closed = sup[s].worked \cup sup[s].named
    OBVIOUS
  <2>3. /\ sup[s].base # None /\ n \in G!Leaves(ns) /\ ns[n].status # "DELIVERED"
        /\ G!Cardinality(G!Repairs(ns)) < MaxRepairs
        /\ Hierarchy(first, ns, closed)
    BY <1>4, <2>1, <2>2 DEF G!BeginRecovery, G!Fresh, GoalInv
  <2>4. PICK more : more = G!Split(ns, n, testOnly)
    OBVIOUS
  <2>5. /\ sup' = [sup EXCEPT ![s].nodes = more, ![s].worked = @ \cup {},
                              ![s].named = @ \cup {}]
        /\ UNCHANGED <<first, progress, bindings>> /\ G!WellFormed(more)
    BY <1>4, <2>1, <2>4 DEF G!BeginRecovery, G!Build
  <2>6. Hierarchy(first, more, closed)
    BY <2>3, <2>4, <2>5, LeafIsSplit
  <2>7. closed \cup ({} \cup {}) = closed
    OBVIOUS
  <2>8. Hierarchy(first, more, (sup[s].worked \cup sup[s].named) \cup ({} \cup {}))
    BY <2>2, <2>6, <2>7
  <2>9. QED
    BY <2>3, <2>5, <2>8, SupervisorBuilds
<1>5. ASSUME NEW s \in Supervisors, NEW n \in DOMAIN sup[s].nodes,
             NEW status \in {"OPEN", "BLOCKED", "DELIVERED"}, NEW done, NEW named, G!Fresh(s),
             G!Build(s, [sup[s].nodes EXCEPT ![n].status = status], done, named),
             status = "BLOCKED" => n \in G!Leaves(sup[s].nodes),
             status = "DELIVERED" => G!Closes(sup[s].nodes, n) \subseteq done \cup named
      PROVE  GoalInv'
  <2>1. PICK ns : ns = sup[s].nodes
    OBVIOUS
  <2>2. PICK closed : closed = sup[s].worked \cup sup[s].named
    OBVIOUS
  <2>3. sup[s].base # None /\ Hierarchy(first, ns, closed)
    BY <1>5, <2>1, <2>2 DEF G!Fresh, GoalInv
  <2>4. PICK more : more = [ns EXCEPT ![n].status = status]
    OBVIOUS
  <2>5. /\ sup' = [sup EXCEPT ![s].nodes = more, ![s].worked = @ \cup done,
                              ![s].named = @ \cup named]
        /\ UNCHANGED <<first, progress, bindings>> /\ G!WellFormed(more)
    BY <1>5, <2>1, <2>4 DEF G!Build
  <2>6. Hierarchy(first, more, closed \cup (done \cup named))
    <3>1. /\ n \in DOMAIN ns /\ G!WellFormed([ns EXCEPT ![n].status = status])
          /\ status = "BLOCKED" => n \in G!Leaves(ns)
          /\ status = "DELIVERED" => G!Closes(ns, n) \subseteq done \cup named
      BY <1>5, <2>1, <2>4, <2>5
    <3>2. QED
      BY <2>3, <2>4, <3>1, StatusChanges
  <2>7. QED
    BY <2>2, <2>3, <2>5, <2>6, SupervisorBuilds
<1>6. ASSUME NEW s \in Supervisors, NEW n \in DOMAIN sup[s].nodes, G!FinishRecovery(s, n)
      PROVE  GoalInv'
  <2>1. PICK named : named = G!Closes(sup[s].nodes, n)
    OBVIOUS
  <2>2. G!Fresh(s) /\ G!Build(s, [sup[s].nodes EXCEPT ![n].status = "DELIVERED"], {}, named)
    BY <1>6, <2>1 DEF G!FinishRecovery, G!Finished, G!Deliver
  <2>3. QED
    BY <2>1, <2>2, <1>5
<1>7. ASSUME NEW s \in Supervisors, NEW n \in DOMAIN sup[s].nodes, G!DeliverNode(s, n)
      PROVE  GoalInv'
  <2>1. PICK done : done = G!Closes(sup[s].nodes, n)
    OBVIOUS
  <2>2. G!Fresh(s) /\ G!Build(s, [sup[s].nodes EXCEPT ![n].status = "DELIVERED"], done, {})
    BY <1>7, <2>1 DEF G!DeliverNode, G!Deliver
  <2>3. QED
    BY <2>1, <2>2, <1>5
<1>8. ASSUME NEW s \in Supervisors, NEW n \in DOMAIN sup[s].nodes, G!Block(s, n)
      PROVE  GoalInv'
  <2>1. /\ G!Fresh(s) /\ G!Build(s, [sup[s].nodes EXCEPT ![n].status = "BLOCKED"], {}, {})
        /\ n \in G!Leaves(sup[s].nodes)
    BY <1>8 DEF G!Block, G!Ready
  <2>2. QED
    BY <2>1, <1>5
<1>9. ASSUME G!NativeEvent PROVE GoalInv'
  <2>1. UNCHANGED <<first, progress, sup>> /\ bindings' \in 0 .. MaxGoalState
    BY <1>9, GoalAssumption DEF G!NativeEvent, GoalInv
  <2>2. QED
    BY <2>1 DEF GoalInv
<1>10. QED
  BY <1>1, <1>2, <1>3, <1>4, <1>6, <1>7, <1>8, <1>9 DEF G!Next

LEMMA GoalInvariant == Spec => [](focus = "goal" => GoalInv)
<1>1. Init => (focus = "goal" => GoalInv)
  BY GoalInit DEF Init
<1>2. (focus = "goal" => GoalInv) /\ [Next]_vars => (focus = "goal" => GoalInv)'
  <2> SUFFICES ASSUME focus = "goal" => GoalInv, [Next]_vars, focus' = "goal"
               PROVE  GoalInv'
    OBVIOUS
  <2>1. focus = "goal" /\ GoalInv
    BY DEF Next, vars
  <2>2. CASE Next
    BY <2>1, <2>2, GoalStep DEF Next
  <2>3. CASE UNCHANGED vars
    <3>1. UNCHANGED <<first, progress, bindings, sup>>
      BY <2>3 DEF vars, goalVars
    <3>2. QED
      BY <3>1, <2>1 DEF GoalInv
  <2>4. QED
    BY <2>2, <2>3
<1>3. QED
  BY <1>1, <1>2, PTL DEF Spec

\* For any first hierarchies, however deep and whatever they wait for, any
\* supervisors and any number of repairs: an outcome that is no longer open was
\* worked on and not only repaired, or a finish_recovery was given its ordinary leaf;
\* and a goal that is stuck had a blocked parent, or an unfinished part that waits
\* for itself, in the hierarchy it began with: no recovery gives it one.
THEOREM GoalKept == Spec => []GoalsKept
<1>1. GoalInv => G!OutcomesKept /\ G!NeverStuck
  <2> SUFFICES ASSUME GoalInv PROVE G!OutcomesKept /\ G!NeverStuck
    OBVIOUS
  <2>1. Hierarchy(first, progress.nodes, progress.worked \cup progress.named)
    BY DEF GoalInv
  <2>2. G!OutcomesKept
    <3>1. PICK closed : closed = progress.worked \cup progress.named
      OBVIOUS
    <3>2. \A o \in first[1].outcomes : o \in G!OpenOutcomes(progress.nodes) \cup closed
      BY <2>1, <3>1, OwnedIsOpen DEF Hierarchy
    <3>3. QED
      BY <3>1, <3>2 DEF G!OutcomesKept
  <2>3. CASE \A n \in DOMAIN progress.nodes : ~BlockedParent(progress.nodes, n)
    <3>1. G!Stuck(progress.nodes) =>
            \E U \in SUBSET (DOMAIN first \cap G!Unfinished(progress.nodes)) :
              G!WaitsForItself(first, U)
      BY <2>1, <2>3, HierarchyMoves
    <3>2. QED
      BY <2>2, <3>1 DEF G!NeverStuck
  <2>4. ASSUME NEW n \in DOMAIN progress.nodes, BlockedParent(progress.nodes, n)
        PROVE  G!NeverStuck
    BY <2>1, <2>4 DEF Hierarchy, BlockedParent, G!NeverStuck
  <2>5. QED
    BY <2>2, <2>3, <2>4
<1>2. (focus = "goal" => GoalInv) => GoalsKept
  BY <1>1 DEF GoalsKept
<1>3. QED
  BY <1>2, GoalInvariant, PTL

(***************************************************************************)
(* Storage.  A cleanup plan of the revision that is current names nothing  *)
(* that is referenced, and nobody else writes while it is applied; a       *)
(* record is in the index as it is, but while its own update is at work.   *)
(***************************************************************************)
\* The walk from the newest generation to the oldest, over their numbers.
Oldest(s) == CHOOSE x \in s : \A y \in s : x =< y
NothingKept == [kept |-> << >>, days |-> {}, months |-> {}]
Kept(vs, walk, s) ==
  IF s = {} THEN NothingKept ELSE A!Retain(vs[Oldest(s)], walk[s \ {Oldest(s)}])

LEMMA RetainedIs ==
  ASSUME NEW vs
  PROVE  A!RetainedGenerations(vs) =
           (CHOOSE walk : walk = [s \in SUBSET DOMAIN vs |-> Kept(vs, walk, s)])[DOMAIN vs].kept
  BY DEF A!RetainedGenerations, A!FoldRight, A!MapThenFoldSet, A!Min, Kept, Oldest, NothingKept

LEMMA WithoutOldest ==
  ASSUME NEW n \in Nat, NEW s \in SUBSET (1 .. n), s # {}
  PROVE  /\ Oldest(s) \in s /\ s \ {Oldest(s)} \in SUBSET (1 .. n)
         /\ Cardinality(s) \in 1 .. n
         /\ Cardinality(s \ {Oldest(s)}) = Cardinality(s) - 1
<1>1. IsFiniteSet(s) /\ Cardinality(s) \in Nat /\ Cardinality(s) <= n /\ Cardinality(s) # 0
  <2>1. IsFiniteSet(1 .. n) /\ Cardinality(1 .. n) = n
    BY FS_Interval
  <2>2. IsFiniteSet(s) /\ Cardinality(s) <= n
    BY <2>1, FS_Subset
  <2>3. Cardinality(s) \in Nat
    BY <2>2, FS_CardinalityType
  <2>4. Cardinality(s) # 0
    BY <2>2, FS_EmptySet
  <2>5. QED
    BY <2>2, <2>3, <2>4
<1>2. Oldest(s) \in s
  <2>1. s \in SUBSET Nat
    OBVIOUS
  <2>2. \E x \in s : \A y \in s : x =< y
    BY <2>1, LeastNumber
  <2>3. QED
    BY <2>2 DEF Oldest
<1>3. Cardinality(s \ {Oldest(s)}) = Cardinality(s) - 1
  BY <1>1, <1>2, FS_RemoveElement
<1>4. Cardinality(s) \in 1 .. n
  BY <1>1
<1>5. s \ {Oldest(s)} \in SUBSET (1 .. n)
  OBVIOUS
<1>6. QED
  BY <1>2, <1>3, <1>4, <1>5

\* There is such a walk.
LEMMA WalkExists ==
  ASSUME NEW n \in Nat, NEW vs
  PROVE  \E walk : walk = [s \in SUBSET (1 .. n) |-> Kept(vs, walk, s)]
<1> DEFINE Upto(k) == {s \in SUBSET (1 .. n) : Cardinality(s) <= k}
           Has(k) == \E walk : walk = [s \in Upto(k) |-> Kept(vs, walk, s)]
           T == {k \in 0 .. n : ~Has(k)}
<1>1. Has(0)
  <2> DEFINE walk == [s \in Upto(0) |-> NothingKept]
  <2>1. \A s \in Upto(0) : s = {}
    <3> SUFFICES ASSUME NEW s \in SUBSET (1 .. n), Cardinality(s) <= 0, s # {} PROVE FALSE
      OBVIOUS
    <3>1. Cardinality(s) \in 1 .. n
      BY WithoutOldest
    <3>2. QED
      BY <3>1
  <2>2. walk = [s \in Upto(0) |-> Kept(vs, walk, s)]
    <3> HIDE DEF Upto
    <3>1. \A s \in Upto(0) : Kept(vs, walk, s) = NothingKept
      BY <2>1 DEF Kept
    <3>2. QED
      BY <3>1
  <2> HIDE DEF walk
  <2>3. QED
    BY <2>2
<1>2. ASSUME NEW k \in 1 .. n, Has(k - 1) PROVE Has(k)
  <2>1. PICK walk : walk = [s \in Upto(k - 1) |-> Kept(vs, walk, s)]
    BY <1>2
  <2> DEFINE more == [s \in Upto(k) |-> Kept(vs, walk, s)]
  <2>2. Upto(k - 1) \subseteq Upto(k)
    <3>1. ASSUME NEW s \in SUBSET (1 .. n), Cardinality(s) <= k - 1 PROVE Cardinality(s) <= k
      <4>1. Cardinality(s) \in Nat
        <5>1. IsFiniteSet(1 .. n)
          BY FS_Interval
        <5>2. QED
          BY <5>1, FS_Subset, FS_CardinalityType
      <4>2. QED
        BY <3>1, <4>1
    <3>2. QED
      BY <3>1
  <2>3. \A s \in Upto(k - 1) : walk[s] = more[s]
    <3> HIDE DEF Upto
    <3>1. \A s \in Upto(k - 1) : walk[s] = Kept(vs, walk, s)
      BY <2>1
    <3>2. QED
      BY <2>2, <3>1
  <2>4. ASSUME NEW s \in Upto(k) PROVE Kept(vs, walk, s) = Kept(vs, more, s)
    <3>1. s # {} => s \ {Oldest(s)} \in Upto(k - 1)
      BY WithoutOldest
    <3> HIDE DEF more, Upto
    <3>2. QED
      BY <2>3, <3>1 DEF Kept
  <2>5. more = [s \in Upto(k) |-> Kept(vs, more, s)]
    <3>1. more = [s \in Upto(k) |-> Kept(vs, walk, s)]
      OBVIOUS
    <3> HIDE DEF more, Upto
    <3>2. QED
      BY <3>1, <2>4
  <2> HIDE DEF more, Upto
  <2>6. QED
    BY <2>5
<1>3. Has(n)
  <2> SUFFICES ASSUME ~Has(n) PROVE FALSE
    OBVIOUS
  <2> HIDE DEF Has
  <2>1. T \in SUBSET Nat /\ n \in T
    OBVIOUS
  <2>2. PICK k \in T : \A m \in T : k <= m
    <3> HIDE DEF T
    <3>1. QED
      BY <2>1, LeastNumber
  <2>3. k \in 1 .. n
    BY <1>1, <2>2
  <2>4. k - 1 \in 0 .. n /\ k - 1 \notin T
    BY <2>2, <2>3
  <2>5. QED
    BY <1>2, <2>2, <2>3, <2>4
<1>4. Upto(n) = SUBSET (1 .. n)
  <2>1. ASSUME NEW s \in SUBSET (1 .. n) PROVE Cardinality(s) <= n
    <3>1. IsFiniteSet(1 .. n) /\ Cardinality(1 .. n) = n
      BY FS_Interval
    <3>2. QED
      BY <3>1, FS_Subset
  <2>2. QED
    BY <2>1
<1>5. QED
  <2> HIDE DEF Upto
  <2>1. QED
    BY <1>3, <1>4

LEMMA OneKept ==
  ASSUME NEW Vs, NEW g \in Vs,
         NEW acc \in [kept : Seq(Vs), days : SUBSET {h.day : h \in Vs},
                      months : SUBSET {A!Month(h.day) : h \in Vs}]
  PROVE  A!Retain(g, acc) \in [kept : Seq(Vs), days : SUBSET {h.day : h \in Vs},
                               months : SUBSET {A!Month(h.day) : h \in Vs}]
<1>1. <<g>> \o acc.kept \in Seq(Vs)
  <2>1. acc.kept \in Seq(Vs) /\ <<g>> \in Seq(Vs)
    OBVIOUS
  <2>2. QED
    BY <2>1, ConcatProperties
<1>2. g.day \in {h.day : h \in Vs} /\ A!Month(g.day) \in {A!Month(h.day) : h \in Vs}
  OBVIOUS
<1>3. QED
  BY <1>1, <1>2 DEF A!Retain

\* Only generations that were there are kept.
LEMMA KeptWereThere ==
  ASSUME NEW Vs, NEW vs \in Seq(Vs)
  PROVE  A!RetainedGenerations(vs) \in Seq(Vs)
<1> DEFINE n == Len(vs)
           Accs == [kept : Seq(Vs), days : SUBSET {h.day : h \in Vs},
                    months : SUBSET {A!Month(h.day) : h \in Vs}]
           walk == CHOOSE w : w = [s \in SUBSET (1 .. n) |-> Kept(vs, w, s)]
           T == {k \in 0 .. n :
                   \E s \in SUBSET (1 .. n) : Cardinality(s) = k /\ walk[s] \notin Accs}
<1>1. n \in Nat /\ DOMAIN vs = 1 .. n /\ \A i \in 1 .. n : vs[i] \in Vs
  BY LenProperties, ElementOfSeq
<1> HIDE DEF n
<1>2. walk = [s \in SUBSET (1 .. n) |-> Kept(vs, walk, s)]
  BY <1>1, WalkExists
<1> HIDE DEF walk
<1>3. \A s \in SUBSET (1 .. n) : walk[s] = Kept(vs, walk, s)
  BY <1>2
<1>4. NothingKept \in Accs
  <2>1. << >> \in Seq(Vs)
    OBVIOUS
  <2>2. QED
    BY <2>1 DEF NothingKept
<1>5. \A g \in Vs, acc \in Accs : A!Retain(g, acc) \in Accs
  BY OneKept
<1> HIDE DEF Accs
<1>6. T = {}
  <2> SUFFICES ASSUME T # {} PROVE FALSE
    OBVIOUS
  <2>1. T \in SUBSET Nat
    OBVIOUS
  <2>2. PICK k \in T : \A m \in T : k <= m
    <3> HIDE DEF T
    <3>1. QED
      BY <2>1, LeastNumber
  <2>3. PICK s \in SUBSET (1 .. n) : Cardinality(s) = k /\ walk[s] \notin Accs
    BY <2>2
  <2>4. s # {}
    BY <1>3, <1>4, <2>3 DEF Kept
  <2>5. /\ Oldest(s) \in s /\ s \ {Oldest(s)} \in SUBSET (1 .. n) /\ k \in 1 .. n
        /\ Cardinality(s \ {Oldest(s)}) = k - 1
    BY <1>1, <2>3, <2>4, WithoutOldest
  <2>6. walk[s \ {Oldest(s)}] \in Accs
    <3>1. k - 1 \notin T /\ k - 1 \in 0 .. n
      <4> HIDE DEF T
      <4>1. k - 1 \in 0 .. n /\ ~(k <= k - 1)
        BY <1>1, <2>5
      <4>2. QED
        BY <2>2, <4>1
    <3>2. QED
      BY <2>5, <3>1
  <2>7. walk[s] \in Accs
    <3>1. walk[s] = A!Retain(vs[Oldest(s)], walk[s \ {Oldest(s)}])
      BY <1>3, <2>4 DEF Kept
    <3>2. vs[Oldest(s)] \in Vs
      BY <1>1, <2>5
    <3>3. QED
      BY <1>5, <2>6, <3>1, <3>2
  <2>8. QED
    BY <2>3, <2>7
<1>7. walk[1 .. n] \in Accs
  <2>1. IsFiniteSet(1 .. n) /\ Cardinality(1 .. n) = n
    BY <1>1, FS_Interval
  <2>2. QED
    BY <1>1, <1>6, <2>1
<1>8. A!RetainedGenerations(vs) = walk[1 .. n].kept
  BY <1>1, RetainedIs DEF walk
<1>9. QED
  BY <1>7, <1>8 DEF Accs

Pins == [Records -> Digests \cup {None}]
Generations == [day : Days, pins : Pins]
Works ==
  [at : {"idle", "putState", "unindex", "index", "release", "stage", "receipt", "purge"},
   rec : Records \cup {None}, new : Digests \cup {None}, old : Digests \cup {None}]
Cleanups ==
  [rev : Nat, cands : SUBSET Digests, ready : BOOLEAN, staged : SUBSET Digests,
   cleaned : BOOLEAN, receipt : BOOLEAN]

StorageTypes ==
  /\ profile \in Profiles \cup {None} /\ revision \in Nat
  /\ records \in Pins /\ objects \in SUBSET Digests /\ gens \in Seq(Generations)
  /\ blobs \in SUBSET Digests /\ index \in [Shards -> Pins] /\ lapsed \in SUBSET Records
  /\ work \in Works /\ plan \in Cleanups \cup {None}

\* What a writer has in hand: a put is of a digest that is stored.
InHand ==
  /\ work.at = "idle" <=> work = A!Idle
  /\ work.at \in {"putState", "unindex", "index", "release"} => work.rec \in Records
  /\ work.at \in {"putState", "unindex", "index"} => work.new \in Digests
  /\ work.at = "release" => work.old \in Digests
  /\ work.at = "putState" => work.new \in blobs
  /\ work.at \in {"unindex", "index"} => records[work.rec] = work.new
  /\ work.at = "release" => records[work.rec] = None
  /\ profile = None => work = A!Idle /\ records = A!NoPins /\ \A s \in Shards : index[s] = A!NoPins

Planned ==
  /\ work.at \in {"stage", "receipt", "purge"} => plan # None
  /\ plan # None =>
       /\ profile # None /\ plan.rev <= revision
       /\ plan.staged \subseteq plan.cands
       /\ ~plan.ready => plan.staged = {} /\ ~plan.cleaned
       /\ plan.rev = revision =>
            /\ ~plan.cleaned
            /\ IF plan.ready THEN plan.cands \cap A!Referenced = {} ELSE plan.cands = A!Referenced
       /\ work.at \in {"stage", "receipt", "purge"} => plan.ready
       /\ work.at = "stage" => plan.rev = revision

\* Record r is in the index with digest d, and nowhere else.
IndexedAs(r, d) ==
  \A s \in Shards : index[s][r] = IF s \in A!IndexPaths(d) THEN d ELSE None

IndexTrue ==
  /\ \A r \in Records \ lapsed :
       /\ \/ work.at \in {"unindex", "index", "release"} /\ work.rec = r
          \/ IndexedAs(r, records[r])
       /\ work.at = "release" /\ work.rec = r => IndexedAs(r, work.old)
  /\ work.at = "index" =>
       \A s \in Shards : s \notin A!IndexPaths(work.new) => index[s][work.rec] = None

StorageInv == StorageTypes /\ InHand /\ Planned /\ IndexTrue /\ A!NothingDangles

LEMMA NothingReferenced ==
  (records = A!NoPins /\ gens = << >>) => A!Referenced = {}
  BY DEF A!NoPins, A!Referenced, A!Named

LEMMA StorageInit == A!Init => StorageInv
<1> SUFFICES ASSUME A!Init PROVE StorageInv
  OBVIOUS
<1>1. StorageTypes
  BY DEF A!Init, StorageTypes, A!NoPins, Pins, Works, A!Idle
<1>2. A!Referenced = {} /\ work.at = "idle" /\ plan = None
  BY NothingReferenced DEF A!Init, A!Idle
<1>3. IndexTrue
  <2>1. \A s \in Shards, r \in Records : index[s][r] = None /\ records[r] = None
    BY DEF A!Init, A!NoPins
  <2>2. QED
    BY <1>2, <2>1 DEF IndexTrue, IndexedAs
<1>4. InHand
  BY <1>2 DEF A!Init, InHand
<1>5. QED
  BY <1>1, <1>2, <1>3, <1>4 DEF StorageInv, Planned, A!NothingDangles

\* What is named, when one record changes and when a generation is added.
LEMMA RecordNames ==
  ASSUME StorageTypes, NEW r \in Records, NEW d \in Digests \cup {None},
         records' = [records EXCEPT ![r] = d], gens' = gens
  PROVE  A!Referenced' \subseteq A!Referenced \cup ({d} \ {None})
<1>1. \A x \in Records : records'[x] = IF x = r THEN d ELSE records[x]
  BY DEF StorageTypes, Pins
<1>2. A!Named(records') \subseteq A!Named(records) \cup ({d} \ {None})
  BY <1>1 DEF A!Named
<1>3. \A i \in DOMAIN gens : A!Named(gens'[i].pins) = A!Named(gens[i].pins)
  OBVIOUS
<1>4. QED
  BY <1>2, <1>3 DEF A!Referenced

LEMMA GenerationNames ==
  ASSUME StorageTypes, NEW day \in Days, A!CreateGeneration(day)
  PROVE  gens' \in Seq(Generations) /\ A!Referenced' \subseteq A!Referenced
<1> DEFINE new == [day |-> day, pins |-> records]
           Vs == {gens[i] : i \in DOMAIN gens} \cup {new}
<1>1. gens \in Seq(Generations) /\ new \in Generations
  BY DEF StorageTypes, Generations
<1>2. Append(gens, new) \in Seq(Vs)
  <2>1. gens \in Seq({gens[i] : i \in DOMAIN gens})
    BY <1>1, LenProperties, IsASeq
  <2>2. gens \in Seq(Vs)
    BY <2>1, SeqMonotonic
  <2>3. QED
    BY <2>2, AppendProperties
<1>3. gens' = A!RetainedGenerations(Append(gens, new)) /\ records' = records
  BY DEF A!CreateGeneration
<1>4. gens' \in Seq(Vs)
  <2> HIDE DEF Vs, new
  <2>1. QED
    BY <1>2, <1>3, KeptWereThere
<1>5. Vs \subseteq Generations
  BY <1>1, ElementOfSeq, LenProperties
<1>6. gens' \in Seq(Generations)
  BY <1>4, <1>5, SeqMonotonic
<1>7. ASSUME NEW i \in DOMAIN gens' PROVE A!Named(gens'[i].pins) \subseteq A!Referenced
  <2>1. gens'[i] \in Vs
    <3> HIDE DEF Vs
    <3>1. QED
      BY <1>4, ElementOfSeq, LenProperties
  <2>2. gens'[i].pins = records \/ \E j \in DOMAIN gens : gens'[i].pins = gens[j].pins
    BY <2>1
  <2>3. QED
    BY <2>2 DEF A!Referenced
<1>8. A!Named(records') \subseteq A!Referenced
  BY <1>3 DEF A!Referenced
<1>9. QED
  BY <1>6, <1>7, <1>8 DEF A!Referenced

\* The writes of records and their indexes.
StorageWrite ==
  \/ A!Initialize
  \/ \E r \in Records, d \in Digests : A!PutObject(r, d)
  \/ A!PutState \/ A!Unindex \/ A!UpsertIndex
  \/ \E r \in Records : A!ReleaseState(r)
  \/ A!ReleaseIndex \/ \E day \in Days : A!CreateGeneration(day)

\* The steps of a cleanup, and the kills.
StorageCleanup ==
  \/ A!ReadForPlan \/ A!ScanForPlan \/ A!DropPlan \/ A!CleanupAgain \/ A!CleanupStart
  \/ \E d \in Digests : A!StageNext(d)
  \/ A!CleanupState \/ A!CleanupFails \/ A!CleanupReceipt \/ A!CleanupPurge \/ A!Killed

LEMMA WorkChanges ==
  ASSUME NEW k \in Works, NEW a \in {"unindex", "index", "receipt", "purge"}
  PROVE  /\ [k EXCEPT !.at = a] \in Works
         /\ [k EXCEPT !.at = a].at = a /\ [k EXCEPT !.at = a].rec = k.rec
         /\ [k EXCEPT !.at = a].new = k.new /\ [k EXCEPT !.at = a].old = k.old
         /\ [k EXCEPT !.at = a] # A!Idle
  BY DEF Works, A!Idle

LEMMA IdleWorks ==
  /\ A!Idle \in Works
  /\ \A a \in {"stage", "receipt"} :
       [A!Idle EXCEPT !.at = a] \in Works /\ [A!Idle EXCEPT !.at = a].at = a
       /\ [A!Idle EXCEPT !.at = a] # A!Idle
  /\ \A r \in Records, d, e \in Digests \cup {None}, a \in {"putState", "release"} :
       [at |-> a, rec |-> r, new |-> d, old |-> e] \in Works
  BY DEF Works, A!Idle

LEMMA PinChanged ==
  ASSUME NEW p \in Pins, NEW k \in Records, NEW v \in Digests \cup {None}
  PROVE  /\ [p EXCEPT ![k] = v] \in Pins
         /\ \A r \in Records : [p EXCEPT ![k] = v][r] = IF r = k THEN v ELSE p[r]
  BY DEF Pins

\* An index after one record has been put into, or taken out of, its shards.
LEMMA IndexChanges ==
  ASSUME StorageTypes, InHand
  PROVE  /\ A!Unindex => /\ index' \in [Shards -> Pins]
                         /\ \A s \in Shards, r \in Records :
                              index'[s][r] = IF s \notin A!IndexPaths(work.new) /\ r = work.rec
                                             THEN None ELSE index[s][r]
         /\ A!UpsertIndex => /\ index' \in [Shards -> Pins]
                             /\ \A s \in Shards, r \in Records :
                                  index'[s][r] = IF s \in A!IndexPaths(work.new) /\ r = work.rec
                                                 THEN work.new ELSE index[s][r]
         /\ A!ReleaseIndex => /\ index' \in [Shards -> Pins]
                              /\ \A s \in Shards, r \in Records :
                                   index'[s][r] = IF s \in A!IndexPaths(work.old) /\ r = work.rec
                                                  THEN None ELSE index[s][r]
<1>1. index \in [Shards -> Pins]
  BY DEF StorageTypes
<1>2. ASSUME A!Unindex
      PROVE  /\ index' \in [Shards -> Pins]
             /\ \A s \in Shards, r \in Records :
                  index'[s][r] = IF s \notin A!IndexPaths(work.new) /\ r = work.rec
                                 THEN None ELSE index[s][r]
  <2>1. work.rec \in Records
    BY <1>2 DEF A!Unindex, InHand
  <2>2. /\ index' = [s \in Shards |-> index'[s]]
        /\ \A s \in Shards : index'[s] = IF s \notin A!IndexPaths(work.new)
                                         THEN [index[s] EXCEPT ![work.rec] = None] ELSE index[s]
    BY <1>2 DEF A!Unindex
  <2>3. ASSUME NEW s \in Shards
        PROVE  /\ index'[s] \in Pins
               /\ \A r \in Records :
                    index'[s][r] = IF s \notin A!IndexPaths(work.new) /\ r = work.rec
                                   THEN None ELSE index[s][r]
    <3>1. index[s] \in Pins
      BY <1>1
    <3>2. CASE s \notin A!IndexPaths(work.new)
      <4>1. index'[s] = [index[s] EXCEPT ![work.rec] = None]
        BY <2>2, <3>2
      <4>2. QED
        BY <2>1, <3>1, <3>2, <4>1, PinChanged
    <3>3. CASE ~(s \notin A!IndexPaths(work.new))
      BY <2>2, <3>1, <3>3
    <3>4. QED
      BY <3>2, <3>3
  <2>4. QED
    BY <2>2, <2>3
<1>3. ASSUME A!UpsertIndex
      PROVE  /\ index' \in [Shards -> Pins]
             /\ \A s \in Shards, r \in Records :
                  index'[s][r] = IF s \in A!IndexPaths(work.new) /\ r = work.rec
                                 THEN work.new ELSE index[s][r]
  <2>1. work.rec \in Records /\ work.new \in Digests
    BY <1>3 DEF A!UpsertIndex, InHand
  <2>2. /\ index' = [s \in Shards |-> index'[s]]
        /\ \A s \in Shards : index'[s] = IF s \in A!IndexPaths(work.new)
                                         THEN [index[s] EXCEPT ![work.rec] = work.new] ELSE index[s]
    BY <1>3 DEF A!UpsertIndex
  <2>3. ASSUME NEW s \in Shards
        PROVE  /\ index'[s] \in Pins
               /\ \A r \in Records :
                    index'[s][r] = IF s \in A!IndexPaths(work.new) /\ r = work.rec
                                   THEN work.new ELSE index[s][r]
    <3>1. index[s] \in Pins
      BY <1>1
    <3>2. CASE s \in A!IndexPaths(work.new)
      <4>1. index'[s] = [index[s] EXCEPT ![work.rec] = work.new]
        BY <2>2, <3>2
      <4>2. QED
        BY <2>1, <3>1, <3>2, <4>1, PinChanged
    <3>3. CASE ~(s \in A!IndexPaths(work.new))
      BY <2>2, <3>1, <3>3
    <3>4. QED
      BY <3>2, <3>3
  <2>4. QED
    BY <2>2, <2>3
<1>4. ASSUME A!ReleaseIndex
      PROVE  /\ index' \in [Shards -> Pins]
             /\ \A s \in Shards, r \in Records :
                  index'[s][r] = IF s \in A!IndexPaths(work.old) /\ r = work.rec
                                 THEN None ELSE index[s][r]
  <2>1. work.rec \in Records
    BY <1>4 DEF A!ReleaseIndex, InHand
  <2>2. /\ index' = [s \in Shards |-> index'[s]]
        /\ \A s \in Shards : index'[s] = IF s \in A!IndexPaths(work.old)
                                         THEN [index[s] EXCEPT ![work.rec] = None] ELSE index[s]
    BY <1>4 DEF A!ReleaseIndex
  <2>3. ASSUME NEW s \in Shards
        PROVE  /\ index'[s] \in Pins
               /\ \A r \in Records :
                    index'[s][r] = IF s \in A!IndexPaths(work.old) /\ r = work.rec
                                   THEN None ELSE index[s][r]
    <3>1. index[s] \in Pins
      BY <1>1
    <3>2. CASE s \in A!IndexPaths(work.old)
      <4>1. index'[s] = [index[s] EXCEPT ![work.rec] = None]
        BY <2>2, <3>2
      <4>2. QED
        BY <2>1, <3>1, <3>2, <4>1, PinChanged
    <3>3. CASE ~(s \in A!IndexPaths(work.old))
      BY <2>2, <3>1, <3>3
    <3>4. QED
      BY <3>2, <3>3
  <2>4. QED
    BY <2>2, <2>3
<1>5. QED
  BY <1>2, <1>3, <1>4

LEMMA RecordChanged ==
  ASSUME StorageTypes, NEW k \in Records, NEW v \in Digests \cup {None},
         records' = [records EXCEPT ![k] = v]
  PROVE  records' \in Pins /\ \A r \in Records : records'[r] = IF r = k THEN v ELSE records[r]
<1>1. PICK p \in Pins : p = records
  BY DEF StorageTypes
<1>2. /\ [p EXCEPT ![k] = v] \in Pins
      /\ \A r \in Records : [p EXCEPT ![k] = v][r] = IF r = k THEN v ELSE p[r]
  BY PinChanged
<1>3. QED
  BY <1>1, <1>2

LEMMA WritesTyped ==
  ASSUME StorageInv, StorageWrite
  PROVE  StorageTypes'
<1>1. StorageTypes /\ InHand
  BY DEF StorageInv
<1>2. CASE A!Initialize
  BY <1>1, <1>2 DEF A!Initialize, A!TargetProfile, A!disk, StorageTypes
<1>3. ASSUME NEW r \in Records, NEW d \in Digests, A!PutObject(r, d) PROVE StorageTypes'
  <2>1. work' \in Works
    <3>1. records[r] \in Digests \cup {None}
      BY <1>1 DEF StorageTypes, Pins
    <3>2. QED
      BY <1>3, <3>1, IdleWorks DEF A!PutObject
  <2>2. QED
    BY <1>1, <1>3, <2>1 DEF A!PutObject, A!stateFile, StorageTypes
<1>4. CASE A!PutState
  <2>1. work.rec \in Records /\ work.new \in Digests /\ work \in Works
    BY <1>1, <1>4 DEF A!PutState, InHand, StorageTypes
  <2>2. records' \in Pins /\ work' \in Works
    BY <1>1, <1>4, <2>1, RecordChanged, WorkChanges DEF A!PutState
  <2>3. QED
    BY <1>1, <1>4, <2>1, <2>2 DEF A!PutState, A!disk, StorageTypes
<1>5. CASE A!Unindex
  <2>1. index' \in [Shards -> Pins] /\ work' \in Works
    BY <1>1, <1>5, IndexChanges, WorkChanges DEF A!Unindex, StorageTypes
  <2>2. QED
    BY <1>1, <1>5, <2>1 DEF A!Unindex, A!stateFile, StorageTypes
<1>6. CASE A!UpsertIndex
  <2>1. index' \in [Shards -> Pins] /\ work' \in Works
    BY <1>1, <1>6, IndexChanges, IdleWorks DEF A!UpsertIndex
  <2>2. QED
    BY <1>1, <1>6, <2>1 DEF A!UpsertIndex, A!stateFile, StorageTypes
<1>7. ASSUME NEW r \in Records, A!ReleaseState(r) PROVE StorageTypes'
  <2>1. records[r] \in Digests \cup {None}
    BY <1>1 DEF StorageTypes, Pins
  <2>2. records' \in Pins /\ work' \in Works
    BY <1>1, <1>7, <2>1, RecordChanged, IdleWorks DEF A!ReleaseState
  <2>3. QED
    BY <1>1, <1>7, <2>2 DEF A!ReleaseState, A!disk, StorageTypes
<1>8. CASE A!ReleaseIndex
  <2>1. index' \in [Shards -> Pins] /\ work' \in Works
    BY <1>1, <1>8, IndexChanges, IdleWorks DEF A!ReleaseIndex
  <2>2. QED
    BY <1>1, <1>8, <2>1 DEF A!ReleaseIndex, A!stateFile, StorageTypes
<1>9. ASSUME NEW day \in Days, A!CreateGeneration(day) PROVE StorageTypes'
  <2>1. gens' \in Seq(Generations)
    BY <1>1, <1>9, GenerationNames
  <2>2. QED
    BY <1>1, <1>9, <2>1 DEF A!CreateGeneration, A!disk, StorageTypes
<1>10. QED
  BY <1>2, <1>3, <1>4, <1>5, <1>6, <1>7, <1>8, <1>9 DEF StorageWrite

\* A plan is one still, whatever is done with it.
LEMMA PlanChanged ==
  ASSUME NEW q \in Cleanups
  PROVE  /\ q # None
         /\ \A ds \in SUBSET Digests :
              /\ [q EXCEPT !.cands = ds, !.ready = TRUE] \in Cleanups
              /\ [q EXCEPT !.staged = ds] \in Cleanups
         /\ [q EXCEPT !.cleaned = TRUE] \in Cleanups
         /\ [q EXCEPT !.receipt = TRUE] \in Cleanups
  BY StorageAssumption DEF Cleanups

LEMMA ReferencedTyped == StorageTypes => A!Referenced \subseteq Digests
<1> SUFFICES ASSUME StorageTypes PROVE A!Referenced \subseteq Digests
  OBVIOUS
<1>1. A!Named(records) \subseteq Digests
  BY DEF StorageTypes, Pins, A!Named
<1>2. ASSUME NEW i \in DOMAIN gens PROVE A!Named(gens[i].pins) \subseteq Digests
  <2>1. gens[i] \in Generations
    BY ElementOfSeq, LenProperties DEF StorageTypes
  <2>2. gens[i].pins \in Pins
    BY <2>1 DEF Generations
  <2>3. QED
    BY <2>2 DEF Pins, A!Named
<1>3. QED
  BY <1>1, <1>2 DEF A!Referenced

LEMMA CleanupTyped ==
  ASSUME StorageInv, StorageCleanup
  PROVE  StorageTypes'
<1>1. StorageTypes /\ InHand /\ Planned
  BY DEF StorageInv
<1>2. CASE A!ReadForPlan
  <2>1. plan' \in Cleanups
    BY <1>1, <1>2, ReferencedTyped DEF A!ReadForPlan, Cleanups, StorageTypes
  <2>2. QED
    BY <1>1, <1>2, <2>1 DEF A!ReadForPlan, A!stateFile, A!disk, StorageTypes
<1>3. CASE A!ScanForPlan
  <2>1. plan \in Cleanups /\ blobs \ plan.cands \in SUBSET Digests
    BY <1>1, <1>3 DEF A!ScanForPlan, StorageTypes
  <2>2. plan' \in Cleanups
    BY <1>3, <2>1, PlanChanged DEF A!ScanForPlan
  <2>3. QED
    BY <1>1, <1>3, <2>2 DEF A!ScanForPlan, A!stateFile, A!disk, StorageTypes
<1>4. CASE A!DropPlan
  BY <1>1, <1>4 DEF A!DropPlan, A!stateFile, A!disk, StorageTypes
<1>5. CASE A!CleanupAgain \/ A!CleanupStart
  <2>1. work' \in Works
    BY <1>5, IdleWorks DEF A!CleanupAgain, A!CleanupStart
  <2>2. QED
    BY <1>1, <1>5, <2>1 DEF A!CleanupAgain, A!CleanupStart, A!stateFile, A!disk, StorageTypes
<1>6. ASSUME work.at \in {"stage", "receipt", "purge"} PROVE plan \in Cleanups
  BY <1>1, <1>6 DEF Planned, StorageTypes
<1>7. ASSUME NEW d \in Digests, A!StageNext(d) PROVE StorageTypes'
  <2>1. plan \in Cleanups /\ plan.staged \cup {d} \in SUBSET Digests
    BY <1>6, <1>7 DEF A!StageNext, Cleanups
  <2>2. plan' \in Cleanups
    BY <1>7, <2>1, PlanChanged DEF A!StageNext
  <2>3. QED
    BY <1>1, <1>7, <2>2 DEF A!StageNext, A!stateFile, StorageTypes
<1>8. CASE A!CleanupState
  <2>1. plan' \in Cleanups /\ work' \in Works
    BY <1>1, <1>6, <1>8, PlanChanged, WorkChanges DEF A!CleanupState, StorageTypes
  <2>2. QED
    BY <1>1, <1>8, <2>1 DEF A!CleanupState, A!disk, StorageTypes
<1>9. CASE A!CleanupFails
  <2>1. plan' \in Cleanups /\ plan.staged \in SUBSET Digests
    BY <1>6, <1>9, PlanChanged DEF A!CleanupFails, Cleanups
  <2>2. blobs' \in SUBSET Digests /\ work' \in Works
    BY <1>1, <1>9, <2>1, IdleWorks DEF A!CleanupFails, StorageTypes
  <2>3. QED
    BY <1>1, <1>9, <2>1, <2>2 DEF A!CleanupFails, A!stateFile, StorageTypes
<1>10. CASE A!CleanupReceipt
  <2>1. plan' \in Cleanups /\ work' \in Works
    BY <1>1, <1>6, <1>10, PlanChanged, WorkChanges DEF A!CleanupReceipt, StorageTypes
  <2>2. QED
    BY <1>1, <1>10, <2>1 DEF A!CleanupReceipt, A!stateFile, A!disk, StorageTypes
<1>11. CASE A!CleanupPurge
  <2>1. plan' \in Cleanups /\ work' \in Works
    BY <1>6, <1>11, PlanChanged, IdleWorks DEF A!CleanupPurge
  <2>2. QED
    BY <1>1, <1>11, <2>1 DEF A!CleanupPurge, A!stateFile, A!disk, StorageTypes
<1>12. CASE A!Killed
  <2>1. work.at \in {"unindex", "index", "release"} => work.rec \in Records
    BY <1>1 DEF InHand
  <2>2. lapsed' \in SUBSET Records /\ work' \in Works
    BY <1>1, <1>12, <2>1, IdleWorks DEF A!Killed, StorageTypes
  <2>3. QED
    BY <1>1, <1>12, <2>2 DEF A!Killed, A!stateFile, A!disk, StorageTypes
<1>13. QED
  BY <1>2, <1>3, <1>4, <1>5, <1>7, <1>8, <1>9, <1>10, <1>11, <1>12 DEF StorageCleanup

LEMMA WritesInHand ==
  ASSUME StorageInv, StorageWrite
  PROVE  InHand'
<1>1. StorageTypes /\ InHand /\ work \in Works
  BY DEF StorageInv, StorageTypes
<1>2. CASE A!Initialize
  BY <1>1, <1>2 DEF A!Initialize, A!disk, InHand, A!Idle, A!NoPins
<1>3. ASSUME NEW r \in Records, NEW d \in Digests, A!PutObject(r, d) PROVE InHand'
  BY <1>1, <1>3 DEF A!PutObject, A!stateFile, InHand, A!Idle
<1>4. CASE A!PutState
  <2>1. /\ work.rec \in Records /\ work.new \in Digests /\ profile # None
        /\ records' = [records EXCEPT ![work.rec] = work.new]
    BY <1>1, <1>4 DEF A!PutState, InHand, A!Idle
  <2>2. records'[work.rec] = work.new
    BY <1>1, <2>1 DEF StorageTypes, Pins
  <2>3. work'.at = "unindex" /\ work'.rec = work.rec /\ work'.new = work.new /\ work' # A!Idle
    BY <1>1, <1>4, WorkChanges DEF A!PutState
  <2>4. QED
    BY <1>1, <1>4, <2>1, <2>2, <2>3 DEF A!PutState, A!disk, InHand
<1>5. CASE A!Unindex
  <2>1. work'.at = "index" /\ work'.rec = work.rec /\ work'.new = work.new /\ work' # A!Idle
    BY <1>1, <1>5, WorkChanges DEF A!Unindex
  <2>2. profile # None
    BY <1>1, <1>5 DEF A!Unindex, InHand, A!Idle
  <2>3. QED
    BY <1>1, <1>5, <2>1, <2>2 DEF A!Unindex, A!stateFile, InHand
<1>6. CASE A!UpsertIndex \/ A!ReleaseIndex
  BY <1>1, <1>6 DEF A!UpsertIndex, A!ReleaseIndex, A!stateFile, InHand, A!Idle
<1>7. ASSUME NEW r \in Records, A!ReleaseState(r) PROVE InHand'
  <2>1. /\ records' = [records EXCEPT ![r] = None] /\ records[r] \in Digests
        /\ work' = [at |-> "release", rec |-> r, new |-> None, old |-> records[r]]
        /\ profile' # None
    BY <1>1, <1>7 DEF A!ReleaseState, StorageTypes, Pins
  <2>2. records'[r] = None
    BY <1>1, <2>1 DEF StorageTypes, Pins
  <2>3. QED
    BY <2>1, <2>2 DEF InHand, A!Idle
<1>8. ASSUME NEW day \in Days, A!CreateGeneration(day) PROVE InHand'
  BY <1>1, <1>8 DEF A!CreateGeneration, A!disk, InHand, A!Idle
<1>9. QED
  BY <1>2, <1>3, <1>4, <1>5, <1>6, <1>7, <1>8 DEF StorageWrite

LEMMA CleanupInHand ==
  ASSUME StorageInv, StorageCleanup
  PROVE  InHand'
<1>1. StorageTypes /\ InHand /\ work \in Works
  BY DEF StorageInv, StorageTypes
<1>2. CASE A!ReadForPlan \/ A!ScanForPlan \/ A!DropPlan
  BY <1>1, <1>2 DEF A!ReadForPlan, A!ScanForPlan, A!DropPlan, A!stateFile, A!disk, InHand, A!NoPins,
                    A!Idle
<1>3. CASE A!CleanupAgain \/ A!CleanupStart
  <2>1. plan # None /\ work = A!Idle /\ work'.at \in {"stage", "receipt"} /\ work' # A!Idle
    BY <1>3, IdleWorks DEF A!CleanupAgain, A!CleanupStart
  <2>2. profile # None
    <3>1. plan # None => profile # None
      BY DEF StorageInv, Planned
    <3>2. QED
      BY <2>1, <3>1
  <2>3. QED
    BY <1>3, <2>1, <2>2 DEF A!CleanupAgain, A!CleanupStart, A!stateFile, InHand
<1>4. ASSUME NEW d \in Digests, A!StageNext(d) PROVE InHand'
  BY <1>1, <1>4 DEF A!StageNext, A!stateFile, InHand, A!Idle
<1>5. CASE A!CleanupState \/ A!CleanupReceipt
  <2>1. work'.at \in {"receipt", "purge"} /\ work' # A!Idle
    <3>1. work'.at \in {"receipt", "purge"}
      BY <1>1, <1>5 DEF A!CleanupState, A!CleanupReceipt, Works
    <3>2. QED
      BY <3>1 DEF A!Idle
  <2>2. profile # None
    BY <1>1, <1>5 DEF A!CleanupState, A!CleanupReceipt, InHand, A!Idle
  <2>3. profile' = profile
    BY <1>5 DEF A!CleanupState, A!CleanupReceipt, A!stateFile
  <2>4. QED
    BY <2>1, <2>2, <2>3 DEF InHand
<1>6. CASE A!CleanupFails \/ A!CleanupPurge \/ A!Killed
  <2>1. work' = A!Idle /\ UNCHANGED <<profile, records, index>> /\ profile' # None
    BY <1>1, <1>6 DEF A!CleanupFails, A!CleanupPurge, A!Killed, A!stateFile, A!disk, InHand, A!Idle
  <2>2. QED
    BY <2>1 DEF InHand, A!Idle
<1>7. QED
  BY <1>2, <1>3, <1>4, <1>5, <1>6 DEF StorageCleanup

\* A plan of the current revision is not changed by who writes no state.
LEMMA PlanStays ==
  ASSUME Planned, UNCHANGED <<plan, profile>>, revision \in Nat, plan # None => plan.rev \in Nat,
         \/ revision' = revision + 1 /\ work.at # "stage"
         \/ revision' = revision /\ A!Referenced' = A!Referenced,
         work'.at \in {"stage", "receipt", "purge"} => work'.at = work.at
  PROVE  Planned'
<1>1. CASE plan = None
  BY <1>1 DEF Planned
<1>2. CASE plan # None
  <2>1. CASE revision' = revision /\ A!Referenced' = A!Referenced
    BY <1>2, <2>1 DEF Planned
  <2>2. CASE revision' = revision + 1 /\ work.at # "stage"
    <3>1. plan.rev <= revision /\ plan.rev \in Nat
      BY <1>2 DEF Planned
    <3>2. plan'.rev # revision' /\ plan'.rev <= revision'
      BY <2>2, <3>1
    <3>3. QED
      BY <1>2, <2>2, <3>2 DEF Planned
  <2>3. QED
    BY <2>1, <2>2
<1>3. QED
  BY <1>1, <1>2

LEMMA SameNames ==
  ASSUME UNCHANGED <<records, gens>> PROVE A!Referenced' = A!Referenced
  BY DEF A!Referenced, A!Named

LEMMA WritesPlanned ==
  ASSUME StorageInv, StorageWrite
  PROVE  Planned'
<1>1. /\ StorageTypes /\ InHand /\ Planned /\ work \in Works /\ revision \in Nat
      /\ plan # None => plan.rev \in Nat
  BY DEF StorageInv, StorageTypes, Cleanups
<1>2. CASE A!Initialize
  BY <1>1, <1>2 DEF A!Initialize, Planned, A!Idle
<1>3. CASE A!Unindex \/ A!UpsertIndex \/ A!ReleaseIndex
  <2>1. UNCHANGED <<plan, profile, revision, records, gens>>
    BY <1>3 DEF A!Unindex, A!UpsertIndex, A!ReleaseIndex, A!stateFile
  <2>2. work'.at \notin {"stage", "receipt", "purge"}
    BY <1>1, <1>3 DEF A!Unindex, A!UpsertIndex, A!ReleaseIndex, A!Idle, Works
  <2>3. QED
    BY <1>1, <2>1, <2>2, PlanStays, SameNames
<1>4. ASSUME NEW r \in Records, NEW d \in Digests, A!PutObject(r, d) PROVE Planned'
  <2>1. UNCHANGED <<plan, profile, revision, records, gens>> /\ work'.at = "putState"
    BY <1>4 DEF A!PutObject, A!stateFile
  <2>2. QED
    BY <1>1, <2>1, PlanStays, SameNames
<1>5. CASE A!PutState \/ \E r \in Records : A!ReleaseState(r)
  <2>1. /\ UNCHANGED <<plan, profile>> /\ revision' = revision + 1 /\ work.at # "stage"
        /\ work'.at \in {"unindex", "release"}
    BY <1>1, <1>5 DEF A!PutState, A!ReleaseState, A!disk, A!Idle, Works
  <2>2. QED
    BY <1>1, <2>1, PlanStays
<1>6. ASSUME NEW day \in Days, A!CreateGeneration(day) PROVE Planned'
  <2>1. /\ UNCHANGED <<plan, profile, work>> /\ revision' = revision + 1 /\ work.at # "stage"
    BY <1>1, <1>6 DEF A!CreateGeneration, A!Idle
  <2>2. QED
    BY <1>1, <2>1, PlanStays
<1>7. QED
  BY <1>2, <1>3, <1>4, <1>5, <1>6 DEF StorageWrite

LEMMA CleanupPlanned ==
  ASSUME StorageInv, StorageCleanup
  PROVE  Planned'
<1>1. /\ StorageTypes /\ InHand /\ Planned /\ work \in Works /\ revision \in Nat
      /\ plan # None => plan \in Cleanups
      /\ A!NothingDangles
  BY DEF StorageInv, StorageTypes
<1>2. ASSUME UNCHANGED <<records, gens>> PROVE A!Referenced' = A!Referenced
  BY <1>2, SameNames
<1>3. CASE A!ReadForPlan
  <2>1. /\ UNCHANGED <<profile, revision, records, gens, work>> /\ plan = None /\ profile # None
        /\ plan' = [rev |-> revision, cands |-> A!Referenced, ready |-> FALSE,
                    staged |-> {}, cleaned |-> FALSE, receipt |-> FALSE]
    BY <1>3 DEF A!ReadForPlan, A!stateFile
  <2>2. work.at \notin {"stage", "receipt", "purge"}
    BY <1>1, <2>1 DEF Planned
  <2>3. QED
    BY <1>1, <1>2, <2>1, <2>2 DEF Planned
<1>4. CASE A!ScanForPlan
  <2>1. /\ UNCHANGED <<profile, revision, records, gens, work>> /\ plan # None /\ ~plan.ready
        /\ plan' = [plan EXCEPT !.cands = blobs \ @, !.ready = TRUE]
    BY <1>4 DEF A!ScanForPlan, A!stateFile
  <2>2. PICK q \in Cleanups : q = plan
    BY <1>1, <2>1
  <2>3. /\ q.staged = {} /\ ~q.cleaned /\ profile # None /\ q.rev <= revision
        /\ q.rev = revision => q.cands = A!Referenced
        /\ work.at \notin {"stage", "receipt", "purge"}
    BY <1>1, <2>1, <2>2 DEF Planned
  <2>4. plan' = [q EXCEPT !.cands = blobs \ q.cands, !.ready = TRUE]
    BY <2>1, <2>2
  <2>5. /\ plan'.rev = q.rev /\ plan'.cands = blobs \ q.cands /\ plan'.ready /\ plan'.staged = {}
        /\ ~plan'.cleaned
    BY <2>3, <2>4 DEF Cleanups
  <2>6. QED
    BY <1>1, <1>2, <2>1, <2>3, <2>5 DEF Planned
<1>5. CASE A!DropPlan
  BY <1>1, <1>5 DEF A!DropPlan, Planned, A!Idle
<1>6. CASE A!CleanupAgain \/ A!CleanupStart
  <2>1. /\ UNCHANGED <<profile, revision, records, gens, plan>> /\ plan # None
        /\ work'.at \in {"stage", "receipt"} /\ plan.ready
        /\ work'.at = "stage" => plan.rev = revision
    BY <1>1, <1>6 DEF A!CleanupAgain, A!CleanupStart, A!stateFile, Planned, A!Idle
  <2>2. QED
    BY <1>1, <1>2, <2>1 DEF Planned
<1>7. ASSUME NEW d \in Digests, A!StageNext(d) PROVE Planned'
  <2>1. /\ UNCHANGED <<profile, revision, records, gens, work>> /\ plan # None
        /\ d \in plan.cands /\ work.at = "stage" /\ plan' = [plan EXCEPT !.staged = @ \cup {d}]
    BY <1>1, <1>7 DEF A!StageNext, A!stateFile, Planned
  <2>2. PICK q \in Cleanups : q = plan
    BY <1>1, <2>1
  <2>3. plan' = [q EXCEPT !.staged = q.staged \cup {d}]
    BY <2>1, <2>2
  <2>4. /\ plan'.rev = q.rev /\ plan'.cands = q.cands /\ plan'.ready = q.ready
        /\ plan'.staged = q.staged \cup {d} /\ plan'.cleaned = q.cleaned
    BY <2>3 DEF Cleanups
  <2>5. /\ profile # None /\ q.staged \subseteq q.cands /\ q.ready /\ q.rev = revision
        /\ ~q.cleaned /\ q.cands \cap A!Referenced = {}
    BY <1>1, <2>1, <2>2 DEF Planned
  <2>6. /\ profile' # None /\ plan'.staged \subseteq plan'.cands /\ plan'.ready /\ work' = work
        /\ plan'.rev <= revision' /\ plan'.rev = revision' /\ ~plan'.cleaned
        /\ plan'.cands \cap A!Referenced' = {}
    BY <1>1, <1>2, <2>1, <2>2, <2>4, <2>5
  <2>7. plan' # None
    <3>1. q.staged \cup {d} \in SUBSET Digests
      BY <2>2 DEF Cleanups
    <3>2. QED
      BY <2>2, <2>3, <3>1, PlanChanged
  <2>8. QED
    BY <2>6, <2>7 DEF Planned
<1>8. CASE A!CleanupState
  <2>1. /\ UNCHANGED <<profile, records, gens>> /\ plan # None /\ plan.ready
        /\ revision' = revision + 1 /\ plan.rev = revision /\ work'.at = "receipt"
        /\ plan' = [plan EXCEPT !.cleaned = TRUE]
    BY <1>1, <1>8 DEF A!CleanupState, Planned, Works
  <2>2. PICK q \in Cleanups : q = plan
    BY <1>1, <2>1
  <2>3. /\ plan'.rev = q.rev /\ plan'.cands = q.cands /\ plan'.ready = q.ready
        /\ plan'.staged = q.staged
    BY <2>1, <2>2 DEF Cleanups
  <2>4. plan'.rev # revision' /\ plan'.rev <= revision'
    BY <1>1, <2>1, <2>2, <2>3
  <2>5. profile # None /\ q.staged \subseteq q.cands
    BY <1>1, <2>1, <2>2 DEF Planned
  <2>6. profile' # None /\ plan'.staged \subseteq plan'.cands /\ plan'.ready /\ work'.at # "stage"
    BY <2>1, <2>2, <2>3, <2>5
  <2>7. plan' # None
    BY <1>1, <2>1, <2>2, PlanChanged
  <2>8. QED
    BY <2>4, <2>6, <2>7 DEF Planned
<1>9. CASE A!CleanupFails \/ A!CleanupPurge
  <2>1. /\ UNCHANGED <<profile, revision, records, gens>> /\ plan # None /\ plan.ready
        /\ work'.at = "idle" /\ plan' = [plan EXCEPT !.staged = {}]
    BY <1>1, <1>9 DEF A!CleanupFails, A!CleanupPurge, A!stateFile, Planned, A!Idle
  <2>2. PICK q \in Cleanups : q = plan
    BY <1>1, <2>1
  <2>3. /\ plan'.rev = q.rev /\ plan'.cands = q.cands /\ plan'.ready = q.ready
        /\ plan'.staged = {} /\ plan'.cleaned = q.cleaned
    BY <2>1, <2>2 DEF Cleanups
  <2>4. QED
    BY <1>1, <1>2, <2>1, <2>2, <2>3 DEF Planned
<1>10. CASE A!CleanupReceipt
  <2>1. /\ UNCHANGED <<profile, revision, records, gens>> /\ plan # None /\ plan.ready
        /\ work'.at = "purge" /\ plan' = [plan EXCEPT !.receipt = TRUE]
    BY <1>1, <1>10 DEF A!CleanupReceipt, A!stateFile, Planned, Works
  <2>2. PICK q \in Cleanups : q = plan
    BY <1>1, <2>1
  <2>3. /\ plan'.rev = q.rev /\ plan'.cands = q.cands /\ plan'.ready = q.ready
        /\ plan'.staged = q.staged /\ plan'.cleaned = q.cleaned
    BY <2>1, <2>2 DEF Cleanups
  <2>4. QED
    BY <1>1, <1>2, <2>1, <2>2, <2>3, PlanChanged DEF Planned
<1>11. CASE A!Killed
  <2>1. /\ UNCHANGED <<profile, revision, records, gens, plan>> /\ work'.at = "idle"
        /\ plan # None => plan.rev \in Nat
    BY <1>1, <1>11 DEF A!Killed, A!stateFile, A!Idle, Cleanups
  <2>2. QED
    BY <1>1, <1>2, <2>1, PlanStays
<1>12. QED
  BY <1>3, <1>4, <1>5, <1>6, <1>7, <1>8, <1>9, <1>10, <1>11 DEF StorageCleanup

LEMMA NothingDangling ==
  ASSUME StorageInv, StorageWrite \/ StorageCleanup
  PROVE  A!NothingDangles'
<1>1. /\ StorageTypes /\ InHand /\ Planned /\ A!Referenced \subseteq blobs \cap objects
  BY DEF StorageInv, A!NothingDangles
<1>2. SUFFICES A!Referenced' \subseteq blobs' \cap objects'
  BY DEF A!NothingDangles
<1>3. ASSUME UNCHANGED <<records, gens>> PROVE A!Referenced' = A!Referenced
  BY <1>3, SameNames
<1>4. CASE \/ A!Initialize \/ \E r \in Records, d \in Digests : A!PutObject(r, d)
           \/ A!Unindex \/ A!UpsertIndex \/ A!ReleaseIndex
  <2>1. UNCHANGED <<records, gens, objects>> /\ blobs \subseteq blobs'
    BY <1>4 DEF A!Initialize, A!PutObject, A!Unindex, A!UpsertIndex, A!ReleaseIndex, A!stateFile,
                A!disk
  <2>2. QED
    BY <1>1, <1>3, <2>1
<1>5. CASE A!PutState
  <2>1. /\ work.rec \in Records /\ work.new \in Digests /\ work.new \in blobs
        /\ records' = [records EXCEPT ![work.rec] = work.new] /\ gens' = gens
        /\ blobs' = blobs /\ objects' = objects \cup {work.new}
    BY <1>1, <1>5 DEF A!PutState, InHand, A!disk
  <2>2. A!Referenced' \subseteq A!Referenced \cup {work.new}
    BY <1>1, <2>1, RecordNames
  <2>3. QED
    BY <1>1, <2>1, <2>2
<1>6. ASSUME NEW r \in Records, A!ReleaseState(r) PROVE A!Referenced' \subseteq blobs' \cap objects'
  <2>1. /\ records' = [records EXCEPT ![r] = None] /\ gens' = gens
        /\ UNCHANGED <<blobs, objects>>
    BY <1>6 DEF A!ReleaseState, A!disk
  <2>2. A!Referenced' \subseteq A!Referenced
    BY <1>1, <2>1, RecordNames
  <2>3. QED
    BY <1>1, <2>1, <2>2
<1>7. ASSUME NEW day \in Days, A!CreateGeneration(day)
      PROVE  A!Referenced' \subseteq blobs' \cap objects'
  <2>1. A!Referenced' \subseteq A!Referenced
    BY <1>1, <1>7, GenerationNames
  <2>2. QED
    BY <1>1, <1>7, <2>1 DEF A!CreateGeneration, A!disk
<1>8. ASSUME work.at = "stage"
      PROVE  plan.cands \cap A!Referenced = {} /\ plan.staged \subseteq plan.cands
  BY <1>1, <1>8 DEF Planned
<1>9. ASSUME NEW d \in Digests, A!StageNext(d) PROVE A!Referenced' \subseteq blobs' \cap objects'
  BY <1>1, <1>3, <1>8, <1>9 DEF A!StageNext, A!stateFile
<1>10. CASE A!CleanupState
  BY <1>1, <1>3, <1>8, <1>10 DEF A!CleanupState, A!disk
<1>11. CASE A!CleanupFails
  BY <1>1, <1>3, <1>11 DEF A!CleanupFails, A!stateFile
<1>12. CASE \/ A!ReadForPlan \/ A!ScanForPlan \/ A!DropPlan \/ A!CleanupAgain \/ A!CleanupStart
            \/ A!CleanupReceipt \/ A!CleanupPurge \/ A!Killed
  <2>1. UNCHANGED <<records, gens, objects, blobs>>
    BY <1>12 DEF A!ReadForPlan, A!ScanForPlan, A!DropPlan, A!CleanupAgain, A!CleanupStart,
                 A!CleanupReceipt, A!CleanupPurge, A!Killed, A!stateFile, A!disk
  <2>2. QED
    BY <1>1, <1>3, <2>1
<1>13. QED
  BY <1>4, <1>5, <1>6, <1>7, <1>9, <1>10, <1>11, <1>12 DEF StorageWrite, StorageCleanup

Updating == {"unindex", "index", "release"}

\* A record whose own update is not at work stays in the index as it is.
LEMMA SameIndex ==
  ASSUME UNCHANGED <<profile, index>>
  PROVE  \A r, d : IndexedAs(r, d) => IndexedAs(r, d)'
  BY DEF IndexedAs, A!IndexPaths

LEMMA SamePaths == ASSUME UNCHANGED profile PROVE \A d : A!IndexPaths(d)' = A!IndexPaths(d)
  BY DEF A!IndexPaths

LEMMA IndexOfState ==
  ASSUME StorageInv,
         \/ A!Initialize \/ A!PutState
         \/ \E r \in Records, d \in Digests : A!PutObject(r, d)
         \/ \E r \in Records : A!ReleaseState(r)
         \/ \E day \in Days : A!CreateGeneration(day)
  PROVE  IndexTrue'
<1>1. /\ StorageTypes /\ InHand /\ IndexTrue /\ work \in Works /\ records \in Pins
      /\ index' = index /\ lapsed' = lapsed
  BY DEF StorageInv, StorageTypes, A!Initialize, A!PutState, A!PutObject, A!ReleaseState,
         A!CreateGeneration, A!disk
<1>2. CASE A!Initialize
  <2>1. work' = A!Idle /\ \A s \in Shards, r \in Records : index'[s][r] = None /\ records'[r] = None
    BY <1>1, <1>2 DEF A!Initialize, InHand, A!NoPins
  <2>2. QED
    BY <2>1 DEF IndexTrue, IndexedAs, A!Idle
<1>3. ASSUME profile' = profile PROVE \A r, d : IndexedAs(r, d) => IndexedAs(r, d)'
  BY <1>1, <1>3, SameIndex
<1>4. CASE A!PutState
  <2>1. /\ work.rec \in Records /\ records' = [records EXCEPT ![work.rec] = work.new]
        /\ work.at = "putState" /\ profile' = profile
    BY <1>1, <1>4 DEF A!PutState, InHand
  <2>2. \A r \in Records : r # work.rec => records'[r] = records[r]
    BY <1>1, <2>1 DEF Pins
  <2>3. work'.at = "unindex" /\ work'.rec = work.rec
    BY <1>1, <1>4 DEF A!PutState, Works
  <2>4. \A r \in Records \ lapsed : IndexedAs(r, records[r])'
          \/ r = work.rec
    <3> SUFFICES ASSUME NEW r \in Records \ lapsed, r # work.rec PROVE IndexedAs(r, records[r])'
      OBVIOUS
    <3>1. IndexedAs(r, records[r])
      BY <1>1, <2>1 DEF IndexTrue
    <3>2. PICK d : d = records[r]
      OBVIOUS
    <3>3. IndexedAs(r, d)' /\ records'[r] = d
      BY <1>3, <2>1, <2>2, <3>1, <3>2
    <3>4. QED
      BY <3>3 DEF IndexedAs
  <2>5. QED
    BY <1>1, <2>3, <2>4 DEF IndexTrue
<1>5. ASSUME NEW r \in Records, NEW d \in Digests, A!PutObject(r, d) PROVE IndexTrue'
  <2>1. UNCHANGED <<records, profile>> /\ work.at = "idle" /\ work'.at = "putState"
    BY <1>5 DEF A!PutObject, A!stateFile, A!Idle
  <2>2. \A x \in Records \ lapsed : IndexedAs(x, records[x])'
    BY <1>1, <2>1 DEF IndexTrue, IndexedAs, A!IndexPaths
  <2>3. QED
    BY <1>1, <2>1, <2>2 DEF IndexTrue
<1>6. ASSUME NEW r \in Records, A!ReleaseState(r) PROVE IndexTrue'
  <2>1. /\ records' = [records EXCEPT ![r] = None] /\ profile' = profile /\ work.at = "idle"
        /\ work' = [at |-> "release", rec |-> r, new |-> None, old |-> records[r]]
    BY <1>6 DEF A!ReleaseState, A!Idle
  <2>2. \A x \in Records : x # r => records'[x] = records[x]
    BY <1>1, <2>1 DEF Pins
  <2>3. ASSUME NEW x \in Records \ lapsed
        PROVE  (x # r => IndexedAs(x, records[x])') /\ (x = r => IndexedAs(r, work.old)')
    <3>1. PICK d : d = records[x]
      OBVIOUS
    <3>2. IndexedAs(x, d)'
      BY <1>1, <1>3, <2>1, <3>1 DEF IndexTrue
    <3>3. (x # r => records'[x] = d) /\ (x = r => work'.old = d)
      BY <2>1, <2>2, <3>1
    <3>4. QED
      BY <3>2, <3>3 DEF IndexedAs
  <2>4. QED
    BY <1>1, <2>1, <2>3 DEF IndexTrue
<1>7. ASSUME NEW day \in Days, A!CreateGeneration(day) PROVE IndexTrue'
  BY <1>1, <1>7 DEF A!CreateGeneration, A!disk, IndexTrue, IndexedAs, A!IndexPaths
<1>8. QED
  BY <1>2, <1>4, <1>5, <1>6, <1>7

LEMMA IndexUpdates ==
  ASSUME StorageInv, A!Unindex \/ A!UpsertIndex \/ A!ReleaseIndex
  PROVE  IndexTrue'
<1>1. /\ StorageTypes /\ InHand /\ IndexTrue /\ work \in Works
      /\ UNCHANGED <<records, profile>> /\ work.rec \in Records /\ work.at \in Updating
  BY DEF StorageInv, StorageTypes, A!Unindex, A!UpsertIndex, A!ReleaseIndex, A!stateFile, InHand,
         Updating
<1>2. \A d : A!IndexPaths(d)' = A!IndexPaths(d)
  BY <1>1, SamePaths
<1>3. ASSUME NEW r \in Records \ lapsed, r # work.rec PROVE IndexedAs(r, records[r])'
  <2>1. IndexedAs(r, records[r])
    BY <1>1, <1>3 DEF IndexTrue
  <2>2. \A s \in Shards : index'[s][r] = index[s][r]
    BY <1>1, <1>3, IndexChanges
  <2>3. QED
    BY <1>1, <1>2, <2>1, <2>2 DEF IndexedAs
<1>4. CASE A!Unindex
  <2>1. /\ work'.at = "index" /\ work'.rec = work.rec /\ work'.new = work.new /\ lapsed' = lapsed
    BY <1>1, <1>4 DEF A!Unindex, Works
  <2>2. \A s \in Shards : s \notin A!IndexPaths(work.new) => index'[s][work.rec] = None
    BY <1>1, <1>4, IndexChanges
  <2>3. QED
    BY <1>2, <1>3, <2>1, <2>2 DEF IndexTrue
<1>5. CASE A!UpsertIndex
  <2>1. /\ work'.at = "idle" /\ lapsed' = lapsed \ {work.rec} /\ work.at = "index"
        /\ records[work.rec] = work.new
    BY <1>1, <1>5 DEF A!UpsertIndex, A!Idle, InHand
  <2>2. \A s \in Shards :
          index'[s][work.rec] = IF s \in A!IndexPaths(work.new) THEN work.new ELSE None
    BY <1>1, <1>5, <2>1, IndexChanges DEF IndexTrue
  <2>3. ASSUME NEW r \in Records \ lapsed' PROVE IndexedAs(r, records[r])'
    <3>1. CASE r # work.rec
      BY <1>3, <2>1, <3>1
    <3>2. CASE r = work.rec
      BY <1>1, <1>2, <2>1, <2>2, <3>2 DEF IndexedAs
    <3>3. QED
      BY <3>1, <3>2
  <2>4. QED
    BY <2>1, <2>3 DEF IndexTrue
<1>6. CASE A!ReleaseIndex
  <2>1. /\ work'.at = "idle" /\ lapsed' = lapsed /\ work.at = "release"
        /\ records[work.rec] = None
    BY <1>1, <1>6 DEF A!ReleaseIndex, A!Idle, InHand
  <2>2. ASSUME NEW r \in Records \ lapsed, r = work.rec PROVE IndexedAs(r, records[r])'
    <3>1. IndexedAs(r, work.old)
      BY <1>1, <2>1, <2>2 DEF IndexTrue
    <3>2. \A s \in Shards : index'[s][r] = None
      BY <1>1, <1>6, <2>2, <3>1, IndexChanges DEF IndexedAs
    <3>3. QED
      BY <1>1, <2>1, <2>2, <3>2 DEF IndexedAs
  <2>3. QED
    BY <1>3, <2>1, <2>2 DEF IndexTrue
<1>7. QED
  BY <1>4, <1>5, <1>6

LEMMA CleanupIndex ==
  ASSUME StorageInv, StorageCleanup
  PROVE  IndexTrue'
<1>1. /\ InHand /\ IndexTrue /\ work \in Works
      /\ UNCHANGED <<records, profile, index>>
  BY DEF StorageInv, StorageTypes, StorageCleanup, A!ReadForPlan, A!ScanForPlan, A!DropPlan,
         A!CleanupAgain, A!CleanupStart, A!StageNext, A!CleanupState, A!CleanupFails,
         A!CleanupReceipt, A!CleanupPurge, A!Killed, A!stateFile, A!disk
<1>2. ASSUME NEW r \in Records, IndexedAs(r, records[r]) PROVE IndexedAs(r, records[r])'
  BY <1>1, <1>2 DEF IndexedAs, A!IndexPaths
<1>3. CASE A!Killed
  <2>1. /\ work'.at = "idle"
        /\ lapsed' = IF work.at \in Updating THEN lapsed \cup {work.rec} ELSE lapsed
    BY <1>3 DEF A!Killed, A!Idle, Updating
  <2>2. ASSUME NEW r \in Records \ lapsed' PROVE IndexedAs(r, records[r])
    BY <1>1, <2>1 DEF IndexTrue, Updating
  <2>3. QED
    BY <1>2, <2>1, <2>2 DEF IndexTrue
<1>4. CASE A!ReadForPlan \/ A!ScanForPlan \/ A!DropPlan \/ \E d \in Digests : A!StageNext(d)
  <2>1. UNCHANGED <<work, lapsed>>
    BY <1>4 DEF A!ReadForPlan, A!ScanForPlan, A!DropPlan, A!StageNext
  <2>2. QED
    BY <1>1, <2>1 DEF IndexTrue, IndexedAs, A!IndexPaths
<1>5. CASE \/ A!CleanupAgain \/ A!CleanupStart \/ A!CleanupState \/ A!CleanupFails
           \/ A!CleanupReceipt \/ A!CleanupPurge
  <2>1. work.at \notin Updating /\ work'.at \notin Updating /\ lapsed' = lapsed
    BY <1>1, <1>5 DEF A!CleanupAgain, A!CleanupStart, A!CleanupState, A!CleanupFails,
                      A!CleanupReceipt, A!CleanupPurge, A!Idle, Works, Updating
  <2>2. \A r \in Records \ lapsed : IndexedAs(r, records[r])
    BY <1>1, <2>1 DEF IndexTrue, Updating
  <2>3. QED
    BY <1>2, <2>1, <2>2 DEF IndexTrue, Updating
<1>6. QED
  BY <1>3, <1>4, <1>5 DEF StorageCleanup

LEMMA StorageInvariant == Spec => [](focus = "storage" => StorageInv)
<1>1. Init => (focus = "storage" => StorageInv)
  BY StorageInit DEF Init
<1>2. (focus = "storage" => StorageInv) /\ [Next]_vars => (focus = "storage" => StorageInv)'
  <2> SUFFICES ASSUME focus = "storage", StorageInv, [Next]_vars PROVE StorageInv'
    BY DEF Next, vars
  <2>1. CASE A!Next
    <3>1. CASE StorageWrite
      <4>1. IndexTrue'
        BY <3>1, IndexOfState, IndexUpdates DEF StorageWrite
      <4>2. QED
        BY <3>1, <4>1, WritesTyped, WritesInHand, WritesPlanned, NothingDangling DEF StorageInv
    <3>2. CASE StorageCleanup
      BY <3>2, CleanupTyped, CleanupInHand, CleanupPlanned, CleanupIndex, NothingDangling
         DEF StorageInv
    <3>3. QED
      BY <2>1, <3>1, <3>2 DEF A!Next, StorageWrite, StorageCleanup
  <2>2. CASE UNCHANGED storageVars
    BY <2>2 DEF storageVars, StorageInv, StorageTypes, InHand, Planned, IndexTrue, IndexedAs,
                A!IndexPaths, A!NothingDangles, A!Referenced, A!Named
  <2>3. QED
    BY <2>1, <2>2 DEF Next, vars
<1>3. QED
  BY <1>1, <1>2, PTL DEF Spec

\* A search through the indexes finds what a scan of the records finds, but for
\* those whose update was cut short, and nothing that is named is ever deleted.
THEOREM Storage == Spec => []StorageSound
<1>1. (focus = "storage" => StorageInv) => StorageSound
  <2> SUFFICES ASSUME StorageInv PROVE A!NothingDangles /\ A!SearchAgrees
    BY DEF StorageSound
  <2>1. A!NothingDangles
    BY DEF StorageInv
  <2>2. ASSUME work = A!Idle, profile \in {"LARGE_LOCAL", "LOCAL_INDEXED"},
               NEW q \in Digests \cup {None}, NEW r \in Records \ lapsed, NEW d \in Digests
        PROVE  <<r, d>> \in A!IndexedMatches(q) <=> <<r, d>> \in A!LocalMatches(q)
    <3>1. IndexedAs(r, records[r])
      BY <2>2 DEF StorageInv, IndexTrue, A!Idle
    <3>2. \E s \in Shards : s \in A!IndexPaths(d)
      BY <2>2, StorageAssumption DEF A!IndexPaths
    <3>3. d # None
      BY StorageAssumption
    <3>4. (\E s \in Shards : index[s][r] = d) <=> records[r] = d
      BY <3>1, <3>2, <3>3 DEF IndexedAs
    <3>5. <<r, d>> \in A!IndexedMatches(q) <=> q \in {None, d} /\ \E s \in Shards : index[s][r] = d
      BY <3>3 DEF A!IndexedMatches
    <3>6. <<r, d>> \in A!LocalMatches(q) <=> q \in {None, d} /\ records[r] = d
      BY <3>3 DEF A!LocalMatches
    <3>7. QED
      BY <3>4, <3>5, <3>6
  <2>3. QED
    BY <2>1, <2>2 DEF A!SearchAgrees
<1>2. QED
  BY <1>1, StorageInvariant, PTL

(***************************************************************************)
(* The connected view.  Every commit makes the revision of the combo       *)
(* greater, so that no combo returns; an entry that leaves the newest ones *)
(* goes to the index under its id, where its id stays, or has made way for *)
(* one with its key.                                                       *)
(***************************************************************************)
Entries == [id : Nat, key : Nat, seq : Nat]
Combos == [revision : Nat, active : SUBSET Entries, recent : SUBSET Entries,
           history : SUBSET Entries, sources : SUBSET Nat]
Flows == [id : Nat, seq : Nat, complete : BOOLEAN]
Views == [flow : Flows, combo : Combos, goal : BOOLEAN]
Publishing == [at : {"mkdir", "commit", "view"}, goal : BOOLEAN, base : Combos, updated : Combos,
               expected : Combos \cup {None}]
Pointing == [at : {"pointer"}, flow : Flows]
Comparing == [at : {"combo"}, flow : Flows, view : Views]
Answering == [at : {"answered"}, current : BOOLEAN]

Commanding == [at : {"commit"}, base : Combos, entry : OwnerEntries]

Bounded(c) == c \in Combos /\ IsFiniteSet(c.recent)

ConnectedTypes ==
  /\ flow \in Flows /\ rooted \in BOOLEAN /\ seen \in BOOLEAN /\ recorded \in SUBSET Entries
  /\ combo # None => Bounded(combo)
  /\ view \in Views \cup {None}
  /\ pub \in Publishing \cup {C!Idle}
  /\ cli \in Commanding \cup {C!Idle}
  /\ reader \in Pointing \cup Comparing \cup Answering \cup {C!Idle}

\* What a publisher has in hand; it prepares the update of an unwritten combo
\* only before there is a directory.
Publisher ==
  pub \in Publishing =>
    /\ pub.updated = C!Prepare(pub.goal, pub.base)
    /\ pub.at \in {"mkdir", "commit"} => pub.updated # pub.base
    /\ pub.at = "mkdir" /\ ~rooted => pub.base = C!NewCombo
    /\ pub.at = "commit" => \/ pub.expected = pub.base
                            \/ pub.expected = None /\ pub.base = C!NewCombo

\* A combo that is, or has been, the current one.
Past(c) ==
  combo # None /\ c.revision <= combo.revision /\ (c.revision = combo.revision => c = combo)

\* What the reader holds tells what was, and was seen, together.
Watching ==
  /\ view # None => Past(view.combo)
  /\ reader \in Pointing =>
       (view # None /\ view.flow = reader.flow /\ view.combo = combo => seen)
  /\ reader \in Comparing =>
       Past(reader.view.combo)
         /\ (reader.view.flow = reader.flow /\ reader.view.combo = combo => seen)
  /\ reader \in Answering => (reader.current => seen)

Reader == Watching /\ (pub \in Publishing /\ pub.at = "view" => Past(pub.updated))

Overtaken(e, es) == \E f \in es : f # e /\ f.key = e.key

Remembered ==
  /\ ~rooted => combo = None
  /\ combo = None => recorded = {}
  /\ combo # None =>
       /\ C!Completed(combo) \subseteq recorded
       /\ \A e \in recorded :
            \/ e \in combo.recent
            \/ \E f \in combo.history : f.id = e.id
            \/ Overtaken(e, recorded)

ConnectedInv == ConnectedTypes /\ Publisher /\ Reader /\ Remembered

LEMMA SameCardinality == \A es : C!Cardinality(es) = Cardinality(es)
BY DEF C!Cardinality, Cardinality

\* The entries of es that come before e.
Before(es, e) == {f \in es : C!Newer(f, e)}

LEMMA NewestIs ==
  ASSUME NEW es, NEW e, NEW n
  PROVE  e \in C!Newest(es, n) <=> e \in es /\ Cardinality(Before(es, e)) < n
BY SameCardinality DEF C!Newest, Before

\* What is among the newest of more is among those of fewer, and in a list that
\* has room nothing is too old.
LEMMA NewestOfFewer ==
  ASSUME NEW all \in SUBSET Entries, IsFiniteSet(all), NEW some \in SUBSET all,
         NEW e \in some, e \in C!Newest(all, MaxRecent)
  PROVE  e \in C!Newest(some, MaxRecent)
<1>1. IsFiniteSet(Before(all, e))
  <2>1. Before(all, e) \subseteq all
    BY DEF Before
  <2>2. QED
    BY <2>1, FS_Subset
<1>2. IsFiniteSet(Before(some, e)) /\ Cardinality(Before(some, e)) <= Cardinality(Before(all, e))
  <2>1. Before(some, e) \subseteq Before(all, e)
    BY DEF Before
  <2>2. QED
    BY <1>1, <2>1, FS_Subset
<1>3. Cardinality(Before(some, e)) \in Nat /\ Cardinality(Before(all, e)) \in Nat
  BY <1>1, <1>2, FS_CardinalityType
<1>4. Cardinality(Before(all, e)) < MaxRecent
  BY NewestIs
<1>5. Cardinality(Before(some, e)) < MaxRecent
  BY <1>2, <1>3, <1>4, ComboAssumption
<1>6. QED
  BY <1>5, NewestIs

LEMMA NewestOfFew ==
  ASSUME NEW es \in SUBSET Entries, IsFiniteSet(es), NEW e \in Entries,
         Cardinality(es) < MaxRecent, NEW y \in es \cup {e}
  PROVE  y \in C!Newest(es \cup {e}, MaxRecent)
<1> DEFINE all == es \cup {e}
<1>1. /\ IsFiniteSet(all) /\ Cardinality(all) \in Nat /\ Cardinality(es) \in Nat
      /\ Cardinality(all) <= Cardinality(es) + 1
  <2>1. /\ IsFiniteSet(all)
        /\ Cardinality(all) = IF e \in es THEN Cardinality(es) ELSE Cardinality(es) + 1
    BY FS_AddElement
  <2>2. Cardinality(es) \in Nat /\ Cardinality(all) \in Nat
    BY <2>1, FS_CardinalityType
  <2>3. QED
    BY <2>1, <2>2
<1>2. y \in all /\ all \subseteq Entries
  OBVIOUS
<1> HIDE DEF all
<1>3. IsFiniteSet(all \ {y}) /\ Cardinality(all \ {y}) = Cardinality(all) - 1
  BY <1>1, <1>2, FS_RemoveElement
<1>4. Before(all, y) \subseteq all \ {y}
  <2>1. y.id \in Nat /\ y.key \in Nat /\ y.seq \in Nat
    BY <1>2 DEF Entries
  <2>2. ~C!Newer(y, y)
    BY <2>1 DEF C!Newer
  <2>3. QED
    BY <2>2 DEF Before
<1>5. IsFiniteSet(Before(all, y)) /\ Cardinality(Before(all, y)) <= Cardinality(all \ {y})
  BY <1>3, <1>4, FS_Subset
<1>6. Cardinality(Before(all, y)) \in Nat
  BY <1>5, FS_CardinalityType
<1>7. Cardinality(Before(all, y)) < MaxRecent
  BY <1>1, <1>3, <1>5, <1>6, ComboAssumption
<1>8. QED
  BY <1>2, <1>7, NewestIs DEF all

\* A combo that may come after another loses nothing of it but what has made
\* way for an entry with its key.
Follows(c, u) ==
  /\ c.revision < u.revision
  /\ C!Completed(u) \in SUBSET Entries
  /\ \A x \in c.history : \E y \in u.history : y.id = x.id
  /\ \A x \in c.recent : \/ x \in u.recent \/ x \in u.history
                         \/ Overtaken(x, C!Completed(u))

LEMMA UpdateKeeps ==
  ASSUME NEW c, Bounded(c), NEW e \in Entries, NEW u, u = C!UpdateCombo(c, e)
  PROVE  /\ Bounded(u) /\ Follows(c, u)
         /\ e \in C!Completed(u) /\ C!Completed(u) \subseteq C!Completed(c) \cup {e}
<1> DEFINE few == (c.recent \ C!SameKey(c.recent, e)) \cup {e}
           all == c.recent \cup {e}
           out == C!Displaced(c.recent, e)
<1>1. /\ c \in Combos /\ c.recent \in SUBSET Entries /\ c.history \in SUBSET Entries
      /\ IsFiniteSet(c.recent)
  BY DEF Bounded, Combos
<1>2. /\ few \subseteq all /\ all \in SUBSET Entries /\ IsFiniteSet(all) /\ e \in few
      /\ \A x \in c.recent : x \in few \/ (x # e /\ x.key = e.key)
  <2>1. IsFiniteSet(all)
    BY <1>1, FS_AddElement
  <2>2. QED
    BY <1>1, <2>1 DEF C!SameKey
<1>3. C!Newest(few, MaxRecent) \subseteq few /\ IsFiniteSet(C!Newest(few, MaxRecent))
  <2>1. C!Newest(few, MaxRecent) \subseteq all
    BY <1>2 DEF C!Newest
  <2>2. QED
    BY <1>2, <2>1, FS_Subset DEF C!Newest
<1>4. out \subseteq all
  BY DEF C!Displaced
<1>5. \A y \in few : y \in C!Newest(few, MaxRecent) \/ y \in out
  <2> SUFFICES ASSUME NEW y \in few, y \notin C!Newest(few, MaxRecent) PROVE y \in out
    OBVIOUS
  <2>1. y \notin C!Newest(all, MaxRecent)
    BY <1>2, NewestOfFewer
  <2>2. ~(Cardinality(c.recent) < MaxRecent)
    BY <1>1, <1>2, <2>1, NewestOfFew
  <2>3. Cardinality(c.recent) >= MaxRecent
    BY <1>1, <2>2, FS_CardinalityType, ComboAssumption
  <2>4. out = all \ C!Newest(all, MaxRecent)
    BY <2>3, SameCardinality DEF C!Displaced
  <2>5. QED
    BY <1>2, <2>1, <2>4
<1> HIDE DEF few, all, out
<1> DEFINE history == (c.history \ UNION {C!SameId(c.history, o) : o \in out}) \cup out
<1>a. u = [c EXCEPT !.revision = c.revision + 1, !.recent = C!Newest(few, MaxRecent),
                    !.history = history, !.sources = c.sources \cup {e.id}]
  BY DEF C!UpdateCombo, C!BoundedAppend, few, out
<1> HIDE DEF history
<1>6. /\ u.revision = c.revision + 1 /\ u.active = c.active
      /\ u.recent = C!Newest(few, MaxRecent)
      /\ u.history = history
      /\ u.sources = c.sources \cup {e.id}
      /\ u = [revision |-> u.revision, active |-> u.active, recent |-> u.recent,
              history |-> u.history, sources |-> u.sources]
  BY <1>1, <1>a DEF Combos
<1> USE DEF history
<1>7. Bounded(u)
  <2>1. /\ u.revision \in Nat /\ u.active \in SUBSET Entries /\ u.sources \in SUBSET Nat
        /\ c.revision \in Nat
    BY <1>1, <1>6 DEF Combos, Entries
  <2>2. u.recent \in SUBSET Entries /\ u.history \in SUBSET Entries /\ IsFiniteSet(u.recent)
    BY <1>1, <1>2, <1>3, <1>4, <1>6
  <2>3. u \in Combos
    BY <1>6, <2>1, <2>2 DEF Combos
  <2>4. QED
    BY <2>2, <2>3 DEF Bounded
<1>8. \A x \in c.history : \E y \in u.history : y.id = x.id
  BY <1>6 DEF C!SameId
<1>9. e \in C!Completed(u)
  BY <1>2, <1>5, <1>6 DEF C!Completed
<1>10. \A x \in c.recent : x \in u.recent \/ x \in u.history \/ Overtaken(x, C!Completed(u))
  BY <1>2, <1>5, <1>6, <1>9 DEF Overtaken
<1>11. C!Completed(u) \subseteq C!Completed(c) \cup {e}
  BY <1>2, <1>3, <1>4, <1>6 DEF C!Completed, all
<1>12. C!Completed(u) \in SUBSET Entries
  BY <1>7 DEF Bounded, Combos, C!Completed
<1>13. c.revision < u.revision
  BY <1>1, <1>6 DEF Combos
<1>14. QED
  BY <1>7, <1>8, <1>9, <1>10, <1>11, <1>12, <1>13 DEF Follows

LEMMA ActiveKeeps ==
  ASSUME NEW c, Bounded(c), NEW es \in SUBSET Entries, NEW u, u = C!SetActiveRoadmaps(c, es)
  PROVE  /\ Bounded(u) /\ Follows(c, u) /\ u.revision = c.revision + 1
         /\ u.recent = c.recent /\ u.history = c.history
<1>1. c \in Combos /\ IsFiniteSet(c.recent)
  BY DEF Bounded
<1>2. u = [c EXCEPT !.revision = c.revision + 1, !.active = es]
  BY DEF C!SetActiveRoadmaps
<1>3. /\ u.revision = c.revision + 1 /\ u.recent = c.recent /\ u.history = c.history
      /\ u \in Combos /\ c.revision \in Nat
  <2>1. c.revision \in Nat /\ c.revision + 1 \in Nat
    BY <1>1 DEF Combos
  <2>2. u \in Combos
    BY <1>1, <1>2, <2>1 DEF Combos
  <2>3. u.revision = c.revision + 1 /\ u.recent = c.recent /\ u.history = c.history
    BY <1>1, <1>2 DEF Combos
  <2>4. QED
    BY <2>1, <2>2, <2>3
<1>4. C!Completed(u) \in SUBSET Entries
  BY <1>3 DEF Combos, C!Completed
<1>5. QED
  BY <1>1, <1>3, <1>4 DEF Follows, Bounded

LEMMA EntryTypes == flow \in Flows => C!Entry \in Entries
BY DEF Flows, C!Entry, Entries

\* What a publisher prepares may come after what it has read, unless it is the
\* same.
LEMMA PrepareKeeps ==
  ASSUME flow \in Flows, NEW goal \in BOOLEAN, NEW c, Bounded(c),
         NEW u, u = C!Prepare(goal, c)
  PROVE  /\ Bounded(u) /\ (u = c \/ Follows(c, u))
         /\ c = C!NewCombo => u # c
<1>1. PICK e : e = C!Entry
  OBVIOUS
<1>2. e \in Entries /\ c.active \in SUBSET Entries /\ c.revision \in Nat
  BY <1>1, EntryTypes DEF Bounded, Combos
<1>3. PICK others : others = c.active \ C!SameId(c.active, e)
  OBVIOUS
<1>4. others \in SUBSET Entries
  BY <1>2, <1>3
<1>5. PICK cleared : cleared = IF others # c.active THEN C!SetActiveRoadmaps(c, others) ELSE c
  OBVIOUS
<1>6. \/ goal /\ flow.complete /\ e \in cleared.recent /\ u = cleared
      \/ goal /\ flow.complete /\ e \notin cleared.recent /\ u = C!UpdateCombo(cleared, e)
      \/ ~(goal /\ flow.complete) /\ e \in c.active /\ u = c
      \/ ~(goal /\ flow.complete) /\ e \notin c.active
         /\ u = C!SetActiveRoadmaps(c, others \cup {e})
  BY <1>1, <1>3, <1>5 DEF C!Prepare
<1>7. /\ Bounded(cleared) /\ cleared.recent = c.recent /\ cleared.history = c.history
      /\ cleared = c \/ Follows(c, cleared)
      /\ cleared.revision \in Nat /\ c.revision <= cleared.revision
  <2>1. CASE others # c.active
    <3>1. /\ Bounded(cleared) /\ Follows(c, cleared) /\ cleared.revision = c.revision + 1
          /\ cleared.recent = c.recent /\ cleared.history = c.history
      BY <1>4, <1>5, <2>1, ActiveKeeps
    <3>2. QED
      BY <1>2, <3>1
  <2>2. CASE others = c.active
    BY <1>2, <1>5, <2>2
  <2>3. QED
    BY <2>1, <2>2
<1>8. CASE u = C!UpdateCombo(cleared, e)
  <2>1. Bounded(u) /\ Follows(cleared, u)
    BY <1>2, <1>7, <1>8, UpdateKeeps
  <2>2. u.revision \in Nat
    BY <2>1 DEF Bounded, Combos
  <2>3. Follows(c, u)
    BY <1>2, <1>7, <2>1, <2>2 DEF Follows
  <2>4. u # c
    BY <1>2, <2>2, <2>3 DEF Follows
  <2>5. QED
    BY <2>1, <2>3, <2>4
<1>9. CASE u = C!SetActiveRoadmaps(c, others \cup {e})
  <2>1. Bounded(u) /\ Follows(c, u)
    BY <1>2, <1>4, <1>9, ActiveKeeps
  <2>2. QED
    BY <1>2, <2>1 DEF Follows
<1>10. CASE u = c /\ e \in c.active
  BY <1>10 DEF C!NewCombo
<1>11. CASE u = cleared /\ e \in cleared.recent
  BY <1>7, <1>11 DEF C!NewCombo
<1>12. QED
  BY <1>6, <1>8, <1>9, <1>10, <1>11

\* A step that leaves the combo or lets another follow it, and records what that
\* completes.
Grows ==
  \/ UNCHANGED <<combo, recorded>>
  \/ /\ combo' # None /\ Bounded(combo') /\ recorded' \in SUBSET Entries
     /\ combo # None => combo.revision < combo'.revision
     /\ Remembered'

LEMMA CombosAreSome == None \notin Combos
BY ComboAssumption DEF Combos, Entries

LEMMA FirstGrows ==
  ASSUME ConnectedInv, NEW u, Bounded(u), combo = None, rooted',
         combo' = u, recorded' = recorded \cup C!Completed(u)
  PROVE  Grows
<1>1. C!Completed(u) \in SUBSET Entries
  BY DEF Bounded, Combos, C!Completed
<1>2. recorded' = C!Completed(u)
  BY DEF ConnectedInv, Remembered
<1>3. u # None
  BY CombosAreSome DEF Bounded
<1>4. C!Completed(combo)' = u.recent \cup u.history
  BY DEF C!Completed
<1>5. Remembered'
  BY <1>1, <1>2, <1>3, <1>4 DEF Remembered, C!Completed
<1>6. QED
  BY <1>1, <1>2, <1>3, <1>5 DEF Grows

LEMMA NextGrows ==
  ASSUME ConnectedInv, NEW u, Bounded(u), combo # None, Follows(combo, u), rooted',
         NEW added, added \subseteq C!Completed(u),
         C!Completed(u) \subseteq C!Completed(combo) \cup added,
         combo' = u, recorded' = recorded \cup added
  PROVE  Grows
<1>1. C!Completed(u) \in SUBSET Entries
  BY DEF Follows
<1>2. u # None
  BY CombosAreSome DEF Bounded
<1>3. /\ recorded \in SUBSET Entries /\ C!Completed(combo) \subseteq recorded
      /\ \A e \in recorded : \/ e \in combo.recent
                             \/ \E f \in combo.history : f.id = e.id
                             \/ Overtaken(e, recorded)
  BY DEF ConnectedInv, ConnectedTypes, Remembered
<1>4. C!Completed(combo)' = u.recent \cup u.history /\ C!Completed(u) = u.recent \cup u.history
  BY DEF C!Completed
<1>5. C!Completed(u) \subseteq recorded' /\ recorded' \in SUBSET Entries
  BY <1>1, <1>3
<1>6. ASSUME NEW e \in recorded'
      PROVE  \/ e \in u.recent \/ \E f \in u.history : f.id = e.id
             \/ Overtaken(e, recorded')
  <2>1. CASE e \in added
    BY <1>4, <2>1
  <2>2. CASE e \in combo.recent
    BY <1>5, <2>2 DEF Follows, Overtaken
  <2>3. CASE \E f \in combo.history : f.id = e.id
    BY <2>3 DEF Follows
  <2>4. CASE Overtaken(e, recorded)
    BY <2>4 DEF Overtaken
  <2>5. QED
    BY <1>3, <1>6, <2>1, <2>2, <2>3, <2>4
<1>7. Remembered'
  BY <1>2, <1>4, <1>5, <1>6 DEF Remembered
<1>8. QED
  BY <1>2, <1>5, <1>7 DEF Grows, Follows

\* What has been the combo stays so, and a new combo is none of those.
LEMMA PastStays ==
  ASSUME ConnectedInv, Grows, NEW c \in Combos, Past(c)
  PROVE  Past(c)' /\ (combo' = combo \/ combo' # c)
<1>1. CASE UNCHANGED combo
  BY <1>1 DEF Past
<1>2. CASE combo' # None /\ Bounded(combo') /\ combo.revision < combo'.revision
  <2>1. combo.revision \in Nat /\ c.revision \in Nat /\ combo'.revision \in Nat
    BY <1>2 DEF ConnectedInv, ConnectedTypes, Past, Bounded, Combos
  <2>2. c.revision < combo'.revision
    BY <1>2, <2>1 DEF Past
  <2>3. QED
    BY <1>2, <2>1, <2>2 DEF Past
<1>3. QED
  BY <1>1, <1>2 DEF Grows, Past

Watched == seen' = (reader'.at # "idle" /\ (seen \/ C!Current'))

\* The reader through a step of somebody else.
LEMMA ReaderKeeps ==
  ASSUME ConnectedInv, Grows, Watched, UNCHANGED reader,
         \/ view' = view
         \/ view' = None
         \/ view' # None /\ view'.flow = flow' /\ Past(view.combo)'
  PROVE  Watching' /\ seen' \in BOOLEAN
<1>1. /\ view # None => view.combo \in Combos /\ Past(view.combo)
      /\ Watching /\ seen \in BOOLEAN
  BY DEF ConnectedInv, ConnectedTypes, Reader, Watching, Views
<1>2. /\ reader \in Pointing => reader.at # "idle"
      /\ reader \in Comparing => reader.at # "idle" /\ reader.view.combo \in Combos
      /\ reader \in Answering => reader.at # "idle"
  BY DEF Pointing, Comparing, Answering, Views
<1>3. seen' \in BOOLEAN /\ (reader.at # "idle" /\ (seen \/ C!Current') => seen')
  BY <1>1 DEF Watched
<1>4. ASSUME view' # None PROVE Past(view.combo)'
  <2>1. CASE view' = view
    <3>1. PICK c \in Combos : c = view.combo
      BY <1>1, <1>4, <2>1
    <3>2. Past(c)'
      BY <1>1, <1>4, <2>1, <3>1, PastStays
    <3>3. view'.combo = c
      BY <2>1, <3>1
    <3>4. QED
      BY <3>2, <3>3 DEF Past
  <2>2. QED
    BY <1>4, <2>1
<1>5. ASSUME reader \in Pointing, view' # None, view'.flow = reader.flow, view'.combo = combo'
      PROVE  seen'
  <2>1. CASE view' = view
    <3>1. PICK c \in Combos : c = view.combo
      BY <1>1, <1>5, <2>1
    <3>2. combo' = combo
      BY <1>1, <1>5, <2>1, <3>1, PastStays
    <3>3. seen
      BY <1>1, <1>5, <2>1, <3>2 DEF Watching
    <3>4. QED
      BY <1>2, <1>3, <1>5, <3>3
  <2>2. CASE view'.flow = flow'
    BY <1>2, <1>3, <1>5, <2>2 DEF C!Current
  <2>3. QED
    BY <1>5, <2>1, <2>2
<1>6. ASSUME reader \in Comparing
      PROVE  /\ Past(reader.view.combo)'
             /\ reader.view.flow = reader.flow /\ reader.view.combo = combo' => seen'
  <2>1. PICK c \in Combos : c = reader.view.combo
    BY <1>2, <1>6
  <2>2. Past(c)' /\ (combo' = combo \/ combo' # c)
    BY <1>1, <1>6, <2>1, PastStays DEF Watching
  <2>3. reader'.view.combo = c
    BY <2>1
  <2>4. QED
    BY <1>1, <1>2, <1>3, <1>6, <2>1, <2>2, <2>3 DEF Watching, Past
<1>7. reader \in Answering => (reader.current => seen')
  BY <1>1, <1>2, <1>3 DEF Watching
<1>8. QED
  BY <1>3, <1>4, <1>5, <1>6, <1>7 DEF Watching

LEMMA PublisherKeeps ==
  ASSUME ConnectedInv, Grows, pub' = C!Idle \/ UNCHANGED <<pub, flow>>, rooted => rooted'
  PROVE  /\ pub' \in Publishing \cup {C!Idle} /\ Publisher'
         /\ (pub \in Publishing /\ pub.at = "view" => Past(pub.updated))'
<1>1. C!Idle \notin Publishing
  BY DEF C!Idle, Publishing
<1>2. CASE pub' = C!Idle
  BY <1>1, <1>2 DEF Publisher
<1>3. CASE UNCHANGED <<pub, flow>>
  <2>1. pub' \in Publishing \cup {C!Idle} /\ Publisher
    BY <1>3 DEF ConnectedInv, ConnectedTypes
  <2>2. \A goal, c : C!Prepare(goal, c)' = C!Prepare(goal, c)
    BY <1>3 DEF C!Prepare, C!Entry
  <2>3. Publisher'
    BY <1>3, <2>1, <2>2 DEF Publisher
  <2>4. ASSUME pub \in Publishing, pub.at = "view" PROVE Past(pub.updated)'
    <3>1. PICK c \in Combos : c = pub.updated
      BY <2>4 DEF Publishing
    <3>2. Past(c)'
      BY <2>4, <3>1, PastStays DEF ConnectedInv, Reader
    <3>3. pub'.updated = c
      BY <1>3, <3>1
    <3>4. QED
      BY <3>2, <3>3 DEF Past
  <2>5. QED
    BY <1>3, <2>1, <2>3, <2>4
<1>4. QED
  BY <1>2, <1>3

\* Everything but what the publisher prepares.
LEMMA OthersKeep ==
  ASSUME ConnectedInv, Grows, Watched, UNCHANGED reader, rooted' \in BOOLEAN, rooted => rooted',
         flow' \in Flows, cli' \in Commanding \cup {C!Idle},
         \/ view' = view
         \/ view' = None
         \/ view' \in Views /\ view'.flow = flow' /\ Past(view.combo)',
         pub' \in Publishing \cup {C!Idle}, Publisher',
         (pub \in Publishing /\ pub.at = "view" => Past(pub.updated))'
  PROVE  ConnectedInv'
<1>1. Watching' /\ seen' \in BOOLEAN
  <2>1. \/ view' = view
        \/ view' = None
        \/ view' # None /\ view'.flow = flow' /\ Past(view.combo)'
    OBVIOUS
  <2>2. QED
    BY <2>1, ReaderKeeps
<1>2. ConnectedTypes /\ Remembered
  BY DEF ConnectedInv
<1>3. /\ combo' # None => Bounded(combo')
      /\ recorded' \in SUBSET Entries /\ Remembered'
  <2>1. CASE UNCHANGED <<combo, recorded>>
    <3>1. C!Completed(combo)' = C!Completed(combo)
      BY <2>1 DEF C!Completed
    <3>2. QED
      BY <1>2, <2>1, <3>1 DEF ConnectedTypes, Remembered
  <2>2. QED
    BY <2>1 DEF Grows
<1>4. /\ view' \in Views \cup {None}
      /\ reader' \in Pointing \cup Comparing \cup Answering \cup {C!Idle}
  BY <1>2 DEF ConnectedTypes
<1>5. ConnectedTypes'
  BY <1>1, <1>3, <1>4 DEF ConnectedTypes
<1>6. Reader'
  BY <1>1 DEF Reader
<1>7. QED
  BY <1>3, <1>5, <1>6 DEF ConnectedInv

LEMMA AdvanceKeeps == ASSUME ConnectedInv, Watched, C!Advance PROVE ConnectedInv'
<1>1. flow' \in Flows
  <2>1. PICK f \in Flows : f = flow
    BY DEF ConnectedInv, ConnectedTypes
  <2>2. PICK done \in BOOLEAN : flow' = [f EXCEPT !.seq = f.seq + 1, !.complete = done]
    BY <2>1 DEF C!Advance
  <2>3. f.seq + 1 \in Nat
    BY DEF Flows
  <2>4. QED
    BY <2>2, <2>3 DEF Flows
<1>2. Grows /\ UNCHANGED <<rooted, view, pub, cli, reader>> /\ pub' = C!Idle
  BY DEF C!Advance, Grows
<1>3. rooted' \in BOOLEAN /\ cli' \in Commanding \cup {C!Idle} /\ (rooted => rooted')
  BY <1>2 DEF ConnectedInv, ConnectedTypes
<1>4. /\ pub' \in Publishing \cup {C!Idle} /\ Publisher'
      /\ (pub \in Publishing /\ pub.at = "view" => Past(pub.updated))'
  BY <1>2, <1>3, PublisherKeeps
<1>5. QED
  BY <1>1, <1>2, <1>3, <1>4, OthersKeep

LEMMA StartFlowKeeps == ASSUME ConnectedInv, Watched, C!StartFlow PROVE ConnectedInv'
<1>1. flow' \in Flows
  BY DEF ConnectedInv, ConnectedTypes, Flows, C!StartFlow
<1>2. Grows /\ UNCHANGED <<rooted, pub, cli, reader>> /\ pub' = C!Idle /\ view' = None
  BY DEF C!StartFlow, Grows
<1>3. rooted' \in BOOLEAN /\ cli' \in Commanding \cup {C!Idle} /\ (rooted => rooted')
  BY <1>2 DEF ConnectedInv, ConnectedTypes
<1>4. /\ pub' \in Publishing \cup {C!Idle} /\ Publisher'
      /\ (pub \in Publishing /\ pub.at = "view" => Past(pub.updated))'
  BY <1>2, <1>3, PublisherKeeps
<1>5. QED
  BY <1>1, <1>2, <1>3, <1>4, OthersKeep

LEMMA NewComboBounded == Bounded(C!NewCombo) /\ C!Completed(C!NewCombo) = {}
<1>1. C!NewCombo \in Combos
  BY DEF C!NewCombo, Combos
<1>2. C!NewCombo.recent = {} /\ C!NewCombo.history = {}
  BY DEF C!NewCombo
<1>3. QED
  BY <1>1, <1>2, FS_EmptySet DEF Bounded, C!Completed

LEMMA PublishStartKeeps ==
  ASSUME ConnectedInv, Watched, NEW goal \in BOOLEAN, C!PublishStart(goal)
  PROVE  ConnectedInv'
<1>1. flow \in Flows /\ (combo # None => Bounded(combo)) /\ rooted \in BOOLEAN
      /\ cli \in Commanding \cup {C!Idle} /\ (~rooted => combo = None)
  BY DEF ConnectedInv, ConnectedTypes, Remembered
<1>2. PICK base : base = IF combo = None THEN C!NewCombo ELSE combo
  OBVIOUS
<1>3. PICK updated : updated = C!Prepare(goal, base)
  OBVIOUS
<1>4. pub' = [at |-> IF updated = base THEN "view" ELSE "mkdir", goal |-> goal,
              base |-> base, updated |-> updated, expected |-> None]
  BY <1>2, <1>3 DEF C!PublishStart
<1>5. UNCHANGED <<flow, combo, rooted, view, cli, reader, recorded>> /\ Grows
  BY DEF C!PublishStart, Grows
<1>6. Bounded(base)
  BY <1>1, <1>2, NewComboBounded
<1>7. Bounded(updated) /\ (base = C!NewCombo => updated # base)
  BY <1>1, <1>3, <1>6, PrepareKeeps
<1>8. pub' \in Publishing
  BY <1>4, <1>6, <1>7 DEF Publishing, Bounded
<1>9. /\ pub'.updated = updated /\ pub'.base = base /\ pub'.goal = goal
      /\ pub'.at = IF updated = base THEN "view" ELSE "mkdir"
  BY <1>4
<1>10. C!Prepare(goal, base)' = C!Prepare(goal, base)
  BY <1>5 DEF C!Prepare, C!Entry
<1>11. Publisher'
  BY <1>1, <1>2, <1>3, <1>5, <1>9, <1>10 DEF Publisher
<1>12. (pub \in Publishing /\ pub.at = "view" => Past(pub.updated))'
  <2> SUFFICES ASSUME pub'.at = "view" PROVE Past(pub.updated)'
    OBVIOUS
  <2>1. updated = base /\ base = combo /\ combo # None
    BY <1>2, <1>7, <1>9
  <2>2. combo.revision \in Nat
    BY <1>1, <2>1 DEF Bounded, Combos
  <2>3. QED
    BY <1>5, <1>9, <2>1, <2>2 DEF Past
<1>13. QED
  BY <1>1, <1>5, <1>8, <1>11, <1>12, OthersKeep

LEMMA PublishRootKeeps == ASSUME ConnectedInv, Watched, C!PublishRoot PROVE ConnectedInv'
<1>1. flow \in Flows /\ rooted \in BOOLEAN /\ cli \in Commanding \cup {C!Idle}
      /\ pub \in Publishing \cup {C!Idle} /\ Publisher
  BY DEF ConnectedInv, ConnectedTypes
<1>2. PICK p : p = pub
  OBVIOUS
<1>3. p \in Publishing /\ p.at = "mkdir"
  BY <1>1, <1>2 DEF C!PublishRoot, C!Idle
<1>4. pub' = [p EXCEPT !.at = "commit", !.expected = IF rooted THEN p.base ELSE None]
  BY <1>2 DEF C!PublishRoot
<1>5. UNCHANGED <<flow, combo, view, cli, reader, recorded>> /\ rooted' = TRUE /\ Grows
  BY DEF C!PublishRoot, Grows
<1>6. /\ pub' \in Publishing /\ pub'.at = "commit" /\ pub'.goal = p.goal /\ pub'.base = p.base
      /\ pub'.updated = p.updated /\ pub'.expected = IF rooted THEN p.base ELSE None
  BY <1>3, <1>4 DEF Publishing
<1>7. \A goal, c : C!Prepare(goal, c)' = C!Prepare(goal, c)
  BY <1>5 DEF C!Prepare, C!Entry
<1>8. Publisher'
  BY <1>1, <1>2, <1>3, <1>6, <1>7 DEF Publisher
<1>9. QED
  BY <1>1, <1>5, <1>6, <1>8, OthersKeep

\* A commit either finds another combo than the expected one, or lets one follow.
LEMMA WriteGrows ==
  ASSUME ConnectedInv, NEW expected, NEW u, NEW added,
         Bounded(u), added \subseteq C!Completed(u), C!WriteCombo(expected, u, added),
         combo = expected =>
           \/ combo = None /\ C!Completed(u) \subseteq added
           \/ /\ combo # None /\ Follows(combo, u)
              /\ C!Completed(u) \subseteq C!Completed(combo) \cup added
  PROVE  Grows /\ rooted' = TRUE
<1>1. rooted' = TRUE
  BY DEF C!WriteCombo
<1>2. CASE combo # expected
  BY <1>1, <1>2 DEF C!WriteCombo, C!Commit, Grows
<1>3. CASE combo = expected
  <2>1. combo' = u /\ recorded' = recorded \cup added
    BY <1>3 DEF C!WriteCombo, C!Commit
  <2>2. CASE combo = None /\ C!Completed(u) \subseteq added
    <3>1. added = C!Completed(u)
      BY <2>2
    <3>2. QED
      BY <1>1, <2>1, <2>2, <3>1, FirstGrows
  <2>3. CASE /\ combo # None /\ Follows(combo, u)
             /\ C!Completed(u) \subseteq C!Completed(combo) \cup added
    BY <1>1, <2>1, <2>3, NextGrows
  <2>4. QED
    BY <1>3, <2>2, <2>3
<1>4. QED
  BY <1>2, <1>3

LEMMA PublishComboKeeps == ASSUME ConnectedInv, Watched, C!PublishCombo PROVE ConnectedInv'
<1>1. flow \in Flows /\ rooted \in BOOLEAN /\ cli \in Commanding \cup {C!Idle}
      /\ pub \in Publishing \cup {C!Idle} /\ Publisher /\ (combo # None => Bounded(combo))
  BY DEF ConnectedInv, ConnectedTypes
<1>2. PICK p : p = pub
  OBVIOUS
<1>3. p \in Publishing /\ p.at = "commit"
  BY <1>1, <1>2 DEF C!PublishCombo, C!Idle
<1>4. PICK added : added = C!Completed(p.updated) \ C!Completed(p.base)
  OBVIOUS
<1>5. /\ C!WriteCombo(p.expected, p.updated, added)
      /\ pub' = IF combo' = p.updated THEN [p EXCEPT !.at = "view"] ELSE C!Idle
      /\ UNCHANGED <<flow, view, cli, reader>>
  BY <1>2, <1>4 DEF C!PublishCombo
<1>6. /\ p.updated = C!Prepare(p.goal, p.base) /\ p.updated # p.base
      /\ p.expected = p.base \/ (p.expected = None /\ p.base = C!NewCombo)
      /\ p.goal \in BOOLEAN /\ p.base \in Combos /\ p.updated \in Combos
  BY <1>1, <1>2, <1>3 DEF Publisher, Publishing
<1>7. Grows /\ rooted' = TRUE
  <2>1. CASE combo = p.expected
    <3>1. Bounded(p.base)
      BY <1>1, <1>6, <2>1, CombosAreSome, NewComboBounded
    <3>2. Bounded(p.updated) /\ Follows(p.base, p.updated)
      BY <1>1, <1>6, <3>1, PrepareKeeps
    <3>3. \/ combo = None /\ C!Completed(p.updated) \subseteq added
          \/ /\ combo # None /\ Follows(combo, p.updated)
             /\ C!Completed(p.updated) \subseteq C!Completed(combo) \cup added
      BY <1>4, <1>6, <2>1, <3>2, CombosAreSome, NewComboBounded
    <3>4. added \subseteq C!Completed(p.updated)
      BY <1>4
    <3>5. QED
      BY <1>5, <3>2, <3>3, <3>4, WriteGrows
  <2>2. CASE combo # p.expected
    BY <1>5, <2>2 DEF C!WriteCombo, C!Commit, Grows
  <2>3. QED
    BY <2>1, <2>2
<1>8. pub' \in Publishing \cup {C!Idle}
  BY <1>3, <1>5 DEF Publishing
<1>9. pub' # C!Idle => /\ combo' = p.updated /\ pub'.updated = p.updated /\ pub'.base = p.base
                       /\ pub'.goal = p.goal /\ pub'.at = "view"
  BY <1>3, <1>5 DEF Publishing
<1>10. C!Idle \notin Publishing
  BY DEF C!Idle, Publishing
<1>11. \A goal, c : C!Prepare(goal, c)' = C!Prepare(goal, c)
  BY <1>5 DEF C!Prepare, C!Entry
<1>12. Publisher'
  BY <1>6, <1>9, <1>10, <1>11 DEF Publisher
<1>13. (pub \in Publishing /\ pub.at = "view" => Past(pub.updated))'
  <2> SUFFICES ASSUME pub' \in Publishing PROVE Past(pub.updated)'
    OBVIOUS
  <2>1. combo' = p.updated /\ pub'.updated = p.updated
    BY <1>9, <1>10
  <2>2. combo' \in Combos /\ combo' # None /\ combo'.revision \in Nat
    BY <1>6, <2>1, CombosAreSome DEF Combos
  <2>3. QED
    BY <2>1, <2>2 DEF Past
<1>14. QED
  BY <1>1, <1>5, <1>7, <1>8, <1>12, <1>13, OthersKeep

LEMMA PublishViewKeeps == ASSUME ConnectedInv, Watched, C!PublishView PROVE ConnectedInv'
<1>1. flow \in Flows /\ rooted \in BOOLEAN /\ cli \in Commanding \cup {C!Idle}
      /\ pub \in Publishing \cup {C!Idle}
  BY DEF ConnectedInv, ConnectedTypes
<1>2. PICK p : p = pub
  OBVIOUS
<1>3. p \in Publishing /\ p.at = "view"
  BY <1>1, <1>2 DEF C!PublishView, C!Idle
<1>4. /\ view' = [flow |-> flow, combo |-> p.updated, goal |-> p.goal] /\ pub' = C!Idle
      /\ UNCHANGED <<flow, combo, rooted, cli, reader, recorded>> /\ Grows
  BY <1>2 DEF C!PublishView, Grows
<1>5. p.updated \in Combos /\ p.goal \in BOOLEAN /\ Past(p.updated)
  BY <1>2, <1>3 DEF ConnectedInv, Reader, Publishing
<1>6. view' \in Views /\ view'.flow = flow'
  BY <1>1, <1>4, <1>5 DEF Views
<1>7. Past(view.combo)'
  <2>1. view'.combo = p.updated
    BY <1>4
  <2>2. QED
    BY <1>4, <1>5, <2>1 DEF Past
<1>8. /\ pub' \in Publishing \cup {C!Idle} /\ Publisher'
      /\ (pub \in Publishing /\ pub.at = "view" => Past(pub.updated))'
  BY <1>4, PublisherKeeps
<1>9. QED
  BY <1>1, <1>4, <1>6, <1>7, <1>8, OthersKeep

LEMMA PublisherKilledKeeps == ASSUME ConnectedInv, Watched, C!PublisherKilled PROVE ConnectedInv'
<1>1. flow \in Flows /\ rooted \in BOOLEAN /\ cli \in Commanding \cup {C!Idle}
  BY DEF ConnectedInv, ConnectedTypes
<1>2. Grows /\ UNCHANGED <<flow, combo, rooted, view, cli, reader>> /\ pub' = C!Idle
  BY DEF C!PublisherKilled, Grows
<1>3. /\ pub' \in Publishing \cup {C!Idle} /\ Publisher'
      /\ (pub \in Publishing /\ pub.at = "view" => Past(pub.updated))'
  BY <1>2, PublisherKeeps
<1>4. QED
  BY <1>1, <1>2, <1>3, OthersKeep

\* Everything the owner's command does to the combo.
LEMMA OwnerKeeps ==
  ASSUME ConnectedInv, Watched, Grows, rooted' = TRUE, UNCHANGED <<flow, view, pub, reader>>,
         cli' = cli \/ cli' = C!Idle
  PROVE  ConnectedInv'
<1>1. flow \in Flows /\ cli \in Commanding \cup {C!Idle}
  BY DEF ConnectedInv, ConnectedTypes
<1>2. /\ pub' \in Publishing \cup {C!Idle} /\ Publisher'
      /\ (pub \in Publishing /\ pub.at = "view" => Past(pub.updated))'
  BY PublisherKeeps
<1>3. QED
  BY <1>1, <1>2, OthersKeep

LEMMA ComboInitKeeps == ASSUME ConnectedInv, Watched, C!ComboInit PROVE ConnectedInv'
<1>1. Grows /\ rooted' = TRUE
  BY NewComboBounded, WriteGrows DEF C!ComboInit
<1>2. QED
  BY <1>1, OwnerKeeps DEF C!ComboInit

LEMMA ComboReadKeeps ==
  ASSUME ConnectedInv, Watched, NEW e \in OwnerEntries, C!ComboRead(e) PROVE ConnectedInv'
<1>1. flow \in Flows /\ rooted \in BOOLEAN /\ (combo # None => Bounded(combo))
  BY DEF ConnectedInv, ConnectedTypes
<1>2. Grows /\ UNCHANGED <<flow, combo, rooted, view, pub, reader>>
  BY DEF C!ComboRead, Grows
<1>3. cli' \in Commanding
  BY <1>1 DEF C!ComboRead, Commanding, Bounded
<1>4. /\ pub' \in Publishing \cup {C!Idle} /\ Publisher'
      /\ (pub \in Publishing /\ pub.at = "view" => Past(pub.updated))'
  BY <1>2, PublisherKeeps
<1>5. QED
  BY <1>1, <1>2, <1>3, <1>4, OthersKeep

LEMMA OwnersCommitKeeps ==
  ASSUME ConnectedInv, Watched, C!ComboUpdate \/ C!ComboActive PROVE ConnectedInv'
<1>1. cli \in Commanding \cup {C!Idle} /\ (combo # None => Bounded(combo))
  BY DEF ConnectedInv, ConnectedTypes
<1>2. PICK c : c = cli
  OBVIOUS
<1>3. c \in Commanding
  BY <1>1, <1>2 DEF C!ComboUpdate, C!ComboActive, C!Idle
<1>4. c.base \in Combos /\ c.entry \in Entries
  <2>1. c.entry \in OwnerEntries /\ OwnerEntries \subseteq Entries
    BY <1>3, ComboAssumption DEF Commanding, Entries
  <2>2. QED
    BY <1>3, <2>1 DEF Commanding
<1>5. cli' = C!Idle /\ UNCHANGED <<flow, view, pub, reader>>
  BY DEF C!ComboUpdate, C!ComboActive
<1>6. Grows /\ rooted' = TRUE
  <2>1. CASE combo # c.base
    BY <1>2, <2>1 DEF C!ComboUpdate, C!ComboActive, C!WriteCombo, C!Commit, Grows
  <2>2. CASE combo = c.base
    <3>1. Bounded(combo) /\ combo # None
      BY <1>1, <1>4, <2>2, CombosAreSome
    <3>2. CASE C!ComboUpdate
      <4>1. PICK u : u = C!UpdateCombo(c.base, c.entry)
        OBVIOUS
      <4>2. C!WriteCombo(c.base, u, {c.entry})
        BY <1>2, <3>2, <4>1 DEF C!ComboUpdate
      <4>3. /\ Bounded(u) /\ Follows(combo, u) /\ c.entry \in C!Completed(u)
            /\ C!Completed(u) \subseteq C!Completed(combo) \cup {c.entry}
        <5>1. PICK d : d = combo
          OBVIOUS
        <5>2. Bounded(d) /\ u = C!UpdateCombo(d, c.entry)
          BY <2>2, <3>1, <4>1, <5>1
        <5>3. /\ Bounded(u) /\ Follows(d, u) /\ c.entry \in C!Completed(u)
              /\ C!Completed(u) \subseteq C!Completed(d) \cup {c.entry}
          BY <1>4, <5>2, UpdateKeeps
        <5>4. QED
          BY <5>1, <5>3
      <4>4. QED
        BY <3>1, <4>2, <4>3, WriteGrows
    <3>3. CASE C!ComboActive
      <4>1. PICK u : u = C!SetActiveRoadmaps(c.base, {})
        OBVIOUS
      <4>2. PICK none : none = {} /\ C!WriteCombo(c.base, u, none)
        BY <1>2, <3>3, <4>1 DEF C!ComboActive
      <4>3. Bounded(u) /\ Follows(combo, u) /\ C!Completed(u) \subseteq C!Completed(combo)
        <5>1. PICK d : d = combo
          OBVIOUS
        <5>2. Bounded(d) /\ u = C!SetActiveRoadmaps(d, {})
          BY <2>2, <3>1, <4>1, <5>1
        <5>3. Bounded(u) /\ Follows(d, u) /\ C!Completed(u) \subseteq C!Completed(d)
          BY <5>2, ActiveKeeps DEF C!Completed
        <5>4. QED
          BY <5>1, <5>3
      <4>4. none \subseteq C!Completed(u) /\ C!Completed(u) \subseteq C!Completed(combo) \cup none
        BY <4>2, <4>3
      <4>5. QED
        BY <3>1, <4>2, <4>3, <4>4, WriteGrows
    <3>4. QED
      BY <3>2, <3>3
  <2>3. QED
    BY <2>1, <2>2
<1>7. QED
  BY <1>5, <1>6, OwnerKeeps

\* The reader's own steps: what it has read was seen if it is right.
LEMMA ReaderStepsKeep ==
  ASSUME ConnectedInv, Watched,
         C!ReadFlow \/ C!ReadView \/ C!ReadCombo \/ C!Answered
  PROVE  ConnectedInv'
<1>1. UNCHANGED <<flow, combo, rooted, view, pub, cli, recorded>>
  BY DEF C!ReadFlow, C!ReadView, C!ReadCombo, C!Answered
<1>2. /\ flow \in Flows /\ view \in Views \cup {None} /\ seen \in BOOLEAN
      /\ reader \in Pointing \cup Comparing \cup Answering \cup {C!Idle}
      /\ Watching /\ ConnectedTypes /\ Remembered /\ Publisher
      /\ (pub \in Publishing /\ pub.at = "view" => Past(pub.updated))
  BY DEF ConnectedInv, ConnectedTypes, Reader
<1>3. Grows
  BY <1>1 DEF Grows
<1>4. /\ pub' \in Publishing \cup {C!Idle} /\ Publisher'
      /\ (pub \in Publishing /\ pub.at = "view" => Past(pub.updated))'
  BY <1>1, <1>3, PublisherKeeps
<1>5. /\ C!Idle \notin Pointing /\ C!Idle \notin Comparing /\ C!Idle \notin Answering
      /\ \A r \in Pointing : r \notin Comparing /\ r \notin Answering
      /\ \A r \in Comparing : r \notin Pointing /\ r \notin Answering
      /\ \A r \in Answering : r \notin Comparing /\ r \notin Pointing
  BY DEF C!Idle, Pointing, Comparing, Answering
<1>6. (view # None => Past(view.combo))'
  BY <1>1, <1>2 DEF Watching, Past
<1>7. Watching' /\ seen' \in BOOLEAN
      /\ reader' \in Pointing \cup Comparing \cup Answering \cup {C!Idle}
  <2>1. seen' \in BOOLEAN /\ (reader'.at # "idle" /\ (seen \/ C!Current') => seen')
    BY <1>2 DEF Watched
  <2>2. CASE C!ReadFlow
    <3>1. reader' = [at |-> "pointer", flow |-> flow]
      BY <2>2 DEF C!ReadFlow
    <3>2. reader' \in Pointing /\ reader'.at # "idle" /\ reader'.flow = flow
      BY <1>2, <3>1 DEF Pointing
    <3>3. (view # None /\ view.flow = reader.flow /\ view.combo = combo => seen)'
      BY <1>1, <2>1, <3>2 DEF C!Current
    <3>4. QED
      BY <1>5, <1>6, <2>1, <3>2, <3>3 DEF Watching
  <2>3. CASE C!ReadView
    <3>1. CASE view = None
      <4>1. reader' = C!Idle
        BY <2>3, <3>1 DEF C!ReadView
      <4>2. QED
        BY <1>5, <1>6, <2>1, <4>1 DEF Watching
    <3>2. CASE view # None
      <4>1. reader \in Pointing
        BY <1>2, <2>3 DEF C!ReadView, Comparing, Answering, C!Idle
      <4>2. reader' = [at |-> "combo", flow |-> reader.flow, view |-> view]
        BY <2>3, <3>2 DEF C!ReadView
      <4>3. reader.flow \in Flows /\ view \in Views
        BY <1>2, <3>2, <4>1 DEF Pointing
      <4>4. /\ reader' \in Comparing /\ reader'.at # "idle" /\ reader'.flow = reader.flow
            /\ reader'.view = view
        BY <4>2, <4>3 DEF Comparing
      <4>5. /\ Past(reader.view.combo)'
            /\ (reader.view.flow = reader.flow /\ reader.view.combo = combo => seen)'
        <5>1. Past(view.combo) /\ (view.flow = reader.flow /\ view.combo = combo => seen)
          BY <1>2, <3>2, <4>1 DEF Watching
        <5>2. Past(reader.view.combo)'
          BY <1>1, <4>4, <5>1 DEF Past
        <5>3. QED
          BY <1>1, <2>1, <4>4, <5>1, <5>2
      <4>6. QED
        BY <1>5, <1>6, <2>1, <4>4, <4>5 DEF Watching
    <3>3. QED
      BY <3>1, <3>2
  <2>4. CASE C!ReadCombo
    <3>1. reader \in Comparing
      BY <1>2, <2>4 DEF C!ReadCombo, Pointing, Answering, C!Idle
    <3>2. reader' = [at |-> "answered", current |-> C!Matches(reader.flow, reader.view, combo)]
      BY <2>4 DEF C!ReadCombo
    <3>3. C!Matches(reader.flow, reader.view, combo) \in BOOLEAN
      BY DEF C!Matches
    <3>4. reader' \in Answering /\ reader'.at # "idle"
      BY <3>2, <3>3 DEF Answering
    <3>5. reader'.current => seen
      BY <1>2, <3>1, <3>2 DEF Watching, C!Matches
    <3>6. QED
      BY <1>5, <1>6, <2>1, <3>4, <3>5 DEF Watching
  <2>5. CASE C!Answered
    <3>1. reader' = C!Idle
      BY <2>5 DEF C!Answered
    <3>2. QED
      BY <1>5, <1>6, <2>1, <3>1 DEF Watching
  <2>6. QED
    BY <2>2, <2>3, <2>4, <2>5
<1>8. Remembered'
  <2>1. C!Completed(combo)' = C!Completed(combo)
    BY <1>1 DEF C!Completed
  <2>2. QED
    BY <1>1, <1>2, <2>1 DEF Remembered
<1>9. ConnectedTypes'
  BY <1>1, <1>2, <1>4, <1>7 DEF ConnectedTypes
<1>10. QED
  BY <1>4, <1>7, <1>8, <1>9 DEF ConnectedInv, Reader

LEMMA ConnectedInit == C!Init => ConnectedInv
<1> SUFFICES ASSUME C!Init PROVE ConnectedInv
  OBVIOUS
<1>1. ConnectedTypes
  BY DEF C!Init, ConnectedTypes, Flows
<1>2. C!Idle \notin Publishing /\ C!Idle \notin Pointing /\ C!Idle \notin Comparing
      /\ C!Idle \notin Answering
  BY DEF C!Idle, Publishing, Pointing, Comparing, Answering
<1>3. Publisher /\ Reader /\ Remembered
  BY <1>2 DEF C!Init, Publisher, Reader, Watching, Remembered
<1>4. QED
  BY <1>1, <1>3 DEF ConnectedInv

LEMMA ConnectedStep == ConnectedInv /\ [C!Next]_connectedVars => ConnectedInv'
<1>1. CASE ConnectedInv /\ C!Next
  <2>1. Watched
    BY <1>1 DEF C!Next, Watched
  <2>2. QED
    BY <1>1, <2>1, AdvanceKeeps, StartFlowKeeps, PublishStartKeeps, PublishRootKeeps,
       PublishComboKeeps, PublishViewKeeps, PublisherKilledKeeps, ComboInitKeeps, ComboReadKeeps,
       OwnersCommitKeeps, ReaderStepsKeep DEF C!Next
<1>2. CASE ConnectedInv /\ UNCHANGED connectedVars
  BY <1>2 DEF connectedVars, ConnectedInv, ConnectedTypes, Publisher, Reader, Watching, Remembered,
     Past, C!Prepare, C!Entry, C!Completed
<1>3. QED
  BY <1>1, <1>2

\* Every completion can be found, and CURRENT was right.
LEMMA ConnectedSound == ConnectedInv => C!CompletionsFindable /\ C!CurrentWasTrue
<1> SUFFICES ASSUME ConnectedInv PROVE C!CompletionsFindable /\ C!CurrentWasTrue
  OBVIOUS
<1>1. C!CompletionsFindable
  <2> SUFFICES ASSUME NEW e \in recorded
               PROVE  C!Query(combo, e.id) # {} \/ \E f \in recorded : f # e /\ f.key = e.key
    BY DEF C!CompletionsFindable
  <2>1. /\ combo # None
        /\ \/ e \in combo.recent
           \/ \E f \in combo.history : f.id = e.id
           \/ Overtaken(e, recorded)
    BY DEF ConnectedInv, Remembered
  <2>2. QED
    BY <2>1 DEF C!Query, Overtaken
<1>2. C!CurrentWasTrue
  BY DEF C!CurrentWasTrue, ConnectedInv, ConnectedTypes, Reader, Watching, Pointing, Comparing,
     Answering, C!Idle
<1>3. QED
  BY <1>1, <1>2

\* Completed roadmaps stay findable through every race of publisher and owner,
\* and a CURRENT answer of connected_status was right while it was read.
THEOREM RoadmapsKept == Spec => []RoadmapsRemembered
<1>1. Init => ConnectedInv
  BY ConnectedInit DEF Init
<1>2. ConnectedInv /\ [Next]_vars => ConnectedInv'
  BY ConnectedStep DEF Next, vars, connectedVars
<1>3. ConnectedInv => RoadmapsRemembered
  BY ConnectedSound DEF RoadmapsRemembered
<1>4. QED
  BY <1>1, <1>2, <1>3, PTL DEF Spec
-----------------------------------------------------------------------------
(***************************************************************************)
(* The types of the running component: beside what the invariants above    *)
(* say, its counters and lists stay within their bounds.  A step that      *)
(* counts later than it was admitted keeps its room until it does.         *)
(***************************************************************************)
\* The snapshot in hand is one of a state there was, and only the source that
\* writes an object holds the lock.
HandoffBounds ==
  /\ object \in SUBSET (1 .. MaxState) /\ metadata \in SUBSET (1 .. MaxState)
  /\ Len(native) <= MaxState
  /\ \A h \in Handoffs :
       /\ giver[h].pc = "object" => giver[h].snapshot \in 1 .. MaxState
       /\ lock = h => giver[h].pc = "object"

LEMMA HandoffBoundsStay ==
  ASSUME HandoffInv, HandoffBounds, H!Next
  PROVE  HandoffBounds'
<1>1. /\ giver \in [Handoffs -> Giver] /\ lock \in Handoffs \cup {None}
      /\ Len(native) \in 1 .. MaxState /\ native \in Seq(Routes)
      /\ \A h \in Handoffs : giver[h].pc = "object" => lock = h
  BY BoundAssumption DEF HandoffInv, HandoffTypes, HandoffBounds, Giving
<1>2. ASSUME NEW h \in Handoffs, NEW g, giver' = [giver EXCEPT ![h] = g],
             g.pc # "object", lock' = IF giver[h].pc = "object" THEN None ELSE lock,
             object' \in SUBSET (1 .. MaxState), metadata' \in SUBSET (1 .. MaxState),
             UNCHANGED native
      PROVE  HandoffBounds'
  <2>1. giver'[h] = g /\ \A i \in Handoffs \ {h} : giver'[i] = giver[i]
    BY <1>1, <1>2
  <2>2. \A i \in Handoffs : lock' = i => i # h /\ lock = i
    BY <1>1, <1>2, NoneAssumption DEF HandoffBounds
  <2>3. QED
    BY <1>2, <2>1, <2>2 DEF HandoffBounds
<1>3. ASSUME NEW h \in Handoffs, H!StoreObject(h) PROVE HandoffBounds'
  <2>1. CASE /\ giver' = [giver EXCEPT ![h] = [pc |-> "stored", snapshot |-> H!state]]
             /\ UNCHANGED <<object, lock>>
    <3>1. /\ giver[h].pc # "object" /\ UNCHANGED <<native, metadata, object>>
          /\ lock' = IF giver[h].pc = "object" THEN None ELSE lock
      BY <1>3, <2>1 DEF H!StoreObject
    <3>2. object' \in SUBSET (1 .. MaxState) /\ metadata' \in SUBSET (1 .. MaxState)
      BY <3>1 DEF HandoffBounds
    <3>3. PICK g : g = [pc |-> "stored", snapshot |-> H!state]
      OBVIOUS
    <3>4. giver' = [giver EXCEPT ![h] = g] /\ g.pc # "object"
      BY <2>1, <3>3
    <3>5. QED
      BY <1>2, <3>1, <3>2, <3>4
  <2>2. CASE /\ giver' = [giver EXCEPT ![h] = [pc |-> "object", snapshot |-> H!state]]
             /\ object' = object \cup {H!state} /\ lock' = h
    <3>1. H!state \in 1 .. MaxState
      BY <1>1 DEF H!state
    <3>2. /\ giver'[h] = [pc |-> "object", snapshot |-> H!state]
          /\ \A i \in Handoffs \ {h} : giver'[i] = giver[i]
      BY <1>1, <2>2
    <3>3. UNCHANGED <<native, metadata>>
      BY <1>3 DEF H!StoreObject
    <3>4. object' \in SUBSET (1 .. MaxState) /\ metadata' \in SUBSET (1 .. MaxState)
          /\ Len(native') <= MaxState
      BY <2>2, <3>1, <3>3 DEF HandoffBounds
    <3>5. \A i \in Handoffs : /\ giver'[i].pc = "object" => giver'[i].snapshot \in 1 .. MaxState
                              /\ lock' = i => giver'[i].pc = "object"
      BY <2>2, <3>1, <3>2 DEF HandoffBounds
    <3>6. QED
      BY <3>4, <3>5 DEF HandoffBounds
  <2>3. QED
    BY <1>3, <2>1, <2>2 DEF H!StoreObject
<1>4. ASSUME NEW h \in Handoffs, H!StoreMetadata(h) PROVE HandoffBounds'
  <2>1. giver[h].snapshot \in 1 .. MaxState /\ giver[h].pc = "object"
    BY <1>4 DEF H!StoreMetadata, HandoffBounds
  <2>2. PICK g : g = [giver[h] EXCEPT !.pc = "stored"]
    OBVIOUS
  <2>3. giver[h] \in Giver
    BY <1>1
  <2>4. g.pc = "stored"
    BY <2>2, <2>3 DEF Giver
  <2>5. giver' = [giver EXCEPT ![h] = g]
    BY <1>4, <2>2 DEF H!StoreMetadata
  <2>6. object' \in SUBSET (1 .. MaxState) /\ metadata' \in SUBSET (1 .. MaxState) /\ lock' = None
        /\ UNCHANGED native
    BY <1>4, <2>1 DEF H!StoreMetadata, HandoffBounds
  <2>7. QED
    BY <1>2, <2>1, <2>4, <2>5, <2>6
<1>5. ASSUME NEW h \in Handoffs, H!StoreFails(h) \/ H!SourceKilled(h) PROVE HandoffBounds'
  <2>1. /\ giver' = [giver EXCEPT ![h] = [pc |-> "work", snapshot |-> None]]
        /\ lock' = IF giver[h].pc = "object" THEN None ELSE lock
        /\ object' \in SUBSET (1 .. MaxState) /\ metadata' \in SUBSET (1 .. MaxState)
        /\ UNCHANGED native
    BY <1>5 DEF H!StoreFails, H!SourceKilled, HandoffBounds
  <2>2. PICK g : g = [pc |-> "work", snapshot |-> None]
    OBVIOUS
  <2>3. giver' = [giver EXCEPT ![h] = g] /\ g.pc # "object"
    BY <2>1, <2>2
  <2>4. QED
    BY <1>2, <2>1, <2>3
<1>6. ASSUME NEW h \in Handoffs, H!Prepare(h) \/ H!PrepareAgain(h) \/ H!SourceIdles(h)
      PROVE  HandoffBounds'
  <2>1. PICK pc : pc \in {"wait", "idle"} /\ giver' = [giver EXCEPT ![h].pc = pc]
    BY <1>6 DEF H!Prepare, H!PrepareAgain, H!SourceIdles
  <2>2. PICK g : g = [giver[h] EXCEPT !.pc = pc]
    OBVIOUS
  <2>3. giver[h] \in Giver
    BY <1>1
  <2>4. g.pc = pc
    BY <2>2, <2>3 DEF Giver
  <2>5. giver' = [giver EXCEPT ![h] = g]
    BY <2>1, <2>2
  <2>6. giver[h].pc # "object"
    BY <1>1, <1>6, NoneAssumption DEF H!Prepare, H!PrepareAgain, H!SourceIdles
  <2>7. /\ lock' = lock /\ UNCHANGED native
        /\ object' \in SUBSET (1 .. MaxState) /\ metadata' \in SUBSET (1 .. MaxState)
    BY <1>6 DEF H!Prepare, H!PrepareAgain, H!SourceIdles, HandoffBounds
  <2>8. QED
    BY <1>2, <2>1, <2>4, <2>5, <2>6, <2>7
<1>7. ASSUME NEW h \in Handoffs, H!AcceptGoal(h) \/ H!Accept(h) PROVE HandoffBounds'
  BY <1>7 DEF H!AcceptGoal, H!Accept, HandoffBounds
<1>8. CASE H!NativeEvent
  <2>1. PICK r \in Routes : native' = Append(native, r)
    BY <1>8 DEF H!NativeEvent
  <2>2. Len(native') <= MaxState
    BY <1>1, <1>8, <2>1, BoundAssumption DEF H!NativeEvent, H!state
  <2>3. QED
    BY <1>8, <2>2 DEF H!NativeEvent, HandoffBounds
<1>9. QED
  BY <1>3, <1>4, <1>5, <1>6, <1>7, <1>8 DEF H!Next

\* With the invariant of handoffs, these are their types.
LEMMA HandoffTyped == HandoffInv /\ HandoffBounds => H!TypeOK
  BY DEF HandoffInv, HandoffTypes, HandoffBounds, Giving, Giver, H!TypeOK

LEMMA HandoffBounded == Spec => [](focus = "handoff" => H!TypeOK)
<1>1. Init => (focus = "handoff" => HandoffBounds)
  <2> SUFFICES ASSUME H!Init PROVE HandoffBounds
    BY DEF Init
  <2>1. PICK r \in Routes : native = <<r>>
    BY DEF H!Init
  <2>2. QED
    BY <2>1, BoundAssumption, NoneAssumption DEF H!Init, HandoffBounds
<1>2. (focus = "handoff" => HandoffInv /\ HandoffBounds) /\ [Next]_vars
        => (focus = "handoff" => HandoffBounds)'
  <2> SUFFICES ASSUME focus = "handoff", HandoffInv, HandoffBounds, [Next]_vars
               PROVE  HandoffBounds'
    BY DEF Next, vars
  <2>1. CASE H!Next
    BY <2>1, HandoffBoundsStay
  <2>2. CASE UNCHANGED handoffVars
    BY <2>2 DEF handoffVars, HandoffBounds
  <2>3. QED
    BY <2>1, <2>2 DEF Next, vars
<1>3. QED
  BY <1>1, <1>2, HandoffInvariant, HandoffTyped, PTL DEF Spec

\* The queue counts its leases and the time.
QueueBounds == turn <= MaxLeases /\ now \in 1 .. MaxTime

LEMMA QueueTyped == QueueInv /\ QueueBounds => Q!TypeOK
<1> SUFFICES ASSUME QueueInv, QueueBounds PROVE Q!TypeOK
  OBVIOUS
<1>1. \A i \in Items : item[i] \in Row
  BY DEF QueueInv, QueueTypes
<1>2. turn \in 0 .. MaxLeases
  BY BoundAssumption DEF QueueInv, QueueTypes, QueueBounds
<1>3. QED
  BY <1>1, <1>2 DEF QueueBounds, Q!TypeOK, Row

LEMMA QueueBounded == Spec => [](focus = "queue" => Q!TypeOK)
<1>1. Init => (focus = "queue" => QueueBounds)
  BY BoundAssumption DEF Init, Q!Init, QueueBounds
<1>2. (focus = "queue" => QueueInv /\ QueueBounds) /\ [Next]_vars
        => (focus = "queue" => QueueBounds)'
  <2> SUFFICES ASSUME focus = "queue", QueueInv, QueueBounds, [Next]_vars PROVE QueueBounds'
    BY DEF Next, vars
  <2>1. turn \in Nat /\ now \in 1 .. MaxTime /\ turn <= MaxLeases
    BY DEF QueueInv, QueueTypes, QueueBounds
  <2>2. CASE Q!Next
    <3>1. ASSUME NEW w \in Workers, Q!ReadStatus(w) \/ Q!WorkerDies(w) PROVE QueueBounds'
      BY <2>1, <3>1 DEF Q!ReadStatus, Q!WorkerDies, QueueBounds
    <3>2. ASSUME NEW w \in Workers, Q!Claim(w) PROVE QueueBounds'
      <4>1. turn < MaxLeases /\ turn' = turn + 1 /\ now' = now
        BY <3>2 DEF Q!Claim
      <4>2. QED
        BY <2>1, <4>1, BoundAssumption DEF QueueBounds
    <3>3. ASSUME NEW w \in Workers, NEW status, Q!Complete(w, status, now + 1) PROVE QueueBounds'
      <4>1. turn < MaxLeases /\ turn' = turn + 1 /\ now' = now
        BY <3>3 DEF Q!Complete
      <4>2. QED
        BY <2>1, <4>1, BoundAssumption DEF QueueBounds
    <3>4. ASSUME NEW w \in Workers, Q!CompleteNothing(w) PROVE QueueBounds'
      <4>1. turn < MaxLeases /\ turn' = turn + 1 /\ now' = now
        BY <3>4 DEF Q!CompleteNothing
      <4>2. QED
        BY <2>1, <4>1, BoundAssumption DEF QueueBounds
    <3>5. CASE Q!Tick
      BY <2>1, <3>5, BoundAssumption DEF Q!Tick, QueueBounds
    <3>6. QED
      BY <2>2, <3>1, <3>2, <3>3, <3>4, <3>5 DEF Q!Next
  <2>3. CASE UNCHANGED queueVars
    BY <2>3 DEF queueVars, QueueBounds
  <2>4. QED
    BY <2>2, <2>3 DEF Next, vars
<1>3. QED
  BY <1>1, <1>2, QueueInvariant, QueueTyped, PTL DEF Spec

\* A key has one chat, and each chat one of four states.
LEMMA IndexValid == NavigationInv => N!ValidIndex
<1> SUFFICES ASSUME NavigationInv PROVE N!ValidIndex
  OBVIOUS
<1>1. \A c \in N!Chats : chats[c] \in Chat
  BY DEF NavigationInv, N!Chats
<1>2. QED
  BY <1>1 DEF N!ValidIndex, NavigationInv, OneKey, Chat

LEMMA GoalTyped == GoalInv => G!TypeOK
BY GoalAssumption DEF GoalInv, Hierarchy, G!TypeOK

\* Facts are counted, and the owner has stopped the goal or not.
OutcomeBounds == facts \in [Outcomes -> 0 .. MaxFacts] /\ stopped \in BOOLEAN

LEMMA OutcomeBounded == Spec => [](focus = "outcome" => O!TypeOK)
<1>1. Init => (focus = "outcome" => OutcomeBounds)
  <2> SUFFICES ASSUME O!Init PROVE OutcomeBounds
    BY DEF Init
  <2>1. 0 \in 0 .. MaxFacts
    BY BoundAssumption
  <2>2. QED
    BY <2>1 DEF O!Init, OutcomeBounds
<1>2. (focus = "outcome" => OutcomeBounds) /\ [Next]_vars => (focus = "outcome" => OutcomeBounds)'
  <2> SUFFICES ASSUME focus = "outcome", OutcomeBounds, [Next]_vars PROVE OutcomeBounds'
    BY DEF Next, vars
  <2>1. CASE UNCHANGED <<facts, stopped>>
    BY <2>1 DEF OutcomeBounds
  <2>2. ASSUME NEW o \in Outcomes, O!FactsChange(o) PROVE OutcomeBounds'
    <3>1. facts[o] \in 0 .. MaxFacts /\ facts[o] < MaxFacts
      BY <2>2 DEF OutcomeBounds, O!FactsChange
    <3>2. facts' = [facts EXCEPT ![o] = facts[o] + 1] /\ UNCHANGED stopped
      BY <2>2 DEF O!FactsChange
    <3>3. facts[o] + 1 \in 0 .. MaxFacts
      BY <3>1, BoundAssumption
    <3>4. QED
      BY <3>2, <3>3 DEF OutcomeBounds
  <2>3. CASE O!OwnerStops
    BY <2>3 DEF O!OwnerStops, OutcomeBounds
  <2>4. CASE O!Next
    <3>1. ASSUME NEW o \in Outcomes, O!SourceChanges(o) PROVE OutcomeBounds'
      BY <2>1, <3>1 DEF O!SourceChanges
    <3>2. ASSUME NEW n \in 0 .. 1, O!Query(n) PROVE OutcomeBounds'
      BY <2>1, <3>2 DEF O!Query
    <3>3. CASE O!Compile \/ O!Rebind \/ O!QueryFails \/ O!Synthesize \/ O!NativeAdvances
      BY <2>1, <3>3 DEF O!Compile, O!Rebind, O!QueryFails, O!Synthesize, O!NativeAdvances
    <3>4. QED
      BY <2>2, <2>3, <2>4, <3>1, <3>2, <3>3 DEF O!Next
  <2>5. CASE UNCHANGED outcomeVars
    BY <2>1, <2>5 DEF outcomeVars
  <2>6. QED
    BY <2>4, <2>5 DEF Next, vars
<1>3. OutcomeInv /\ OutcomeBounds => O!TypeOK
  BY DEF OutcomeInv, OutcomeBounds, O!TypeOK
<1>4. QED
  BY <1>1, <1>2, <1>3, OutcomeInvariant, PTL DEF Spec

\* A put and a cleanup were admitted while there was room for their revision.
StorageBounds ==
  revision <= MaxRevision /\ (work.at \in {"putState", "stage"} => revision < MaxRevision)

LEMMA StorageTyped == StorageInv /\ StorageBounds => A!TypeOK
<1> SUFFICES ASSUME StorageInv, StorageBounds PROVE A!TypeOK
  OBVIOUS
<1>1. revision \in 0 .. MaxRevision
  BY BoundAssumption DEF StorageInv, StorageTypes, StorageBounds
<1>2. plan = None \/ plan.staged \subseteq plan.cands
  BY DEF StorageInv, Planned
<1>3. gens \in Seq([day : Days, pins : [Records -> Digests \cup {None}]])
  BY DEF StorageInv, StorageTypes, Generations, Pins
<1>4. QED
  BY <1>1, <1>2, <1>3 DEF StorageInv, StorageTypes, Pins, A!TypeOK

LEMMA StorageBoundsStay ==
  ASSUME StorageInv, StorageBounds, A!Next
  PROVE  StorageBounds'
<1>1. revision \in Nat /\ work \in Works /\ MaxRevision \in Nat /\ revision <= MaxRevision
  BY BoundAssumption DEF StorageInv, StorageTypes, StorageBounds
<1>2. ASSUME revision < MaxRevision, revision' = revision + 1, work'.at \notin {"putState", "stage"}
      PROVE  StorageBounds'
  BY <1>1, <1>2 DEF StorageBounds
<1>3. ASSUME UNCHANGED revision,
             work'.at \in {"putState", "stage"} => work.at = work'.at \/ revision < MaxRevision
      PROVE  StorageBounds'
  BY <1>3 DEF StorageBounds
<1>4. A!Idle.at = "idle"
  BY DEF A!Idle
<1>5. \A at : [work EXCEPT !.at = at].at = at /\ [A!Idle EXCEPT !.at = at].at = at
  BY <1>1 DEF Works, A!Idle
<1>6. ASSUME UNCHANGED revision, UNCHANGED work \/ work' = A!Idle PROVE StorageBounds'
  BY <1>3, <1>4, <1>6
<1>7. ASSUME NEW r \in Records, NEW d \in Digests, A!PutObject(r, d) PROVE StorageBounds'
  BY <1>3, <1>7 DEF A!PutObject, A!stateFile
<1>8. ASSUME NEW r \in Records, A!ReleaseState(r) PROVE StorageBounds'
  BY <1>2, <1>8 DEF A!ReleaseState
<1>9. CASE A!PutState
  BY <1>2, <1>5, <1>9 DEF A!PutState, StorageBounds
<1>10. CASE A!CleanupState
  BY <1>2, <1>5, <1>10 DEF A!CleanupState, StorageBounds
<1>11. ASSUME NEW day \in Days, A!CreateGeneration(day) PROVE StorageBounds'
  BY <1>2, <1>4, <1>11 DEF A!CreateGeneration
<1>12. CASE A!Unindex \/ A!CleanupAgain \/ A!CleanupReceipt
  <2>1. UNCHANGED revision /\ work'.at \in {"index", "receipt", "purge"}
    BY <1>5, <1>12 DEF A!Unindex, A!CleanupAgain, A!CleanupReceipt, A!stateFile
  <2>2. QED
    BY <1>3, <2>1
<1>13. CASE A!CleanupStart
  BY <1>3, <1>13 DEF A!CleanupStart, A!stateFile
<1>14. CASE A!Initialize \/ A!ReadForPlan \/ A!ScanForPlan \/ A!DropPlan
  BY <1>6, <1>14 DEF A!Initialize, A!ReadForPlan, A!ScanForPlan, A!DropPlan, A!stateFile
<1>15. CASE A!UpsertIndex \/ A!ReleaseIndex \/ A!CleanupFails \/ A!CleanupPurge \/ A!Killed
  BY <1>6, <1>15
  DEF A!UpsertIndex, A!ReleaseIndex, A!CleanupFails, A!CleanupPurge, A!Killed, A!stateFile
<1>16. ASSUME NEW d \in Digests, A!StageNext(d) PROVE StorageBounds'
  BY <1>6, <1>16 DEF A!StageNext, A!stateFile
<1>17. QED
  BY <1>7, <1>8, <1>9, <1>10, <1>11, <1>12, <1>13, <1>14, <1>15, <1>16 DEF A!Next

LEMMA StorageBounded == Spec => [](focus = "storage" => A!TypeOK)
<1>1. Init => (focus = "storage" => StorageBounds)
  BY BoundAssumption DEF Init, A!Init, A!Idle, StorageBounds
<1>2. (focus = "storage" => StorageInv /\ StorageBounds) /\ [Next]_vars
        => (focus = "storage" => StorageBounds)'
  <2> SUFFICES ASSUME focus = "storage", StorageInv, StorageBounds, [Next]_vars
               PROVE  StorageBounds'
    BY DEF Next, vars
  <2>1. CASE A!Next
    BY <2>1, StorageBoundsStay
  <2>2. CASE UNCHANGED storageVars
    BY <2>2 DEF storageVars, StorageBounds
  <2>3. QED
    BY <2>1, <2>2 DEF Next, vars
<1>3. QED
  BY <1>1, <1>2, StorageInvariant, StorageTyped, PTL DEF Spec

\* A list of the newest n entries has no more than n: all of them but the last
\* come before the last.
LEMMA NewestBounded ==
  ASSUME NEW es \in SUBSET Entries, IsFiniteSet(es), NEW n \in Nat
  PROVE  Cardinality(C!Newest(es, n)) <= n
<1> DEFINE kept == C!Newest(es, n)
           After(e) == {f \in kept : C!Newer(e, f)}
           Afters == {Cardinality(After(e)) : e \in kept}
<1>1. kept \in SUBSET es
  BY DEF C!Newest
<1>2. IsFiniteSet(kept) /\ Cardinality(kept) \in Nat
  BY <1>1, FS_Subset, FS_CardinalityType
<1>3. ASSUME NEW e \in kept
      PROVE  IsFiniteSet(After(e)) /\ Cardinality(After(e)) \in Nat
  <2>1. After(e) \subseteq kept
    OBVIOUS
  <2>2. QED
    BY <1>2, <2>1, FS_Subset, FS_CardinalityType
<1>4. CASE kept = {}
  BY <1>2, <1>4, FS_EmptySet
<1>5. CASE kept # {}
  <2>1. Afters \in SUBSET Nat /\ Afters # {}
    BY <1>3, <1>5
  <2>2. PICK last \in kept : \A e \in kept : Cardinality(After(last)) <= Cardinality(After(e))
    <3>1. \E k \in Afters : \A l \in Afters : k <= l
      <4> HIDE DEF Afters
      <4> QED  BY <2>1, LeastNumber
    <3>2. QED
      BY <3>1
  <2>3. ASSUME NEW f \in After(last) PROVE FALSE
    <3>1. f \in kept /\ C!Newer(last, f)
      OBVIOUS
    <3>2. /\ last.id \in Nat /\ last.key \in Nat /\ last.seq \in Nat
          /\ f.id \in Nat /\ f.key \in Nat /\ f.seq \in Nat
      BY <1>1, <3>1 DEF Entries
    <3>3. ASSUME NEW g \in After(f) PROVE g \in After(last)
      <4>1. g \in kept /\ C!Newer(f, g)
        OBVIOUS
      <4>2. g.id \in Nat /\ g.key \in Nat /\ g.seq \in Nat
        BY <1>1, <4>1 DEF Entries
      <4>3. C!Newer(last, g)
        BY <3>1, <3>2, <4>1, <4>2 DEF C!Newer
      <4>4. QED
        BY <4>1, <4>3
    <3>4. f \notin After(f)
      BY <3>2 DEF C!Newer
    <3>5. After(f) \subseteq After(last) \ {f}
      BY <3>3, <3>4
    <3>6. PICK A1, A2 : A1 = After(last) /\ A2 = After(f)
      OBVIOUS
    <3>7. IsFiniteSet(A1) /\ Cardinality(A1) \in Nat /\ Cardinality(A2) \in Nat
      BY <1>3, <3>1, <3>6
    <3> HIDE DEF After
    <3>8. IsFiniteSet(A1 \ {f}) /\ Cardinality(A1 \ {f}) = Cardinality(A1) - 1
      BY <2>3, <3>6, <3>7, FS_RemoveElement
    <3>9. Cardinality(A2) <= Cardinality(A1 \ {f})
      BY <3>5, <3>6, <3>8, FS_Subset
    <3>10. QED
      BY <2>2, <3>1, <3>6, <3>7, <3>8, <3>9
  <2>4. kept \ {last} \subseteq Before(es, last)
    <3> SUFFICES ASSUME NEW f \in kept, f # last PROVE f \in Before(es, last)
      OBVIOUS
    <3>1. f \in Entries /\ last \in Entries
      BY <1>1
    <3>2. f = [id |-> f.id, key |-> f.key, seq |-> f.seq]
          /\ last = [id |-> last.id, key |-> last.key, seq |-> last.seq]
      BY <3>1 DEF Entries
    <3>3. f.id \in Nat /\ f.key \in Nat /\ f.seq \in Nat
          /\ last.id \in Nat /\ last.key \in Nat /\ last.seq \in Nat
      BY <3>1 DEF Entries
    <3>4. ~(f.id = last.id /\ f.key = last.key /\ f.seq = last.seq)
      BY <3>2
    <3>5. ~C!Newer(last, f)
      BY <2>3
    <3>6. C!Newer(f, last)
      BY <3>3, <3>4, <3>5 DEF C!Newer
    <3>7. QED
      BY <1>1, <3>6 DEF Before
  <2>5. IsFiniteSet(Before(es, last)) /\ Cardinality(Before(es, last)) < n
    <3>1. Before(es, last) \subseteq es
      BY DEF Before
    <3>2. QED
      BY <3>1, FS_Subset, NewestIs
  <2> HIDE DEF kept
  <2>6. Cardinality(kept \ {last}) = Cardinality(kept) - 1
    BY <1>2, FS_RemoveElement
  <2>7. Cardinality(kept \ {last}) <= Cardinality(Before(es, last))
    BY <2>4, <2>5, FS_Subset
  <2>8. Cardinality(Before(es, last)) \in Nat
    BY <2>5, FS_CardinalityType
  <2>9. Cardinality(kept) <= n
    BY <1>2, <2>5, <2>6, <2>7, <2>8
  <2>10. QED
    BY <2>9 DEF kept
<1>6. QED
  BY <1>4, <1>5

\* A combo whose lists are no longer than they may be.
Short(c) == Cardinality(c.recent) <= MaxRecent /\ C!CanActivate(c.active)

\* What is published was short when it was prepared; the native state is within
\* its bounds.
ConnectedBounds ==
  /\ flow.id \in Roadmaps /\ flow.seq <= MaxEvents
  /\ combo # None => Short(combo)
  /\ pub \in Publishing => Short(pub.updated)

LEMMA ConnectedTyped == ConnectedInv /\ ConnectedBounds => C!TypeOK
<1> SUFFICES ASSUME ConnectedInv, ConnectedBounds PROVE C!TypeOK
  OBVIOUS
<1>1. flow.seq \in 0 .. MaxEvents
  BY BoundAssumption DEF ConnectedInv, ConnectedTypes, Flows, ConnectedBounds
<1>2. pub.at \in {"idle", "mkdir", "commit", "view"}
  BY DEF ConnectedInv, ConnectedTypes, Publishing, C!Idle
<1>3. QED
  BY <1>1, <1>2, SameCardinality DEF ConnectedBounds, Short, C!CanActivate, C!TypeOK

\* A completion displaces as much as it adds.
LEMMA UpdateIsShort ==
  ASSUME NEW c, Bounded(c), C!CanActivate(c.active), NEW e \in Entries
  PROVE  Short(C!UpdateCombo(c, e))
<1>1. c \in Combos /\ c.recent \in SUBSET Entries /\ IsFiniteSet(c.recent)
  BY DEF Bounded, Combos
<1>2. PICK es : es = (c.recent \ C!SameKey(c.recent, e)) \cup {e}
  OBVIOUS
<1>3. es \in SUBSET Entries /\ IsFiniteSet(es)
  <2>1. c.recent \ C!SameKey(c.recent, e) \subseteq c.recent
    OBVIOUS
  <2>2. IsFiniteSet(c.recent \ C!SameKey(c.recent, e))
    BY <1>1, <2>1, FS_Subset
  <2>3. QED
    BY <1>1, <1>2, <2>2, FS_AddElement
<1>4. C!UpdateCombo(c, e).recent = C!Newest(es, MaxRecent) /\ C!UpdateCombo(c, e).active = c.active
  BY <1>1, <1>2 DEF C!UpdateCombo, C!BoundedAppend, Combos
<1>5. QED
  BY <1>3, <1>4, NewestBounded, ComboAssumption DEF Short
\* The roadmaps at work do not change the completed ones.
LEMMA ActivateIsShort ==
  ASSUME NEW c, Bounded(c), NEW es, C!CanActivate(es), Cardinality(c.recent) <= MaxRecent
  PROVE  Short(C!SetActiveRoadmaps(c, es))
<1>1. C!SetActiveRoadmaps(c, es).recent = c.recent /\ C!SetActiveRoadmaps(c, es).active = es
  BY DEF Bounded, Combos, C!SetActiveRoadmaps
<1>2. QED
  BY <1>1 DEF Short

\* Nothing can be active, and the first combo is empty.
LEMMA EmptyIsShort == C!CanActivate({}) /\ Short(C!NewCombo)
<1>1. Cardinality({}) = 0
  BY FS_EmptySet
<1>2. C!CanActivate({})
  BY <1>1, SameCardinality, BoundAssumption DEF C!CanActivate
<1>3. C!NewCombo.recent = {} /\ C!NewCombo.active = {}
  BY DEF C!NewCombo
<1>4. QED
  BY <1>1, <1>2, <1>3, ComboAssumption DEF Short

\* What a publisher prepares is short when it may be active.
LEMMA PrepareIsShort ==
  ASSUME flow \in Flows, NEW goal \in BOOLEAN, NEW c, Bounded(c),
         Cardinality(c.recent) <= MaxRecent,
         NEW u, u = C!Prepare(goal, c), C!CanActivate(u.active)
  PROVE  Short(u)
<1>1. PICK e : e = C!Entry
  OBVIOUS
<1>2. e \in Entries /\ c.active \in SUBSET Entries
  BY <1>1, EntryTypes DEF Bounded, Combos
<1>3. PICK others : others = c.active \ C!SameId(c.active, e)
  OBVIOUS
<1>4. PICK cleared : cleared = IF others # c.active THEN C!SetActiveRoadmaps(c, others) ELSE c
  OBVIOUS
<1>5. \/ u = cleared
      \/ u = C!UpdateCombo(cleared, e)
      \/ u = c
      \/ u = C!SetActiveRoadmaps(c, others \cup {e})
  BY <1>1, <1>3, <1>4 DEF C!Prepare
<1>6. others \in SUBSET Entries
  BY <1>2, <1>3
<1>7. Bounded(cleared) /\ cleared.recent = c.recent
  BY <1>4, <1>6, ActiveKeeps
<1>8. CASE u = C!UpdateCombo(cleared, e)
  <2>1. u.active = cleared.active
    BY <1>7, <1>8 DEF Bounded, Combos, C!UpdateCombo
  <2>2. QED
    BY <1>2, <1>7, <1>8, <2>1, UpdateIsShort
<1>9. CASE u = C!SetActiveRoadmaps(c, others \cup {e})
  <2>1. u.recent = c.recent
    BY <1>9 DEF Bounded, Combos, C!SetActiveRoadmaps
  <2>2. QED
    BY <2>1 DEF Short
<1>10. CASE u = cleared \/ u = c
  BY <1>7, <1>10 DEF Short
<1>11. QED
  BY <1>5, <1>8, <1>9, <1>10

LEMMA ConnectedBoundsStay ==
  ASSUME ConnectedInv, ConnectedBounds, C!Next
  PROVE  ConnectedBounds'
<1>1. /\ flow \in Flows /\ (combo # None => Bounded(combo))
      /\ pub \in Publishing \cup {C!Idle} /\ cli \in Commanding \cup {C!Idle}
  BY DEF ConnectedInv, ConnectedTypes
<1>2. C!Idle \notin Publishing
  BY DEF C!Idle, Publishing
<1>3. ASSUME UNCHANGED flow, combo' = combo \/ (combo' # None /\ Short(combo')),
             pub' = pub \/ pub' = C!Idle \/ Short(pub'.updated)
      PROVE  ConnectedBounds'
  <2>1. flow'.id \in Roadmaps /\ flow'.seq <= MaxEvents
    BY <1>3 DEF ConnectedBounds
  <2>2. combo' # None => Short(combo')
    BY <1>3 DEF ConnectedBounds
  <2>3. pub' \in Publishing => Short(pub'.updated)
    BY <1>2, <1>3 DEF ConnectedBounds
  <2>4. QED
    BY <2>1, <2>2, <2>3 DEF ConnectedBounds, Short, C!CanActivate
<1>4. ASSUME flow'.id \in Roadmaps, flow'.seq <= MaxEvents, UNCHANGED <<combo, pub>>
      PROVE  ConnectedBounds'
  BY <1>4 DEF ConnectedBounds, Short, C!CanActivate
<1>5. CASE C!Advance
  <2>1. PICK f : f = flow
    OBVIOUS
  <2>2. PICK complete \in BOOLEAN : flow' = [f EXCEPT !.seq = f.seq + 1, !.complete = complete]
    BY <1>5, <2>1 DEF C!Advance
  <2>3. flow'.id = f.id /\ flow'.seq = f.seq + 1
    BY <1>1, <2>1, <2>2 DEF Flows
  <2>4. f.seq \in Nat /\ f.seq < MaxEvents
    BY <1>1, <1>5, <2>1 DEF Flows, C!Advance
  <2>5. flow'.id \in Roadmaps /\ flow'.seq <= MaxEvents
    BY <2>1, <2>3, <2>4, BoundAssumption DEF ConnectedBounds
  <2>6. QED
    BY <1>4, <1>5, <2>5 DEF C!Advance
<1>6. CASE C!StartFlow
  <2>1. flow'.id \in Roadmaps /\ flow'.seq <= MaxEvents
    BY <1>6, BoundAssumption DEF C!StartFlow
  <2>2. QED
    BY <1>4, <1>6, <2>1 DEF C!StartFlow
<1>7. ASSUME NEW goal \in BOOLEAN, C!PublishStart(goal) PROVE ConnectedBounds'
  <2>1. PICK base : base = IF combo = None THEN C!NewCombo ELSE combo
    OBVIOUS
  <2>2. PICK updated : updated = C!Prepare(goal, base)
    OBVIOUS
  <2>3. /\ C!CanActivate(updated.active)
        /\ pub' = [at |-> IF updated = base THEN "view" ELSE "mkdir", goal |-> goal,
                   base |-> base, updated |-> updated, expected |-> None]
    BY <1>7, <2>1, <2>2 DEF C!PublishStart
  <2>4. Bounded(base) /\ Short(base)
    BY <1>1, <2>1, NewComboBounded, EmptyIsShort DEF ConnectedBounds
  <2>5. Short(updated)
    BY <1>1, <2>2, <2>3, <2>4, PrepareIsShort DEF Short
  <2>6. pub'.updated = updated
    BY <2>3
  <2>7. QED
    BY <1>3, <1>7, <2>5, <2>6 DEF C!PublishStart
<1>8. CASE C!PublishRoot
  <2>1. PICK p : p = pub
    OBVIOUS
  <2>2. p \in Publishing
    BY <1>1, <1>8, <2>1 DEF C!PublishRoot, C!Idle
  <2>3. pub' = [p EXCEPT !.at = "commit", !.expected = IF rooted THEN p.base ELSE None]
    BY <1>8, <2>1 DEF C!PublishRoot
  <2>4. pub'.updated = p.updated
    BY <2>2, <2>3 DEF Publishing
  <2>5. Short(pub'.updated)
    BY <2>1, <2>2, <2>4 DEF ConnectedBounds
  <2>6. QED
    BY <1>3, <1>8, <2>5 DEF C!PublishRoot
<1>9. ASSUME NEW expected, NEW u, u # None, Short(u), NEW added, C!WriteCombo(expected, u, added)
      PROVE  combo' = combo \/ (combo' # None /\ Short(combo'))
  <2>1. combo' = combo \/ combo' = u
    BY <1>9 DEF C!WriteCombo, C!Commit
  <2>2. QED
    BY <1>9, <2>1
<1>10. CASE C!PublishCombo
  <2>1. PICK p : p = pub
    OBVIOUS
  <2>2. p \in Publishing /\ Short(p.updated)
    BY <1>1, <1>10, <2>1 DEF C!PublishCombo, C!Idle, ConnectedBounds
  <2>3. p.updated # None
    BY <2>2, CombosAreSome DEF Publishing
  <2>4. combo' = combo \/ (combo' # None /\ Short(combo'))
    BY <1>9, <1>10, <2>1, <2>2, <2>3 DEF C!PublishCombo
  <2>5. pub' = [p EXCEPT !.at = "view"] \/ pub' = C!Idle
    BY <1>10, <2>1 DEF C!PublishCombo
  <2>6. pub' = C!Idle \/ Short(pub'.updated)
    BY <2>2, <2>5 DEF Publishing
  <2>7. QED
    BY <1>3, <1>10, <2>4, <2>6 DEF C!PublishCombo
<1>11. CASE C!PublishView \/ C!PublisherKilled
  BY <1>3, <1>11 DEF C!PublishView, C!PublisherKilled
<1>12. CASE C!ComboInit
  <2>1. C!NewCombo # None
    BY NewComboBounded, CombosAreSome DEF Bounded
  <2>2. combo' = combo \/ (combo' # None /\ Short(combo'))
    BY <1>9, <1>12, <2>1, EmptyIsShort DEF C!ComboInit
  <2>3. QED
    BY <1>3, <1>12, <2>2 DEF C!ComboInit
<1>13. ASSUME NEW e \in OwnerEntries, C!ComboRead(e) PROVE ConnectedBounds'
  BY <1>3, <1>13 DEF C!ComboRead
<1>14. CASE C!ComboUpdate \/ C!ComboActive
  <2>1. PICK c : c = cli
    OBVIOUS
  <2>2. c \in Commanding
    BY <1>1, <1>14, <2>1 DEF C!ComboUpdate, C!ComboActive, C!Idle
  <2>3. c.entry \in Entries /\ c.base # None
    BY <2>2, CombosAreSome, ComboAssumption DEF Commanding, Entries
  <2>4. PICK u : /\ u \in {C!UpdateCombo(c.base, c.entry), C!SetActiveRoadmaps(c.base, {})}
                 /\ combo' = combo \/ (combo = c.base /\ combo' = u)
    BY <1>14, <2>1 DEF C!ComboUpdate, C!ComboActive, C!WriteCombo, C!Commit
  <2>5. CASE combo = c.base /\ combo' = u
    <3>1. Bounded(c.base) /\ Short(c.base)
      BY <1>1, <2>3, <2>5 DEF ConnectedBounds
    <3>2. Short(u)
      BY <2>3, <2>4, <3>1, UpdateIsShort, ActivateIsShort, EmptyIsShort DEF Short
    <3>3. Bounded(u)
      BY <2>3, <2>4, <3>1, UpdateKeeps, ActiveKeeps
    <3>4. combo' # None
      BY <2>5, <3>3, CombosAreSome DEF Bounded
    <3>5. UNCHANGED <<flow, pub>>
      BY <1>14 DEF C!ComboUpdate, C!ComboActive
    <3>6. QED
      BY <1>3, <2>5, <3>2, <3>4, <3>5
  <2>6. CASE combo' = combo
    BY <1>3, <1>14, <2>6 DEF C!ComboUpdate, C!ComboActive
  <2>7. QED
    BY <2>4, <2>5, <2>6
<1>15. CASE C!ReadFlow \/ C!ReadView \/ C!ReadCombo \/ C!Answered
  BY <1>3, <1>15 DEF C!ReadFlow, C!ReadView, C!ReadCombo, C!Answered
<1>16. QED
  BY <1>5, <1>6, <1>7, <1>8, <1>10, <1>11, <1>12, <1>13, <1>14, <1>15 DEF C!Next

LEMMA ConnectedBounded == Spec => []C!TypeOK
<1>1. Init => ConnectedBounds
  <2> SUFFICES ASSUME C!Init PROVE ConnectedBounds
    BY DEF Init
  <2>1. flow.id = 1 /\ flow.seq = 0 /\ combo = None /\ pub \notin Publishing
    BY DEF C!Init, C!Idle, Publishing
  <2>2. QED
    BY <2>1, BoundAssumption DEF ConnectedBounds
<1>2. ConnectedInv /\ ConnectedBounds /\ [Next]_vars => ConnectedBounds'
  <2> SUFFICES ASSUME ConnectedInv, ConnectedBounds, [Next]_vars PROVE ConnectedBounds'
    OBVIOUS
  <2>1. CASE C!Next
    BY <2>1, ConnectedBoundsStay
  <2>2. CASE UNCHANGED connectedVars
    BY <2>2 DEF connectedVars, ConnectedBounds, Short, C!CanActivate
  <2>3. QED
    BY <2>1, <2>2 DEF Next, vars
<1>3. Init => ConnectedInv
  BY ConnectedInit DEF Init
<1>4. ConnectedInv /\ [Next]_vars => ConnectedInv'
  BY ConnectedStep DEF Next, vars, connectedVars
<1>5. QED
  BY <1>1, <1>2, <1>3, <1>4, ConnectedTyped, PTL DEF Spec

\* Whichever durable store runs keeps to its types and bounds: counters, queue
\* and index states, the lengths of the combo's lists, and a lock that is held
\* exactly by the source that writes an evidence object.
THEOREM StoresTyped == Spec => []TypeOK
<1>1. (focus = "connected" => C!TypeOK) /\ (focus = "storage" => A!TypeOK)
      /\ (focus = "goal" => G!TypeOK) /\ (focus = "outcome" => O!TypeOK)
      /\ (focus = "handoff" => H!TypeOK) /\ (focus = "queue" => Q!TypeOK)
      /\ (focus = "navigation" => N!ValidIndex) => TypeOK
  BY DEF TypeOK
<1>2. (focus = "goal" => GoalInv) => (focus = "goal" => G!TypeOK)
  BY GoalTyped
<1>3. (focus = "navigation" => NavigationInv) => (focus = "navigation" => N!ValidIndex)
  BY IndexValid
<1>4. C!TypeOK => (focus = "connected" => C!TypeOK)
  OBVIOUS
<1>5. QED
  BY <1>1, <1>2, <1>3, <1>4, ConnectedBounded, StorageBounded, GoalInvariant, OutcomeBounded,
     HandoffBounded, QueueBounded, NavigationInvariant, PTL
=============================================================================
