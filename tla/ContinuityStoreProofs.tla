----------------------- MODULE ContinuityStoreProofs -----------------------
(***************************************************************************)
(* The continuity store, for any number of hosts, any roadmap without a    *)
(* cycle and any bounds: its types, the promise that a repeated advance is *)
(* applied once, the health of the files as long as nobody is killed, and  *)
(* the roadmap the ledger implements.                                      *)
(***************************************************************************)
EXTENDS ContinuityStore, FiniteSetTheorems, WellFoundedInduction, TLAPS

-----------------------------------------------------------------------------
(***************************************************************************)
(* Ready assignments                                                       *)
(***************************************************************************)
LEMMA LeastNat ==
  ASSUME NEW T \in SUBSET Nat, T # {}
  PROVE  \E x \in T : \A y \in T : x <= y
<1>1. IsWellFoundedOn(OpToRel(<, Nat), Nat)
  BY NatLessThanWellFounded
<1>2. PICK x \in T : \A y \in T : ~ (<<y, x>> \in OpToRel(<, Nat))
  BY <1>1, WFMin
<1>3. \A y \in T : ~ (y < x)
  BY <1>2 DEF OpToRel
<1>4. QED
  BY <1>3

LEMMA MinIn ==
  ASSUME NEW T \in SUBSET Nat, T # {}
  PROVE  Min(T) \in T
BY LeastNat DEF Min

\* Because the dependencies have no cycle, something is ready until all is done.
LEMMA SomethingReady ==
  ASSUME NEW d \in SUBSET Assignments, d # Assignments
  PROVE  Ready(d, {}) # {}
<1> DEFINE left == Assignments \ d
           T == {Depth[a] : a \in left}
<1>1. T \in SUBSET Nat /\ T # {}
  BY RoadmapAssumption
<1>2. PICK n \in T : \A m \in T : n <= m
  BY <1>1, LeastNat
<1>3. PICK a \in left : n = Depth[a]
  BY <1>2
<1>4. \A b \in left : Depth[a] <= Depth[b]
  BY <1>2, <1>3
<1>5. DependsOn[a] \subseteq d
  <2>1. SUFFICES ASSUME NEW b \in DependsOn[a], b \notin d PROVE FALSE
    OBVIOUS
  <2>2. b \in left /\ Depth[b] < Depth[a] /\ Depth[a] \in Nat /\ Depth[b] \in Nat
    BY <2>1, RoadmapAssumption
  <2>3. QED
    BY <2>2, <1>4
<1>6. QED
  BY <1>5 DEF Ready

LEMMA ReadyIn ==
  ASSUME NEW d, NEW s, Ready(d, s) # {}
  PROVE  Min(Ready(d, s)) \in Ready(d, s) /\ Min(Ready(d, s)) \in Assignments
<1>1. Ready(d, s) \in SUBSET Nat /\ Ready(d, s) \subseteq Assignments
  BY RoadmapAssumption DEF Ready, Assignments
<1>2. QED
  BY <1>1, MinIn

-----------------------------------------------------------------------------
(***************************************************************************)
(* Typing                                                                  *)
(***************************************************************************)
LEMMA NoLedgerType == NoLedger \in Ledgers
<1>1. << >> \in Seq(Reasons)
  OBVIOUS
<1>2. QED
  BY <1>1 DEF NoLedger, Ledgers

LEMMA StartedIs ==
  /\ Started \in Ledgers
  /\ Started.status = "RUNNING" /\ Started.current \in Ready({}, {})
  /\ Started.current \in Assignments /\ Started.done = {} /\ Started.skipped = {}
  /\ Started.failures = << >> /\ ~Started.stranded
  /\ Started.claims = [a \in Assignments |-> NoHost]
<1>1. Assignments # {}
  BY RoadmapAssumption DEF Assignments
<1>2. Ready({}, {}) # {}
  BY <1>1, SomethingReady
<1>3. Min(Ready({}, {})) \in Ready({}, {}) /\ Min(Ready({}, {})) \in Assignments
  BY <1>2, ReadyIn
<1>4. << >> \in Seq(Reasons)
  OBVIOUS
<1>5. QED
  BY <1>3, <1>4 DEF Started, NoLedger, Ledgers

LEMMA LeaveIs ==
  ASSUME NEW l \in Ledgers, NEW d \in SUBSET Assignments, NEW s \in SUBSET Assignments
  PROVE  /\ Leave(l, d, s) \in Ledgers
         /\ Leave(l, d, s).done = d
         /\ Leave(l, d, s).skipped = IF Classified THEN s ELSE {}
         /\ Leave(l, d, s).failures = << >>
         /\ Leave(l, d, s).claims = l.claims
         /\ Leave(l, d, s).stranded = l.stranded
         /\ Leave(l, d, s).current = IF Ready(d, s) = {} THEN 0 ELSE Min(Ready(d, s))
         /\ Leave(l, d, s).status =
              IF Ready(d, s) # {} THEN "RUNNING" ELSE IF s = {} THEN "COMPLETE" ELSE "BLOCKED"
<1> DEFINE next == Ready(d, s)
<1>1. next # {} => Min(next) \in next /\ Min(next) \in Assignments
  BY ReadyIn
<1>2. << >> \in Seq(Reasons)
  OBVIOUS
<1> HIDE DEF next
<1>3. Leave(l, d, s) =
        [l EXCEPT
          !.done = d,
          !.skipped = IF Classified THEN s ELSE {},
          !.failures = << >>,
          !.current = IF next = {} THEN 0 ELSE Min(next),
          !.status = IF next # {} THEN "RUNNING" ELSE IF s = {} THEN "COMPLETE" ELSE "BLOCKED"]
  BY DEF Leave, next
<1>4. CASE next = {}
  BY <1>2, <1>3, <1>4 DEF Ledgers, next
<1>5. CASE next # {}
  BY <1>1, <1>2, <1>3, <1>5 DEF Ledgers, next
<1>6. QED
  BY <1>4, <1>5

LEMMA CallsAre ==
  ASSUME NEW h \in Hosts, NEW c \in Calls(h)
  PROVE  /\ c.by = h /\ c # NoCall /\ c \in AllCalls
         /\ c.op \in {"pass", "fail", "claim", "checkpoint", "park", "return"}
         /\ c.op = "fail" => c.item \in Reasons
         /\ c.op = "checkpoint" => c.item \in Points
         /\ c.op \in {"park", "return"} => c.item \in Inputs
<1>0. NoCall.by \notin Hosts
  BY BoundAssumption DEF NoCall
<1>1. c.by = h /\ c # NoCall
  <2>1. c.by = h
    BY DEF Calls
  <2>2. QED
    BY <1>0, <2>1
<1>2. c \in AllCalls
  BY DEF AllCalls
<1>3. QED
  BY <1>1, <1>2 DEF Calls

LEMMA FailingIs ==
  ASSUME NEW l \in Ledgers, NEW r \in Reasons, NEW n \in {3, 4}
  PROVE  /\ Failing(l, r, n) \in Ledgers
         /\ Failing(l, r, n).done = l.done /\ Failing(l, r, n).skipped = l.skipped
         /\ Failing(l, r, n).claims = l.claims /\ Failing(l, r, n).stranded = l.stranded
         /\ Failing(l, r, n).current = l.current
         /\ Len(Failing(l, r, n).failures) = Len(l.failures) + 1 /\ Len(l.failures) \in Nat
         /\ Failing(l, r, n).status =
              IF Len(l.failures) + 1 = n THEN "BLOCKED" ELSE "RECOVERY_REQUIRED"
<1> DEFINE more == Append(l.failures, r)
<1>1. l.failures \in Seq(Reasons)
  BY DEF Ledgers
<1>2. more \in Seq(Reasons) /\ Len(more) = Len(l.failures) + 1 /\ Len(l.failures) \in Nat
  BY <1>1
<1> HIDE DEF more
<1>3. Failing(l, r, n) =
        [l EXCEPT
          !.failures = more,
          !.status = IF Len(l.failures) + 1 = n THEN "BLOCKED" ELSE "RECOVERY_REQUIRED"]
  BY DEF Failing, more, Ledgers
<1>4. QED
  BY <1>2, <1>3 DEF Ledgers

\* What a failed attempt does: it skips a standalone assignment, or counts.
LEMMA FailedIs ==
  ASSUME NEW l \in Ledgers, NEW r \in Reasons, l.current \in Assignments
  PROVE  LET f == Failed(l, r)
             n == IF Class[l.current] = "NONE" THEN 3 ELSE 4
         IN \/ /\ Class[l.current] = "STANDALONE" /\ Len(l.failures) = 3
               /\ f = Leave(l, l.done, l.skipped \cup {l.current})
            \/ /\ f = [l EXCEPT !.status = "BLOCKED"]
               /\ Len(l.failures) = 2
            \/ /\ f = Failing(l, r, n)
<1>1. CASE Class[l.current] = "NONE"
  <2>1. Failed(l, r) = FailedLegacy(l, r)
    BY <1>1 DEF Failed
  <2>2. CASE l.failures = <<r, r>>
    BY <2>1, <2>2 DEF FailedLegacy
  <2>3. CASE l.failures # <<r, r>>
    BY <1>1, <2>1, <2>3 DEF FailedLegacy
  <2>4. QED
    BY <2>2, <2>3
<1>2. CASE Class[l.current] = "STANDALONE" /\ Len(l.failures) = 3
  BY <1>2 DEF Failed
<1>3. CASE /\ ~ (Class[l.current] = "NONE")
           /\ ~ (Class[l.current] = "STANDALONE" /\ Len(l.failures) = 3)
  BY <1>3 DEF Failed
<1>4. QED
  BY <1>1, <1>2, <1>3

LEMMA PassedIs ==
  ASSUME NEW l \in Ledgers, l.current \in Assignments
  PROVE  LET a == Leave(l, l.done \cup {l.current}, l.skipped) IN
         /\ Passed(l) = [a EXCEPT !.stranded = a.status = "BLOCKED"]
         /\ Passed(l) \in Ledgers
<1> DEFINE a == Leave(l, l.done \cup {l.current}, l.skipped)
<1>1. l.done \cup {l.current} \in SUBSET Assignments /\ l.skipped \in SUBSET Assignments
  BY DEF Ledgers
<1>2. a \in Ledgers
  BY <1>1, LeaveIs
<1>3. Passed(l) = [a EXCEPT !.stranded = a.status = "BLOCKED"]
  BY DEF Passed
<1> HIDE DEF a
<1>4. Passed(l) \in Ledgers
  BY <1>2, <1>3 DEF Ledgers
<1>5. QED
  BY <1>3, <1>4 DEF a

\* Whatever an advance does, an assignment that passes is the only one done more,
\* and the flow is healthy to read unless it is blocked.
LEMMA AfterIs ==
  ASSUME NEW l \in Ledgers, l.current \in Assignments,
         NEW h \in Hosts, NEW c \in Calls(h), c.op \in {"pass", "fail"}
  PROVE  /\ After(l, c) \in Ledgers /\ After(l, c).claims = l.claims
         /\ After(l, c).done = IF c.op = "pass" THEN l.done \cup {l.current} ELSE l.done
         /\ After(l, c).status # "BLOCKED" /\ ~l.stranded => ~After(l, c).stranded
<1>1. CASE c.op = "pass"
  <2> DEFINE d == l.done \cup {l.current}
             s == l.skipped
             a == Leave(l, d, s)
  <2>1. d \in SUBSET Assignments /\ s \in SUBSET Assignments
    BY DEF Ledgers
  <2>2. After(l, c) = [a EXCEPT !.stranded = a.status = "BLOCKED"] /\ After(l, c) \in Ledgers
    BY <1>1, PassedIs DEF After
  <2> HIDE DEF d, s
  <2>3. a \in Ledgers /\ a.done = d /\ a.claims = l.claims
    BY <2>1, LeaveIs
  <2> HIDE DEF a
  <2>4. After(l, c).claims = a.claims /\ After(l, c).done = a.done
        /\ After(l, c).status = a.status /\ After(l, c).stranded = (a.status = "BLOCKED")
    BY <2>2, <2>3 DEF Ledgers
  <2>5. QED
    BY <1>1, <2>2, <2>3, <2>4 DEF d
<1>2. CASE c.op = "fail"
  <2> DEFINE s == l.skipped \cup {l.current}
  <2>1. After(l, c) = Failed(l, c.item) /\ c.item \in Reasons
    BY <1>2, CallsAre DEF After
  <2>2. l.done \in SUBSET Assignments /\ s \in SUBSET Assignments
    BY DEF Ledgers
  <2> HIDE DEF s
  <2>3. CASE After(l, c) = Leave(l, l.done, s)
    BY <1>2, <2>2, <2>3, LeaveIs
  <2>4. CASE After(l, c) = [l EXCEPT !.status = "BLOCKED"]
    BY <1>2, <2>4 DEF Ledgers
  <2>5. CASE \E k \in {3, 4} : After(l, c) = Failing(l, c.item, k)
    BY <1>2, <2>1, <2>5, FailingIs
  <2>6. QED
    BY <2>1, <2>3, <2>4, <2>5, FailedIs DEF s
<1>3. QED
  BY <1>1, <1>2

-----------------------------------------------------------------------------
(***************************************************************************)
(* Typing: a call belongs to its host, a host that has no answer has an    *)
(* advance to repeat, and an advance works on an assignment.               *)
(***************************************************************************)
Reading == {"loaded", "handed", "prepared"}
Advanced == {"appended", "cleared", "cached", "saved", "answering"}

Called(h) ==
  /\ call[h] \in Calls(h) \cup {NoCall}
  /\ pc[h] \notin {"idle", "starting"} => call[h] # NoCall
  /\ pc[h] \in {"idle", "starting"} /\ h \notin doubt => call[h] = NoCall
  /\ h \in doubt \/ pc[h] \in Reading \cup Advanced => Advancing(h)

Placed(h) ==
  /\ pc[h] \notin {"idle", "starting"} => exists
  /\ pc[h] \in Reading => Active(basis[h])
  /\ pc[h] = "starting" => made < MaxStores /\ doubt = {} /\ ~exists
                             /\ \A g \in Hosts \ {h} : pc[g] = "idle"

TypeInv ==
  /\ TypeOK
  /\ \A h \in Hosts : Called(h)
  /\ \A h \in Hosts : Placed(h)
  /\ IsFiniteSet(Known)

(***************************************************************************)
(* Once: whoever works holds the lock; a pending result is that of a host  *)
(* that still asks for it; and an advance has landed exactly when its host *)
(* is past the append or can find its result.                              *)
(***************************************************************************)
Locking == \A h \in Hosts : flock = h <=> pc[h] \in InLock

Kept ==
  /\ pending # NoCall =>
       /\ pending.by \in Hosts /\ call[pending.by] = pending
       /\ pending.op \in {"pass", "fail"}
       /\ pc[pending.by] \in {"idle", "lock", "locked", "saved"}
  /\ \A h \in Hosts :
       /\ pc[h] \in Reading \cup {"appended", "cleared", "cached"} => pending = NoCall
       /\ pc[h] = "saved" => pending = call[h]

Landed(h) ==
  landed[h] = IF pc[h] \in Advanced \/ (pending # NoCall /\ pending = call[h]) THEN 1 ELSE 0

OnceInv == Locking /\ Kept /\ \A h \in Hosts \ lapses : Landed(h)

(***************************************************************************)
(* Health: what each step of the lock's holder has made of the files.      *)
(***************************************************************************)
Quiet == \A h \in Hosts : pc[h] \notin InLock \ {"locked"}

Emptied ==
  /\ ledger = NoLedger /\ handoffs = {} /\ claimFile = [a \in Assignments |-> NoHost]
  /\ \A h \in Hosts : pc[h] \in {"idle", "starting"}

Handed(h) == IF call[h].op = "pass" THEN ledger.done \cup {ledger.current} ELSE ledger.done

Selected(h) ==
  LET next == After(ledger, call[h]).current IN
  IF next # 0 \/ call[h].op = "fail" THEN next ELSE ledger.current

Bound == claimFile = ledger.claims /\ ~ledger.stranded

Halfway(h) ==
  /\ pc[h] \in Reading => basis[h] = ledger /\ Bound
  /\ pc[h] = "loaded" => context = ledger.current /\ handoffs = ledger.done
  /\ pc[h] = "handed" => context = ledger.current /\ handoffs = Handed(h)
  /\ pc[h] = "prepared" => context = Selected(h) /\ handoffs = Handed(h)
  /\ pc[h] = "appended" /\ ledger.status # "BLOCKED" =>
       Bound /\ handoffs = ledger.done /\ context \in {ledger.current} \cup
         (IF ledger.current = 0 THEN Assignments ELSE {})
  /\ pc[h] \in {"cleared", "cached"} /\ ledger.status # "BLOCKED" => Loads
  /\ pc[h] = "cached" => cache = ledger
  /\ pc[h] = "claimed" => /\ ledger.current \in Assignments
                          /\ claimFile = [ledger.claims EXCEPT ![ledger.current] = h]
                          /\ context = ledger.current /\ handoffs = ledger.done
                          /\ ~ledger.stranded
  /\ pc[h] = "noted" => Loads

HealthInv ==
  "kill" \notin lapses =>
    /\ IF exists THEN Quiet /\ ledger.status # "BLOCKED" => Healthy ELSE Emptied
    /\ \A h \in Hosts : Halfway(h)

(***************************************************************************)
(* The roadmap                                                             *)
(***************************************************************************)
Limit(a) == IF Class[a] = "NONE" THEN 3 ELSE 4

LEMMA NoCallIs == NoCall.op = "none" /\ NoCall.by = NoHost /\ NoHost \notin Hosts
BY BoundAssumption DEF NoCall

LEMMA AnchorsAre ==
  ASSUME NEW x \in Anchors
  PROVE  x # NoAnchor
BY BoundAssumption DEF Anchors, NoAnchor

LEMMA TypeInit == Init => TypeInv
<1> SUFFICES ASSUME Init PROVE TypeInv
  OBVIOUS
<1>1. TypeOK
  <2>1. made \in 0 .. MaxStores
    BY BoundAssumption DEF Init
  <2>2. ledger \in Ledgers /\ cache \in Ledgers /\ basis \in [Hosts -> Ledgers]
    BY NoLedgerType DEF Init
  <2>3. exists \in BOOLEAN
    BY DEF Init
  <2>4. landed \in [Hosts -> Nat]
    BY DEF Init
  <2>5. QED
    BY <2>1, <2>2, <2>3, <2>4 DEF Init, TypeOK, Pcs
<1>2. \A h \in Hosts : Called(h) /\ Placed(h)
  BY DEF Init, Called, Placed, Reading, Advanced
<1>3. Known = {}
  BY DEF Init, Known
<1>4. QED
  BY <1>1, <1>2, <1>3, FS_EmptySet DEF TypeInv

\* The steps that end a command, and those that only move it on.
LEMMA MoveTypes ==
  ASSUME TypeInv, NEW h \in Hosts,
         \/ Retry(h) \/ TakeLock(h) \/ LockRefused(h) \/ ReplayPending(h) \/ PendingRefused(h)
         \/ AdvanceRefused(h) \/ ClearContext(h) \/ CacheState(h) \/ SavePending(h)
         \/ RemovePending(h) \/ Answer(h) \/ NothingToDo(h) \/ CacheNoted(h)
  PROVE  TypeInv'
<1> USE DEF place, files, bound, inputs, session, Goto, Settle, Postpone, Forget, Release
<1>1. TypeOK'
  <2> USE NoLedgerType, NoCallIs DEF TypeInv, TypeOK, Pcs, InLock, Called
  <2>1. CASE Retry(h) BY <2>1 DEF Retry
  <2>2. CASE TakeLock(h) BY <2>2 DEF TakeLock
  <2>3. CASE LockRefused(h) BY <2>3 DEF LockRefused
  <2>4. CASE ReplayPending(h) BY <2>4 DEF ReplayPending
  <2>5. CASE PendingRefused(h) BY <2>5 DEF PendingRefused
  <2>6. CASE AdvanceRefused(h) BY <2>6 DEF AdvanceRefused
  <2>7. CASE ClearContext(h) BY <2>7 DEF ClearContext
  <2>8. CASE CacheState(h) BY <2>8 DEF CacheState
  <2>9. CASE SavePending(h) BY <2>9, CallsAre DEF SavePending
  <2>10. CASE RemovePending(h) BY <2>10 DEF RemovePending
  <2>11. CASE Answer(h) BY <2>11 DEF Answer
  <2>12. CASE NothingToDo(h) BY <2>12 DEF NothingToDo
  <2>13. CASE CacheNoted(h) BY <2>13 DEF CacheNoted
  <2>14. QED
    BY <2>1, <2>2, <2>3, <2>4, <2>5, <2>6, <2>7, <2>8, <2>9, <2>10, <2>11, <2>12, <2>13
<1>2. \A g \in Hosts : Called(g)' /\ Placed(g)'
  <2> SUFFICES ASSUME NEW g \in Hosts PROVE Called(g)' /\ Placed(g)'
    OBVIOUS
  <2> USE NoCallIs DEF TypeInv, TypeOK, Called, Placed, Reading, Advanced, Advancing, Open
  <2>1. CASE Retry(h) BY <2>1 DEF Retry
  <2>2. CASE TakeLock(h) BY <2>2 DEF TakeLock
  <2>3. CASE LockRefused(h) BY <2>3 DEF LockRefused
  <2>4. CASE ReplayPending(h) BY <2>4 DEF ReplayPending
  <2>5. CASE PendingRefused(h) BY <2>5 DEF PendingRefused
  <2>6. CASE AdvanceRefused(h) BY <2>6 DEF AdvanceRefused
  <2>7. CASE ClearContext(h) BY <2>7 DEF ClearContext
  <2>8. CASE CacheState(h) BY <2>8 DEF CacheState
  <2>9. CASE SavePending(h) BY <2>9 DEF SavePending
  <2>10. CASE RemovePending(h) BY <2>10 DEF RemovePending
  <2>11. CASE Answer(h) BY <2>11 DEF Answer
  <2>12. CASE NothingToDo(h) BY <2>12 DEF NothingToDo
  <2>13. CASE CacheNoted(h) BY <2>13 DEF CacheNoted
  <2>14. QED
    BY <2>1, <2>2, <2>3, <2>4, <2>5, <2>6, <2>7, <2>8, <2>9, <2>10, <2>11, <2>12, <2>13
<1>3. Known' = Known
  BY DEF Retry, TakeLock, LockRefused, ReplayPending, PendingRefused, AdvanceRefused,
         ClearContext, CacheState, SavePending, RemovePending, Answer, NothingToDo, CacheNoted,
         Known
<1>4. QED
  BY <1>1, <1>2, <1>3 DEF TypeInv

\* An advance works on an assignment, and what it writes is typed.
LEMMA AdvanceTypes ==
  ASSUME TypeInv, NEW h \in Hosts,
         Load(h) \/ WriteHandoff(h) \/ PrepareSelection(h) \/ AppendEvents(h)
  PROVE  TypeInv'
<1> USE DEF place, files, bound, inputs, session, Goto, Postpone, Forget, Release
<1>1. /\ basis[h] \in Ledgers /\ call[h] \in Calls(h) \cup {NoCall}
      /\ pc[h] \in Reading => /\ Advancing(h) /\ call[h] \in Calls(h)
                              /\ Active(basis[h]) /\ basis[h].current \in Assignments
  <2>1. pc[h] \in Reading => Advancing(h) /\ call[h] \in Calls(h) /\ Active(basis[h])
    BY NoCallIs DEF TypeInv, Called, Placed, Advancing
  <2>2. basis[h] \in Ledgers
    BY DEF TypeInv, TypeOK
  <2>3. Active(basis[h]) => basis[h].current \in Assignments
    BY <2>2 DEF Active, Ledgers
  <2>4. QED
    BY <2>1, <2>2, <2>3 DEF TypeInv, Called
<1>2. pc[h] \in Reading => After(basis[h], call[h]) \in Ledgers
  BY <1>1, AfterIs DEF Advancing
<1>3. pc[h] \in Reading => After(basis[h], call[h]).current \in Assignments \cup {0}
  BY <1>2 DEF Ledgers
<1>4. CASE Load(h)
  <2>1. TypeOK'
    BY <1>4 DEF Load, TypeInv, TypeOK, Pcs, InLock
  <2>2. Active(ledger)
    BY <1>4 DEF Load, MayAdvance
  <2>3. \A g \in Hosts : Called(g)' /\ Placed(g)'
    BY <1>4, <2>2 DEF Load, TypeInv, TypeOK, Called, Placed, Reading, Advanced, Advancing
  <2>4. Known' = Known
    BY <1>4 DEF Load, Known
  <2>5. QED
    BY <2>1, <2>3, <2>4 DEF TypeInv
<1>5. CASE WriteHandoff(h)
  <2>1. TypeOK'
    BY <1>1, <1>5 DEF WriteHandoff, TypeInv, TypeOK, Pcs, InLock, Reading
  <2>2. \A g \in Hosts : Called(g)' /\ Placed(g)'
    BY <1>5 DEF WriteHandoff, TypeInv, TypeOK, Called, Placed, Reading, Advanced, Advancing
  <2>3. Known' = Known
    BY <1>5 DEF WriteHandoff, Known
  <2>4. QED
    BY <2>1, <2>2, <2>3 DEF TypeInv
<1>6. CASE PrepareSelection(h)
  <2>1. TypeOK'
    BY <1>3, <1>6 DEF PrepareSelection, TypeInv, TypeOK, Pcs, InLock, Reading
  <2>2. \A g \in Hosts : Called(g)' /\ Placed(g)'
    BY <1>6 DEF PrepareSelection, TypeInv, TypeOK, Called, Placed, Reading, Advanced, Advancing
  <2>3. Known' = Known
    BY <1>6 DEF PrepareSelection, Known
  <2>4. QED
    BY <2>1, <2>2, <2>3 DEF TypeInv
<1>7. CASE AppendEvents(h)
  <2>1. TypeOK'
    BY <1>2, <1>7, NoLedgerType DEF AppendEvents, TypeInv, TypeOK, Pcs, InLock, Reading
  <2>2. \A g \in Hosts : Called(g)' /\ Placed(g)'
    BY <1>7 DEF AppendEvents, TypeInv, TypeOK, Called, Placed, Reading, Advanced, Advancing
  <2>3. Known' = Known
    BY <1>7 DEF AppendEvents, Known
  <2>4. QED
    BY <2>1, <2>2, <2>3 DEF TypeInv
<1>8. QED
  BY <1>4, <1>5, <1>6, <1>7

\* Claims, checkpoints and parked inputs.
LEMMA NoteTypes ==
  ASSUME TypeInv, NEW h \in Hosts,
         Begin(h) \/ WriteClaim(h) \/ AppendClaim(h) \/ AppendCheckpoint(h) \/ Return(h)
  PROVE  TypeInv'
<1> USE DEF place, files, bound, inputs, session, Goto, Settle, Forget, Release
<1>1. CASE Begin(h)
  <2>1. PICK c \in Calls(h) :
          /\ call' = [call EXCEPT ![h] = c]
          /\ basis' = IF c.op \in {"claim", "checkpoint"}
                      THEN [basis EXCEPT ![h] = ledger] ELSE basis
    BY <1>1 DEF Begin
  <2>2. c # NoCall /\ c \in AllCalls
    BY CallsAre
  <2>3. TypeOK'
    BY <1>1, <2>1, <2>2 DEF Begin, TypeInv, TypeOK, Pcs, InLock
  <2>4. \A g \in Hosts : Called(g)' /\ Placed(g)'
    BY <1>1, <2>1, <2>2
       DEF Begin, Open, TypeInv, TypeOK, Called, Placed, Reading, Advanced, Advancing
  <2>5. Known' = Known
    BY <1>1 DEF Begin, Known
  <2>6. QED
    BY <2>3, <2>4, <2>5 DEF TypeInv
<1>2. CASE WriteClaim(h)
  <2>1. TypeOK'
    BY <1>2 DEF WriteClaim, TypeInv, TypeOK, Pcs, InLock
  <2>2. \A g \in Hosts : Called(g)' /\ Placed(g)'
    BY <1>2 DEF WriteClaim, TypeInv, TypeOK, Called, Placed, Reading, Advanced, Advancing
  <2>3. Known' = Known
    BY <1>2 DEF WriteClaim, Known
  <2>4. QED
    BY <2>1, <2>2, <2>3 DEF TypeInv
<1>3. CASE AppendClaim(h)
  <2>1. ledger \in Ledgers
    BY DEF TypeInv, TypeOK
  <2>2. [ledger EXCEPT !.claims[ledger.current] = h] \in Ledgers
    BY <2>1 DEF Ledgers
  <2>3. TypeOK'
    BY <1>3, <2>2, NoLedgerType DEF AppendClaim, TypeInv, TypeOK, Pcs, InLock
  <2>4. \A g \in Hosts : Called(g)' /\ Placed(g)'
    BY <1>3 DEF AppendClaim, TypeInv, TypeOK, Called, Placed, Reading, Advanced, Advancing
  <2>5. Known' = Known
    BY <1>3 DEF AppendClaim, Known
  <2>6. QED
    BY <2>3, <2>4, <2>5 DEF TypeInv
<1>4. CASE AppendCheckpoint(h)
  <2>1. ledger \in Ledgers /\ call[h].item \in Points
    BY <1>4, CallsAre, NoCallIs DEF AppendCheckpoint, TypeInv, TypeOK, Called
  <2>2. [ledger EXCEPT !.points = @ \cup {call[h].item}] \in Ledgers
    BY <2>1 DEF Ledgers
  <2>3. TypeOK'
    BY <1>4, <2>2, NoLedgerType DEF AppendCheckpoint, TypeInv, TypeOK, Pcs, InLock
  <2>4. \A g \in Hosts : Called(g)' /\ Placed(g)'
    BY <1>4 DEF AppendCheckpoint, TypeInv, TypeOK, Called, Placed, Reading, Advanced, Advancing
  <2>5. Known' = Known
    BY <1>4 DEF AppendCheckpoint, Known
  <2>6. QED
    BY <2>3, <2>4, <2>5 DEF TypeInv
<1>5. CASE Return(h)
  <2>1. call[h].item \in Inputs
    BY <1>5, CallsAre, NoCallIs DEF Return, TypeInv, Called
  <2>2. TypeOK'
    BY <1>5, <2>1, NoLedgerType, NoCallIs DEF Return, TypeInv, TypeOK, Pcs, InLock
  <2>3. \A g \in Hosts : Called(g)' /\ Placed(g)'
    BY <1>5, NoCallIs
       DEF Return, TypeInv, TypeOK, Called, Placed, Reading, Advanced, Advancing
  <2>4. Known' = Known
    BY <1>5 DEF Return, Known
  <2>5. QED
    BY <2>2, <2>3, <2>4 DEF TypeInv
<1>6. QED
  BY <1>1, <1>2, <1>3, <1>4, <1>5

LEMMA ParkTypes ==
  ASSUME TypeInv, NEW h \in Hosts, Park(h)
  PROVE  TypeInv'
<1> DEFINE i == call[h].item
           x == [by |-> h, task |-> ledger.current, state |-> ledger,
                 sequence |-> Cardinality(Known) + 1]
<1>1. i \in Inputs
  BY CallsAre, NoCallIs DEF Park, TypeInv, Called
<1>2. ledger \in Ledgers /\ ledger.current \in Assignments
  BY DEF Park, MayPark, TypeInv, TypeOK, Ledgers
<1>3. Cardinality(Known) + 1 \in Nat
  BY FS_CardinalityType DEF TypeInv
<1>4. x \in Anchors /\ x # NoAnchor
  BY <1>2, <1>3, AnchorsAre DEF Anchors
<1> HIDE DEF i, x
<1>5. /\ parked' = [parked EXCEPT ![i] = x]
      /\ pc[h] = "locked"
      /\ Settle(h) /\ Release
      /\ UNCHANGED <<place, ledger, bound, cache, pending, acked>>
  BY DEF Park, i, x
<1> USE DEF place, bound, Settle, Forget, Release
<1>6. TypeOK'
  BY <1>1, <1>4, <1>5, NoLedgerType, NoCallIs DEF TypeInv, TypeOK, Pcs
<1>7. \A g \in Hosts : Called(g)' /\ Placed(g)'
  BY <1>5, NoCallIs DEF TypeInv, TypeOK, Called, Placed, Reading, Advanced, Advancing
<1>8. Known' = Known \cup {i}
  BY <1>1, <1>4, <1>5 DEF TypeInv, TypeOK, Known
<1>9. IsFiniteSet(Known')
  BY <1>8, FS_AddElement DEF TypeInv
<1>10. QED
  BY <1>6, <1>7, <1>9 DEF TypeInv

LEMMA StartTypes ==
  ASSUME TypeInv, NEW h \in Hosts,
         StartArchive(h) \/ StartFresh(h) \/ StartPublish(h) \/ Dies(h)
  PROVE  TypeInv'
<1> USE DEF place, files, bound, inputs, session, Goto, Forget
<1>1. CASE StartArchive(h)
  <2>1. TypeOK'
    BY <1>1, NoLedgerType DEF StartArchive, EmptyStore, TypeInv, TypeOK, Pcs
  <2>2. \A g \in Hosts : Called(g)' /\ Placed(g)'
    BY <1>1, BoundAssumption
       DEF StartArchive, Alone, TypeInv, TypeOK, Called, Placed, Reading, Advanced, Advancing
  <2>3. Known' = {}
    BY <1>1 DEF StartArchive, EmptyStore, Known
  <2>4. QED
    BY <2>1, <2>2, <2>3, FS_EmptySet DEF TypeInv
<1>2. CASE StartFresh(h)
  <2>1. TypeOK'
    BY <1>2 DEF StartFresh, TypeInv, TypeOK, Pcs
  <2>2. \A g \in Hosts : Called(g)' /\ Placed(g)'
    BY <1>2, BoundAssumption
       DEF StartFresh, Alone, TypeInv, TypeOK, Called, Placed, Reading, Advanced, Advancing
  <2>3. Known' = Known
    BY <1>2 DEF StartFresh, Known
  <2>4. QED
    BY <2>1, <2>2, <2>3 DEF TypeInv
<1>3. CASE StartPublish(h)
  <2>1. made < MaxStores /\ made \in 0 .. MaxStores /\ MaxStores \in Nat
    BY <1>3, BoundAssumption DEF StartPublish, TypeInv, TypeOK, Placed
  <2>2. made + 1 \in 0 .. MaxStores
    BY <2>1
  <2>3. TypeOK'
    BY <1>3, <2>2, StartedIs DEF StartPublish, TypeInv, TypeOK, Pcs
  <2>4. \A g \in Hosts : Called(g)' /\ Placed(g)'
    BY <1>3 DEF StartPublish, TypeInv, TypeOK, Called, Placed, Reading, Advanced, Advancing
  <2>5. Known' = Known
    BY <1>3 DEF StartPublish, Known
  <2>6. QED
    BY <2>3, <2>4, <2>5 DEF TypeInv
<1>4. CASE Dies(h)
  <2>1. TypeOK'
    BY <1>4, NoLedgerType DEF Dies, TypeInv, TypeOK, Pcs
  <2>2. \A g \in Hosts : Called(g)' /\ Placed(g)'
    BY <1>4, NoCallIs DEF Dies, TypeInv, TypeOK, Called, Placed, Reading, Advanced, Advancing
  <2>3. Known' = Known
    BY <1>4 DEF Dies, Known
  <2>4. QED
    BY <2>1, <2>2, <2>3 DEF TypeInv
<1>5. QED
  BY <1>1, <1>2, <1>3, <1>4

LEMMA TypeStep == TypeInv /\ [Next]_vars => TypeInv'
<1> SUFFICES ASSUME TypeInv, [Next]_vars PROVE TypeInv'
  OBVIOUS
<1>2. CASE Next
  BY <1>2, MoveTypes, AdvanceTypes, NoteTypes, ParkTypes, StartTypes DEF Next
<1>3. CASE UNCHANGED vars
  <2> USE <1>3 DEF vars, place, files, bound, inputs, session
  <2>1. TypeOK'
    BY DEF TypeInv, TypeOK
  <2>2. \A g \in Hosts : Called(g)' /\ Placed(g)'
    BY DEF TypeInv, Called, Placed, Advancing
  <2>3. Known' = Known
    BY DEF Known
  <2>4. QED
    BY <2>1, <2>2, <2>3 DEF TypeInv
<1>4. QED
  BY <1>2, <1>3

\* The store keeps its types, whatever roadmap is worked on and however the hosts'
\* commands meet.
THEOREM Typing == Spec => []TypeOK
<1>1. TypeInv => TypeOK
  BY DEF TypeInv
<1>2. QED
  BY <1>1, TypeInit, TypeStep, PTL DEF Spec

-----------------------------------------------------------------------------
(***************************************************************************)
(* A repeated advance is applied once                                      *)
(***************************************************************************)
\* What one host may do.
NextBy(h) ==
  \/ StartArchive(h) \/ StartFresh(h) \/ StartPublish(h)
  \/ Begin(h) \/ Retry(h) \/ TakeLock(h) \/ LockRefused(h)
  \/ ReplayPending(h) \/ PendingRefused(h) \/ Load(h) \/ AdvanceRefused(h)
  \/ WriteHandoff(h) \/ PrepareSelection(h) \/ AppendEvents(h) \/ ClearContext(h)
  \/ CacheState(h) \/ SavePending(h) \/ RemovePending(h) \/ Answer(h)
  \/ WriteClaim(h) \/ AppendClaim(h) \/ AppendCheckpoint(h) \/ CacheNoted(h)
  \/ Park(h) \/ Return(h) \/ NothingToDo(h)
  \/ Dies(h)

LEMMA LockStep == ASSUME TypeInv, Locking, Next PROVE Locking'
<1> SUFFICES ASSUME NEW h \in Hosts, NextBy(h) PROVE Locking'
  BY DEF Next, NextBy
<1> USE BoundAssumption
    DEF TypeInv, TypeOK, Locking, InLock, Goto, Settle, Postpone, Forget, Release,
        place, files, bound, inputs, session
<1>1. CASE StartArchive(h) BY <1>1 DEF StartArchive, EmptyStore, Alone
<1>2. CASE StartFresh(h) BY <1>2 DEF StartFresh, Alone
<1>3. CASE StartPublish(h) BY <1>3 DEF StartPublish
<1>4. CASE Begin(h) BY <1>4 DEF Begin
<1>5. CASE Retry(h) BY <1>5 DEF Retry
<1>6. CASE TakeLock(h) BY <1>6 DEF TakeLock
<1>7. CASE LockRefused(h) BY <1>7 DEF LockRefused
<1>8. CASE ReplayPending(h) BY <1>8 DEF ReplayPending
<1>9. CASE PendingRefused(h) BY <1>9 DEF PendingRefused
<1>10. CASE Load(h) BY <1>10 DEF Load
<1>11. CASE AdvanceRefused(h) BY <1>11 DEF AdvanceRefused
<1>12. CASE WriteHandoff(h) BY <1>12 DEF WriteHandoff
<1>13. CASE PrepareSelection(h) BY <1>13 DEF PrepareSelection
<1>14. CASE AppendEvents(h) BY <1>14 DEF AppendEvents
<1>15. CASE ClearContext(h) BY <1>15 DEF ClearContext
<1>16. CASE CacheState(h) BY <1>16 DEF CacheState
<1>17. CASE SavePending(h) BY <1>17 DEF SavePending
<1>18. CASE RemovePending(h) BY <1>18 DEF RemovePending
<1>19. CASE Answer(h) BY <1>19 DEF Answer
<1>20. CASE WriteClaim(h) BY <1>20 DEF WriteClaim
<1>21. CASE AppendClaim(h) BY <1>21 DEF AppendClaim
<1>22. CASE AppendCheckpoint(h) BY <1>22 DEF AppendCheckpoint
<1>23. CASE CacheNoted(h) BY <1>23 DEF CacheNoted
<1>24. CASE Park(h) BY <1>24 DEF Park
<1>25. CASE Return(h) BY <1>25 DEF Return
<1>26. CASE NothingToDo(h) BY <1>26 DEF NothingToDo
<1>27. CASE Dies(h) BY <1>27 DEF Dies
<1>28. QED
  BY <1>1, <1>2, <1>3, <1>4, <1>5, <1>6, <1>7, <1>8, <1>9, <1>10, <1>11, <1>12, <1>13, <1>14,
     <1>15, <1>16, <1>17, <1>18, <1>19, <1>20, <1>21, <1>22, <1>23, <1>24, <1>25, <1>26, <1>27
     DEF NextBy

\* The pending result is written by a host that keeps its request until it is gone.
LEMMA KeptStep == ASSUME TypeInv, Locking, Kept, Next PROVE Kept'
<1> SUFFICES ASSUME NEW h \in Hosts, NextBy(h) PROVE Kept'
  BY DEF Next, NextBy
<1>0. /\ \A g \in Hosts : call[g] \in Calls(g) \cup {NoCall}
      /\ \A g \in Hosts : \A c \in Calls(g) : c.by = g /\ c # NoCall
      /\ NoCall.op = "none" /\ NoCall.by \notin Hosts
  BY CallsAre, NoCallIs DEF TypeInv, Called
<1> USE DEF TypeInv, TypeOK, Called, Kept, Reading, Advanced, Locking, InLock, Goto, Settle,
            Postpone, Forget, Release, Advancing, place, files, bound, inputs, session
<1>1. CASE StartArchive(h) BY <1>1, <1>0 DEF StartArchive, EmptyStore, Alone
<1>2. CASE StartFresh(h) BY <1>2, <1>0 DEF StartFresh, Alone
<1>3. CASE StartPublish(h) BY <1>3, <1>0 DEF StartPublish
<1>4. CASE Begin(h) BY <1>4, <1>0 DEF Begin
<1>5. CASE Retry(h) BY <1>5, <1>0 DEF Retry
<1>6. CASE TakeLock(h) BY <1>6, <1>0 DEF TakeLock
<1>7. CASE LockRefused(h) BY <1>7, <1>0 DEF LockRefused
<1>8. CASE ReplayPending(h) BY <1>8, <1>0 DEF ReplayPending
<1>9. CASE PendingRefused(h) BY <1>9, <1>0 DEF PendingRefused
<1>10. CASE Load(h) BY <1>10, <1>0 DEF Load
<1>11. CASE AdvanceRefused(h) BY <1>11, <1>0 DEF AdvanceRefused
<1>12. CASE WriteHandoff(h) BY <1>12, <1>0 DEF WriteHandoff
<1>13. CASE PrepareSelection(h) BY <1>13, <1>0 DEF PrepareSelection
<1>14. CASE AppendEvents(h) BY <1>14, <1>0 DEF AppendEvents
<1>15. CASE ClearContext(h) BY <1>15, <1>0 DEF ClearContext
<1>16. CASE CacheState(h) BY <1>16, <1>0 DEF CacheState
<1>17. CASE SavePending(h) BY <1>17, <1>0 DEF SavePending
<1>18. CASE RemovePending(h) BY <1>18, <1>0 DEF RemovePending
<1>19. CASE Answer(h) BY <1>19, <1>0 DEF Answer
<1>20. CASE WriteClaim(h) BY <1>20, <1>0 DEF WriteClaim
<1>21. CASE AppendClaim(h) BY <1>21, <1>0 DEF AppendClaim
<1>22. CASE AppendCheckpoint(h) BY <1>22, <1>0 DEF AppendCheckpoint
<1>23. CASE CacheNoted(h) BY <1>23, <1>0 DEF CacheNoted
<1>24. CASE Park(h) BY <1>24, <1>0 DEF Park
<1>25. CASE Return(h) BY <1>25, <1>0 DEF Return
<1>26. CASE NothingToDo(h) BY <1>26, <1>0 DEF NothingToDo
<1>27. CASE Dies(h) BY <1>27, <1>0 DEF Dies
<1>28. QED
  BY <1>1, <1>2, <1>3, <1>4, <1>5, <1>6, <1>7, <1>8, <1>9, <1>10, <1>11, <1>12, <1>13, <1>14,
     <1>15, <1>16, <1>17, <1>18, <1>19, <1>20, <1>21, <1>22, <1>23, <1>24, <1>25, <1>26, <1>27
     DEF NextBy

\* Landed is as it should be after every step, except for hosts in a lapse.
LEMMA LandedStep ==
  ASSUME TypeInv, Locking, Kept, \A g \in Hosts \ lapses : Landed(g), Next
  PROVE  \A g \in Hosts \ lapses' : Landed(g)'
<1> SUFFICES ASSUME NEW h \in Hosts, NextBy(h), NEW g \in Hosts \ lapses' PROVE Landed(g)'
  BY DEF Next, NextBy
<1>0. /\ \A k \in Hosts : call[k] \in Calls(k) \cup {NoCall}
      /\ \A k \in Hosts : \A c \in Calls(k) : c.by = k /\ c # NoCall
      /\ NoCall.op = "none" /\ NoCall.by \notin Hosts
  BY CallsAre, NoCallIs DEF TypeInv, Called
<1> USE DEF TypeInv, TypeOK, Called, Kept, Landed, Reading, Advanced, Locking, InLock, Goto,
            Settle, Postpone, Forget, Release, Advancing, place, files, bound, inputs, session
<1>1. CASE StartArchive(h) BY <1>1, <1>0 DEF StartArchive, EmptyStore, Alone
<1>2. CASE StartFresh(h) BY <1>2, <1>0 DEF StartFresh, Alone
<1>3. CASE StartPublish(h) BY <1>3, <1>0 DEF StartPublish
<1>4. CASE Begin(h) BY <1>4, <1>0 DEF Begin
<1>5. CASE Retry(h) BY <1>5, <1>0 DEF Retry
<1>6. CASE TakeLock(h) BY <1>6, <1>0 DEF TakeLock
<1>7. CASE LockRefused(h) BY <1>7, <1>0 DEF LockRefused
<1>8. CASE ReplayPending(h) BY <1>8, <1>0 DEF ReplayPending
<1>9. CASE PendingRefused(h) BY <1>9, <1>0 DEF PendingRefused
<1>10. CASE Load(h) BY <1>10, <1>0 DEF Load
<1>11. CASE AdvanceRefused(h) BY <1>11, <1>0 DEF AdvanceRefused
<1>12. CASE WriteHandoff(h) BY <1>12, <1>0 DEF WriteHandoff
<1>13. CASE PrepareSelection(h) BY <1>13, <1>0 DEF PrepareSelection
<1>14. CASE AppendEvents(h) BY <1>14, <1>0 DEF AppendEvents
<1>15. CASE ClearContext(h) BY <1>15, <1>0 DEF ClearContext
<1>16. CASE CacheState(h) BY <1>16, <1>0 DEF CacheState
<1>17. CASE SavePending(h) BY <1>17, <1>0 DEF SavePending
<1>18. CASE RemovePending(h) BY <1>18, <1>0 DEF RemovePending
<1>19. CASE Answer(h) BY <1>19, <1>0 DEF Answer
<1>20. CASE WriteClaim(h) BY <1>20, <1>0 DEF WriteClaim
<1>21. CASE AppendClaim(h) BY <1>21, <1>0 DEF AppendClaim
<1>22. CASE AppendCheckpoint(h) BY <1>22, <1>0 DEF AppendCheckpoint
<1>23. CASE CacheNoted(h) BY <1>23, <1>0 DEF CacheNoted
<1>24. CASE Park(h) BY <1>24, <1>0 DEF Park
<1>25. CASE Return(h) BY <1>25, <1>0 DEF Return
<1>26. CASE NothingToDo(h) BY <1>26, <1>0 DEF NothingToDo
<1>27. CASE Dies(h) BY <1>27, <1>0 DEF Dies
<1>28. QED
  BY <1>1, <1>2, <1>3, <1>4, <1>5, <1>6, <1>7, <1>8, <1>9, <1>10, <1>11, <1>12, <1>13, <1>14,
     <1>15, <1>16, <1>17, <1>18, <1>19, <1>20, <1>21, <1>22, <1>23, <1>24, <1>25, <1>26, <1>27
     DEF NextBy

LEMMA OnceInit == Init => OnceInv
<1>1. Init => Locking
  BY BoundAssumption DEF Init, Locking, InLock
<1>2. Init => Kept /\ \A h \in Hosts : Landed(h)
  BY DEF Init, Kept, Landed, Reading, Advanced
<1>3. QED
  BY <1>1, <1>2 DEF OnceInv

LEMMA OnceStep == TypeInv /\ OnceInv /\ [Next]_vars => OnceInv'
<1> SUFFICES ASSUME TypeInv, OnceInv, [Next]_vars PROVE OnceInv'
  OBVIOUS
<1>1. CASE Next
  BY <1>1, LockStep, KeptStep, LandedStep DEF OnceInv
<1>2. CASE UNCHANGED vars
  BY <1>2 DEF OnceInv, Locking, Kept, Landed, vars, place, files, bound, inputs, session
<1>3. QED
  BY <1>1, <1>2

LEMMA OnceInvariant == Spec => [](TypeInv /\ OnceInv)
BY TypeInit, TypeStep, OnceInit, OnceStep, PTL DEF Spec

\* An advance that is repeated until its host has an answer is applied once, for
\* any number of hosts, as long as the host is not killed between the append and
\* the record of its result, or between its removal and the answer.
THEOREM Once == Spec => []AppliedOnce
<1>1. TypeInv /\ OnceInv => AppliedOnce
  BY DEF OnceInv, AppliedOnce, Landed, Advanced
<1>2. QED
  BY <1>1, OnceInvariant, PTL

-----------------------------------------------------------------------------
(***************************************************************************)
(* Health                                                                  *)
(***************************************************************************)
LEMMA HealthInit == Init => HealthInv
<1> SUFFICES ASSUME Init PROVE HealthInv
  OBVIOUS
<1>1. ~exists /\ Emptied
  BY DEF Init, Emptied
<1>2. \A h \in Hosts : Halfway(h)
  BY DEF Init, Halfway, Reading
<1>3. QED
  BY <1>1, <1>2 DEF HealthInv

\* A host moves where no file is touched: in and out of a command, or out of an
\* advance that has written everything.
LEMMA QuietStep ==
  ASSUME TypeInv, Locking, HealthInv, "kill" \notin lapses,
         NEW h \in Hosts, NEW k \in Pcs \ (InLock \ {"locked"}),
         pc[h] \in (Pcs \ (InLock \ {"locked"})) \cup {"cached"},
         pc' = [pc EXCEPT ![h] = k],
         exists \/ k \in {"idle", "starting"},
         \A g \in Hosts \ {h} : call'[g] = call[g] /\ basis'[g] = basis[g],
         UNCHANGED <<exists, ledger, context, handoffs, claimFile, cache>>
  PROVE  HealthInv'
<1>1. pc'[h] = k /\ \A g \in Hosts \ {h} : pc'[g] = pc[g]
  BY DEF TypeInv, TypeOK
<1>2. Halfway(h)'
  BY <1>1 DEF Halfway, Reading, InLock
<1>3. ASSUME NEW g \in Hosts \ {h} PROVE Halfway(g)'
  <2>1. Halfway(g) /\ pc'[g] = pc[g] /\ call'[g] = call[g] /\ basis'[g] = basis[g]
    BY <1>1 DEF HealthInv
  <2>2. QED
    BY <2>1 DEF Halfway, Bound, Handed, Selected, Loads
<1>4. CASE ~exists
  <2>1. Emptied
    BY <1>4 DEF HealthInv
  <2>2. Emptied'
    BY <1>1, <1>4, <2>1 DEF Emptied
  <2>3. QED
    BY <1>2, <1>3, <1>4, <2>2 DEF HealthInv
<1>5. CASE exists
  <2>1. ASSUME Quiet', ledger.status # "BLOCKED" PROVE Healthy
    <3>1. CASE pc[h] = "cached"
      BY <2>1, <3>1 DEF HealthInv, Halfway, Healthy
    <3>2. CASE pc[h] # "cached"
      BY <1>1, <1>5, <2>1, <3>2 DEF HealthInv, Quiet
    <3>3. QED
      BY <3>1, <3>2
  <2>2. Healthy => Healthy'
    BY DEF Healthy, Loads
  <2>3. QED
    BY <1>2, <1>3, <1>5, <2>1, <2>2 DEF HealthInv
<1>6. QED
  BY <1>4, <1>5

\* Nobody else is between two writes while the holder of the lock is.
LEMMA HolderStep ==
  ASSUME TypeInv, Locking, exists, exists' = exists,
         NEW h \in Hosts, pc[h] \in InLock, NEW k \in InLock \ {"locked"},
         pc' = [pc EXCEPT ![h] = k], Halfway(h)'
  PROVE  HealthInv'
<1>1. pc'[h] = k /\ \A g \in Hosts \ {h} : pc'[g] = pc[g] /\ pc[g] \notin InLock
  BY DEF TypeInv, TypeOK, Locking
<1>2. \A g \in Hosts \ {h} : Halfway(g)'
  BY <1>1 DEF Halfway, Reading, InLock
<1>3. ~Quiet'
  BY <1>1 DEF Quiet
<1>4. QED
  BY <1>2, <1>3 DEF HealthInv

LEMMA QuietSteps ==
  ASSUME TypeInv, Locking, HealthInv, "kill" \notin lapses, NEW h \in Hosts,
         \/ StartFresh(h) \/ Begin(h) \/ Retry(h) \/ TakeLock(h) \/ LockRefused(h)
         \/ ReplayPending(h) \/ PendingRefused(h) \/ AdvanceRefused(h) \/ SavePending(h)
         \/ RemovePending(h) \/ Answer(h) \/ Park(h) \/ Return(h) \/ NothingToDo(h)
  PROVE  HealthInv'
<1>1. exists \/ pc[h] \in {"idle", "starting"}
  BY DEF HealthInv, Emptied
<1>2. /\ pc \in [Hosts -> Pcs] /\ basis \in [Hosts -> Ledgers]
      /\ call \in [Hosts -> AllCalls \cup {NoCall}]
  BY DEF TypeInv, TypeOK
<1> USE <1>1, <1>2
    DEF Pcs, InLock, Goto, Settle, Postpone, Forget, Open, place, files, bound, inputs, session
<1>3. CASE StartFresh(h)
  BY <1>3, QuietStep DEF StartFresh
<1>4. CASE Begin(h)
  BY <1>4, QuietStep DEF Begin
<1>5. CASE Retry(h)
  BY <1>5, QuietStep DEF Retry
<1>6. CASE TakeLock(h)
  BY <1>6, QuietStep DEF TakeLock
<1>7. CASE LockRefused(h)
  BY <1>7, QuietStep DEF LockRefused
<1>8. CASE ReplayPending(h)
  BY <1>8, QuietStep DEF ReplayPending
<1>9. CASE PendingRefused(h)
  BY <1>9, QuietStep DEF PendingRefused
<1>10. CASE AdvanceRefused(h)
  BY <1>10, QuietStep DEF AdvanceRefused
<1>11. CASE SavePending(h)
  BY <1>11, QuietStep DEF SavePending
<1>12. CASE RemovePending(h)
  BY <1>12, QuietStep DEF RemovePending
<1>13. CASE Answer(h)
  BY <1>13, QuietStep DEF Answer
<1>14. CASE Park(h)
  BY <1>14, QuietStep DEF Park
<1>15. CASE Return(h)
  BY <1>15, QuietStep DEF Return
<1>16. CASE NothingToDo(h)
  BY <1>16, QuietStep DEF NothingToDo
<1>17. QED
  BY <1>3, <1>4, <1>5, <1>6, <1>7, <1>8, <1>9, <1>10, <1>11, <1>12, <1>13, <1>14, <1>15, <1>16

\* The steps of an advance, from its read to its cached state.
LEMMA AdvanceSteps ==
  ASSUME TypeInv, Locking, HealthInv, "kill" \notin lapses, NEW h \in Hosts,
         \/ Load(h) \/ WriteHandoff(h) \/ PrepareSelection(h) \/ AppendEvents(h)
         \/ ClearContext(h) \/ CacheState(h)
  PROVE  HealthInv'
<1>1. /\ pc \in [Hosts -> Pcs] /\ basis \in [Hosts -> Ledgers] /\ ledger \in Ledgers
      /\ Halfway(h) /\ call[h] \in Calls(h) \cup {NoCall}
      /\ pc[h] \in Reading => Active(basis[h]) /\ Advancing(h) /\ call[h] \in Calls(h)
  BY NoCallIs DEF TypeInv, TypeOK, HealthInv, Called, Placed, Advancing
<1>2. pc[h] \in InLock
  BY DEF Load, WriteHandoff, PrepareSelection, AppendEvents, ClearContext, CacheState, Goto, InLock
<1>3. exists
  BY <1>2 DEF HealthInv, Emptied, InLock
<1>4. exists' = exists
  BY DEF Load, WriteHandoff, PrepareSelection, AppendEvents, ClearContext, CacheState, place
<1> USE DEF Goto, Forget, files, bound, session
<1>5. CASE Load(h)
  <2>1. pc' = [pc EXCEPT ![h] = "loaded"] /\ pc'[h] = "loaded" /\ Loads /\ basis'[h] = ledger
    BY <1>1, <1>5 DEF Load, MayAdvance
  <2>2. Halfway(h)'
    BY <1>5, <2>1 DEF Load, Halfway, Reading, Bound, Loads
  <2>3. QED
    BY <1>2, <1>3, <1>4, <2>1, <2>2, HolderStep DEF InLock
<1>6. CASE WriteHandoff(h)
  <2>1. pc' = [pc EXCEPT ![h] = "handed"] /\ pc[h] = "loaded" /\ pc'[h] = "handed"
    BY <1>1, <1>6 DEF WriteHandoff
  <2>2. Halfway(h)'
    BY <1>1, <1>6, <2>1 DEF WriteHandoff, Halfway, Reading, Bound, Handed
  <2>3. QED
    BY <1>2, <1>3, <1>4, <2>1, <2>2, HolderStep DEF InLock
<1>7. CASE PrepareSelection(h)
  <2>1. pc' = [pc EXCEPT ![h] = "prepared"] /\ pc[h] = "handed" /\ pc'[h] = "prepared"
    BY <1>1, <1>7 DEF PrepareSelection
  <2>2. basis[h] = ledger /\ context = ledger.current
    BY <1>1, <2>1 DEF Halfway, Reading
  <2>3. context' = Selected(h)'
    BY <1>7, <2>2 DEF PrepareSelection, Selected
  <2>4. Halfway(h)'
    BY <1>1, <1>7, <2>1, <2>3 DEF PrepareSelection, Halfway, Reading, Bound, Handed
  <2>5. QED
    BY <1>2, <1>3, <1>4, <2>1, <2>4, HolderStep DEF InLock
<1>8. CASE AppendEvents(h)
  <2> DEFINE n == After(ledger, call[h])
  <2>1. pc[h] = "prepared" /\ basis[h] = ledger /\ Bound /\ context = Selected(h)
        /\ handoffs = Handed(h)
    BY <1>1, <1>8 DEF AppendEvents, Halfway, Reading
  <2>2. /\ pc' = [pc EXCEPT ![h] = "appended"] /\ pc'[h] = "appended"
        /\ ledger' = n /\ UNCHANGED <<context, handoffs, claimFile, cache, call>>
    BY <1>1, <1>8, <2>1 DEF AppendEvents
  <2>3. ledger.current \in Assignments /\ call[h] \in Calls(h) /\ call[h].op \in {"pass", "fail"}
    BY <1>1, <2>1 DEF Active, Ledgers, Advancing, Reading
  <2>4. /\ n \in Ledgers /\ n.claims = ledger.claims /\ n.done = Handed(h)
        /\ n.status # "BLOCKED" => ~n.stranded
    <3>1. claimFile = ledger.claims /\ ~ledger.stranded
      BY <2>1 DEF Bound
    <3>2. /\ n \in Ledgers /\ n.claims = ledger.claims
          /\ n.done = IF call[h].op = "pass" THEN ledger.done \cup {ledger.current} ELSE ledger.done
          /\ n.status # "BLOCKED" /\ ~ledger.stranded => ~n.stranded
      BY <1>1, <2>3, AfterIs
    <3>3. QED
      BY <3>1, <3>2 DEF Handed
  <2>5. context = n.current \/ (n.current = 0 /\ context \in Assignments)
    BY <2>1, <2>3 DEF Selected
  <2> HIDE DEF n
  <2>6. Halfway(h)'
    BY <2>1, <2>2, <2>4, <2>5 DEF Halfway, Reading, Bound
  <2>7. QED
    BY <1>2, <1>3, <1>4, <2>2, <2>6, HolderStep DEF InLock
<1>9. CASE ClearContext(h)
  <2>1. pc' = [pc EXCEPT ![h] = "cleared"] /\ pc[h] = "appended" /\ pc'[h] = "cleared"
    BY <1>1, <1>9 DEF ClearContext
  <2>2. Halfway(h)'
    BY <1>1, <1>3, <1>4, <1>9, <2>1 DEF ClearContext, Halfway, Reading, Bound, Loads
  <2>3. QED
    BY <1>2, <1>3, <1>4, <2>1, <2>2, HolderStep DEF InLock
<1>10. CASE CacheState(h)
  <2>1. pc' = [pc EXCEPT ![h] = "cached"] /\ pc[h] = "cleared" /\ pc'[h] = "cached"
    BY <1>1, <1>10 DEF CacheState
  <2>2. Halfway(h)'
    BY <1>1, <1>4, <1>10, <2>1 DEF CacheState, Halfway, Reading, Loads
  <2>3. QED
    BY <1>2, <1>3, <1>4, <2>1, <2>2, HolderStep DEF InLock
<1>11. QED
  BY <1>5, <1>6, <1>7, <1>8, <1>9, <1>10

\* Claims and checkpoints, whose file and event are written by the same holder.
LEMMA NoteSteps ==
  ASSUME TypeInv, Locking, HealthInv, "kill" \notin lapses, NEW h \in Hosts,
         WriteClaim(h) \/ AppendClaim(h) \/ AppendCheckpoint(h) \/ CacheNoted(h)
  PROVE  HealthInv'
<1>1. /\ pc \in [Hosts -> Pcs] /\ ledger \in Ledgers /\ Halfway(h)
      /\ ledger.current \in Assignments \cup {0}
      /\ ledger.claims \in [Assignments -> Hosts \cup {NoHost}]
  BY DEF TypeInv, TypeOK, HealthInv, Ledgers
<1>2. pc[h] \in InLock
  BY DEF WriteClaim, AppendClaim, AppendCheckpoint, CacheNoted, Goto, InLock
<1>3. exists
  BY <1>2 DEF HealthInv, Emptied, InLock
<1>4. exists' = exists
  BY DEF WriteClaim, AppendClaim, AppendCheckpoint, CacheNoted, place
<1> USE DEF Goto, Forget, files, bound, session
<1>5. CASE WriteClaim(h)
  <2>1. pc' = [pc EXCEPT ![h] = "claimed"] /\ pc'[h] = "claimed"
        /\ Loads /\ ledger.current \in Assignments
    BY <1>1, <1>5 DEF WriteClaim, MayClaim
  <2>2. Halfway(h)'
    BY <1>5, <2>1 DEF WriteClaim, Halfway, Reading, Loads
  <2>3. QED
    BY <1>2, <1>3, <1>4, <2>1, <2>2, HolderStep DEF InLock
<1>6. CASE AppendClaim(h)
  <2>1. pc' = [pc EXCEPT ![h] = "noted"] /\ pc[h] = "claimed" /\ pc'[h] = "noted"
    BY <1>1, <1>6 DEF AppendClaim
  <2>2. /\ ledger.current \in Assignments /\ context = ledger.current /\ handoffs = ledger.done
        /\ claimFile = [ledger.claims EXCEPT ![ledger.current] = h] /\ ~ledger.stranded
    BY <1>1, <2>1 DEF Halfway
  <2>3. /\ ledger' = [ledger EXCEPT !.claims[ledger.current] = h]
        /\ UNCHANGED <<context, handoffs, claimFile>>
    BY <1>6 DEF AppendClaim
  <2>4. Loads'
    BY <1>1, <1>3, <1>4, <2>2, <2>3 DEF Loads, Ledgers
  <2>5. Halfway(h)'
    BY <2>1, <2>4 DEF Halfway, Reading
  <2>6. QED
    BY <1>2, <1>3, <1>4, <2>1, <2>5, HolderStep DEF InLock
<1>7. CASE AppendCheckpoint(h)
  <2>1. pc' = [pc EXCEPT ![h] = "noted"] /\ pc'[h] = "noted" /\ Loads
    BY <1>1, <1>7 DEF AppendCheckpoint, MayCheckpoint
  <2>2. Loads'
    BY <1>1, <1>4, <1>7, <2>1 DEF AppendCheckpoint, Loads, Ledgers
  <2>3. Halfway(h)'
    BY <2>1, <2>2 DEF Halfway, Reading
  <2>4. QED
    BY <1>2, <1>3, <1>4, <2>1, <2>3, HolderStep DEF InLock
<1>8. CASE CacheNoted(h)
  <2>1. pc' = [pc EXCEPT ![h] = "idle"] /\ pc[h] = "noted" /\ cache' = ledger
        /\ UNCHANGED <<ledger, context, handoffs, claimFile>>
    BY <1>8 DEF CacheNoted, Settle
  <2>2. Loads
    BY <1>1, <2>1 DEF Halfway
  <2>3. Healthy'
    BY <1>4, <2>1, <2>2 DEF Healthy, Loads
  <2>4. \A g \in Hosts : pc'[g] \notin InLock
    BY <1>1, <1>2, <2>1 DEF Locking, InLock
  <2>5. \A g \in Hosts : Halfway(g)'
    BY <2>4 DEF Halfway, Reading, InLock
  <2>6. QED
    BY <1>3, <1>4, <2>3, <2>5 DEF HealthInv
<1>9. QED
  BY <1>5, <1>6, <1>7, <1>8

LEMMA StartSteps ==
  ASSUME TypeInv, HealthInv, "kill" \notin lapses, NEW h \in Hosts,
         StartArchive(h) \/ StartPublish(h)
  PROVE  HealthInv'
<1>1. pc \in [Hosts -> Pcs]
  BY DEF TypeInv, TypeOK
<1>2. pc' \in [Hosts -> {"idle", "starting"}]
  <2>1. CASE StartArchive(h)
    BY <1>1, <2>1 DEF StartArchive, Alone, Goto
  <2>2. CASE StartPublish(h)
    BY <1>1, <2>2 DEF StartPublish, Goto, TypeInv, Placed
  <2>3. QED
    BY <2>1, <2>2
<1>3. \A g \in Hosts : Halfway(g)'
  BY <1>2 DEF Halfway, Reading
<1>4. CASE StartArchive(h)
  <2>1. ~exists' /\ Emptied'
    BY <1>2, <1>4 DEF StartArchive, EmptyStore, Emptied
  <2>2. QED
    BY <1>3, <2>1 DEF HealthInv
<1>5. CASE StartPublish(h)
  <2>1. Emptied
    BY <1>5 DEF StartPublish, Goto, TypeInv, Placed, HealthInv
  <2>2. Healthy' /\ exists'
    BY <1>5, <2>1, StartedIs DEF StartPublish, Emptied, Healthy, Loads
  <2>3. QED
    BY <1>3, <2>2 DEF HealthInv
<1>6. QED
  BY <1>4, <1>5

LEMMA HealthStep == TypeInv /\ Locking /\ HealthInv /\ [Next]_vars => HealthInv'
<1> SUFFICES ASSUME TypeInv, Locking, HealthInv, [Next]_vars PROVE HealthInv'
  OBVIOUS
<1>1. CASE Next
  <2>1. PICK h \in Hosts : NextBy(h)
    BY <1>1 DEF Next, NextBy
  <2>2. CASE "kill" \in lapses'
    BY <2>2 DEF HealthInv
  <2>3. CASE "kill" \notin lapses'
    <3>1. "kill" \notin lapses /\ ~Dies(h)
      <4>1. "kill" # h
        BY BoundAssumption
      <4>2. lapses' \in {lapses, lapses \ {h}} \/ Dies(h)
        BY <2>1 DEF NextBy, StartArchive, StartFresh, StartPublish, Begin, Retry, TakeLock,
             LockRefused, ReplayPending, PendingRefused, Load, AdvanceRefused, WriteHandoff,
             PrepareSelection, AppendEvents, ClearContext, CacheState, SavePending,
             RemovePending, Answer, WriteClaim, AppendClaim, AppendCheckpoint, CacheNoted,
             Park, Return, NothingToDo, Settle, Postpone, session
      <4>3. Dies(h) => "kill" \in lapses'
        BY DEF Dies
      <4>4. QED
        BY <2>3, <4>1, <4>2, <4>3
    <3>2. QED
      BY <2>1, <3>1, QuietSteps, AdvanceSteps, NoteSteps, StartSteps DEF NextBy
  <2>4. QED
    BY <2>2, <2>3
<1>2. CASE UNCHANGED vars
  BY <1>2 DEF HealthInv, Halfway, Quiet, Emptied, Healthy, Loads, Bound, Handed, Selected,
              vars, place, files, bound, session
<1>3. QED
  BY <1>1, <1>2

\* As long as nobody is killed, a store that nobody is working on is healthy, or
\* blocked: no meeting of advances, claims, checkpoints, parked inputs and starts
\* leaves a file that does not belong to the ledger.
THEOREM Healthful == Spec => []StoreHealthy
<1>1. TypeInv /\ OnceInv => Locking
  BY DEF OnceInv
<1>2. HealthInv => StoreHealthy
  BY DEF HealthInv, StoreHealthy, Quiet
<1>3. QED
  BY <1>1, <1>2, OnceInvariant, HealthInit, HealthStep, PTL DEF Spec

-----------------------------------------------------------------------------
(***************************************************************************)
(* The ledger implements the roadmap                                       *)
(***************************************************************************)
Remembering == Classified \/ \A a \in Assignments : Class[a] # "STANDALONE"

LedgerFlow(l) ==
  /\ l.done \cap l.skipped = {}
  /\ l.skipped # {} => Classified
  /\ Active(l) =>
       /\ l.current \notin l.done \cup l.skipped
       /\ Len(l.failures) < Limit(l.current)

\* Ledger n has selected what comes after d has passed and s is skipped.
Selects(n, d, s) ==
  /\ n.done = d /\ n.skipped = s /\ n.failures = << >>
  /\ \/ n.status = "RUNNING" /\ n.current \in Ready(d, s) /\ n.current \in Assignments
     \/ /\ n.current = 0 /\ Ready(d, s) = {}
        /\ n.status = IF d = Assignments THEN "COMPLETE" ELSE "BLOCKED"

\* Ledger n has counted a failure of l.
Counts(l, n) ==
  /\ n.done = l.done /\ n.skipped = l.skipped /\ n.current = l.current
  /\ Len(n.failures) \in {Len(l.failures), Len(l.failures) + 1}
  /\ Len(n.failures) <= 4
  /\ \/ n.status = "BLOCKED"
     \/ n.status = "RECOVERY_REQUIRED" /\ Len(n.failures) > Len(l.failures)

LEMMA LimitIs == \A a : Limit(a) \in {3, 4}
BY DEF Limit

\* The next assignment is ready, or the flow ends in the status it deserves.
LEMMA Selecting ==
  ASSUME NEW l \in Ledgers, NEW d \in SUBSET Assignments, NEW s \in SUBSET Assignments,
         d \cap s = {}, s # {} => Classified
  PROVE  Selects(Leave(l, d, s), d, s)
<1> DEFINE n == Leave(l, d, s)
<1>1. /\ n.done = d /\ n.skipped = IF Classified THEN s ELSE {}
      /\ n.failures = << >>
      /\ n.current = IF Ready(d, s) = {} THEN 0 ELSE Min(Ready(d, s))
      /\ n.status =
           IF Ready(d, s) # {} THEN "RUNNING" ELSE IF s = {} THEN "COMPLETE" ELSE "BLOCKED"
  BY LeaveIs
<1> HIDE DEF n
<1>2. n.skipped = s
  BY <1>1
<1>3. CASE Ready(d, s) # {}
  <2>1. n.status = "RUNNING" /\ n.current \in Ready(d, s) /\ n.current \in Assignments
    BY <1>1, <1>3, ReadyIn
  <2>2. Selects(n, d, s)
    BY <1>1, <1>2, <2>1 DEF Selects
  <2>3. QED
    BY <2>2 DEF n
<1>4. CASE Ready(d, s) = {}
  <2>1. s = {} => d = Assignments
    BY <1>4, SomethingReady
  <2>2. d = Assignments => s = {}
    OBVIOUS
  <2>3. n.current = 0 /\ n.status = IF d = Assignments THEN "COMPLETE" ELSE "BLOCKED"
    BY <1>1, <1>4, <2>1, <2>2
  <2>4. Selects(n, d, s)
    BY <1>1, <1>2, <1>4, <2>3 DEF Selects
  <2>5. QED
    BY <2>4 DEF n
<1>5. QED
  BY <1>3, <1>4

LEMMA SelectsFlow ==
  ASSUME NEW n, NEW d, NEW s, Selects(n, d, s), d \cap s = {}, s # {} => Classified
  PROVE  LedgerFlow(n)
<1>1. Len(n.failures) = 0
  BY DEF Selects
<1>2. Active(n) => n.current \in Ready(d, s)
  BY DEF Selects, Active
<1>3. QED
  BY <1>1, <1>2, LimitIs DEF Selects, LedgerFlow, Ready

\* What an advance does, in the roadmap's terms: a pass, a skip or a failure.
LEMMA AfterFlow ==
  ASSUME Remembering, NEW l \in Ledgers, Active(l), LedgerFlow(l),
         NEW h \in Hosts, NEW c \in Calls(h), c.op \in {"pass", "fail"}
  PROVE  /\ LedgerFlow(After(l, c))
         /\ \/ Selects(After(l, c), l.done \cup {l.current}, l.skipped)
            \/ /\ Class[l.current] = "STANDALONE" /\ Len(l.failures) = 3
               /\ Selects(After(l, c), l.done, l.skipped \cup {l.current})
            \/ Counts(l, After(l, c))
<1> DEFINE n == After(l, c)
<1>1. /\ l.done \in SUBSET Assignments /\ l.skipped \in SUBSET Assignments
      /\ l.current \in Assignments /\ Len(l.failures) \in Nat
  BY DEF Active, Ledgers
<1>2. /\ l.current \notin l.done \cup l.skipped /\ Len(l.failures) < Limit(l.current)
      /\ l.done \cap l.skipped = {} /\ (l.skipped # {} => Classified)
  BY DEF LedgerFlow
<1>3. CASE c.op = "pass"
  <2> DEFINE d == l.done \cup {l.current}
             a == Leave(l, d, l.skipped)
  <2>1. d \in SUBSET Assignments /\ d \cap l.skipped = {}
    BY <1>1, <1>2
  <2>2. n = [a EXCEPT !.stranded = a.status = "BLOCKED"] /\ n \in Ledgers
    BY <1>1, <1>3, PassedIs DEF After
  <2> HIDE DEF d, n
  <2>3. a \in Ledgers /\ Selects(a, d, l.skipped)
    BY <1>1, <1>2, <2>1, Selecting, LeaveIs
  <2> HIDE DEF a
  <2>4. /\ n.done = a.done /\ n.skipped = a.skipped /\ n.failures = a.failures
        /\ n.status = a.status /\ n.current = a.current
    BY <2>2, <2>3 DEF Ledgers
  <2>5. Selects(n, d, l.skipped)
    BY <2>3, <2>4 DEF Selects
  <2>6. LedgerFlow(n)
    BY <1>2, <2>1, <2>5, SelectsFlow
  <2>7. QED
    BY <2>5, <2>6 DEF d, n
<1>4. CASE c.op = "fail"
  <2> DEFINE s == l.skipped \cup {l.current}
             k == Limit(l.current)
  <2>1. n = Failed(l, c.item) /\ c.item \in Reasons
    BY <1>4, CallsAre DEF After
  <2>2. s \in SUBSET Assignments /\ l.done \cap s = {}
    BY <1>1, <1>2
  <2>3. k \in {3, 4} /\ Len(l.failures) < k
    BY <1>2, LimitIs
  <2>4. \/ /\ Class[l.current] = "STANDALONE" /\ Len(l.failures) = 3
           /\ n = Leave(l, l.done, s)
        \/ n = [l EXCEPT !.status = "BLOCKED"] /\ Len(l.failures) = 2
        \/ n = Failing(l, c.item, k)
    BY <1>1, <2>1, FailedIs DEF Limit
  <2> HIDE DEF n, s, k
  <2>5. CASE Class[l.current] = "STANDALONE" /\ Len(l.failures) = 3 /\ n = Leave(l, l.done, s)
    <3>1. Classified
      BY <1>1, <2>5 DEF Remembering
    <3>2. Selects(n, l.done, s)
      BY <1>1, <2>2, <2>5, <3>1, Selecting
    <3>3. LedgerFlow(n)
      BY <2>2, <3>1, <3>2, SelectsFlow
    <3>4. QED
      BY <2>5, <3>2, <3>3 DEF n, s
  <2>6. CASE n = [l EXCEPT !.status = "BLOCKED"] /\ Len(l.failures) = 2
    <3>1. /\ n.done = l.done /\ n.skipped = l.skipped /\ n.current = l.current
          /\ n.failures = l.failures /\ n.status = "BLOCKED"
      BY <2>6 DEF Ledgers
    <3>2. LedgerFlow(n)
      BY <1>2, <3>1 DEF LedgerFlow, Active
    <3>3. Counts(l, n)
      BY <2>6, <3>1 DEF Counts
    <3>4. QED
      BY <3>2, <3>3 DEF n
  <2>7. CASE n = Failing(l, c.item, k)
    <3>1. /\ n.done = l.done /\ n.skipped = l.skipped /\ n.current = l.current
          /\ Len(n.failures) = Len(l.failures) + 1
          /\ n.status = IF Len(l.failures) + 1 = k THEN "BLOCKED" ELSE "RECOVERY_REQUIRED"
      BY <2>1, <2>3, <2>7, FailingIs
    <3>2. LedgerFlow(n)
      <4>1. Active(n) => Len(n.failures) < k
        BY <1>1, <2>3, <3>1 DEF Active
      <4>2. QED
        BY <1>2, <3>1, <4>1 DEF LedgerFlow, k
    <3>3. Counts(l, n)
      BY <1>1, <2>3, <3>1 DEF Counts
    <3>4. QED
      BY <3>2, <3>3 DEF n
  <2>8. QED
    BY <2>4, <2>5, <2>6, <2>7
<1>5. QED
  BY <1>3, <1>4

\* Between two roadmaps there is no ledger.
FlowInv == (~exists => ledger = NoLedger) /\ LedgerFlow(ledger)

LEMMA NoLedgerFlow == LedgerFlow(NoLedger)
BY DEF LedgerFlow, NoLedger, Active

LEMMA FlowInit == Init => FlowInv /\ Flow!Init
<1>1. Len(NoLedger.failures) = 0
  BY DEF NoLedger
<1>2. QED
  BY <1>1, NoLedgerFlow DEF Init, FlowInv, Flow!Init, Flow!None, NoLedger

\* The mapping of the ledger to the roadmap's variables.
FlowReady(d, s) == Flow!Ready(d, s) = Ready(d, s)

LEMMA ReadyIsFlowReady == \A d, s : FlowReady(d, s)
BY DEF FlowReady, Flow!Ready, Ready

LEMMA PassRefines ==
  ASSUME Active(ledger),
         Selects(ledger', ledger.done \cup {ledger.current}, ledger.skipped)
  PROVE  Flow!Pass
<1>1. Len(ledger'.failures) = 0
  BY DEF Selects
<1>2. Flow!SelectNext
  BY <1>1, ReadyIsFlowReady DEF Selects, FlowReady, Flow!SelectNext, Flow!None
<1>3. QED
  BY <1>2 DEF Selects, Flow!Pass, Flow!Active, Active

LEMMA SkipRefines ==
  ASSUME Active(ledger), Class[ledger.current] = "STANDALONE", Len(ledger.failures) = 3,
         ledger.current \in Assignments,
         Selects(ledger', ledger.done, ledger.skipped \cup {ledger.current})
  PROVE  Flow!Skip
<1>1. Len(ledger'.failures) = 0
  BY DEF Selects
<1>2. Flow!SelectNext
  BY <1>1, ReadyIsFlowReady DEF Selects, FlowReady, Flow!SelectNext, Flow!None
<1>3. QED
  BY <1>2 DEF Selects, Flow!Skip, Flow!Active, Active

LEMMA FailRefines ==
  ASSUME Active(ledger), Counts(ledger, ledger')
  PROVE  Flow!Fail
BY DEF Counts, Flow!Fail, Flow!Active, Active

\* Whatever does not change the reduced flow is a stutter.
LEMMA StutterRefines ==
  ASSUME /\ ledger'.status = ledger.status /\ ledger'.current = ledger.current
         /\ ledger'.done = ledger.done /\ ledger'.skipped = ledger.skipped
         /\ ledger'.failures = ledger.failures
  PROVE  UNCHANGED Flow!vars /\ (LedgerFlow(ledger) => LedgerFlow(ledger'))
BY DEF Flow!vars, LedgerFlow, Active

LEMMA AppendRefines ==
  ASSUME Remembering, TypeInv, FlowInv, NEW h \in Hosts, AppendEvents(h)
  PROVE  FlowInv' /\ [Flow!Next]_(Flow!vars)
<1>1. exists' = exists
  BY DEF AppendEvents, place
<1>2. CASE ledger = basis[h]
  <2>1. /\ Active(ledger) /\ ledger \in Ledgers /\ ledger.current \in Assignments
        /\ call[h] \in Calls(h) /\ call[h].op \in {"pass", "fail"}
        /\ ledger' = After(ledger, call[h])
    BY <1>2, NoCallIs
       DEF AppendEvents, TypeInv, TypeOK, Called, Placed, Reading, Advancing, Active, Ledgers
  <2>2. exists
    BY <2>1 DEF FlowInv, Active, NoLedger
  <2>3. /\ LedgerFlow(ledger')
        /\ \/ Selects(ledger', ledger.done \cup {ledger.current}, ledger.skipped)
           \/ /\ Class[ledger.current] = "STANDALONE" /\ Len(ledger.failures) = 3
              /\ Selects(ledger', ledger.done, ledger.skipped \cup {ledger.current})
           \/ Counts(ledger, ledger')
    BY <2>1, AfterFlow DEF FlowInv
  <2>4. FlowInv'
    BY <1>1, <2>2, <2>3 DEF FlowInv
  <2>5. Flow!Pass \/ Flow!Skip \/ Flow!Fail
    BY <2>1, <2>3, PassRefines, SkipRefines, FailRefines
  <2>6. QED
    BY <2>4, <2>5 DEF Flow!Next
<1>3. CASE ledger # basis[h]
  <2>1. ledger' = ledger
    BY <1>3 DEF AppendEvents
  <2>2. QED
    BY <1>1, <2>1, StutterRefines DEF FlowInv
<1>4. QED
  BY <1>2, <1>3

LEMMA StartRefines ==
  ASSUME TypeInv, FlowInv, NEW h \in Hosts, StartArchive(h) \/ StartPublish(h)
  PROVE  FlowInv' /\ [Flow!Next]_(Flow!vars)
<1>1. CASE StartArchive(h)
  <2>1. ledger.status = "COMPLETE" /\ ledger' = NoLedger
    BY <1>1 DEF StartArchive, EmptyStore
  <2>2. Len(NoLedger.failures) = 0
    BY DEF NoLedger
  <2>3. Flow!Archive
    BY <2>1, <2>2 DEF Flow!Archive, Flow!None, NoLedger
  <2>4. QED
    BY <2>1, <2>3, NoLedgerFlow DEF FlowInv, Flow!Next
<1>2. CASE StartPublish(h)
  <2>1. ledger = NoLedger /\ ledger' = Started /\ exists'
    BY <1>2 DEF StartPublish, Goto, TypeInv, Placed, FlowInv
  <2>2. Len(Started.failures) = 0
    BY StartedIs
  <2>3. Flow!Start
    BY <2>1, <2>2, StartedIs, ReadyIsFlowReady DEF Flow!Start, FlowReady, NoLedger
  <2>4. LedgerFlow(Started)
    BY <2>2, StartedIs, LimitIs DEF LedgerFlow
  <2>5. QED
    BY <2>1, <2>3, <2>4 DEF FlowInv, Flow!Next
<1>3. QED
  BY <1>1, <1>2

LEMMA NoteRefines ==
  ASSUME TypeInv, FlowInv, NEW h \in Hosts, AppendClaim(h) \/ AppendCheckpoint(h)
  PROVE  FlowInv' /\ [Flow!Next]_(Flow!vars)
<1>1. ledger \in Ledgers
  BY DEF TypeInv, TypeOK
<1>2. /\ ledger'.status = ledger.status /\ ledger'.current = ledger.current
      /\ ledger'.done = ledger.done /\ ledger'.skipped = ledger.skipped
      /\ ledger'.failures = ledger.failures
  BY <1>1 DEF AppendClaim, AppendCheckpoint, Ledgers
<1>3. exists' = exists /\ exists
  BY DEF AppendClaim, AppendCheckpoint, Goto, TypeInv, Placed, place
<1>4. QED
  BY <1>2, <1>3, StutterRefines DEF FlowInv

LEMMA OtherRefines ==
  ASSUME FlowInv, ledger' = ledger, exists' = exists
  PROVE  FlowInv' /\ [Flow!Next]_(Flow!vars)
BY StutterRefines DEF FlowInv

LEMMA FlowStep ==
  Remembering /\ TypeInv /\ FlowInv /\ [Next]_vars => FlowInv' /\ [Flow!Next]_(Flow!vars)
<1> SUFFICES ASSUME Remembering, TypeInv, FlowInv, [Next]_vars
             PROVE  FlowInv' /\ [Flow!Next]_(Flow!vars)
  OBVIOUS
<1>1. CASE Next
  <2>1. PICK h \in Hosts : NextBy(h)
    BY <1>1 DEF Next, NextBy
  <2>2. \/ AppendEvents(h) \/ StartArchive(h) \/ StartPublish(h)
        \/ AppendClaim(h) \/ AppendCheckpoint(h)
        \/ ledger' = ledger /\ exists' = exists
    BY <2>1 DEF NextBy, StartFresh, Begin, Retry, TakeLock, LockRefused, ReplayPending,
         PendingRefused, Load, AdvanceRefused, WriteHandoff, PrepareSelection, ClearContext,
         CacheState, SavePending, RemovePending, Answer, WriteClaim, CacheNoted, Park, Return,
         NothingToDo, Dies, place, files
  <2>3. QED
    BY <2>2, AppendRefines, StartRefines, NoteRefines, OtherRefines
<1>2. CASE UNCHANGED vars
  BY <1>2, OtherRefines DEF vars, place, files
<1>3. QED
  BY <1>1, <1>2

\* What the ledger says of a roadmap is what its owner was promised: dependency
\* order, bounded failures, complete only when everything has passed.  A roadmap in
\* which only some assignments have a class must have no standalone one, because the
\* reduction forgets what was skipped there.
THEOREM Implements ==
  ASSUME Remembering
  PROVE  Spec => FlowImplementsRoadmap
<1>1. TypeInv /\ FlowInv /\ [Next]_vars => FlowInv' /\ [Flow!Next]_(Flow!vars)
  BY Remembering, FlowStep
<1>2. QED
  BY <1>1, FlowInit, TypeInit, TypeStep, PTL DEF Spec, FlowImplementsRoadmap, Flow!Spec
=============================================================================
