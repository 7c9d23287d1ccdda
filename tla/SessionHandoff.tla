--------------------------- MODULE SessionHandoff ---------------------------
(***************************************************************************)
(* Handing a session over, session_continuity.py and goal_handoff.py: the  *)
(* source session stores the snapshot of its goal as an evidence object,   *)
(* prepares a handoff record bound to the native state, the target         *)
(* rereads the native state and acknowledges, and the source asks whether  *)
(* it may idle.  Every write is made under .operation.lock; the status and *)
(* the target's comparison of snapshots are read without it.               *)
(*                                                                         *)
(* The native store is the sequence of its finalization routes: its length *)
(* stands for the digests of state, capsule, evidence and authority, which *)
(* change together, and for the snapshot of the goal bound to that state.  *)
(***************************************************************************)
EXTENDS Naturals, Sequences

CONSTANTS
  Handoffs,  \* handoff ids; a handoff has one source and one target session
  Routes,    \* the routes decide_finalization gives for a fresh capsule
  MaxState,  \* bound on the events of the native store
  None

VARIABLES
  native,    \* native[i]: the route in the i-th state
  object,    \* evidence objects on disk, by the snapshot they hold
  metadata,  \* their metadata files
  record,    \* session-handoffs
  ack,       \* session-acks
  source,    \* source[h]: what the source session of h does
  target,    \* target[h]: the state the target's snapshot was taken in
  lock       \* the handoff whose source holds .operation.lock, or None

vars == <<native, object, metadata, record, ack, source, target, lock>>

state == Len(native)

Init ==
  /\ native \in {<<r>> : r \in Routes}
  /\ object = {} /\ metadata = {}
  /\ record = [h \in Handoffs |-> None]
  /\ ack = [h \in Handoffs |-> None]
  /\ source = [h \in Handoffs |-> [pc |-> "work", snapshot |-> None]]
  /\ target = [h \in Handoffs |-> None]
  /\ lock = None

Whole(d) == d \in object /\ d \in metadata

(***************************************************************************)
(* store_evidence_object: the object, then its metadata, under the lock    *)
(***************************************************************************)
\* An object without metadata, or the reverse, is a conflict for ever.
StoreObject(h) ==
  /\ lock = None /\ source[h].pc = "work"
  /\ \/ /\ Whole(state)
        /\ source' = [source EXCEPT ![h] = [pc |-> "stored", snapshot |-> state]]
        /\ UNCHANGED <<object, lock>>
     \/ /\ state \notin object \cup metadata
        /\ object' = object \cup {state}
        /\ source' = [source EXCEPT ![h] = [pc |-> "object", snapshot |-> state]]
        /\ lock' = h
  /\ UNCHANGED <<native, metadata, record, ack, target>>

StoreMetadata(h) ==
  /\ source[h].pc = "object"
  /\ metadata' = metadata \cup {source[h].snapshot}
  /\ source' = [source EXCEPT ![h].pc = "stored"]
  /\ lock' = None
  /\ UNCHANGED <<native, object, record, ack, target>>

StoreFails(h) ==
  /\ source[h].pc = "object"
  /\ object' = object \ {source[h].snapshot}
  /\ source' = [source EXCEPT ![h] = [pc |-> "work", snapshot |-> None]]
  /\ lock' = None
  /\ UNCHANGED <<native, metadata, record, ack, target>>

\* Killed between the two files; another process of the session goes on.
SourceKilled(h) ==
  /\ source[h].pc \in {"object", "stored"}
  /\ source' = [source EXCEPT ![h] = [pc |-> "work", snapshot |-> None]]
  /\ lock' = IF source[h].pc = "object" THEN None ELSE lock
  /\ UNCHANGED <<native, object, metadata, record, ack, target>>

(***************************************************************************)
(* prepare_session_handoff                                                 *)
(***************************************************************************)
\* A goal handoff is bound to the state of its snapshot; a plain one names no
\* state and no evidence.
Prepare(h) ==
  /\ lock = None
  /\ \/ /\ source[h].pc = "stored" /\ source[h].snapshot = state
        /\ Whole(source[h].snapshot)
     \/ source[h].pc = "work"
  /\ record[h] = None
  /\ record' = [record EXCEPT ![h] = [state |-> state, evidence |-> source[h].snapshot]]
  /\ source' = [source EXCEPT ![h].pc = "wait"]
  /\ UNCHANGED <<native, object, metadata, ack, target, lock>>

\* The record of an earlier attempt stays, whatever it is bound to: repeating
\* the call succeeds only for equal content.
PrepareAgain(h) ==
  /\ lock = None /\ source[h].pc \in {"work", "stored"} /\ record[h] # None
  /\ record[h] = [state |-> state, evidence |-> source[h].snapshot]
  /\ source' = [source EXCEPT ![h].pc = "wait"]
  /\ UNCHANGED <<native, object, metadata, record, ack, target, lock>>

(***************************************************************************)
(* accept_goal_handoff and accept_session_handoff                          *)
(***************************************************************************)
\* Before the lock: the target's own snapshot is the recorded one.
AcceptGoal(h) ==
  /\ record[h] # None /\ record[h].evidence # None
  /\ Whole(record[h].evidence) /\ record[h].evidence = state
  /\ native[state] = "CONTINUE"
  /\ target' = [target EXCEPT ![h] = state]
  /\ UNCHANGED <<native, object, metadata, record, ack, source, lock>>

BindingsIgnored(r) == TRUE  \* trusts the record for the live state

BindingsEqual(r) == r.state = state

Status(r) ==
  CASE native[state] = "REQUEST_OWNER" -> "WAIT_FOR_OWNER"
    [] native[state] \in {"BLOCKED", "COMPLETE_ASSIGNMENT", "COMPLETE_ROADMAP"} ->
         "STOP_WITH_EVIDENCE"
    [] OTHER -> IF BindingsEqual(r) THEN "RESUME_AUTOMATICALLY" ELSE "RECONCILE_REQUIRED"

\* With the state of its snapshot expected, or as a plain call.  An earlier
\* acknowledgement stands, and the call succeeds only if it is the same.
Accept(h) ==
  /\ lock = None /\ record[h] # None
  /\ target[h] \in {None, state}
  /\ record[h].evidence # None => Whole(record[h].evidence)
  /\ ack[h] = None
  /\ ack' = [ack EXCEPT ![h] = [status |-> Status(record[h]), state |-> state]]
  /\ UNCHANGED <<native, object, metadata, record, source, target, lock>>

(***************************************************************************)
(* session_handoff_status                                                  *)
(***************************************************************************)
MayIdle(a) == a.status \in {"RESUME_AUTOMATICALLY", "STOP_WITH_EVIDENCE"}

SourceIdles(h) ==
  /\ source[h].pc = "wait" /\ ack[h] # None /\ MayIdle(ack[h])
  /\ source' = [source EXCEPT ![h].pc = "idle"]
  /\ UNCHANGED <<native, object, metadata, record, ack, target, lock>>

\* A writer of the native store: the source that still works, the target that
\* resumed, the owner.
NativeEvent ==
  /\ lock = None /\ state < MaxState
  /\ \E r \in Routes : native' = Append(native, r)
  /\ UNCHANGED <<object, metadata, record, ack, source, target, lock>>

Next ==
  \/ \E h \in Handoffs :
       \/ StoreObject(h) \/ StoreMetadata(h) \/ StoreFails(h) \/ SourceKilled(h)
       \/ Prepare(h) \/ PrepareAgain(h) \/ AcceptGoal(h) \/ Accept(h) \/ SourceIdles(h)
  \/ NativeEvent

Spec == Init /\ [][Next]_vars

(***************************************************************************)
(* Properties                                                              *)
(***************************************************************************)
TypeOK ==
  /\ object \subseteq 1 .. MaxState /\ metadata \subseteq 1 .. MaxState
  /\ lock \in Handoffs \cup {None}
  /\ \A h \in Handoffs : source[h].pc \in {"work", "object", "stored", "wait", "idle"}
  /\ \A h \in Handoffs : lock = h <=> source[h].pc = "object"

\* The target goes on alone only from the very state the source handed over,
\* with whole evidence taken in that state.
ResumedFromHandover ==
  \A h \in Handoffs : ack[h] # None /\ ack[h].status = "RESUME_AUTOMATICALLY" =>
    /\ ack[h].state = record[h].state /\ native[ack[h].state] = "CONTINUE"
    /\ record[h].evidence # None => Whole(record[h].evidence) /\ record[h].evidence = ack[h].state

\* The source leaves only work that its target resumed or that had come to
\* its end; never work that waits for the owner or has to be reconciled.
IdleIsCovered ==
  \A h \in Handoffs : source[h].pc = "idle" =>
    \/ ack[h].status = "RESUME_AUTOMATICALLY" /\ ack[h].state = record[h].state
    \/ native[ack[h].state] \in {"BLOCKED", "COMPLETE_ASSIGNMENT", "COMPLETE_ROADMAP"}
=============================================================================
