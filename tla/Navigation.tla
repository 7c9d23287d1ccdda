----------------------------- MODULE Navigation -----------------------------
(***************************************************************************)
(* The index of chats, notes and external views, navigation.py.  Hosts     *)
(* reserve, activate, finalize and roll over chats; every call reads the   *)
(* index, changes it and replaces the file under navigation.lock, so a     *)
(* call is one step; its answer may be lost, and the host asks again.      *)
(*                                                                         *)
(* A chat is its place in the sequence.  Titles and summaries are kept as  *)
(* far as a repeated call compares them: texts are model values.           *)
(***************************************************************************)
EXTENDS Naturals, Sequences, FiniteSets

CONSTANTS
  Keys,  \* 1 .. n; a host takes a new key in this order
  Texts, Metadata,
  MaxChats, MaxNotes,  \* bounds
  None

VARIABLES
  chats, notes, projections,  \* the index
  answered                    \* answers given: key, chat, chat rolled over (history)

vars == <<chats, notes, projections, answered>>

Chats == 1 .. Len(chats)
Reserved(key, text, parent, part) ==
  [key |-> key, provisional |-> text, parent |-> parent, part |-> part, state |-> "RESERVED",
   final |-> None, metadata |-> None, successor |-> None]

Init == chats = << >> /\ notes = << >> /\ projections = {} /\ answered = {}

ByKey(key) == {c \in Chats : chats[c].key = key}
AnyKey(key) == TRUE  \* reserves without looking for the key

FreshKey(key) == ByKey(key) = {} /\ \A k \in Keys : k < key => ByKey(k) # {}

\* A key that is known answers with its chat if the content is the same.
ReserveChat(key, text, parent, part) ==
  /\ \/ /\ FreshKey(key) /\ Len(chats) < MaxChats
        /\ parent \in Chats \cup {None}
        /\ chats' = Append(chats, Reserved(key, text, parent, part))
        /\ answered' = answered \cup {<<key, Len(chats) + 1, None>>}
     \/ \E c \in ByKey(key) :
          /\ chats[c].provisional = text /\ chats[c].parent = parent /\ chats[c].part = part
          /\ answered' = answered \cup {<<key, c, None>>}
          /\ UNCHANGED chats
  /\ UNCHANGED <<notes, projections>>

ActivateChat(c, meta) ==
  /\ \/ chats[c].state = "RESERVED"
     \/ chats[c].state = "ACTIVE" /\ chats[c].metadata = meta
  /\ chats' = [chats EXCEPT ![c].state = "ACTIVE", ![c].metadata = meta]
  /\ UNCHANGED <<notes, projections, answered>>

FinalizeChat(c, text) ==
  /\ chats[c].state = "ACTIVE"
  /\ chats' = [chats EXCEPT ![c].state = "FINALIZED", ![c].final = text]
  /\ UNCHANGED <<notes, projections, answered>>

CanRollOver(c) == chats[c].state \in {"ACTIVE", "FINALIZED"}

\* Finalizes the source, whatever title it was finalized with before, and
\* reserves its successor in the same replacement of the file.
RolloverChat(c, text, key) ==
  /\ CanRollOver(c) /\ FreshKey(key) /\ Len(chats) < MaxChats
  /\ chats' = Append([chats EXCEPT ![c].state = "HANDED_OFF", ![c].final = text,
                                   ![c].successor = Len(chats) + 1],
                     Reserved(key, text, c, chats[c].part + 1))
  /\ answered' = answered \cup {<<key, Len(chats) + 1, c>>}
  /\ UNCHANGED <<notes, projections>>

\* Repeated, it answers with the successor the source has.
RolloverAgain(c, key) ==
  /\ chats[c].state = "HANDED_OFF" /\ chats[c].successor \in ByKey(key)
  /\ answered' = answered \cup {<<key, chats[c].successor, c>>}
  /\ UNCHANGED <<chats, notes, projections>>

ReserveNote(key, text) ==
  /\ Len(notes) < MaxNotes
  /\ \A n \in 1 .. Len(notes) : notes[n].key # key
  /\ notes' = Append(notes, [key |-> key, title |-> text])
  /\ UNCHANGED <<chats, projections, answered>>

\* A view is registered once for a chat; another one of the kind is refused.
RegisterProjection(c, meta) ==
  /\ \A p \in projections : p[1] # c
  /\ projections' = projections \cup {<<c, meta>>}
  /\ UNCHANGED <<chats, notes, answered>>

Next ==
  \/ \E key \in Keys, text \in Texts :
       \/ \E parent \in Chats \cup {None}, part \in 1 .. 2 : ReserveChat(key, text, parent, part)
       \/ \E c \in Chats : RolloverChat(c, text, key)
       \/ ReserveNote(key, text)
  \/ \E c \in Chats :
       \/ \E key \in Keys : RolloverAgain(c, key)
       \/ \E text \in Texts : FinalizeChat(c, text)
       \/ \E meta \in Metadata : ActivateChat(c, meta) \/ RegisterProjection(c, meta)

Spec == Init /\ [][Next]_vars

(***************************************************************************)
(* Properties                                                              *)
(***************************************************************************)
\* What _validate_index asks of a file it reads: every file the calls write
\* can be read again.
ValidIndex ==
  /\ \A c, d \in Chats : chats[c].key = chats[d].key => c = d
  /\ \A c \in Chats :
       chats[c].state \in {"RESERVED", "ACTIVE", "FINALIZED", "HANDED_OFF"}

\* Retries included, a reservation key stands for one chat for ever, and every
\* rollover of a chat is answered with the one successor that the index names,
\* which names it back as the part before.
OneSuccessor ==
  /\ \A a, b \in answered : a[1] = b[1] => a[2] = b[2]
  /\ \A a \in answered : a[3] # None =>
       /\ chats[a[3]].state = "HANDED_OFF" /\ chats[a[3]].successor = a[2]
       /\ chats[a[2]].parent = a[3] /\ chats[a[2]].part = chats[a[3]].part + 1
=============================================================================
