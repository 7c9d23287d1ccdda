---------------------------- MODULE ContextProofs ----------------------------
(***************************************************************************)
(* Theorems about what a workspace answers with - captured sources and     *)
(* their derivations, executors and attempts, context packages - for any   *)
(* instances of their parameters.                                          *)
(***************************************************************************)
EXTENDS Workspace, FiniteSetTheorems, SequenceTheorems, WellFoundedInduction, TLAPS

(***************************************************************************)
(* Captured sources and their derivations.  The halves of the file only    *)
(* grow, so that a file which is at the end what it was at the beginning   *)
(* was that all along; and who made a source visible is the only one that  *)
(* knows it until he has answered.                                         *)
(***************************************************************************)
Halves == Nat \X Nat
Derivations ==
  [content : Halves, text : {"text", "moved", "gone"}, review : {None, "ACCEPT", "REJECT"},
   promoted : Nat \cup {None}, removed : BOOLEAN]

Copying ==
  [kind : {"capture", "register"}, at : {"first", "second", "verify", "publish"},
   stat : Halves, copy : Halves]
Capturing == [kind : {"capture"}, at : {"receipt"}, id : Nat, fresh : BOOLEAN]
Registering == [kind : {"register"}, at : {"receipt"}]
Promoting ==
  [kind : {"promote"}, at : {"promotion", "promotionReceipt"}, d : Nat, id : Nat,
   fresh : BOOLEAN]
Removals == [kind : {"remove"}, at : {"record", "unlink"}, d : Nat]

LibraryTypes ==
  /\ original \in Halves /\ original \in was
  /\ sources \in Seq(Halves) /\ derivs \in Seq(Derivations)
  /\ op \in Copying \cup Capturing \cup Registering \cup Promoting \cup Removals \cup {M!Idle}

\* A copy lies between the file before and the file now.
CopyBetween ==
  op \in Copying =>
    /\ op.stat \in was /\ op.stat[1] <= original[1] /\ op.stat[2] <= original[2]
    /\ op.at \in {"second", "verify"} => op.stat[1] <= op.copy[1] /\ op.copy[1] <= original[1]
    /\ op.at = "verify" => op.stat[2] <= op.copy[2] /\ op.copy[2] <= original[2]
    /\ op.at = "publish" => op.copy \in was

\* What has just been captured is known to its operation only.
Knows(o) ==
  /\ o.id \in DOMAIN sources
  /\ o.fresh => /\ o.id = Len(sources) /\ o.id \notin answered
                /\ \A d \in DOMAIN derivs :
                     derivs[d].promoted = o.id => o \in Promoting /\ d = o.d

OwnSource ==
  /\ op \in Capturing => Knows(op)
  /\ op \in Promoting =>
       /\ Knows(op) /\ op.d \in DOMAIN derivs /\ sources[op.id] = derivs[op.d].content
       /\ derivs[op.d].promoted = IF op.at = "promotion" THEN None ELSE op.id

\* The text is gone when its removal is recorded, but for the one that is
\* being removed.
TextAsRecorded ==
  /\ op \in Removals =>
       /\ op.d \in DOMAIN derivs /\ derivs[op.d].text = "moved"
       /\ derivs[op.d].removed <=> op.at = "unlink"
  /\ cut = {} =>
       \A d \in DOMAIN derivs :
         \/ op \in Removals /\ d = op.d
         \/ derivs[d].text = IF derivs[d].removed THEN "gone" ELSE "text"

LibraryInv ==
  /\ LibraryTypes /\ CopyBetween /\ OwnSource /\ TextAsRecorded
  /\ op \in Registering => derivs # << >>
  /\ M!StoredWhole /\ M!AnsweredStays

\* The operations are told apart.
LEMMA OpsApart ==
  /\ \A o \in Copying : o.kind \in {"capture", "register"}
                        /\ o.at \in {"first", "second", "verify", "publish"}
                        /\ o \notin Capturing /\ o \notin Registering /\ o \notin Promoting
                        /\ o \notin Removals /\ o # M!Idle
  /\ \A o \in Capturing : o.kind = "capture" /\ o.at = "receipt" /\ o \notin Copying
                          /\ o \notin Registering /\ o \notin Promoting /\ o \notin Removals
                          /\ o # M!Idle
  /\ \A o \in Registering : o.kind = "register" /\ o.at = "receipt" /\ o \notin Copying
                            /\ o \notin Capturing /\ o \notin Promoting /\ o \notin Removals
                            /\ o # M!Idle
  /\ \A o \in Promoting : o.kind = "promote" /\ o.at \in {"promotion", "promotionReceipt"}
                          /\ o \notin Copying /\ o \notin Capturing /\ o \notin Registering
                          /\ o \notin Removals /\ o # M!Idle
  /\ \A o \in Removals : o.kind = "remove" /\ o.at \in {"record", "unlink"} /\ o \notin Copying
                         /\ o \notin Capturing /\ o \notin Registering /\ o \notin Promoting
                         /\ o # M!Idle
  /\ M!Idle.at = "idle" /\ M!Idle \notin Copying /\ M!Idle \notin Capturing
  /\ M!Idle \notin Registering /\ M!Idle \notin Promoting /\ M!Idle \notin Removals
<1>1. \A o \in Copying : o.kind \in {"capture", "register"}
                         /\ o.at \in {"first", "second", "verify", "publish"}
  BY DEF Copying
<1>2. \A o \in Capturing : o.kind = "capture" /\ o.at = "receipt"
  BY DEF Capturing
<1>3. \A o \in Registering : o.kind = "register" /\ o.at = "receipt"
  BY DEF Registering
<1>4. \A o \in Promoting : o.kind = "promote" /\ o.at \in {"promotion", "promotionReceipt"}
  BY DEF Promoting
<1>5. \A o \in Removals : o.kind = "remove" /\ o.at \in {"record", "unlink"}
  BY DEF Removals
<1>6. M!Idle.at = "idle"
  BY DEF M!Idle
<1>7. QED
  BY <1>1, <1>2, <1>3, <1>4, <1>5, <1>6

\* A sequence without its last element, and with one more.
LEMMA FrontIs ==
  ASSUME NEW T, NEW s \in Seq(T), s # << >>
  PROVE  /\ M!Front(s) \in Seq(T) /\ Len(M!Front(s)) = Len(s) - 1 /\ Len(s) \in Nat \ {0}
         /\ DOMAIN M!Front(s) = DOMAIN s \ {Len(s)}
         /\ \A i \in DOMAIN M!Front(s) : M!Front(s)[i] = s[i]
<1> DEFINE n == Len(s)
           t == SubSeq(s, 1, n - 1)
<1>1. n \in Nat \ {0} /\ DOMAIN s = 1 .. n /\ \A i \in 1 .. n : s[i] \in T
  BY EmptySeq, LenProperties
<1> HIDE DEF n
<1>2. 1 \in Int /\ n - 1 \in Int /\ \A i \in 1 .. n - 1 : s[i] \in T
  BY <1>1
<1>3. /\ t \in Seq(T) /\ Len(t) = IF 1 <= n - 1 THEN (n - 1) - 1 + 1 ELSE 0
      /\ \A i \in 1 .. (n - 1) - 1 + 1 : t[i] = s[1 + i - 1]
  BY <1>2, SubSeqProperties
<1> HIDE DEF t
<1>4. DOMAIN t = 1 .. n - 1 /\ Len(t) = n - 1 /\ \A i \in 1 .. n - 1 : t[i] = s[i]
  BY <1>1, <1>3, LenProperties
<1>5. 1 .. (n - 1) = (1 .. n) \ {n}
  BY <1>1
<1>6. M!Front(s) = t
  BY DEF M!Front, t, n
<1>7. QED
  BY <1>1, <1>3, <1>4, <1>5, <1>6 DEF n

LEMMA AppendIs ==
  ASSUME NEW T, NEW s \in Seq(T), NEW x \in T
  PROVE  /\ Append(s, x) \in Seq(T) /\ Len(Append(s, x)) = Len(s) + 1 /\ Append(s, x) # << >>
         /\ Len(s) \in Nat /\ DOMAIN Append(s, x) = DOMAIN s \cup {Len(s) + 1}
         /\ Len(s) + 1 \notin DOMAIN s /\ DOMAIN s \subseteq Nat
         /\ \A i \in DOMAIN s : Append(s, x)[i] = s[i]
         /\ Append(s, x)[Len(s) + 1] = x
<1>1. /\ Append(s, x) \in Seq(T) /\ Len(Append(s, x)) = Len(s) + 1
      /\ \A i \in 1 .. Len(s) : Append(s, x)[i] = s[i]
      /\ Append(s, x)[Len(s) + 1] = x /\ Len(s) \in Nat
  BY AppendProperties
<1>2. DOMAIN s = 1 .. Len(s) /\ DOMAIN Append(s, x) = 1 .. (Len(s) + 1)
  BY <1>1
<1>3. 1 .. (Len(s) + 1) = (1 .. Len(s)) \cup {Len(s) + 1}
  BY <1>1
<1>4. QED
  BY <1>1, <1>2, <1>3, EmptySeq

LEMMA LibraryInit == M!Init => LibraryInv
<1> SUFFICES ASSUME M!Init PROVE LibraryInv
  OBVIOUS
<1>1. /\ original = <<0, 0>> /\ was = {original} /\ sources = << >> /\ derivs = << >>
      /\ answered = {} /\ op = M!Idle /\ cut = {} /\ DOMAIN << >> = {}
  BY DEF M!Init
<1>2. LibraryTypes
  BY <1>1 DEF LibraryTypes, Halves
<1>3. CopyBetween /\ OwnSource /\ TextAsRecorded /\ op \notin Registering
  BY <1>1, OpsApart DEF CopyBetween, OwnSource, TextAsRecorded
<1>4. M!StoredWhole /\ M!AnsweredStays
  BY <1>1 DEF M!StoredWhole, M!AnsweredStays
<1>5. QED
  BY <1>2, <1>3, <1>4 DEF LibraryInv

\* The file is written, whatever the operation is about to do.
LEMMA FileIsWritten == ASSUME LibraryInv, M!WriteFile PROVE LibraryInv'
<1>1. /\ original' = IF original[2] < original[1] THEN <<original[1], original[1]>>
                     ELSE <<original[1] + 1, original[2]>>
      /\ was' = was \cup {original'} /\ UNCHANGED <<sources, derivs, answered, op, cut>>
  BY DEF M!WriteFile
<1>2. original[1] \in Nat /\ original[2] \in Nat
  BY DEF LibraryInv, LibraryTypes, Halves
<1>3. /\ original' \in Halves /\ original'[1] \in Nat /\ original'[2] \in Nat
      /\ original[1] <= original'[1] /\ original[2] <= original'[2]
  BY <1>1, <1>2 DEF Halves
<1>4. LibraryTypes'
  BY <1>1, <1>3 DEF LibraryInv, LibraryTypes
<1>5. CopyBetween'
  <2>1. SUFFICES ASSUME op \in Copying PROVE CopyBetween'
    BY <1>1 DEF CopyBetween
  <2>2. /\ op.stat[1] \in Nat /\ op.stat[2] \in Nat /\ op.copy[1] \in Nat /\ op.copy[2] \in Nat
    BY <2>1 DEF Copying, Halves
  <2>3. QED
    BY <1>1, <1>2, <1>3, <2>1, <2>2 DEF LibraryInv, CopyBetween
<1>6. OwnSource' /\ TextAsRecorded' /\ M!AnsweredStays' /\ (op' \in Registering => derivs' # << >>)
  BY <1>1 DEF LibraryInv, OwnSource, Knows, TextAsRecorded, M!AnsweredStays
<1>7. M!StoredWhole'
  BY <1>1 DEF LibraryInv, M!StoredWhole
<1>8. QED
  BY <1>4, <1>5, <1>6, <1>7 DEF LibraryInv

\* An operation that changes nothing that is stored goes on to o.
LEMMA OpMoves ==
  ASSUME LibraryInv, NEW o \in Copying \cup {M!Idle},
         op \in Copying \cup {M!Idle},
         UNCHANGED <<original, was, sources, derivs, answered, cut>>, op' = o, CopyBetween'
  PROVE  LibraryInv'
<1>1. LibraryTypes'
  BY DEF LibraryInv, LibraryTypes
<1>2. op \notin Removals /\ o \notin Removals /\ o \notin Capturing /\ o \notin Promoting
      /\ o \notin Registering
  BY OpsApart
<1>3. OwnSource' /\ TextAsRecorded'
  BY <1>2 DEF LibraryInv, OwnSource, TextAsRecorded
<1>4. M!StoredWhole' /\ M!AnsweredStays'
  BY DEF LibraryInv, M!StoredWhole, M!AnsweredStays
<1>5. QED
  BY <1>1, <1>2, <1>3, <1>4 DEF LibraryInv

LEMMA FileIsCopied ==
  ASSUME LibraryInv,
         \/ \E kind \in {"capture", "register"} : M!Begin(kind)
         \/ M!CopyFirst \/ M!CopySecond \/ M!Verify
  PROVE  LibraryInv'
<1>1. /\ UNCHANGED <<original, was, sources, derivs, answered, cut>>
      /\ original \in Halves /\ original \in was
      /\ original[1] \in Nat /\ original[2] \in Nat
  BY DEF LibraryInv, LibraryTypes, Halves, M!Begin, M!CopyFirst, M!CopySecond, M!Verify
<1>2. ASSUME op.at \in {"first", "second", "verify"}
      PROVE  /\ op \in Copying /\ op.stat \in Halves /\ op.copy \in Halves
             /\ op.stat[1] \in Nat /\ op.stat[2] \in Nat /\ op.copy[1] \in Nat
             /\ op.copy[2] \in Nat
  <2>1. op \in Copying
    BY <1>2, OpsApart DEF LibraryInv, LibraryTypes
  <2>2. QED
    BY <2>1 DEF Copying, Halves
<1>3. ASSUME NEW kind \in {"capture", "register"}, M!Begin(kind) PROVE LibraryInv'
  <2>1. PICK o : o = [kind |-> kind, at |-> "first", stat |-> original, copy |-> original]
    OBVIOUS
  <2>2. o \in Copying /\ op = M!Idle /\ op' = o
    BY <1>1, <1>3, <2>1 DEF M!Begin, Copying
  <2>3. CopyBetween'
    BY <1>1, <2>1, <2>2 DEF CopyBetween
  <2>4. QED
    BY <1>1, <2>2, <2>3, OpMoves
<1>4. CASE M!CopyFirst
  <2>1. op.at = "first" /\ op \in Copying
    BY <1>2, <1>4 DEF M!CopyFirst
  <2>2. PICK c : c = [op.copy EXCEPT ![1] = original[1]]
    OBVIOUS
  <2>3. c \in Halves /\ c[1] = original[1]
    BY <1>1, <1>2, <2>1, <2>2 DEF Halves
  <2>4. PICK o : o = [op EXCEPT !.at = "second", !.copy = c]
    OBVIOUS
  <2>5. op' = o
    BY <1>2, <1>4, <2>1, <2>2, <2>4 DEF M!CopyFirst, Copying
  <2>6. o \in Copying /\ o.at = "second" /\ o.stat = op.stat /\ o.copy = c
    BY <2>1, <2>3, <2>4 DEF Copying
  <2>7. CopyBetween'
    BY <1>1, <1>2, <2>1, <2>3, <2>5, <2>6 DEF LibraryInv, CopyBetween
  <2>8. QED
    BY <1>1, <2>1, <2>5, <2>6, <2>7, OpMoves
<1>5. CASE M!CopySecond
  <2>1. op.at = "second" /\ op \in Copying
    BY <1>2, <1>5 DEF M!CopySecond
  <2>2. PICK c : c = [op.copy EXCEPT ![2] = original[2]]
    OBVIOUS
  <2>3. c \in Halves /\ c[2] = original[2] /\ c[1] = op.copy[1]
    BY <1>1, <1>2, <2>1, <2>2 DEF Halves
  <2>4. PICK o : o = [op EXCEPT !.at = "verify", !.copy = c]
    OBVIOUS
  <2>5. op' = o
    BY <1>2, <1>5, <2>1, <2>2, <2>4 DEF M!CopySecond, Copying
  <2>6. o \in Copying /\ o.at = "verify" /\ o.stat = op.stat /\ o.copy = c
    BY <2>1, <2>3, <2>4 DEF Copying
  <2>7. CopyBetween'
    BY <1>1, <1>2, <2>1, <2>3, <2>5, <2>6 DEF LibraryInv, CopyBetween
  <2>8. QED
    BY <1>1, <2>1, <2>5, <2>6, <2>7, OpMoves
<1>6. CASE M!Verify
  <2>1. op.at = "verify" /\ op \in Copying
    BY <1>2, <1>6 DEF M!Verify
  <2>2. CASE op.stat = original
    <3>1. PICK o : o = [op EXCEPT !.at = "publish"]
      OBVIOUS
    <3>2. op' = o
      BY <1>6, <2>2, <3>1 DEF M!Verify, M!SameFile
    <3>3. o \in Copying /\ o.at = "publish" /\ o.stat = op.stat /\ o.copy = op.copy
      BY <2>1, <3>1 DEF Copying
    <3>4. op.copy[1] = original[1] /\ op.copy[2] = original[2]
      BY <1>1, <1>2, <2>1, <2>2 DEF LibraryInv, CopyBetween
    <3>5. op.copy = original
      BY <1>1, <1>2, <2>1, <3>4 DEF Halves
    <3>6. CopyBetween'
      BY <1>1, <2>1, <3>2, <3>3, <3>5 DEF LibraryInv, CopyBetween
    <3>7. QED
      BY <1>1, <2>1, <3>2, <3>3, <3>6, OpMoves
  <2>3. CASE op.stat # original
    BY <1>1, <1>6, <2>1, <2>3, OpsApart, OpMoves DEF M!Verify, M!SameFile, CopyBetween
  <2>4. QED
    BY <2>2, <2>3
<1>7. QED
  BY <1>3, <1>4, <1>5, <1>6

\* A content is stored already, or becomes the newest source.
LEMMA Stores ==
  ASSUME LibraryInv, NEW content \in was, content \in Halves, NEW next, M!Publish(content, next)
  PROVE  \E id \in Nat, fresh \in BOOLEAN :
           /\ op' = [next EXCEPT !.id = id, !.fresh = fresh]
           /\ sources' \in Seq(Halves) /\ DOMAIN sources \subseteq DOMAIN sources'
           /\ \A i \in DOMAIN sources : sources'[i] = sources[i]
           /\ id \in DOMAIN sources' /\ sources'[id] = content
           /\ fresh => id = Len(sources') /\ id \notin DOMAIN sources
           /\ \A i \in DOMAIN sources' : sources'[i] \in was
           /\ \A i, j \in DOMAIN sources' : sources'[i] = sources'[j] => i = j
<1>1. /\ sources \in Seq(Halves) /\ \A i \in DOMAIN sources : sources[i] \in was
      /\ \A i, j \in DOMAIN sources : sources[i] = sources[j] => i = j
      /\ DOMAIN sources \subseteq Nat
  <2>1. sources \in Seq(Halves)
    BY DEF LibraryInv, LibraryTypes
  <2>2. DOMAIN sources \subseteq Nat
    BY <2>1, LenProperties
  <2>3. QED
    BY <2>1, <2>2 DEF LibraryInv, M!StoredWhole
<1>2. CASE M!Captured(content) # {}
  <2>1. PICK id : id = CHOOSE i \in M!Captured(content) : TRUE
    OBVIOUS
  <2>2. id \in DOMAIN sources /\ sources[id] = content /\ id \in Nat
    BY <1>1, <1>2, <2>1 DEF M!Captured
  <2>3. op' = [next EXCEPT !.id = id, !.fresh = FALSE] /\ sources' = sources
    BY <1>2, <2>1 DEF M!Publish
  <2>4. QED
    BY <1>1, <2>2, <2>3
<1>3. CASE M!Captured(content) = {}
  <2>1. PICK id : id = Len(sources) + 1
    OBVIOUS
  <2>2. op' = [next EXCEPT !.id = id, !.fresh = TRUE] /\ sources' = Append(sources, content)
    BY <1>3, <2>1 DEF M!Publish
  <2>3. /\ sources' \in Seq(Halves) /\ Len(sources') = id /\ id \in Nat
        /\ DOMAIN sources' = DOMAIN sources \cup {id} /\ id \notin DOMAIN sources
        /\ \A i \in DOMAIN sources : sources'[i] = sources[i]
        /\ sources'[id] = content
    BY <1>1, <2>1, <2>2, AppendIs
  <2>4. \A i \in DOMAIN sources : sources[i] # content
    BY <1>3 DEF M!Captured
  <2>5. \A i \in DOMAIN sources' : sources'[i] \in was
    BY <1>1, <2>3
  <2>6. \A i, j \in DOMAIN sources' : sources'[i] = sources'[j] => i = j
    BY <1>1, <2>3, <2>4
  <2>7. QED
    BY <2>2, <2>3, <2>5, <2>6
<1>4. QED
  BY <1>2, <1>3

LEMMA CaptureIsPublished == ASSUME LibraryInv, M!PublishCapture PROVE LibraryInv'
<1>1. PICK next : next = [kind |-> "capture", at |-> "receipt", id |-> 0, fresh |-> FALSE]
  OBVIOUS
<1>2. /\ op.at = "publish" /\ M!Publish(op.copy, next)
      /\ UNCHANGED <<original, was, derivs, answered, cut>>
  BY <1>1 DEF M!PublishCapture
<1>3. op \in Copying /\ op.copy \in was /\ op.copy \in Halves
  <2>1. op \in Copying
    BY <1>2, OpsApart DEF LibraryInv, LibraryTypes
  <2>2. QED
    BY <1>2, <2>1 DEF LibraryInv, CopyBetween, Copying
<1>4. PICK id \in Nat, fresh \in BOOLEAN :
        /\ op' = [next EXCEPT !.id = id, !.fresh = fresh]
        /\ sources' \in Seq(Halves) /\ DOMAIN sources \subseteq DOMAIN sources'
        /\ \A i \in DOMAIN sources : sources'[i] = sources[i]
        /\ id \in DOMAIN sources' /\ sources'[id] = op.copy
        /\ fresh => id = Len(sources') /\ id \notin DOMAIN sources
        /\ \A i \in DOMAIN sources' : sources'[i] \in was
        /\ \A i, j \in DOMAIN sources' : sources'[i] = sources'[j] => i = j
  BY <1>2, <1>3, Stores
<1>5. op' \in Capturing /\ op'.id = id /\ op'.fresh = fresh
  BY <1>1, <1>4 DEF Capturing
<1>6. op' \notin Copying /\ op' \notin Promoting /\ op' \notin Removals /\ op' \notin Registering
  BY <1>5, OpsApart
<1>7. LibraryTypes'
  BY <1>2, <1>4, <1>5 DEF LibraryInv, LibraryTypes
<1>8. OwnSource'
  <2>1. fresh => id \notin answered /\ \A d \in DOMAIN derivs : derivs[d].promoted # id
    BY <1>4, TargetAssumption DEF LibraryInv, M!AnsweredStays
  <2>2. QED
    BY <1>2, <1>4, <1>5, <1>6, <2>1 DEF OwnSource, Knows
<1>9. CopyBetween' /\ TextAsRecorded'
  BY <1>2, <1>3, <1>6, OpsApart DEF LibraryInv, CopyBetween, TextAsRecorded
<1>10. M!StoredWhole' /\ M!AnsweredStays'
  BY <1>2, <1>4 DEF LibraryInv, M!StoredWhole, M!AnsweredStays
<1>11. QED
  BY <1>6, <1>7, <1>8, <1>9, <1>10 DEF LibraryInv

LEMMA CaptureIsAnswered == ASSUME LibraryInv, M!CaptureReceipt PROVE LibraryInv'
<1>1. /\ op.at = "receipt" /\ op.kind = "capture" /\ answered' = answered \cup {op.id}
      /\ op' = M!Idle /\ UNCHANGED <<original, was, sources, derivs, cut>>
  BY DEF M!CaptureReceipt
<1>2. op \in Capturing /\ op.id \in DOMAIN sources
  <2>1. op \in Capturing
    BY <1>1, OpsApart DEF LibraryInv, LibraryTypes
  <2>2. QED
    BY <2>1 DEF LibraryInv, OwnSource, Knows
<1>3. LibraryTypes'
  BY <1>1 DEF LibraryInv, LibraryTypes
<1>4. CopyBetween' /\ OwnSource' /\ TextAsRecorded' /\ op' \notin Registering
  BY <1>1, <1>2, OpsApart DEF LibraryInv, CopyBetween, OwnSource, TextAsRecorded
<1>5. M!StoredWhole' /\ M!AnsweredStays'
  BY <1>1, <1>2 DEF LibraryInv, M!StoredWhole, M!AnsweredStays
<1>6. QED
  BY <1>3, <1>4, <1>5 DEF LibraryInv

\* A source that nobody else knows is taken back.
LEMMA TakenBack ==
  ASSUME LibraryInv, op \in Capturing \cup Promoting, sources' = M!RollbackCapture,
         UNCHANGED was
  PROVE  /\ sources' \in Seq(Halves) /\ DOMAIN sources' \subseteq DOMAIN sources
         /\ \A i \in DOMAIN sources' : sources'[i] = sources[i]
         /\ answered \subseteq DOMAIN sources'
         /\ \A d \in DOMAIN derivs :
              derivs[d].promoted # None /\ (op \in Promoting => d # op.d) =>
                derivs[d].promoted \in DOMAIN sources'
         /\ \A i \in DOMAIN sources' : sources'[i] \in was
         /\ \A i, j \in DOMAIN sources' : sources'[i] = sources'[j] => i = j
<1>1. Knows(op) /\ op.fresh \in BOOLEAN
  <2>1. Knows(op)
    BY DEF LibraryInv, OwnSource
  <2>2. op.fresh \in BOOLEAN
    BY DEF Capturing, Promoting
  <2>3. QED
    BY <2>1, <2>2
<1>2. sources \in Seq(Halves) /\ answered \subseteq DOMAIN sources
  BY DEF LibraryInv, LibraryTypes, M!AnsweredStays
<1>3. CASE ~op.fresh
  BY <1>2, <1>3 DEF M!RollbackCapture, LibraryInv, M!StoredWhole, M!AnsweredStays
<1>4. CASE op.fresh
  <2>1. sources # << >> /\ op.id = Len(sources) /\ op.id \notin answered
    BY <1>1, <1>4 DEF Knows
  <2>2. /\ sources' \in Seq(Halves) /\ DOMAIN sources' = DOMAIN sources \ {Len(sources)}
        /\ \A i \in DOMAIN sources' : sources'[i] = sources[i]
    BY <1>2, <1>4, <2>1, FrontIs DEF M!RollbackCapture
  <2>3. answered \subseteq DOMAIN sources'
    BY <1>2, <2>1, <2>2
  <2>4. \A d \in DOMAIN derivs :
          derivs[d].promoted # None /\ (op \in Promoting => d # op.d) =>
            derivs[d].promoted \in DOMAIN sources'
    BY <1>1, <1>4, <2>1, <2>2 DEF Knows, LibraryInv, M!AnsweredStays
  <2>5. QED
    BY <2>2, <2>3, <2>4 DEF LibraryInv, M!StoredWhole
<1>5. QED
  BY <1>1, <1>3, <1>4

LEMMA CaptureIsNotAnswered == ASSUME LibraryInv, M!CaptureReceiptFails PROVE LibraryInv'
<1>1. /\ op.at = "receipt" /\ op.kind = "capture" /\ sources' = M!RollbackCapture
      /\ op' = M!Idle /\ UNCHANGED <<original, was, derivs, answered, cut>>
  BY DEF M!CaptureReceiptFails
<1>2. op \in Capturing /\ op \notin Promoting /\ op \notin Removals
  <2>1. op \in Capturing
    BY <1>1, OpsApart DEF LibraryInv, LibraryTypes
  <2>2. QED
    BY <2>1, OpsApart
<1>3. /\ sources' \in Seq(Halves) /\ DOMAIN sources' \subseteq DOMAIN sources
      /\ \A i \in DOMAIN sources' : sources'[i] = sources[i]
      /\ answered \subseteq DOMAIN sources'
      /\ \A d \in DOMAIN derivs : derivs[d].promoted # None =>
           derivs[d].promoted \in DOMAIN sources'
      /\ \A i \in DOMAIN sources' : sources'[i] \in was
      /\ \A i, j \in DOMAIN sources' : sources'[i] = sources'[j] => i = j
  BY <1>1, <1>2, TakenBack
<1>4. LibraryTypes'
  BY <1>1, <1>3 DEF LibraryInv, LibraryTypes
<1>5. CopyBetween' /\ OwnSource' /\ TextAsRecorded' /\ op' \notin Registering
  BY <1>1, <1>2, OpsApart DEF LibraryInv, CopyBetween, OwnSource, TextAsRecorded
<1>6. M!StoredWhole' /\ M!AnsweredStays'
  BY <1>1, <1>3 DEF LibraryInv, M!StoredWhole, M!AnsweredStays
<1>7. QED
  BY <1>4, <1>5, <1>6 DEF LibraryInv

\* What is known of a derivation.
LEMMA DerivationIs ==
  ASSUME LibraryInv, NEW d \in DOMAIN derivs
  PROVE  /\ derivs[d] \in Derivations /\ d \in Nat
         /\ derivs[d].content \in was /\ derivs[d].content \in Halves
<1>1. derivs \in Seq(Derivations)
  BY DEF LibraryInv, LibraryTypes
<1>2. derivs[d] \in Derivations /\ d \in Nat
  BY <1>1, LenProperties
<1>3. QED
  BY <1>2 DEF LibraryInv, M!StoredWhole, Derivations

\* One derivation becomes e; it keeps its content.
LEMMA OneDerivation ==
  ASSUME LibraryInv, NEW d \in DOMAIN derivs, NEW e \in Derivations,
         e.content = derivs[d].content, derivs' = [derivs EXCEPT ![d] = e], UNCHANGED was
  PROVE  /\ derivs' \in Seq(Derivations) /\ DOMAIN derivs' = DOMAIN derivs /\ derivs'[d] = e
         /\ \A c \in DOMAIN derivs : c # d => derivs'[c] = derivs[c]
         /\ \A c \in DOMAIN derivs : derivs'[c].content = derivs[c].content
         /\ \A c \in DOMAIN derivs' : derivs'[c].content \in was'
<1>1. derivs \in Seq(Derivations)
  BY DEF LibraryInv, LibraryTypes
<1>2. /\ DOMAIN derivs' = DOMAIN derivs /\ derivs'[d] = e
      /\ \A c \in DOMAIN derivs : c # d => derivs'[c] = derivs[c]
  OBVIOUS
<1>3. derivs' \in Seq(Derivations)
  BY <1>1, ExceptSeq
<1>4. QED
  BY <1>2, <1>3 DEF LibraryInv, M!StoredWhole

LEMMA DerivationIsPublished == ASSUME LibraryInv, M!PublishDerivation PROVE LibraryInv'
<1>1. /\ op.kind = "register" /\ op.at = "publish" /\ M!Loadable
      /\ UNCHANGED <<original, was, sources, answered, cut>>
  BY DEF M!PublishDerivation
<1>2. op \in Copying /\ op.copy \in was /\ op.copy \in Halves
  <2>1. op \in Copying
    BY <1>1, OpsApart DEF LibraryInv, LibraryTypes
  <2>2. QED
    BY <1>1, <2>1 DEF LibraryInv, CopyBetween, Copying
<1>3. CASE op' = M!Idle /\ UNCHANGED derivs
  <2>1. CopyBetween'
    BY <1>3, OpsApart DEF CopyBetween
  <2>2. QED
    BY <1>1, <1>2, <1>3, <2>1, OpMoves
<1>4. CASE /\ derivs' = Append(derivs, [content |-> op.copy, text |-> "text", review |-> None,
                                        promoted |-> None, removed |-> FALSE])
           /\ op' = [kind |-> "register", at |-> "receipt"]
  <2>1. PICK e : e = [content |-> op.copy, text |-> "text", review |-> None, promoted |-> None,
                      removed |-> FALSE]
    OBVIOUS
  <2>2. /\ e \in Derivations /\ e.text = "text" /\ e.promoted = None /\ ~e.removed
        /\ e.content = op.copy
    BY <1>2, <2>1 DEF Derivations
  <2>3. derivs \in Seq(Derivations) /\ derivs' = Append(derivs, e)
    BY <1>4, <2>1 DEF LibraryInv, LibraryTypes
  <2>4. PICK n : n = Len(derivs) + 1
    OBVIOUS
  <2>5. /\ derivs' \in Seq(Derivations) /\ DOMAIN derivs' = DOMAIN derivs \cup {n}
        /\ derivs' # << >> /\ \A d \in DOMAIN derivs : derivs'[d] = derivs[d]
        /\ derivs'[n] = e
    BY <2>2, <2>3, <2>4, AppendIs
  <2>6. op' \in Registering
    BY <1>4 DEF Registering
  <2>7. LibraryTypes'
    BY <1>1, <2>5, <2>6 DEF LibraryInv, LibraryTypes
  <2>8. CopyBetween' /\ OwnSource'
    BY <2>6, OpsApart DEF CopyBetween, OwnSource
  <2>9. TextAsRecorded'
    BY <1>1, <1>2, <2>2, <2>5, <2>6, OpsApart DEF LibraryInv, TextAsRecorded
  <2>10. M!StoredWhole'
    BY <1>1, <1>2, <2>2, <2>5 DEF LibraryInv, M!StoredWhole
  <2>11. M!AnsweredStays'
    BY <1>1, <2>2, <2>5 DEF LibraryInv, M!AnsweredStays
  <2>12. QED
    BY <2>5, <2>7, <2>8, <2>9, <2>10, <2>11 DEF LibraryInv
<1>5. QED
  BY <1>3, <1>4 DEF M!PublishDerivation

LEMMA RegistrationEnds ==
  ASSUME LibraryInv, NEW ok \in BOOLEAN, M!RegisterReceipt(ok) PROVE LibraryInv'
<1>1. /\ op.kind = "register" /\ op.at = "receipt" /\ op' = M!Idle
      /\ derivs' = IF ok THEN derivs ELSE M!Front(derivs)
      /\ UNCHANGED <<original, was, sources, answered, cut>>
  BY DEF M!RegisterReceipt
<1>2. op \in Registering /\ op \notin Removals /\ derivs # << >> /\ derivs \in Seq(Derivations)
  <2>1. op \in Registering
    BY <1>1, OpsApart DEF LibraryInv, LibraryTypes
  <2>2. QED
    BY <2>1, OpsApart DEF LibraryInv, LibraryTypes
<1>3. /\ derivs' \in Seq(Derivations) /\ DOMAIN derivs' \subseteq DOMAIN derivs
      /\ \A d \in DOMAIN derivs' : derivs'[d] = derivs[d]
  BY <1>1, <1>2, FrontIs
<1>4. LibraryTypes'
  BY <1>1, <1>3 DEF LibraryInv, LibraryTypes
<1>5. CopyBetween' /\ OwnSource' /\ TextAsRecorded' /\ op' \notin Registering
  BY <1>1, <1>2, <1>3, OpsApart DEF LibraryInv, CopyBetween, OwnSource, TextAsRecorded
<1>6. M!StoredWhole' /\ M!AnsweredStays'
  BY <1>1, <1>3 DEF LibraryInv, M!StoredWhole, M!AnsweredStays
<1>7. QED
  BY <1>4, <1>5, <1>6 DEF LibraryInv

LEMMA DerivationIsReviewed ==
  ASSUME LibraryInv, NEW d \in DOMAIN derivs, NEW decision \in {"ACCEPT", "REJECT"},
         M!Review(d, decision)
  PROVE  LibraryInv'
<1>1. PICK e : e = [derivs[d] EXCEPT !.review = decision]
  OBVIOUS
<1>2. /\ op = M!Idle /\ op' = M!Idle /\ derivs' = [derivs EXCEPT ![d] = e]
      /\ UNCHANGED <<original, was, sources, answered, cut>>
  BY <1>1 DEF M!Review, M!Ready
<1>3. /\ e \in Derivations /\ e.content = derivs[d].content /\ e.text = derivs[d].text
      /\ e.removed = derivs[d].removed /\ e.promoted = derivs[d].promoted
  BY <1>1, DerivationIs DEF Derivations
<1>4. /\ derivs' \in Seq(Derivations) /\ DOMAIN derivs' = DOMAIN derivs /\ derivs'[d] = e
      /\ \A c \in DOMAIN derivs : c # d => derivs'[c] = derivs[c]
      /\ \A c \in DOMAIN derivs : derivs'[c].content = derivs[c].content
      /\ \A c \in DOMAIN derivs' : derivs'[c].content \in was'
  BY <1>2, <1>3, OneDerivation
<1>5. \A c \in DOMAIN derivs : /\ derivs'[c].text = derivs[c].text
                               /\ derivs'[c].removed = derivs[c].removed
                               /\ derivs'[c].promoted = derivs[c].promoted
  BY <1>3, <1>4
<1>6. LibraryTypes'
  BY <1>2, <1>4 DEF LibraryInv, LibraryTypes
<1>7. CopyBetween' /\ OwnSource' /\ TextAsRecorded' /\ op' \notin Registering
  BY <1>2, <1>4, <1>5, OpsApart DEF LibraryInv, CopyBetween, OwnSource, TextAsRecorded
<1>8. M!StoredWhole' /\ M!AnsweredStays'
  BY <1>2, <1>4, <1>5 DEF LibraryInv, M!StoredWhole, M!AnsweredStays
<1>9. QED
  BY <1>6, <1>7, <1>8 DEF LibraryInv

LEMMA DerivationIsPromoted ==
  ASSUME LibraryInv, NEW d \in DOMAIN derivs, M!Promote(d) PROVE LibraryInv'
<1>1. PICK next : next = [kind |-> "promote", at |-> "promotion", d |-> d, id |-> 0,
                          fresh |-> FALSE]
  OBVIOUS
<1>2. PICK c : c = derivs[d].content
  OBVIOUS
<1>3. /\ op = M!Idle /\ M!Loadable /\ derivs[d].promoted = None /\ M!Publish(c, next)
      /\ UNCHANGED <<original, was, derivs, answered, cut>>
  BY <1>1, <1>2 DEF M!Promote, M!Ready
<1>4. c \in was /\ c \in Halves /\ d \in Nat
  BY <1>2, DerivationIs
<1>5. PICK id \in Nat, fresh \in BOOLEAN :
        /\ op' = [next EXCEPT !.id = id, !.fresh = fresh]
        /\ sources' \in Seq(Halves) /\ DOMAIN sources \subseteq DOMAIN sources'
        /\ \A i \in DOMAIN sources : sources'[i] = sources[i]
        /\ id \in DOMAIN sources' /\ sources'[id] = c
        /\ fresh => id = Len(sources') /\ id \notin DOMAIN sources
        /\ \A i \in DOMAIN sources' : sources'[i] \in was
        /\ \A i, j \in DOMAIN sources' : sources'[i] = sources'[j] => i = j
  BY <1>3, <1>4, Stores
<1>6. /\ op' \in Promoting /\ op'.at = "promotion" /\ op'.id = id /\ op'.fresh = fresh
      /\ op'.d = d
  BY <1>1, <1>4, <1>5 DEF Promoting
<1>7. op' \notin Copying /\ op' \notin Capturing /\ op' \notin Removals /\ op' \notin Registering
  BY <1>6, OpsApart
<1>8. LibraryTypes'
  BY <1>3, <1>5, <1>6 DEF LibraryInv, LibraryTypes
<1>9. OwnSource'
  <2>1. fresh => id \notin answered /\ \A e \in DOMAIN derivs : derivs[e].promoted # id
    BY <1>5, TargetAssumption DEF LibraryInv, M!AnsweredStays
  <2>2. QED
    BY <1>2, <1>3, <1>5, <1>6, <1>7, <2>1 DEF OwnSource, Knows
<1>10. CopyBetween' /\ TextAsRecorded'
  BY <1>3, <1>7, OpsApart DEF LibraryInv, CopyBetween, TextAsRecorded
<1>11. M!StoredWhole' /\ M!AnsweredStays'
  BY <1>3, <1>5 DEF LibraryInv, M!StoredWhole, M!AnsweredStays
<1>12. QED
  BY <1>7, <1>8, <1>9, <1>10, <1>11 DEF LibraryInv

\* What is known of a promotion under way.
LEMMA PromotionIs ==
  ASSUME LibraryInv, op.at \in {"promotion", "promotionReceipt"}
  PROVE  /\ op \in Promoting /\ op \notin Copying /\ op \notin Capturing /\ op \notin Removals
         /\ op \notin Registering /\ op.d \in DOMAIN derivs /\ op.id \in DOMAIN sources
         /\ op.id \in Nat /\ op.id # None /\ op.fresh \in BOOLEAN
         /\ sources[op.id] = derivs[op.d].content
         /\ derivs[op.d].promoted = IF op.at = "promotion" THEN None ELSE op.id
         /\ Knows(op)
<1>1. op \in Promoting
  BY OpsApart DEF LibraryInv, LibraryTypes
<1>2. op.id \in Nat /\ op.fresh \in BOOLEAN
  BY <1>1 DEF Promoting
<1>3. QED
  BY <1>1, <1>2, OpsApart, TargetAssumption DEF LibraryInv, OwnSource, Knows

LEMMA PromotionIsWritten == ASSUME LibraryInv, M!WritePromotion PROVE LibraryInv'
<1>1. PICK d, id : d = op.d /\ id = op.id
  OBVIOUS
<1>2. PICK e : e = [derivs[d] EXCEPT !.promoted = id]
  OBVIOUS
<1>3. /\ op.at = "promotion" /\ derivs' = [derivs EXCEPT ![d] = e]
      /\ op' = [op EXCEPT !.at = "promotionReceipt"]
      /\ UNCHANGED <<original, was, sources, answered, cut>>
  BY <1>1, <1>2 DEF M!WritePromotion
<1>4. /\ op \in Promoting /\ op \notin Removals /\ d \in DOMAIN derivs
      /\ id \in DOMAIN sources /\ id \in Nat /\ id # None /\ op.fresh \in BOOLEAN
      /\ sources[id] = derivs[d].content /\ Knows(op)
  BY <1>1, <1>3, PromotionIs
<1>5. /\ op' \in Promoting /\ op'.at = "promotionReceipt" /\ op'.d = d /\ op'.id = id
      /\ op'.fresh = op.fresh
  BY <1>1, <1>3, <1>4 DEF Promoting
<1>6. op' \notin Copying /\ op' \notin Capturing /\ op' \notin Removals /\ op' \notin Registering
  BY <1>5, OpsApart
<1>7. /\ e \in Derivations /\ e.content = derivs[d].content /\ e.text = derivs[d].text
      /\ e.removed = derivs[d].removed /\ e.promoted = id
  BY <1>2, <1>4, DerivationIs DEF Derivations
<1>8. /\ derivs' \in Seq(Derivations) /\ DOMAIN derivs' = DOMAIN derivs /\ derivs'[d] = e
      /\ \A c \in DOMAIN derivs : c # d => derivs'[c] = derivs[c]
      /\ \A c \in DOMAIN derivs : derivs'[c].content = derivs[c].content
      /\ \A c \in DOMAIN derivs' : derivs'[c].content \in was'
  BY <1>3, <1>4, <1>7, OneDerivation
<1>9. \A c \in DOMAIN derivs : /\ derivs'[c].text = derivs[c].text
                               /\ derivs'[c].removed = derivs[c].removed
  BY <1>7, <1>8
<1>10. LibraryTypes'
  BY <1>3, <1>5, <1>8 DEF LibraryInv, LibraryTypes
<1>11. OwnSource'
  <2>1. op.fresh => id = Len(sources) /\ id \notin answered
                     /\ \A c \in DOMAIN derivs : derivs[c].promoted = id => c = d
    BY <1>1, <1>4 DEF Knows
  <2>2. op.fresh => \A c \in DOMAIN derivs' : derivs'[c].promoted = id => c = d
    BY <1>8, <2>1
  <2>3. Knows(op)'
    BY <1>3, <1>4, <1>5, <2>1, <2>2 DEF Knows
  <2>4. op'.d \in DOMAIN derivs' /\ derivs'[op'.d].promoted = id
        /\ sources'[op'.id] = derivs'[op'.d].content
    BY <1>3, <1>4, <1>5, <1>7, <1>8
  <2>5. QED
    BY <1>5, <1>6, <2>3, <2>4 DEF OwnSource
<1>12. CopyBetween' /\ TextAsRecorded'
  BY <1>3, <1>4, <1>6, <1>8, <1>9 DEF LibraryInv, CopyBetween, TextAsRecorded
<1>13. M!StoredWhole' /\ M!AnsweredStays'
  BY <1>3, <1>4, <1>7, <1>8 DEF LibraryInv, M!StoredWhole, M!AnsweredStays
<1>14. QED
  BY <1>6, <1>10, <1>11, <1>12, <1>13 DEF LibraryInv

LEMMA PromotionIsAnswered == ASSUME LibraryInv, M!PromotionReceipt PROVE LibraryInv'
<1>1. /\ op.at = "promotionReceipt" /\ answered' = answered \cup {op.id}
      /\ op' = M!Idle /\ UNCHANGED <<original, was, sources, derivs, cut>>
  BY DEF M!PromotionReceipt
<1>2. op \notin Removals /\ op.id \in DOMAIN sources
  BY <1>1, PromotionIs
<1>3. LibraryTypes'
  BY <1>1 DEF LibraryInv, LibraryTypes
<1>4. CopyBetween' /\ OwnSource' /\ TextAsRecorded' /\ op' \notin Registering
  BY <1>1, <1>2, OpsApart DEF LibraryInv, CopyBetween, OwnSource, TextAsRecorded
<1>5. M!StoredWhole' /\ M!AnsweredStays'
  BY <1>1, <1>2 DEF LibraryInv, M!StoredWhole, M!AnsweredStays
<1>6. QED
  BY <1>3, <1>4, <1>5 DEF LibraryInv

LEMMA PromotionFails == ASSUME LibraryInv, M!PromoteFails PROVE LibraryInv'
<1>1. PICK d : d = op.d
  OBVIOUS
<1>2. PICK e : e = [derivs[d] EXCEPT !.promoted = None]
  OBVIOUS
<1>3. /\ op.at \in {"promotion", "promotionReceipt"} /\ derivs' = [derivs EXCEPT ![d] = e]
      /\ sources' = M!RollbackCapture
      /\ op' = M!Idle /\ UNCHANGED <<original, was, answered, cut>>
  BY <1>1, <1>2 DEF M!PromoteFails
<1>4. op \in Promoting /\ op \notin Removals /\ d \in DOMAIN derivs
  BY <1>1, <1>3, PromotionIs
<1>5. /\ sources' \in Seq(Halves) /\ DOMAIN sources' \subseteq DOMAIN sources
      /\ \A i \in DOMAIN sources' : sources'[i] = sources[i]
      /\ answered \subseteq DOMAIN sources'
      /\ \A c \in DOMAIN derivs : derivs[c].promoted # None /\ c # d =>
           derivs[c].promoted \in DOMAIN sources'
      /\ \A i \in DOMAIN sources' : sources'[i] \in was
      /\ \A i, j \in DOMAIN sources' : sources'[i] = sources'[j] => i = j
  BY <1>1, <1>3, <1>4, TakenBack
<1>6. /\ e \in Derivations /\ e.content = derivs[d].content /\ e.text = derivs[d].text
      /\ e.removed = derivs[d].removed /\ e.promoted = None
  BY <1>2, <1>4, DerivationIs DEF Derivations
<1>7. /\ derivs' \in Seq(Derivations) /\ DOMAIN derivs' = DOMAIN derivs /\ derivs'[d] = e
      /\ \A c \in DOMAIN derivs : c # d => derivs'[c] = derivs[c]
      /\ \A c \in DOMAIN derivs : derivs'[c].content = derivs[c].content
      /\ \A c \in DOMAIN derivs' : derivs'[c].content \in was'
  BY <1>3, <1>4, <1>6, OneDerivation
<1>8. \A c \in DOMAIN derivs : /\ derivs'[c].text = derivs[c].text
                               /\ derivs'[c].removed = derivs[c].removed
  BY <1>6, <1>7
<1>9. LibraryTypes'
  BY <1>3, <1>5, <1>7 DEF LibraryInv, LibraryTypes
<1>10. CopyBetween' /\ OwnSource' /\ TextAsRecorded' /\ op' \notin Registering
  BY <1>3, <1>4, <1>7, <1>8, OpsApart DEF LibraryInv, CopyBetween, OwnSource, TextAsRecorded
<1>11. M!StoredWhole'
  BY <1>3, <1>5, <1>7 DEF LibraryInv, M!StoredWhole
<1>12. M!AnsweredStays'
  BY <1>3, <1>5, <1>6, <1>7 DEF LibraryInv, M!AnsweredStays
<1>13. QED
  BY <1>9, <1>10, <1>11, <1>12 DEF LibraryInv

LEMMA TextIsRemoved ==
  ASSUME LibraryInv, NEW d \in DOMAIN derivs, M!RemoveText(d) PROVE LibraryInv'
<1>1. PICK e : e = [derivs[d] EXCEPT !.text = "moved"]
  OBVIOUS
<1>2. /\ op = M!Idle /\ ~derivs[d].removed /\ derivs' = [derivs EXCEPT ![d] = e]
      /\ op' = [kind |-> "remove", at |-> "record", d |-> d]
      /\ UNCHANGED <<original, was, sources, answered, cut>>
  BY <1>1 DEF M!RemoveText, M!Ready
<1>3. /\ e \in Derivations /\ e.content = derivs[d].content /\ e.text = "moved"
      /\ e.removed = derivs[d].removed /\ e.promoted = derivs[d].promoted /\ d \in Nat
  BY <1>1, DerivationIs DEF Derivations
<1>4. op' \in Removals /\ op'.at = "record" /\ op'.d = d
  BY <1>2, <1>3 DEF Removals
<1>5. /\ derivs' \in Seq(Derivations) /\ DOMAIN derivs' = DOMAIN derivs /\ derivs'[d] = e
      /\ \A c \in DOMAIN derivs : c # d => derivs'[c] = derivs[c]
      /\ \A c \in DOMAIN derivs : derivs'[c].content = derivs[c].content
      /\ \A c \in DOMAIN derivs' : derivs'[c].content \in was'
  BY <1>2, <1>3, OneDerivation
<1>6. LibraryTypes'
  BY <1>2, <1>4, <1>5 DEF LibraryInv, LibraryTypes
<1>7. CopyBetween' /\ OwnSource' /\ op' \notin Registering
  BY <1>4, OpsApart DEF CopyBetween, OwnSource
<1>8. TextAsRecorded'
  BY <1>2, <1>3, <1>4, <1>5, OpsApart DEF LibraryInv, TextAsRecorded
<1>9. M!StoredWhole' /\ M!AnsweredStays'
  BY <1>2, <1>3, <1>5 DEF LibraryInv, M!StoredWhole, M!AnsweredStays
<1>10. QED
  BY <1>6, <1>7, <1>8, <1>9 DEF LibraryInv

\* What is known of a removal under way, and what becomes of it: the removed
\* derivation becomes e, the operation goes on to o.
LEMMA RemovalGoesOn ==
  ASSUME LibraryInv, op.at \in {"record", "unlink"}, NEW e \in Derivations,
         e.content = derivs[op.d].content, e.promoted = derivs[op.d].promoted,
         derivs' = [derivs EXCEPT ![op.d] = e], NEW o \in Removals \cup {M!Idle}, op' = o,
         UNCHANGED <<original, was, sources, answered>>, cut \subseteq cut',
         o \in Removals => /\ o.d = op.d /\ e.text = "moved"
                           /\ e.removed <=> o.at = "unlink",
         o = M!Idle /\ cut' = {} => e.text = IF e.removed THEN "gone" ELSE "text"
  PROVE  LibraryInv'
<1>1. op \in Removals /\ op.d \in DOMAIN derivs
  <2>1. op \in Removals
    BY OpsApart DEF LibraryInv, LibraryTypes
  <2>2. QED
    BY <2>1 DEF LibraryInv, TextAsRecorded
<1>2. PICK d : d = op.d
  OBVIOUS
<1>3. /\ derivs' \in Seq(Derivations) /\ DOMAIN derivs' = DOMAIN derivs /\ derivs'[d] = e
      /\ \A c \in DOMAIN derivs : c # d => derivs'[c] = derivs[c]
      /\ \A c \in DOMAIN derivs : derivs'[c].content = derivs[c].content
      /\ \A c \in DOMAIN derivs' : derivs'[c].content \in was'
  BY <1>1, <1>2, OneDerivation
<1>4. LibraryTypes'
  BY <1>3 DEF LibraryInv, LibraryTypes
<1>5. CopyBetween' /\ OwnSource' /\ op' \notin Registering
  BY OpsApart DEF CopyBetween, OwnSource
<1>6. TextAsRecorded'
  <2>1. o \in Removals => op'.d \in DOMAIN derivs' /\ derivs'[op'.d].text = "moved"
                          /\ (derivs'[op'.d].removed <=> op'.at = "unlink")
    BY <1>1, <1>2, <1>3
  <2>2. ASSUME cut' = {}, NEW c \in DOMAIN derivs
        PROVE  \/ op' \in Removals /\ c = op'.d
               \/ derivs'[c].text = IF derivs'[c].removed THEN "gone" ELSE "text"
    <3>1. CASE c = d
      BY <1>2, <1>3, <2>2, <3>1
    <3>2. CASE c # d
      BY <1>2, <1>3, <2>2, <3>2 DEF LibraryInv, TextAsRecorded
    <3>3. QED
      BY <3>1, <3>2
  <2>3. QED
    BY <1>3, <2>1, <2>2 DEF TextAsRecorded
<1>7. M!StoredWhole' /\ M!AnsweredStays'
  BY <1>2, <1>3 DEF LibraryInv, M!StoredWhole, M!AnsweredStays
<1>8. QED
  BY <1>4, <1>5, <1>6, <1>7 DEF LibraryInv

LEMMA RemovalIs ==
  ASSUME LibraryInv, op.at \in {"record", "unlink"}
  PROVE  /\ op \in Removals /\ op.d \in DOMAIN derivs /\ derivs[op.d] \in Derivations
         /\ derivs[op.d].text = "moved" /\ (derivs[op.d].removed <=> op.at = "unlink")
<1>1. op \in Removals
  BY OpsApart DEF LibraryInv, LibraryTypes
<1>2. QED
  BY <1>1, DerivationIs DEF LibraryInv, TextAsRecorded

LEMMA RemovalIsRecorded == ASSUME LibraryInv, M!RecordRemoval PROVE LibraryInv'
<1>1. PICK d : d = op.d
  OBVIOUS
<1>2. PICK e : e = [derivs[d] EXCEPT !.removed = TRUE]
  OBVIOUS
<1>3. PICK o : o = [op EXCEPT !.at = "unlink"]
  OBVIOUS
<1>4. /\ op.at = "record" /\ derivs' = [derivs EXCEPT ![op.d] = e] /\ op' = o
      /\ UNCHANGED <<original, was, sources, answered, cut>>
  BY <1>1, <1>2, <1>3 DEF M!RecordRemoval
<1>5. o \in Removals /\ o.d = op.d /\ o.at = "unlink"
  BY <1>3, <1>4, RemovalIs DEF Removals
<1>6. /\ e \in Derivations /\ e.content = derivs[op.d].content /\ e.text = "moved"
      /\ e.promoted = derivs[op.d].promoted /\ e.removed
  BY <1>1, <1>2, <1>4, RemovalIs DEF Derivations
<1>7. QED
  BY <1>4, <1>5, <1>6, OpsApart, RemovalGoesOn

LEMMA TextIsUnlinked == ASSUME LibraryInv, M!UnlinkText PROVE LibraryInv'
<1>1. PICK d : d = op.d
  OBVIOUS
<1>2. PICK e : e = [derivs[d] EXCEPT !.text = "gone"]
  OBVIOUS
<1>3. /\ op.at = "unlink" /\ derivs' = [derivs EXCEPT ![op.d] = e] /\ op' = M!Idle
      /\ UNCHANGED <<original, was, sources, answered, cut>>
  BY <1>1, <1>2 DEF M!UnlinkText
<1>4. /\ e \in Derivations /\ e.content = derivs[op.d].content /\ e.text = "gone"
      /\ e.promoted = derivs[op.d].promoted /\ e.removed
  BY <1>1, <1>2, <1>3, RemovalIs DEF Derivations
<1>5. QED
  BY <1>3, <1>4, OpsApart, RemovalGoesOn

LEMMA RemovalFails ==
  ASSUME LibraryInv, NEW undone \in BOOLEAN, M!RemoveFails(undone) PROVE LibraryInv'
<1>1. PICK d : d = op.d
  OBVIOUS
<1>2. PICK t : t = IF undone THEN "text" ELSE "gone"
  OBVIOUS
<1>3. PICK e : e = [derivs[d] EXCEPT !.removed = FALSE, !.text = t]
  OBVIOUS
<1>4. /\ op.at \in {"record", "unlink"} /\ op' = M!Idle
      /\ cut' = IF undone THEN cut ELSE cut \cup {op.d}
      /\ UNCHANGED <<original, was, sources, answered>>
  BY DEF M!RemoveFails
<1>5. d \in DOMAIN derivs /\ derivs[d] \in Derivations
  BY <1>1, <1>4, RemovalIs
<1>6. derivs' = [derivs EXCEPT ![op.d] = e]
  <2>1. derivs' = [derivs EXCEPT ![d].removed = FALSE, ![d].text = t]
    BY <1>1, <1>2 DEF M!RemoveFails, M!RemovalUndone
  <2>2. derivs \in Seq(Derivations)
    BY DEF LibraryInv, LibraryTypes
  <2>3. QED
    BY <1>1, <1>3, <1>5, <2>1, <2>2
<1>7. /\ e \in Derivations /\ e.content = derivs[d].content /\ e.text = t
      /\ e.promoted = derivs[d].promoted /\ ~e.removed
  BY <1>2, <1>3, <1>5 DEF Derivations
<1>8. cut \subseteq cut' /\ (cut' = {} => e.text = "text")
  BY <1>2, <1>4, <1>7
<1>9. QED
  BY <1>1, <1>4, <1>6, <1>7, <1>8, OpsApart, RemovalGoesOn

LEMMA OperationKilled == ASSUME LibraryInv, M!Killed PROVE LibraryInv'
<1>1. /\ op # M!Idle /\ op' = M!Idle
      /\ cut' = IF op.kind = "remove" THEN cut \cup {op.d} ELSE cut
      /\ UNCHANGED <<original, was, sources, derivs, answered>>
  BY DEF M!Killed
<1>2. LibraryTypes'
  BY <1>1 DEF LibraryInv, LibraryTypes
<1>3. CopyBetween' /\ OwnSource' /\ op' \notin Registering
  BY <1>1, OpsApart DEF CopyBetween, OwnSource
<1>4. TextAsRecorded'
  <2>1. cut' = {} => op \notin Removals /\ cut = {}
    BY <1>1, OpsApart
  <2>2. QED
    BY <1>1, <2>1, OpsApart DEF LibraryInv, TextAsRecorded
<1>5. M!StoredWhole' /\ M!AnsweredStays'
  BY <1>1 DEF LibraryInv, M!StoredWhole, M!AnsweredStays
<1>6. QED
  BY <1>2, <1>3, <1>4, <1>5 DEF LibraryInv

LEMMA LibraryInvariant == Spec => []LibraryInv
<1>1. Init => LibraryInv
  BY LibraryInit DEF Init
<1>2. LibraryInv /\ [Next]_vars => LibraryInv'
  <2> SUFFICES ASSUME LibraryInv, [Next]_vars PROVE LibraryInv'
    OBVIOUS
  <2>1. CASE M!Next
    <3>1. ASSUME NEW d \in DOMAIN derivs,
                 \/ \E decision \in {"ACCEPT", "REJECT"} : M!Review(d, decision)
                 \/ M!Promote(d) \/ M!RemoveText(d)
          PROVE  LibraryInv'
      BY <3>1, DerivationIsReviewed, DerivationIsPromoted, TextIsRemoved
    <3>2. ASSUME NEW ok \in BOOLEAN, M!RegisterReceipt(ok) \/ M!RemoveFails(ok)
          PROVE  LibraryInv'
      BY <3>2, RegistrationEnds, RemovalFails
    <3>3. QED
      BY <2>1, <3>1, <3>2, FileIsWritten, FileIsCopied, CaptureIsPublished, CaptureIsAnswered,
         CaptureIsNotAnswered, DerivationIsPublished, PromotionIsWritten, PromotionIsAnswered,
         PromotionFails, RemovalIsRecorded, TextIsUnlinked, OperationKilled DEF M!Next
  <2>2. CASE UNCHANGED libraryVars
    BY <2>2
    DEF libraryVars, LibraryInv, LibraryTypes, CopyBetween, OwnSource, Knows, TextAsRecorded,
        M!StoredWhole, M!AnsweredStays
  <2>3. QED
    BY <2>1, <2>2 DEF Next, InstallationNext, ContentNext, vars
<1>3. QED
  BY <1>1, <1>2, PTL DEF Spec

\* For any number of captures, derivations and writes of the file outside,
\* with failures and kills between any two steps: what is stored was the file
\* at one moment and is stored once, an answered source stays, and only a
\* removal that was killed or could not be undone makes derivations unusable.
THEOREM Library == Spec => []LibrarySound
<1>1. LibraryInv => LibrarySound
  <2> SUFFICES ASSUME LibraryInv PROVE M!StoredWhole /\ M!AnsweredStays /\ M!UsableUnlessCut
    BY DEF LibrarySound
  <2>1. M!UsableUnlessCut
    BY OpsApart
    DEF LibraryInv, TextAsRecorded, M!AnsweredStays, M!UsableUnlessCut, M!Loadable
  <2>2. QED
    BY <2>1 DEF LibraryInv
<1>2. QED
  BY <1>1, LibraryInvariant, PTL

(***************************************************************************)
(* Executors and the attempts at a task.  An attempt is appended to the    *)
(* chain its recorder has read, while the task is open: then no budget was *)
(* used up before it, and its own limits say which are now.  Nothing is    *)
(* appended before there is an executor.                                   *)
(***************************************************************************)
Limits == {"REPEAT", "TOTAL", "ACTIONS"}
Attempts ==
  [basis : Bases, error : Errors, evidence : Evidence \cup {None}, actions : 1 .. 2,
   status : {"INITIAL", "INPUT_DIGEST_CHANGED", "NEW_EVIDENCE", "UNCHANGED"},
   limits : SUBSET Limits]

ExecutorTypes ==
  /\ revisions \in Seq({"proposed", "approved", "litter"})
  /\ task \in [status : {"none", "IN_EXECUTION", "SUBMITTED", "BLOCKED"}, pins : Nat]
  /\ attempts \in Seq(Attempts)
  /\ rec \in [Workers -> {X!Idle} \cup [at : {"read", "bound"}, seen : Seq(Attempts)]]

NoExecutor == executor \in {None, X!Litter}

\* Whoever may append has found an executor, and the executor found its task.
ExecutorFirst ==
  /\ NoExecutor =>
       /\ attempts = << >>
       /\ \A r \in Workers : rec[r].at # "bound"
  /\ task.status = "none" => executor = None
  /\ ~NoExecutor => task.pins \in DOMAIN revisions

ExecutorInv ==
  /\ ExecutorTypes /\ ExecutorFirst
  /\ X!ChainLoads /\ X!BudgetHolds /\ X!ExecutorBound

\* The actions of a chain are finitely many.
LEMMA ActionsFinite ==
  ASSUME NEW s \in Seq(Attempts)
  PROVE  IsFiniteSet(X!Actions(s)) /\ Cardinality(X!Actions(s)) \in Nat
<1>1. X!Actions(s) \subseteq (1 .. Len(s)) \X (1 .. 2)
  <2>1. ASSUME NEW i \in DOMAIN s PROVE s[i].actions \in 1 .. 2 /\ i \in 1 .. Len(s)
    <3>1. s[i] \in Attempts /\ i \in 1 .. Len(s)
      OBVIOUS
    <3>2. QED
      BY <3>1 DEF Attempts
  <2>2. QED
    BY <2>1 DEF X!Actions
<1>2. IsFiniteSet((1 .. Len(s)) \X (1 .. 2))
  <2>1. Len(s) \in Int
    OBVIOUS
  <2>2. IsFiniteSet(1 .. Len(s))
    BY <2>1, FS_Interval
  <2>3. IsFiniteSet(1 .. 2)
    <3>1. \A m \in Int : IsFiniteSet(1 .. m)
      BY FS_Interval
    <3>2. PICK m \in Int : m = 2
      OBVIOUS
    <3>3. IsFiniteSet(1 .. m)
      BY <3>1
    <3>4. QED
      BY <3>2, <3>3
  <2>4. QED
    BY <2>2, <2>3, FS_Product
<1>3. QED
  BY <1>1, <1>2, FS_Subset, FS_CardinalityType

\* A further attempt adds its own actions to them.
LEMMA ActionsAppended ==
  ASSUME NEW s \in Seq(Attempts), NEW a \in Attempts
  PROVE  Cardinality(X!Actions(Append(s, a))) = Cardinality(X!Actions(s)) + a.actions
<1> DEFINE own == {Len(s) + 1} \X (1 .. a.actions)
<1>1. a.actions \in 1 .. 2
  BY DEF Attempts
<1>2. X!Actions(Append(s, a)) = X!Actions(s) \cup own
  <2>1. DOMAIN Append(s, a) = DOMAIN s \cup {Len(s) + 1}
    OBVIOUS
  <2>2. \A i \in DOMAIN s : Append(s, a)[i] = s[i]
    OBVIOUS
  <2>3. Append(s, a)[Len(s) + 1] = a
    OBVIOUS
  <2>4. QED
    BY <2>1, <2>2, <2>3 DEF X!Actions
<1>3. X!Actions(s) \cap own = {}
  <2>1. \A i \in DOMAIN s : i # Len(s) + 1
    OBVIOUS
  <2>2. QED
    BY <2>1 DEF X!Actions
<1>4. IsFiniteSet(own) /\ Cardinality(own) = a.actions
  <2>1. IsFiniteSet({Len(s) + 1}) /\ Cardinality({Len(s) + 1}) = 1
    BY FS_Singleton
  <2>2. IsFiniteSet(1 .. a.actions) /\ Cardinality(1 .. a.actions) = a.actions
    BY <1>1, FS_Interval
  <2>3. IsFiniteSet(own) /\ Cardinality(own) = 1 * a.actions
    BY <2>1, <2>2, FS_Product
  <2>4. QED
    BY <1>1, <2>3
<1>5. IsFiniteSet(X!Actions(s)) /\ Cardinality(X!Actions(s)) \in Nat
  BY ActionsFinite
<1>6. Cardinality(X!Actions(s) \cap own) = 0
  BY <1>3, FS_EmptySet
<1>7. Cardinality(X!Actions(s) \cup own)
        = Cardinality(X!Actions(s)) + Cardinality(own) - Cardinality(X!Actions(s) \cap own)
  BY <1>4, <1>5, FS_Union
<1>8. QED
  BY <1>1, <1>2, <1>4, <1>5, <1>6, <1>7

\* And it is one more that failed as it did; the others are as many as before.
LEMMA EqualAppended ==
  ASSUME NEW s \in Seq(Attempts), NEW a \in Attempts, NEW b
  PROVE  /\ Cardinality(X!Equal(s, b)) \in Nat
         /\ Cardinality(X!Equal(Append(s, a), b)) =
              IF X!Fingerprint(a) = X!Fingerprint(b)
                THEN Cardinality(X!Equal(s, b)) + 1 ELSE Cardinality(X!Equal(s, b))
<1>1. IsFiniteSet(X!Equal(s, b)) /\ Len(s) + 1 \notin X!Equal(s, b)
  <2>1. X!Equal(s, b) \subseteq 1 .. Len(s)
    BY DEF X!Equal
  <2>2. QED
    BY <2>1, FS_Interval, FS_Subset
<1>2. X!Equal(Append(s, a), b) =
        IF X!Fingerprint(a) = X!Fingerprint(b)
          THEN X!Equal(s, b) \cup {Len(s) + 1} ELSE X!Equal(s, b)
  <2>1. DOMAIN Append(s, a) = DOMAIN s \cup {Len(s) + 1}
    OBVIOUS
  <2>2. \A i \in DOMAIN s : Append(s, a)[i] = s[i]
    OBVIOUS
  <2>3. Append(s, a)[Len(s) + 1] = a
    OBVIOUS
  <2>4. QED
    BY <2>1, <2>2, <2>3 DEF X!Equal
<1>3. Cardinality(X!Equal(s, b) \cup {Len(s) + 1}) = Cardinality(X!Equal(s, b)) + 1
  BY <1>1, FS_AddElement
<1>4. QED
  BY <1>1, <1>2, <1>3, FS_CardinalityType

\* The beginning of a chain stays when it is appended to.
LEMMA BeginningsStay ==
  ASSUME NEW c \in Seq(Attempts), NEW a \in Attempts
  PROVE  /\ \A i \in DOMAIN c : /\ SubSeq(Append(c, a), 1, i - 1) = SubSeq(c, 1, i - 1)
                                /\ SubSeq(c, 1, i - 1) \in Seq(Attempts)
         /\ SubSeq(Append(c, a), 1, (Len(c) + 1) - 1) = c
<1> DEFINE d == Append(c, a)
<1>1. /\ Len(c) \in Nat /\ d \in Seq(Attempts) /\ Len(d) = Len(c) + 1
      /\ \A i \in 1 .. Len(c) : d[i] = c[i] /\ c[i] \in Attempts
  BY AppendProperties, LenProperties
<1> HIDE DEF d
<1>2. ASSUME NEW n \in 0 .. Len(c)
      PROVE  SubSeq(d, 1, n) = SubSeq(c, 1, n) /\ SubSeq(c, 1, n) \in Seq(Attempts)
  <2>1. 1 \in Int /\ n \in Int /\ \A i \in 1 .. n : d[i] \in Attempts /\ c[i] \in Attempts
    BY <1>1
  <2>2. /\ SubSeq(d, 1, n) \in Seq(Attempts) /\ Len(SubSeq(d, 1, n)) = n
        /\ \A i \in 1 .. n : SubSeq(d, 1, n)[i] = d[i]
    BY <2>1, SubSeqProperties
  <2>3. /\ SubSeq(c, 1, n) \in Seq(Attempts) /\ Len(SubSeq(c, 1, n)) = n
        /\ \A i \in 1 .. n : SubSeq(c, 1, n)[i] = c[i]
    BY <2>1, SubSeqProperties
  <2>4. QED
    BY <1>1, <2>2, <2>3, SeqEqual
<1>3. SubSeq(c, 1, Len(c)) = c
  <2>1. 1 \in Int /\ Len(c) \in Int /\ \A i \in 1 .. Len(c) : c[i] \in Attempts
    BY <1>1
  <2>2. /\ SubSeq(c, 1, Len(c)) \in Seq(Attempts) /\ Len(SubSeq(c, 1, Len(c))) = Len(c)
        /\ \A i \in 1 .. Len(c) : SubSeq(c, 1, Len(c))[i] = c[i]
    BY <2>1, SubSeqProperties
  <2>3. QED
    BY <1>1, <2>2, SeqEqual
<1>4. \A i \in DOMAIN c : i - 1 \in 0 .. Len(c)
  OBVIOUS
<1>5. (Len(c) + 1) - 1 = Len(c) /\ Len(c) \in 0 .. Len(c)
  BY <1>1
<1>6. SubSeq(d, 1, (Len(c) + 1) - 1) = c
  BY <1>2, <1>3, <1>5
<1>7. QED
  BY <1>2, <1>4, <1>6 DEF d

\* What a recorder prepares from the chain c is an attempt that follows on it.
LEMMA PreparedFollows ==
  ASSUME NEW c \in Seq(Attempts),
         NEW basis \in Bases, NEW error \in Errors, NEW evidence \in Evidence \cup {None},
         NEW actions \in 1 .. 2, NEW a,
         a = X!Prepared(c, basis, error, evidence, actions)
  PROVE  a \in Attempts /\ a.status = X!BasisStatus(c, a) /\ a.limits = X!Reached(c, a)
<1> DEFINE b == [basis |-> basis, error |-> error, evidence |-> evidence, actions |-> actions]
<1>1. a = [basis |-> basis, error |-> error, evidence |-> evidence, actions |-> actions,
           status |-> X!BasisStatus(c, b), limits |-> X!Reached(c, b)]
  BY DEF X!Prepared
<1>2. /\ a.basis = basis /\ a.error = error /\ a.evidence = evidence /\ a.actions = actions
      /\ a.status = X!BasisStatus(c, b) /\ a.limits = X!Reached(c, b)
  BY <1>1
<1>3. X!BasisStatus(c, b) = X!BasisStatus(c, a)
  BY <1>2 DEF X!BasisStatus
<1>4. X!Equal(c, b) = X!Equal(c, a)
  BY <1>2 DEF X!Equal, X!Fingerprint
<1>5. X!Reached(c, b) = X!Reached(c, a)
  BY <1>2, <1>4 DEF X!Reached
<1>6. X!BasisStatus(c, b) \in {"INITIAL", "INPUT_DIGEST_CHANGED", "NEW_EVIDENCE", "UNCHANGED"}
  BY DEF X!BasisStatus
<1>7. X!Reached(c, b) \in SUBSET Limits
  BY DEF X!Reached, Limits
<1>8. a \in Attempts
  BY <1>1, <1>6, <1>7 DEF Attempts
<1>9. QED
  BY <1>2, <1>3, <1>5, <1>8

\* The budget of a task, and that an attempt without a limit leaves some of it.
BudgetUsed(c) ==
  \/ Len(c) >= MaxTotal
  \/ Cardinality(X!Actions(c)) >= MaxActions
  \/ \E i \in DOMAIN c : Cardinality(X!Equal(c, c[i])) >= MaxEqual

LEMMA LimitsTellTheBudget ==
  ASSUME NEW c \in Seq(Attempts), NEW a \in Attempts, ~BudgetUsed(c), a.limits = X!Reached(c, a)
  PROVE  BudgetUsed(Append(c, a)) <=> a.limits # {}
<1> DEFINE d == Append(c, a)
<1>1. /\ DOMAIN d = DOMAIN c \cup {Len(c) + 1} /\ Len(d) = Len(c) + 1 /\ d[Len(c) + 1] = a
      /\ \A i \in DOMAIN c : d[i] = c[i]
  OBVIOUS
<1>2. Cardinality(X!Actions(d)) = Cardinality(X!Actions(c)) + a.actions
  BY ActionsAppended
<1>3. Cardinality(X!Equal(d, a)) = Cardinality(X!Equal(c, a)) + 1
  BY EqualAppended
<1>4. ASSUME NEW i \in DOMAIN c, X!Fingerprint(c[i]) = X!Fingerprint(a)
      PROVE  Cardinality(X!Equal(d, c[i])) = Cardinality(X!Equal(d, a))
  BY <1>4 DEF X!Equal
<1>5. ASSUME NEW i \in DOMAIN c, X!Fingerprint(c[i]) # X!Fingerprint(a)
      PROVE  Cardinality(X!Equal(d, c[i])) = Cardinality(X!Equal(c, c[i]))
  BY <1>5, EqualAppended
<1> HIDE DEF d
<1>6. (\E i \in DOMAIN d : Cardinality(X!Equal(d, d[i])) >= MaxEqual)
        <=> Cardinality(X!Equal(c, a)) + 1 >= MaxEqual
  <2>1. ASSUME NEW i \in DOMAIN d, Cardinality(X!Equal(d, d[i])) >= MaxEqual
        PROVE  Cardinality(X!Equal(c, a)) + 1 >= MaxEqual
    <3>1. CASE i = Len(c) + 1
      BY <1>1, <1>3, <2>1, <3>1
    <3>2. CASE i \in DOMAIN c /\ X!Fingerprint(c[i]) = X!Fingerprint(a)
      BY <1>1, <1>3, <1>4, <2>1, <3>2
    <3>3. CASE i \in DOMAIN c /\ X!Fingerprint(c[i]) # X!Fingerprint(a)
      BY <1>1, <1>5, <2>1, <3>3 DEF BudgetUsed
    <3>4. QED
      BY <1>1, <3>1, <3>2, <3>3
  <2>2. QED
    BY <1>1, <1>3, <2>1
<1>7. a.limits = {} <=> /\ ~(Cardinality(X!Equal(c, a)) + 1 >= MaxEqual)
                        /\ ~(Len(c) + 1 >= MaxTotal)
                        /\ ~(Cardinality(X!Actions(c)) + a.actions >= MaxActions)
  <2>1. /\ X!Cardinality(X!Equal(c, a)) = Cardinality(X!Equal(c, a))
        /\ X!Cardinality(X!Actions(c)) = Cardinality(X!Actions(c))
    BY DEF X!Cardinality, Cardinality
  <2>2. QED
    BY <2>1 DEF X!Reached
<1>8. BudgetUsed(d) <=> \/ Cardinality(X!Equal(c, a)) + 1 >= MaxEqual
                        \/ Len(c) + 1 >= MaxTotal
                        \/ Cardinality(X!Actions(c)) + a.actions >= MaxActions
  BY <1>1, <1>2, <1>6 DEF BudgetUsed
<1>9. QED
  BY <1>7, <1>8 DEF d

\* The budget in the invariant is this one.
LEMMA BudgetIs == X!BudgetHolds <=> (BudgetUsed(attempts) <=> task.status = "BLOCKED")
<1>1. /\ X!Cardinality(X!Actions(attempts)) = Cardinality(X!Actions(attempts))
      /\ \A i \in DOMAIN attempts : X!Cardinality(X!Equal(attempts, attempts[i]))
                                      = Cardinality(X!Equal(attempts, attempts[i]))
  BY DEF X!Cardinality, Cardinality
<1>2. QED
  BY <1>1 DEF X!BudgetHolds, BudgetUsed

\* A chain that loads does so with a further attempt that follows on it.
Follows(c, i) ==
  /\ c[i].status = X!BasisStatus(SubSeq(c, 1, i - 1), c[i]) /\ c[i].status # "UNCHANGED"
  /\ c[i].limits = X!Reached(SubSeq(c, 1, i - 1), c[i])

LEMMA AppendedLoads ==
  ASSUME NEW c \in Seq(Attempts), NEW a \in Attempts, \A i \in DOMAIN c : Follows(c, i),
         a.status = X!BasisStatus(c, a), a.status # "UNCHANGED", a.limits = X!Reached(c, a)
  PROVE  \A i \in DOMAIN Append(c, a) : Follows(Append(c, a), i)
<1> DEFINE d == Append(c, a)
<1>1. /\ DOMAIN d = DOMAIN c \cup {Len(c) + 1} /\ d[Len(c) + 1] = a
      /\ \A i \in DOMAIN c : d[i] = c[i]
  OBVIOUS
<1>2. /\ \A i \in DOMAIN c : SubSeq(d, 1, i - 1) = SubSeq(c, 1, i - 1)
      /\ SubSeq(d, 1, (Len(c) + 1) - 1) = c
  BY BeginningsStay
<1> HIDE DEF d
<1>3. ASSUME NEW i \in DOMAIN c PROVE Follows(d, i)
  BY <1>1, <1>2, <1>3 DEF Follows
<1>4. Follows(d, Len(c) + 1)
  BY <1>1, <1>2 DEF Follows
<1>5. QED
  BY <1>1, <1>3, <1>4 DEF d

LEMMA ExecutorInit == X!Init => ExecutorInv
<1> SUFFICES ASSUME X!Init PROVE ExecutorInv
  OBVIOUS
<1>1. ExecutorTypes /\ ExecutorFirst
  <2>1. revisions = << >> /\ attempts = << >>
    BY DEF X!Init
  <2>2. /\ task = [status |-> "none", pins |-> 0] /\ executor = None
        /\ rec = [r \in Workers |-> X!Idle]
    BY DEF X!Init
  <2>3. ExecutorTypes
    BY <2>1, <2>2 DEF ExecutorTypes
  <2>4. \A r \in Workers : rec[r].at = "idle"
    BY <2>2 DEF X!Idle
  <2>5. QED
    BY <2>1, <2>2, <2>3, <2>4 DEF ExecutorFirst, NoExecutor
<1>2. X!ChainLoads
  BY DEF X!Init, X!ChainLoads
<1>3. X!BudgetHolds
  <2>1. ~BudgetUsed(<< >>)
    <3>1. X!Actions(<< >>) = {}
      BY DEF X!Actions
    <3>2. Cardinality(X!Actions(<< >>)) = 0
      BY <3>1, FS_EmptySet
    <3>3. Len(<< >>) = 0 /\ DOMAIN << >> = {}
      OBVIOUS
    <3>4. QED
      BY <3>2, <3>3, AttemptAssumption DEF BudgetUsed
  <2>2. attempts = << >> /\ task.status = "none"
    BY DEF X!Init
  <2>3. QED
    BY <2>1, <2>2, BudgetIs
<1>4. X!ExecutorBound
  BY DEF X!Init, X!ExecutorBound
<1>5. QED
  BY <1>1, <1>2, <1>3, <1>4 DEF ExecutorInv

\* What depends on the chain and the task does not change with the rest.
LEMMA ChainStays ==
  ASSUME ExecutorInv, UNCHANGED attempts, task'.status = "BLOCKED" <=> task.status = "BLOCKED"
  PROVE  X!ChainLoads' /\ X!BudgetHolds'
BY DEF ExecutorInv, X!ChainLoads, X!BudgetHolds

LEMMA DefinitionIsRegistered ==
  ASSUME ExecutorInv, NEW result \in {"proposed", "litter"}, X!Register(result)
  PROVE  ExecutorInv'
<1>1. /\ revisions' = Append(revisions, result)
      /\ UNCHANGED <<task, attempts, intact, package, executor, rec>>
  BY DEF X!Register
<1>2. revisions \in Seq({"proposed", "approved", "litter"})
  BY DEF ExecutorInv, ExecutorTypes
<1>3. /\ revisions' \in Seq({"proposed", "approved", "litter"})
      /\ DOMAIN revisions \subseteq DOMAIN revisions'
      /\ \A n \in DOMAIN revisions : revisions'[n] = revisions[n]
  BY <1>1, <1>2
<1>4. ExecutorTypes' /\ ExecutorFirst'
  BY <1>1, <1>3 DEF ExecutorInv, ExecutorTypes, ExecutorFirst, NoExecutor
<1>5. X!ExecutorBound'
  BY <1>1, <1>3 DEF ExecutorInv, ExecutorFirst, NoExecutor, X!ExecutorBound
<1>6. QED
  BY <1>1, <1>4, <1>5, ChainStays DEF ExecutorInv

LEMMA DefinitionIsApproved ==
  ASSUME ExecutorInv, NEW n, X!Approve(n)
  PROVE  ExecutorInv'
<1>1. /\ n \in DOMAIN revisions /\ revisions' = [revisions EXCEPT ![n] = "approved"]
      /\ UNCHANGED <<task, attempts, intact, package, executor, rec>>
  BY DEF X!Approve, X!Loads
<1>2. revisions \in Seq({"proposed", "approved", "litter"})
  BY DEF ExecutorInv, ExecutorTypes
<1>3. /\ revisions' \in Seq({"proposed", "approved", "litter"})
      /\ DOMAIN revisions = DOMAIN revisions'
      /\ \A m \in DOMAIN revisions : revisions'[m] = IF m = n THEN "approved" ELSE revisions[m]
  <2>1. PICK old \in Seq({"proposed", "approved", "litter"}) : old = revisions
    BY <1>2
  <2>2. PICK new : new = [old EXCEPT ![n] = "approved"]
    OBVIOUS
  <2>3. n \in DOMAIN old
    BY <1>1, <2>1
  <2>4. new \in Seq({"proposed", "approved", "litter"})
    BY <2>2, <2>3
  <2>5. /\ DOMAIN old = DOMAIN new
        /\ \A m \in DOMAIN old : new[m] = IF m = n THEN "approved" ELSE old[m]
    BY <2>2, <2>3
  <2>6. new = revisions'
    BY <1>1, <2>1, <2>2
  <2>7. QED
    BY <2>1, <2>4, <2>5, <2>6
<1>4. ExecutorTypes' /\ ExecutorFirst'
  BY <1>1, <1>3 DEF ExecutorInv, ExecutorTypes, ExecutorFirst, NoExecutor
<1>5. X!ExecutorBound'
  BY <1>1, <1>3 DEF ExecutorInv, ExecutorFirst, NoExecutor, X!ExecutorBound
<1>6. QED
  BY <1>1, <1>4, <1>5, ChainStays DEF ExecutorInv

LEMMA TaskIsBegun ==
  ASSUME ExecutorInv, NEW n, X!BeginTask(n)
  PROVE  ExecutorInv'
<1>1. /\ task.status = "none" /\ n \in DOMAIN revisions
      /\ task' = [status |-> "IN_EXECUTION", pins |-> n]
      /\ UNCHANGED <<revisions, attempts, intact, package, executor, rec>>
  BY DEF X!BeginTask
<1>2. executor = None
  BY <1>1 DEF ExecutorInv, ExecutorFirst
<1>3. n \in Nat
  BY <1>1 DEF ExecutorInv, ExecutorTypes
<1>4. ExecutorTypes' /\ ExecutorFirst'
  BY <1>1, <1>2, <1>3 DEF ExecutorInv, ExecutorTypes, ExecutorFirst, NoExecutor
<1>5. X!ExecutorBound'
  BY <1>1, <1>2 DEF X!ExecutorBound
<1>6. QED
  BY <1>1, <1>4, <1>5, ChainStays DEF ExecutorInv

LEMMA TaskIsFinished ==
  ASSUME ExecutorInv, X!Finish
  PROVE  ExecutorInv'
<1>1. /\ task.status = "IN_EXECUTION"
      /\ task' = [task EXCEPT !.status = "SUBMITTED"]
      /\ UNCHANGED <<revisions, attempts, intact, package, executor, rec>>
  BY DEF X!Finish
<1>2. /\ task'.status = "SUBMITTED" /\ task'.pins = task.pins
      /\ task' \in [status : {"none", "IN_EXECUTION", "SUBMITTED", "BLOCKED"}, pins : Nat]
  BY <1>1 DEF ExecutorInv, ExecutorTypes
<1>3. ExecutorTypes' /\ ExecutorFirst'
  BY <1>1, <1>2 DEF ExecutorInv, ExecutorTypes, ExecutorFirst, NoExecutor
<1>4. X!ExecutorBound'
  BY <1>1, <1>2 DEF ExecutorInv, X!ExecutorBound
<1>5. QED
  BY <1>1, <1>2, <1>3, <1>4, ChainStays DEF ExecutorInv

LEMMA ContextIsBuilt ==
  ASSUME ExecutorInv, X!Edit \/ X!BuildContext \/ X!BuildOther
  PROVE  ExecutorInv'
<1>1. UNCHANGED <<revisions, task, attempts, executor, rec>>
  BY DEF X!Edit, X!BuildContext, X!BuildOther
<1>2. QED
  BY <1>1, ChainStays
  DEF ExecutorInv, ExecutorTypes, ExecutorFirst, NoExecutor, X!ExecutorBound

\* The executor is given the context of the task before any attempt.
LEMMA ExecutorIsPrepared ==
  ASSUME ExecutorInv, NEW killed \in BOOLEAN, X!Prepare(killed)
  PROVE  ExecutorInv'
<1>1. /\ task.status = "IN_EXECUTION" /\ executor = None
      /\ task.pins \in DOMAIN revisions /\ revisions[task.pins] = "approved"
      /\ package = X!Rendered
      /\ executor' = IF killed THEN X!Litter ELSE X!Assignment
      /\ UNCHANGED <<revisions, task, attempts, intact, package, rec>>
  BY DEF X!Prepare, X!Loads, X!Verified
<1>2. /\ attempts = << >>
      /\ \A r \in Workers : rec[r].at # "bound"
  BY <1>1 DEF ExecutorInv, ExecutorFirst, NoExecutor
<1>3. ExecutorTypes' /\ ExecutorFirst'
  BY <1>1, <1>2 DEF ExecutorInv, ExecutorTypes, ExecutorFirst, NoExecutor
<1>4. X!Assignment = [pins |-> task.pins,
                      context |-> [task |-> "this", pins |-> task.pins, at |-> 0]]
  BY <1>1, <1>2 DEF X!Assignment, X!Rendered
<1>5. X!ExecutorBound'
  BY <1>1, <1>4 DEF X!ExecutorBound
<1>6. QED
  BY <1>1, <1>3, <1>5, ChainStays DEF ExecutorInv

LEMMA ChainIsRead ==
  ASSUME ExecutorInv, NEW r \in Workers, X!ReadChain(r) \/ X!BindExecutor(r)
  PROVE  ExecutorInv'
<1>1. UNCHANGED <<revisions, task, attempts, intact, package, executor>>
  BY DEF X!ReadChain, X!BindExecutor
<1>2. PICK me \in {X!Idle} \cup [at : {"read", "bound"}, seen : Seq(Attempts)] :
        /\ rec' = [rec EXCEPT ![r] = me]
        /\ me.at = "bound" => ~NoExecutor
  <2>1. CASE X!ReadChain(r)
    <3> DEFINE me == [at |-> "read", seen |-> attempts]
    <3>1. me \in [at : {"read", "bound"}, seen : Seq(Attempts)] /\ me.at = "read"
      BY DEF ExecutorInv, ExecutorTypes
    <3>2. QED
      BY <2>1, <3>1 DEF X!ReadChain
  <2>2. CASE X!BindExecutor(r) /\ X!Live
    <3> DEFINE me == [at |-> "bound", seen |-> rec[r].seen]
    <3>1. rec[r].at = "read" /\ rec' = [rec EXCEPT ![r] = me]
      BY <2>2 DEF X!BindExecutor
    <3>2. rec[r] # X!Idle
      BY <3>1 DEF X!Idle
    <3>3. rec[r] \in [at : {"read", "bound"}, seen : Seq(Attempts)]
      BY <3>2 DEF ExecutorInv, ExecutorTypes
    <3>4. me \in [at : {"read", "bound"}, seen : Seq(Attempts)]
      BY <3>3
    <3>5. ~NoExecutor
      BY <2>2 DEF X!Live, X!Assigned, NoExecutor
    <3>6. QED
      BY <3>1, <3>4, <3>5
  <2>3. CASE X!BindExecutor(r) /\ ~X!Live
    <3>1. X!Idle.at = "idle" /\ rec' = [rec EXCEPT ![r] = X!Idle]
      BY <2>3 DEF X!BindExecutor, X!Idle
    <3>2. QED
      BY <3>1
  <2>4. QED
    BY <2>1, <2>2, <2>3
<1>3. ExecutorTypes'
  BY <1>1, <1>2 DEF ExecutorInv, ExecutorTypes
<1>4. \A q \in Workers : rec'[q] = IF q = r THEN me ELSE rec[q]
  BY <1>2 DEF ExecutorInv, ExecutorTypes
<1>5. ExecutorFirst'
  BY <1>1, <1>2, <1>4 DEF ExecutorInv, ExecutorFirst, NoExecutor
<1>6. X!ExecutorBound'
  BY <1>1 DEF ExecutorInv, X!ExecutorBound
<1>7. QED
  BY <1>1, <1>3, <1>5, <1>6, ChainStays DEF ExecutorInv

\* An attempt is appended to what its recorder has read, or not at all.
LEMMA AttemptIsAppended ==
  ASSUME ExecutorInv, NEW r \in Workers,
         NEW basis \in Bases, NEW error \in Errors, NEW evidence \in Evidence \cup {None},
         NEW actions \in 1 .. 2,
         X!AppendAttempt(r, X!Prepared(rec[r].seen, basis, error, evidence, actions))
  PROVE  ExecutorInv'
<1>1. PICK a : a = X!Prepared(rec[r].seen, basis, error, evidence, actions)
  OBVIOUS
<1>2. /\ rec[r].at = "bound" /\ a.status # "UNCHANGED"
      /\ rec' = [rec EXCEPT ![r] = X!Idle]
      /\ UNCHANGED <<revisions, intact, package, executor>>
  BY <1>1 DEF X!AppendAttempt
<1>3. ~NoExecutor
  BY <1>2 DEF ExecutorInv, ExecutorFirst
<1>4. X!Idle.at = "idle"
  BY DEF X!Idle
<1>5. \A q \in Workers : rec'[q] = IF q = r THEN X!Idle ELSE rec[q]
  BY <1>2 DEF ExecutorInv, ExecutorTypes
<1>6. rec' \in [Workers -> {X!Idle} \cup [at : {"read", "bound"}, seen : Seq(Attempts)]]
  BY <1>2 DEF ExecutorInv, ExecutorTypes
<1>7. CASE X!SameHead(r)
  <2>1. rec[r].seen = attempts /\ task.status = "IN_EXECUTION"
    BY <1>7 DEF X!SameHead
  <2>2. /\ attempts' = Append(attempts, a)
        /\ task' = IF a.limits = {} THEN task ELSE [task EXCEPT !.status = "BLOCKED"]
    BY <1>1, <1>7 DEF X!AppendAttempt
  <2>3. attempts \in Seq(Attempts)
    BY DEF ExecutorInv, ExecutorTypes
  <2>4. /\ a \in Attempts
        /\ a.status = X!BasisStatus(attempts, a) /\ a.limits = X!Reached(attempts, a)
    BY <1>1, <2>1, <2>3, PreparedFollows
  <2>5. PICK d : d = Append(attempts, a)
    OBVIOUS
  <2>6. d \in Seq(Attempts)
    BY <2>3, <2>4, <2>5
  <2>7. /\ task' \in [status : {"none", "IN_EXECUTION", "SUBMITTED", "BLOCKED"}, pins : Nat]
        /\ task'.pins = task.pins
        /\ task'.status = IF a.limits = {} THEN "IN_EXECUTION" ELSE "BLOCKED"
    BY <2>1, <2>2 DEF ExecutorInv, ExecutorTypes
  <2>8. ExecutorTypes' /\ ExecutorFirst'
    BY <1>2, <1>3, <1>6, <2>2, <2>5, <2>6, <2>7
    DEF ExecutorInv, ExecutorTypes, ExecutorFirst, NoExecutor
  <2>9. X!ChainLoads'
    <3>1. \A i \in DOMAIN attempts : Follows(attempts, i)
      BY DEF ExecutorInv, X!ChainLoads, Follows
    <3>2. \A i \in DOMAIN d : Follows(d, i)
      BY <1>2, <2>3, <2>4, <2>5, <3>1, AppendedLoads
    <3>3. attempts' = d
      BY <2>2, <2>5
    <3>4. QED
      BY <3>2, <3>3 DEF X!ChainLoads, Follows
  <2>10. X!BudgetHolds'
    <3>1. ~BudgetUsed(attempts)
      BY <2>1, BudgetIs DEF ExecutorInv
    <3>2. BudgetUsed(d) <=> a.limits # {}
      BY <2>3, <2>4, <2>5, <3>1, LimitsTellTheBudget
    <3>3. attempts' = d
      BY <2>2, <2>5
    <3>4. (BudgetUsed(attempts) <=> task.status = "BLOCKED")'
      BY <2>7, <3>2, <3>3 DEF BudgetUsed
    <3>5. QED
      BY <3>4, BudgetIs, PTL
  <2>11. X!ExecutorBound'
    BY <1>2, <2>7 DEF ExecutorInv, X!ExecutorBound
  <2>12. QED
    BY <2>8, <2>9, <2>10, <2>11 DEF ExecutorInv
<1>8. CASE ~X!SameHead(r)
  <2>1. UNCHANGED <<attempts, task>>
    BY <1>8 DEF X!AppendAttempt
  <2>2. ExecutorTypes' /\ ExecutorFirst'
    BY <1>2, <1>3, <1>6, <2>1 DEF ExecutorInv, ExecutorTypes, ExecutorFirst, NoExecutor
  <2>3. X!ExecutorBound'
    BY <1>2, <2>1 DEF ExecutorInv, X!ExecutorBound
  <2>4. QED
    BY <2>1, <2>2, <2>3, ChainStays DEF ExecutorInv
<1>9. QED
  BY <1>7, <1>8

LEMMA ExecutorInvariant == Spec => []ExecutorInv
<1>1. Init => ExecutorInv
  BY ExecutorInit DEF Init
<1>2. ExecutorInv /\ [Next]_vars => ExecutorInv'
  <2> SUFFICES ASSUME ExecutorInv, [Next]_vars PROVE ExecutorInv'
    OBVIOUS
  <2>1. CASE X!Next
    <3>1. ASSUME NEW n \in 1 .. MaxRevision, X!Approve(n) \/ X!BeginTask(n) PROVE ExecutorInv'
      BY <3>1, DefinitionIsApproved, TaskIsBegun
    <3>2. ASSUME NEW r \in Workers, X!ReadChain(r) \/ X!BindExecutor(r) PROVE ExecutorInv'
      BY <3>2, ChainIsRead
    <3>3. ASSUME NEW r \in Workers, NEW basis \in Bases, NEW error \in Errors,
                 NEW evidence \in Evidence \cup {None}, NEW actions \in 1 .. 2,
                 X!AppendAttempt(r, X!Prepared(rec[r].seen, basis, error, evidence, actions))
          PROVE  ExecutorInv'
      BY <3>3, AttemptIsAppended
    <3>4. QED
      BY <2>1, <3>1, <3>2, <3>3, DefinitionIsRegistered, TaskIsFinished, ContextIsBuilt,
         ExecutorIsPrepared DEF X!Next
  <2>2. CASE UNCHANGED executorVars
    <3>1. UNCHANGED <<revisions, task, attempts, intact, package, executor, rec>>
      BY <2>2 DEF executorVars
    <3>2. QED
      BY <3>1, ChainStays
      DEF ExecutorInv, ExecutorTypes, ExecutorFirst, NoExecutor, X!ExecutorBound
  <2>3. QED
    BY <2>1, <2>2 DEF Next, InstallationNext, ContentNext, vars
<1>3. QED
  BY <1>1, <1>2, PTL DEF Spec

\* For any number of recorders and any limits: the chain of attempts is one
\* that loads, a budget is used up exactly if the task is blocked, and the
\* executor stands on the approved revision its task pins and on the context
\* before any attempt.
THEOREM Executor == Spec => []ExecutorSound
<1>1. ExecutorInv => ExecutorSound
  BY DEF ExecutorInv, ExecutorSound
<1>2. QED
  BY <1>1, ExecutorInvariant, PTL

(***************************************************************************)
(* Context packages.  Freshness first: what a reading of all files says,   *)
(* as long as the dependencies in it have no cycle.                        *)
(***************************************************************************)
SourceStates == [n : Nat, exact : BOOLEAN, superseded : BOOLEAN]
ChapterStates ==
  [n : Nat, status : {"DRAFT", "OWNER_ACCEPTED", "ARCHIVED"}, deps : SUBSET Chapters]

Values == SourceStates \cup ChapterStates \cup {None}
Value(x) ==
  IF x = Source THEN SourceStates
  ELSE IF x = Root THEN ChapterStates ELSE ChapterStates \cup {None}

\* What can be read of the paths T.
Readings(T) == {w \in [T -> Values] : \A x \in T : w[x] \in Value(x)}
Worlds == Readings(C!Paths)

\* The freshness of c, by that of what it depends on.
Judged(w, fresh, c) ==
  LET deps == {fresh[d] : d \in w[c].deps \cap C!Known(w)}
  IN IF w[c].status = "ARCHIVED" THEN "ARCHIVED"
     ELSE IF ~C!Sound(w, c) \/ deps \cap {"STALE", "ARCHIVED"} # {} THEN "STALE"
     ELSE IF w[c].status = "DRAFT" \/ ~(w[c].deps \subseteq C!Known(w)) \/ "INCOMPLETE" \in deps
       THEN "INCOMPLETE"
     ELSE "CURRENT"

\* The chapters on which a freshness is defined by itself.
Settled(w, D) ==
  /\ \A c \in D : w[c].deps \cap C!Known(w) \subseteq D
  /\ \E fresh : fresh = [c \in D |-> Judged(w, fresh, c)]

LEMMA JudgedAlike ==
  ASSUME NEW w, NEW c, NEW f, NEW g, \A d \in w[c].deps \cap C!Known(w) : f[d] = g[d]
  PROVE  Judged(w, f, c) = Judged(w, g, c)
<1>1. {f[d] : d \in w[c].deps \cap C!Known(w)} = {g[d] : d \in w[c].deps \cap C!Known(w)}
  OBVIOUS
<1>2. QED
  BY <1>1 DEF Judged

LEMMA SettledGrows ==
  ASSUME NEW w, NEW D \in SUBSET C!Known(w), Settled(w, D), D # C!Known(w), C!Acyclic(w)
  PROVE  \E E \in SUBSET C!Known(w) : Settled(w, E) /\ D \subseteq E /\ D # E
<1>1. C!Known(w) \ D \in SUBSET C!Known(w) /\ C!Known(w) \ D # {}
  OBVIOUS
<1>2. PICK c \in C!Known(w) \ D : w[c].deps \cap (C!Known(w) \ D) = {}
  BY <1>1 DEF C!Acyclic
<1>3. w[c].deps \cap C!Known(w) \subseteq D
  BY <1>2
<1>4. PICK fresh : fresh = [d \in D |-> Judged(w, fresh, d)]
  BY DEF Settled
<1> DEFINE E == D \cup {c}
           more == [d \in E |-> Judged(w, fresh, d)]
<1>5. \A d \in D : more[d] = fresh[d]
  <2>1. \A d \in D : fresh[d] = Judged(w, fresh, d)
    BY <1>4
  <2>2. QED
    BY <2>1
<1>6. ASSUME NEW d \in E PROVE w[d].deps \cap C!Known(w) \subseteq D
  BY <1>3 DEF Settled
<1>7. \A d \in E : Judged(w, fresh, d) = Judged(w, more, d)
  <2> SUFFICES ASSUME NEW d \in E PROVE Judged(w, fresh, d) = Judged(w, more, d)
    OBVIOUS
  <2>1. \A x \in w[d].deps \cap C!Known(w) : fresh[x] = more[x]
    BY <1>5, <1>6
  <2> HIDE DEF more
  <2>2. QED
    BY <2>1, JudgedAlike
<1>8. more = [d \in E |-> Judged(w, more, d)]
  <2>1. more = [d \in E |-> Judged(w, fresh, d)]
    OBVIOUS
  <2> HIDE DEF more, E
  <2>2. QED
    BY <1>7, <2>1
<1>9. Settled(w, E)
  <2> HIDE DEF more
  <2>1. \A d \in E : w[d].deps \cap C!Known(w) \subseteq E
    BY <1>6
  <2>2. QED
    BY <1>8, <2>1 DEF Settled
<1>10. QED
  BY <1>2, <1>9

\* Without a cycle all chapters are.
LEMMA AllSettled ==
  ASSUME NEW w, C!Acyclic(w)
  PROVE  Settled(w, C!Known(w))
<1> DEFINE R == StrictSubsetOrdering(Chapters)
           F == FiniteSubsetsOf(Chapters)
           T == {C!Known(w) \ D : D \in {E \in SUBSET C!Known(w) : Settled(w, E)}}
<1>1. IsWellFoundedOn(R, F)
  BY FS_StrictSubsetOrderingWellFounded
<1>2. C!Known(w) \subseteq Chapters
  BY DEF C!Known
<1>3. ASSUME NEW A \in SUBSET Chapters PROVE A \in F
  <2>1. IsFiniteSet(A)
    BY ContextAssumption, FS_Subset
  <2>2. QED
    BY <2>1 DEF FiniteSubsetsOf
<1>4. T \subseteq F
  BY <1>2, <1>3
<1>5. Settled(w, {})
  <2> DEFINE fresh == [c \in {} |-> 0]
  <2>1. fresh = [c \in {} |-> Judged(w, fresh, c)]
    OBVIOUS
  <2> HIDE DEF fresh
  <2>2. QED
    BY <2>1 DEF Settled
<1>6. T # {}
  BY <1>5
<1>7. \E x \in T : \A y \in T : ~(<<y, x>> \in R)
  <2> HIDE DEF R, F, T
  <2>1. QED
    BY <1>1, <1>4, <1>6, WFMin
<1>8. PICK D \in SUBSET C!Known(w) :
        Settled(w, D) /\ \A y \in T : ~(<<y, C!Known(w) \ D>> \in R)
  BY <1>7
<1>9. ASSUME NEW E \in SUBSET C!Known(w), Settled(w, E), D \subseteq E, D # E PROVE FALSE
  <2>1. C!Known(w) \ E \in T
    BY <1>9
  <2>2. /\ C!Known(w) \ E \in SUBSET Chapters /\ C!Known(w) \ D \in SUBSET Chapters
        /\ C!Known(w) \ E \subseteq C!Known(w) \ D /\ C!Known(w) \ E # C!Known(w) \ D
    BY <1>2, <1>9
  <2>3. <<C!Known(w) \ E, C!Known(w) \ D>> \in R
    BY <2>2 DEF StrictSubsetOrdering
  <2>4. QED
    BY <1>8, <2>1, <2>3
<1>10. D = C!Known(w)
  BY <1>8, <1>9, SettledGrows
<1>11. QED
  BY <1>8, <1>10

LEMMA FreshnessUnfolds ==
  ASSUME NEW w, C!Acyclic(w), NEW c \in C!Known(w)
  PROVE  C!Freshness(w)[c] = Judged(w, C!Freshness(w), c)
<1>1. C!Freshness(w) = CHOOSE fresh : fresh = [d \in C!Known(w) |-> Judged(w, fresh, d)]
  BY DEF C!Freshness, Judged
<1>2. \E fresh : fresh = [d \in C!Known(w) |-> Judged(w, fresh, d)]
  BY AllSettled DEF Settled
<1>3. C!Freshness(w) = [d \in C!Known(w) |-> Judged(w, C!Freshness(w), d)]
  BY <1>1, <1>2
<1>4. PICK f : f = C!Freshness(w)
  OBVIOUS
<1>5. f = [d \in C!Known(w) |-> Judged(w, f, d)]
  BY <1>3, <1>4
<1>6. f[c] = Judged(w, f, c)
  BY <1>5
<1>7. QED
  BY <1>4, <1>6

\* A reading of chapters that are there is one of chapters.
LEMMA KnownChapters ==
  ASSUME NEW w \in Worlds
  PROVE  /\ C!Known(w) \subseteq Chapters /\ Root \in C!Known(w)
         /\ \A c \in C!Known(w) : w[c] \in ChapterStates
         /\ w[Source] \in SourceStates
<1>1. C!Paths = Chapters \cup {Source}
  BY DEF C!Paths
<1>2. \A x \in C!Paths : w[x] \in Value(x)
  BY DEF Worlds, Readings
<1>3. None \notin SourceStates /\ None \notin ChapterStates
  BY ContextAssumption DEF SourceStates, ChapterStates
<1>4. QED
  BY <1>1, <1>2, <1>3, ContextAssumption DEF C!Known, Value

\* What is current, is accepted and sound, and so is all it depends on.
LEMMA CurrentIsSound ==
  ASSUME NEW w \in Worlds, C!Acyclic(w), NEW c \in C!Known(w)
  PROVE  C!Freshness(w)[c] = "CURRENT" <=>
           /\ w[c].status = "OWNER_ACCEPTED" /\ C!Sound(w, c) /\ w[c].deps \subseteq C!Known(w)
           /\ \A d \in w[c].deps : C!Freshness(w)[d] = "CURRENT"
<1>1. PICK f : f = C!Freshness(w)
  OBVIOUS
<1>2. \A d \in C!Known(w) : f[d] = Judged(w, f, d)
  BY <1>1, FreshnessUnfolds
<1>3. \A d \in C!Known(w) : f[d] \in {"CURRENT", "STALE", "INCOMPLETE", "ARCHIVED"}
  BY <1>2 DEF Judged
<1>4. w[c].status \in {"DRAFT", "OWNER_ACCEPTED", "ARCHIVED"}
  <2>1. w[c] \in ChapterStates
    BY KnownChapters
  <2>2. QED
    BY <2>1 DEF ChapterStates
<1>5. f[c] = "CURRENT" <=>
        /\ w[c].status = "OWNER_ACCEPTED" /\ C!Sound(w, c) /\ w[c].deps \subseteq C!Known(w)
        /\ {f[d] : d \in w[c].deps \cap C!Known(w)} \cap {"STALE", "ARCHIVED", "INCOMPLETE"} = {}
  <2>1. f[c] = Judged(w, f, c)
    BY <1>2
  <2>2. QED
    BY <1>4, <2>1 DEF Judged
<1>6. ASSUME w[c].deps \subseteq C!Known(w)
      PROVE  {f[d] : d \in w[c].deps \cap C!Known(w)} \cap {"STALE", "ARCHIVED", "INCOMPLETE"} = {}
               <=> \A d \in w[c].deps : f[d] = "CURRENT"
  BY <1>3, <1>6
<1>7. QED
  BY <1>1, <1>5, <1>6

Accepted(w) ==
  {d \in C!Known(w) : w[d].status = "OWNER_ACCEPTED" /\ C!Sound(w, d)}

\* A chapter is current exactly if it lies in a closed set of accepted ones.
LEMMA FreshnessIsTrue ==
  ASSUME NEW w \in Worlds, C!Acyclic(w), NEW c \in C!Known(w)
  PROVE  C!Freshness(w)[c] = "CURRENT" <=> \E A \in SUBSET Accepted(w) : c \in A /\ C!Closed(w, A)
<1>1. PICK f : f = C!Freshness(w)
  OBVIOUS
<1>2. \A d \in C!Known(w) :
        f[d] = "CURRENT" <=>
          /\ w[d].status = "OWNER_ACCEPTED" /\ C!Sound(w, d) /\ w[d].deps \subseteq C!Known(w)
          /\ \A e \in w[d].deps : f[e] = "CURRENT"
  BY <1>1, CurrentIsSound
<1>3. ASSUME f[c] = "CURRENT"
      PROVE  \E A \in SUBSET Accepted(w) : c \in A /\ C!Closed(w, A)
  <2> DEFINE A == {d \in C!Known(w) : f[d] = "CURRENT"}
  <2>1. A \subseteq Accepted(w) /\ c \in A
    BY <1>2, <1>3 DEF Accepted
  <2>2. C!Closed(w, A)
    BY <1>2 DEF C!Closed
  <2>3. QED
    BY <2>1, <2>2
<1>4. ASSUME NEW A \in SUBSET Accepted(w), c \in A, C!Closed(w, A), f[c] # "CURRENT" PROVE FALSE
  <2> DEFINE B == {d \in A : f[d] # "CURRENT"}
  <2>1. A \subseteq C!Known(w)
    BY DEF Accepted
  <2>2. \A d \in B : w[d].deps \cap B # {}
    <3> SUFFICES ASSUME NEW d \in B PROVE w[d].deps \cap B # {}
      OBVIOUS
    <3>1. d \in C!Known(w) /\ w[d].deps \subseteq A /\ f[d] # "CURRENT"
      BY <1>4, <2>1 DEF C!Closed
    <3>2. w[d].status = "OWNER_ACCEPTED" /\ C!Sound(w, d)
      BY DEF Accepted
    <3>3. PICK e \in w[d].deps : f[e] # "CURRENT"
      BY <1>2, <2>1, <3>1, <3>2
    <3>4. QED
      BY <3>1, <3>3
  <2>3. B \in SUBSET C!Known(w) /\ B # {}
    BY <1>4, <2>1
  <2>4. QED
    BY <2>2, <2>3 DEF C!Acyclic
<1>5. QED
  BY <1>1, <1>3, <1>4

\* A route holds its root, and all that its chapters depend on.
LEMMA ClosureIsClosed ==
  ASSUME NEW w \in Worlds, NEW c \in C!Closure(w, Root)
  PROVE  /\ Root \in C!Closure(w, Root) /\ c \in C!Known(w)
         /\ w[c].deps \subseteq C!Known(w) => w[c].deps \subseteq C!Closure(w, Root)
<1>1. Root \in C!Closure(w, Root)
  BY KnownChapters DEF C!Closure
<1>2. c \in C!Known(w) /\ \A A \in SUBSET C!Known(w) : Root \in A /\ C!Closed(w, A) => c \in A
  BY DEF C!Closure
<1>3. ASSUME NEW d \in w[c].deps, d \in C!Known(w) PROVE d \in C!Closure(w, Root)
  <2>1. ASSUME NEW A \in SUBSET C!Known(w), Root \in A, C!Closed(w, A) PROVE d \in A
    BY <1>2, <2>1 DEF C!Closed
  <2>2. QED
    BY <1>3, <2>1 DEF C!Closure
<1>4. QED
  BY <1>1, <1>2, <1>3

(***************************************************************************)
(* The builders.  Whatever has been read lies behind what is there now:    *)
(* a content that is replaced never comes back.  So a file that is read    *)
(* twice with one content had it between the readings, and all files of a  *)
(* confirmed route had theirs when the second reading began.               *)
(***************************************************************************)
Partial == (UNION {Readings(T) : T \in SUBSET C!Paths}) \cup {<< >>}

Behind(w) ==
  \A x \in DOMAIN w :
    w[x] # None => w[x].n <= C!Edits /\ (file[x] # None => w[x].n <= file[x].n)

HistoryInv ==
  /\ file \in Worlds /\ snaps \in SUBSET Worlds /\ IsFiniteSet(snaps) /\ file \in snaps
  /\ litter \in BOOLEAN
  /\ \A w \in snaps : Behind(w)

\* What may be in a package.
Current(w) ==
  LET chapters == DOMAIN w \ {Source}
  IN /\ Root \in chapters /\ w[Source].exact /\ ~w[Source].superseded
     /\ \A c \in chapters : w[c].status = "OWNER_ACCEPTED" /\ w[c].deps \subseteq chapters

Together(w) == \E s \in snaps : \A x \in DOMAIN w : s[x] = w[x]

Content(kind, w) ==
  /\ w \in Partial /\ Behind(w) /\ Together(w)
  /\ \A x \in DOMAIN w : w[x] # None
  /\ kind = "build" => Current(w)

Packages == [kind : {"build", "pack"}, files : Partial]

Published(package1) ==
  package1 # None => package1 \in Packages /\ Content(package1.kind, package1.files)

NotOlder(w, package1) ==
  package1 # None =>
    \A x \in DOMAIN w \cap DOMAIN package1.files :
      w[x] # None => w[x].n >= package1.files[x].n

OutputsInv(c, new, old) ==
  /\ c # None => c \in Worlds /\ Behind(c)
  /\ Published(new) /\ Published(old)
  /\ new # None => NotOlder(new.files, old)

\* A journal that has something to restore.
JournalOf(r) ==
  /\ {"catalog", "index", "latest", "before"} \subseteq DOMAIN r
  /\ OutputsInv(r.catalog, r.latest, r.before)

\* A file of w that is still there, or has been read again since, is in the
\* snapshot and in the copy.
Snapped(w, again, taken) ==
  \E s \in snaps :
    \A x \in C!Paths :
      w[x] # None /\ (file[x] = w[x] \/ (x \in DOMAIN again /\ again[x] = w[x]))
        => s[x] = w[x] /\ taken[x] = w[x]

\* The same, while the copy is made.
Copied(w, taken) ==
  \E s \in snaps :
    \A x \in C!Paths :
      w[x] # None /\ file[x] = w[x] => s[x] = w[x] /\ (x \in DOMAIN taken => taken[x] = w[x])

Stages ==
  {"plan", "bytes", "lock", "confirm", "publish", "catalogued", "second", "mark", "complete"}
Building ==
  [at : Stages, kind : {"rebuild", "build", "pack"}, todo : SUBSET C!Paths,
   got : Partial, plan : Partial, seen : Packages \cup {None}]

Locked(m) ==
  m.at \notin {"plan", "lock"} \/ (m.at = "plan" /\ m.kind # "pack")

ReadingInv(m) ==
  /\ m.at \in {"plan", "bytes", "lock", "confirm"} =>
       /\ DOMAIN m.got = C!Paths \ m.todo /\ Behind(m.got)
       /\ Locked(m) => NotOlder(m.got, latest)
  /\ m.at = "bytes" =>
       m.kind = "build" /\ catalog \in Worlds /\ Behind(catalog) /\ Copied(catalog, m.got)
  /\ m.at = "lock" => m.kind = "pack" /\ m.todo = C!Paths
  /\ m.at = "confirm" /\ m.kind = "build" =>
       /\ catalog \in Worlds /\ Behind(catalog)
       /\ m.plan \in Worlds /\ Behind(m.plan) /\ NotOlder(m.plan, latest)
       /\ Snapped(catalog, m.got, m.plan)
  /\ m.at \in {"lock", "confirm"} /\ m.kind = "pack" =>
       /\ m.plan \in Worlds /\ Behind(m.plan)
       /\ Snapped(m.plan, m.got, m.plan)

WritingInv(m) ==
  /\ m.at = "publish" /\ m.kind = "rebuild" => m.got \in Worlds /\ Behind(m.got)
  /\ m.at = "publish" /\ m.kind # "rebuild" => Content(m.kind, m.got) /\ NotOlder(m.got, latest)
  /\ m.at = "second" /\ m.kind # "rebuild" => Content(m.kind, m.got) /\ NotOlder(m.got, before)
  /\ m.at = "catalogued" => m.kind = "rebuild"
  /\ m.at \in {"catalogued", "second", "mark", "complete"} => JournalOf(records)

BuilderInv(p, m) ==
  m = C!Idle \/ (/\ m \in Building /\ (Locked(m) => lock = p)
                 /\ ReadingInv(m) /\ WritingInv(m))

ContextInv ==
  /\ HistoryInv
  /\ OutputsInv(catalog, latest, before)
  /\ records = C!NoJournal \/ JournalOf(records)
  /\ proc \in [Workers -> Building \cup {C!Idle}]
  /\ \A p \in Workers : BuilderInv(p, proc[p])

\* From a state to the next, what was behind stays so, and what is gone does
\* not come back.
Onward ==
  /\ snaps \subseteq snaps'
  /\ \A w \in Partial :
       Behind(w) => /\ Behind(w)'
                    /\ \A x \in DOMAIN w : w[x] # None /\ file'[x] = w[x] => file[x] = w[x]

LEMMA NothingMoves ==
  ASSUME HistoryInv, UNCHANGED <<file, snaps, litter>>
  PROVE  HistoryInv' /\ Onward
<1>1. C!Edits' = C!Edits
  BY DEF C!Edits
<1>2. \A w : Behind(w)' <=> Behind(w)
  BY <1>1 DEF Behind
<1>3. QED
  BY <1>2 DEF HistoryInv, Onward

\* An edit gives a content that is newer than all there were.
EditOf(x, v) ==
  /\ file' = [file EXCEPT ![x] = v]
  /\ snaps' = snaps \cup {file'}
  /\ litter' = litter

LEMMA EditsCount ==
  ASSUME HistoryInv
  PROVE  /\ C!Edits \in Nat
         /\ C!Edits = Cardinality(snaps) - 1 + (IF litter THEN 1 ELSE 0)
<1>1. C!Cardinality(snaps \ {file}) = Cardinality(snaps \ {file})
  BY DEF C!Cardinality, Cardinality
<1>2. /\ IsFiniteSet(snaps \ {file})
      /\ Cardinality(snaps \ {file}) = Cardinality(snaps) - 1
  BY FS_RemoveElement DEF HistoryInv
<1>3. Cardinality(snaps \ {file}) \in Nat /\ Cardinality(snaps) \in Nat
  BY <1>2, FS_CardinalityType DEF HistoryInv
<1>4. QED
  BY <1>1, <1>2, <1>3 DEF C!Edits, HistoryInv

LEMMA WorldIsPartial == Worlds \subseteq Partial
BY DEF Worlds, Partial

LEMMA PartialCounts ==
  ASSUME NEW w \in Partial
  PROVE  DOMAIN w \subseteq C!Paths /\ \A y \in DOMAIN w : w[y] # None => w[y].n \in Nat
<1>1. CASE w = << >>
  BY <1>1
<1>2. CASE w # << >>
  <2>1. PICK T \in SUBSET C!Paths : w \in Readings(T)
    BY <1>2 DEF Partial
  <2>2. DOMAIN w = T /\ \A y \in T : w[y] \in Values
    BY <2>1 DEF Readings
  <2>3. QED
    BY <2>2 DEF Values, SourceStates, ChapterStates
<1>3. QED
  BY <1>1, <1>2

LEMMA FileIsEdited ==
  ASSUME HistoryInv, NEW x \in C!Paths, NEW v \in Value(x), EditOf(x, v),
         v = None \/ v.n = C!Edits + 1
  PROVE  HistoryInv' /\ Onward
<1>1. file \in [C!Paths -> Values] /\ \A y \in C!Paths : file[y] \in Value(y)
  BY DEF HistoryInv, Worlds, Readings
<1>2. v \in Values
  BY DEF Value, Values
<1>3. \A y \in C!Paths : file'[y] = IF y = x THEN v ELSE file[y]
  BY <1>1 DEF EditOf
<1>4. file' \in Worlds
  BY <1>1, <1>2, <1>3 DEF EditOf, Worlds, Readings
<1>5. PICK new : new = file'
  OBVIOUS
<1>6. snaps' = snaps \cup {new}
  BY <1>5 DEF EditOf
<1>7. /\ IsFiniteSet(snaps \cup {new})
      /\ Cardinality(snaps \cup {new}) =
           IF new \in snaps THEN Cardinality(snaps) ELSE Cardinality(snaps) + 1
  BY FS_AddElement DEF HistoryInv
<1>8. /\ new \in snaps' /\ IsFiniteSet(snaps') /\ snaps' \in SUBSET Worlds
      /\ litter' \in BOOLEAN
  BY <1>4, <1>5, <1>6, <1>7 DEF HistoryInv, EditOf
<1>9. C!Edits' = Cardinality(snaps') - 1 + (IF litter' THEN 1 ELSE 0)
  <2>1. C!Cardinality(snaps' \ {new}) = Cardinality(snaps' \ {new})
    BY DEF C!Cardinality, Cardinality
  <2>2. Cardinality(snaps' \ {new}) = Cardinality(snaps') - 1
    <3>1. PICK all : all = snaps'
      OBVIOUS
    <3>2. new \in all /\ IsFiniteSet(all)
      BY <1>8, <3>1
    <3>3. Cardinality(all \ {new}) = Cardinality(all) - 1
      BY <3>2, FS_RemoveElement
    <3>4. QED
      BY <3>1, <3>3
  <2>3. C!Edits' = C!Cardinality(snaps' \ {file'}) + (IF litter' THEN 1 ELSE 0)
    BY DEF C!Edits
  <2>4. Cardinality(snaps') \in Int
    <3>1. PICK all : all = snaps'
      OBVIOUS
    <3>2. IsFiniteSet(all)
      BY <1>8, <3>1
    <3>3. QED
      BY <3>1, <3>2, FS_CardinalityType
  <2>5. QED
    BY <1>5, <2>1, <2>2, <2>3, <2>4
<1>10. /\ C!Edits \in Nat /\ Cardinality(snaps) \in Nat
       /\ C!Edits' = IF new \in snaps THEN C!Edits ELSE C!Edits + 1
  <2>1. Cardinality(snaps) \in Nat
    BY FS_CardinalityType DEF HistoryInv
  <2>2. Cardinality(snaps') = IF new \in snaps THEN Cardinality(snaps) ELSE Cardinality(snaps) + 1
    BY <1>6, <1>7
  <2>3. QED
    BY <1>9, <2>1, <2>2, EditsCount DEF EditOf
<1>11. v # None => new \notin snaps
  <2>1. SUFFICES ASSUME v # None, new \in snaps PROVE FALSE
    OBVIOUS
  <2>2. new[x] = v /\ x \in DOMAIN new
    BY <1>3, <1>4, <1>5 DEF Worlds, Readings
  <2>3. v.n <= C!Edits
    BY <2>1, <2>2 DEF HistoryInv, Behind
  <2>4. QED
    BY <1>10, <2>1, <2>3
<1>12. ASSUME NEW w, Behind(w), DOMAIN w \subseteq C!Paths,
              \A y \in DOMAIN w : w[y] # None => w[y].n \in Nat
       PROVE  /\ Behind(w)'
              /\ \A y \in DOMAIN w : w[y] # None /\ file'[y] = w[y] => file[y] = w[y]
  <2> SUFFICES ASSUME NEW y \in DOMAIN w, w[y] # None
               PROVE  /\ w[y].n <= C!Edits' /\ (file'[y] # None => w[y].n <= file'[y].n)
                      /\ file'[y] = w[y] => file[y] = w[y]
    BY DEF Behind
  <2>1. w[y].n <= C!Edits /\ (file[y] # None => w[y].n <= file[y].n) /\ w[y].n \in Nat
    BY <1>12 DEF Behind
  <2>2. y \in C!Paths
    BY <1>12
  <2>3. QED
    BY <1>3, <1>5, <1>10, <1>11, <2>1, <2>2
<1>13. ASSUME NEW w \in Partial
       PROVE  DOMAIN w \subseteq C!Paths /\ \A y \in DOMAIN w : w[y] # None => w[y].n \in Nat
  BY PartialCounts
<1>14. Onward
  BY <1>6, <1>12, <1>13 DEF Onward
<1>15. Behind(new)'
  <2> SUFFICES ASSUME NEW y \in DOMAIN new, new[y] # None
               PROVE  new[y].n <= C!Edits' /\ (file'[y] # None => new[y].n <= file'[y].n)
    BY DEF Behind
  <2>1. DOMAIN new = C!Paths
    BY <1>4, <1>5 DEF Worlds, Readings
  <2>2. new \in Partial
    BY <1>4, <1>5, WorldIsPartial
  <2>3. new[y].n \in Nat
    BY <1>13, <2>2
  <2>4. new[y].n <= C!Edits'
    <3>1. CASE y = x
      BY <1>3, <1>5, <1>10, <1>11, <2>1, <2>3, <3>1
    <3>2. CASE y # x
      <4>1. new[y] = file[y] /\ Behind(file)
        BY <1>3, <1>5, <2>1, <3>2 DEF HistoryInv
      <4>2. DOMAIN file = C!Paths
        BY <1>1
      <4>3. QED
        BY <1>10, <2>1, <2>3, <4>1, <4>2 DEF Behind
    <3>3. QED
      BY <3>1, <3>2
  <2>5. QED
    BY <1>5, <2>3, <2>4
<1>16. \A w \in snaps' : Behind(w)'
  BY <1>6, <1>12, <1>13, <1>15, WorldIsPartial DEF HistoryInv
<1>17. QED
  BY <1>4, <1>5, <1>8, <1>14, <1>16 DEF HistoryInv

LEMMA ContentStays ==
  ASSUME Onward, NEW kind, NEW w, Content(kind, w)
  PROVE  Content(kind, w)'
BY DEF Onward, Content, Together

LEMMA OutputsStay ==
  ASSUME Onward, NEW c, NEW new, NEW old, OutputsInv(c, new, old)
  PROVE  OutputsInv(c, new, old)'
<1>1. ASSUME NEW package1, Published(package1) PROVE Published(package1)'
  BY <1>1, ContentStays DEF Published
<1>2. c # None => c \in Worlds /\ Behind(c)'
  BY WorldIsPartial DEF OutputsInv, Onward
<1>3. QED
  BY <1>1, <1>2 DEF OutputsInv, NotOlder

LEMMA SnappedStays ==
  ASSUME Onward, NEW w \in Worlds, Behind(w), NEW again, NEW taken, Snapped(w, again, taken)
  PROVE  Snapped(w, again, taken)'
<1>1. PICK s \in snaps :
        \A x \in C!Paths :
          w[x] # None /\ (file[x] = w[x] \/ (x \in DOMAIN again /\ again[x] = w[x]))
            => s[x] = w[x] /\ taken[x] = w[x]
  BY DEF Snapped
<1>2. s \in snaps' /\ \A x \in DOMAIN w : w[x] # None /\ file'[x] = w[x] => file[x] = w[x]
  BY WorldIsPartial DEF Onward
<1>3. DOMAIN w = C!Paths
  BY DEF Worlds, Readings
<1>4. QED
  BY <1>1, <1>2, <1>3 DEF Snapped

LEMMA CopiedStays ==
  ASSUME Onward, NEW w \in Worlds, Behind(w), NEW taken, Copied(w, taken)
  PROVE  Copied(w, taken)'
<1>1. PICK s \in snaps :
        \A x \in C!Paths :
          w[x] # None /\ file[x] = w[x] => s[x] = w[x] /\ (x \in DOMAIN taken => taken[x] = w[x])
  BY DEF Copied
<1>2. s \in snaps' /\ \A x \in DOMAIN w : w[x] # None /\ file'[x] = w[x] => file[x] = w[x]
  BY WorldIsPartial DEF Onward
<1>3. DOMAIN w = C!Paths
  BY DEF Worlds, Readings
<1>4. QED
  BY <1>1, <1>2, <1>3 DEF Copied

\* A builder keeps what holds of it while others move, but not without its
\* lock.
LEMMA BuilderStays ==
  ASSUME Onward, NEW p, NEW m, BuilderInv(p, m),
         Locked(m) => lock' = lock /\ UNCHANGED <<catalog, latest, before, records>>
  PROVE  BuilderInv(p, m)'
<1>1. CASE m = C!Idle
  BY <1>1 DEF BuilderInv
<1>2. CASE m # C!Idle
  <2>1. m \in Building /\ ReadingInv(m) /\ WritingInv(m) /\ (Locked(m) => lock = p)
    BY <1>2 DEF BuilderInv
  <2>2. m.got \in Partial
    BY <2>1 DEF Building
  <2>3. m.kind \in {"rebuild", "build", "pack"}
    BY <2>1 DEF Building
  <2>4. ASSUME NEW w \in Partial, Behind(w) PROVE Behind(w)'
    BY <2>4 DEF Onward
  <2>5. ASSUME NEW w \in Worlds, Behind(w) PROVE Behind(w)'
    BY <2>4, <2>5, WorldIsPartial
  <2>6. ReadingInv(m)'
    <3>1. m.at \in {"plan", "bytes", "lock", "confirm"} =>
            /\ DOMAIN m.got = C!Paths \ m.todo /\ Behind(m.got)'
            /\ Locked(m) => NotOlder(m.got, latest)'
      BY <2>1, <2>2, <2>4 DEF ReadingInv, NotOlder
    <3>2. m.at = "bytes" =>
            m.kind = "build" /\ (catalog \in Worlds /\ Behind(catalog) /\ Copied(catalog, m.got))'
      <4> SUFFICES ASSUME m.at = "bytes"
                   PROVE  m.kind = "build"
                          /\ (catalog \in Worlds /\ Behind(catalog) /\ Copied(catalog, m.got))'
        OBVIOUS
      <4>1. PICK c, g : c = catalog /\ g = m.got
        OBVIOUS
      <4>2. m.kind = "build" /\ c \in Worlds /\ Behind(c) /\ Copied(c, g) /\ catalog' = c
        BY <2>1, <4>1 DEF ReadingInv, Locked
      <4>3. Behind(c)' /\ Copied(c, g)'
        BY <2>5, <4>2, CopiedStays
      <4>4. QED
        BY <4>1, <4>2, <4>3 DEF Copied
    <3>3. m.at = "lock" => m.kind = "pack" /\ m.todo = C!Paths
      BY <2>1 DEF ReadingInv
    <3>4. m.at = "confirm" /\ m.kind = "build" =>
            (/\ catalog \in Worlds /\ Behind(catalog)
             /\ m.plan \in Worlds /\ Behind(m.plan) /\ NotOlder(m.plan, latest)
             /\ Snapped(catalog, m.got, m.plan))'
      <4> SUFFICES ASSUME m.at = "confirm", m.kind = "build"
                   PROVE  (/\ catalog \in Worlds /\ Behind(catalog)
                           /\ m.plan \in Worlds /\ Behind(m.plan) /\ NotOlder(m.plan, latest)
                           /\ Snapped(catalog, m.got, m.plan))'
        OBVIOUS
      <4>1. PICK c, g, t : c = catalog /\ g = m.got /\ t = m.plan
        OBVIOUS
      <4>2. /\ c \in Worlds /\ Behind(c) /\ Snapped(c, g, t)
            /\ t \in Worlds /\ Behind(t) /\ NotOlder(t, latest)
            /\ catalog' = c /\ latest' = latest
        BY <2>1, <4>1 DEF ReadingInv, Locked
      <4>3. Behind(c)' /\ Behind(t)' /\ Snapped(c, g, t)'
        BY <2>5, <4>2, SnappedStays
      <4>4. NotOlder(t, latest)'
        BY <4>2 DEF NotOlder
      <4>5. QED
        BY <4>1, <4>2, <4>3, <4>4 DEF Snapped
    <3>5. m.at \in {"lock", "confirm"} /\ m.kind = "pack" =>
            (m.plan \in Worlds /\ Behind(m.plan) /\ Snapped(m.plan, m.got, m.plan))'
      <4> SUFFICES ASSUME m.at \in {"lock", "confirm"}, m.kind = "pack"
                   PROVE  (m.plan \in Worlds /\ Behind(m.plan) /\ Snapped(m.plan, m.got, m.plan))'
        OBVIOUS
      <4>1. PICK g, t : g = m.got /\ t = m.plan
        OBVIOUS
      <4>2. t \in Worlds /\ Behind(t) /\ Snapped(t, g, t)
        BY <2>1, <4>1 DEF ReadingInv
      <4>3. Behind(t)' /\ Snapped(t, g, t)'
        BY <2>5, <4>2, SnappedStays
      <4>4. QED
        BY <4>1, <4>2, <4>3
    <3>6. QED
      BY <3>1, <3>2, <3>3, <3>4, <3>5 DEF ReadingInv
  <2>7. WritingInv(m)'
    <3>1. m.at = "publish" /\ m.kind = "rebuild" => m.got \in Worlds /\ Behind(m.got)'
      BY <2>1, <2>5 DEF WritingInv
    <3>2. m.at = "publish" /\ m.kind # "rebuild" =>
            Content(m.kind, m.got)' /\ NotOlder(m.got, latest)'
      BY <2>1, ContentStays DEF WritingInv, Locked, NotOlder
    <3>3. m.at = "second" /\ m.kind # "rebuild" =>
            Content(m.kind, m.got)' /\ NotOlder(m.got, before)'
      BY <2>1, ContentStays DEF WritingInv, Locked, NotOlder
    <3>4. m.at = "catalogued" => m.kind = "rebuild"
      BY <2>1 DEF WritingInv
    <3>5. m.at \in {"catalogued", "second", "mark", "complete"} => JournalOf(records)'
      <4> SUFFICES ASSUME m.at \in {"catalogued", "second", "mark", "complete"}
                   PROVE  JournalOf(records)'
        OBVIOUS
      <4>1. PICK r : r = records
        OBVIOUS
      <4>2. JournalOf(r) /\ records' = r
        BY <2>1, <4>1 DEF WritingInv, Locked
      <4>3. OutputsInv(r.catalog, r.latest, r.before)'
        BY <4>2, OutputsStay DEF JournalOf
      <4>4. QED
        BY <4>2, <4>3 DEF JournalOf
    <3>6. QED
      BY <3>1, <3>2, <3>3, <3>4, <3>5 DEF WritingInv
  <2>8. Locked(m) => lock' = p
    BY <2>1
  <2>9. QED
    BY <2>1, <2>6, <2>7, <2>8 DEF BuilderInv
<1>3. QED
  BY <1>1, <1>2

LEMMA JournalStays ==
  ASSUME Onward, NEW r, r = C!NoJournal \/ JournalOf(r)
  PROVE  r = C!NoJournal \/ JournalOf(r)'
BY OutputsStay DEF JournalOf

LEMMA OwnerMoves ==
  ASSUME ContextInv, HistoryInv', Onward,
         UNCHANGED <<catalog, index, latest, before, records, proc>>,
         lock' = lock \/ lock = None
  PROVE  ContextInv'
<1>1. OutputsInv(catalog, latest, before)'
  <2>1. PICK c, new, old : c = catalog /\ new = latest /\ old = before
    OBVIOUS
  <2>2. OutputsInv(c, new, old)'
    BY <2>1, OutputsStay DEF ContextInv
  <2>3. c = catalog' /\ new = latest' /\ old = before'
    BY <2>1
  <2>4. QED
    BY <2>2, <2>3
<1>2. (records = C!NoJournal \/ JournalOf(records))'
  <2>1. PICK r : r = records
    OBVIOUS
  <2>2. r = C!NoJournal \/ JournalOf(r)'
    BY <2>1, JournalStays DEF ContextInv
  <2>3. r = records'
    BY <2>1
  <2>4. QED
    BY <2>2, <2>3
<1>3. ASSUME NEW p \in Workers PROVE BuilderInv(p, proc[p])'
  <2>1. PICK m : m = proc[p]
    OBVIOUS
  <2>2. BuilderInv(p, m)
    BY <2>1 DEF ContextInv
  <2>3. CASE m # C!Idle
    <3>1. Locked(m) => lock' = lock
      BY <2>2, <2>3, SearchAssumption DEF BuilderInv
    <3>2. BuilderInv(p, m)'
      BY <2>2, <3>1, BuilderStays
    <3>3. m = proc'[p]
      BY <2>1
    <3>4. QED
      BY <3>2, <3>3
  <2>4. CASE m = C!Idle
    BY <2>1, <2>4 DEF BuilderInv
  <2>5. QED
    BY <2>3, <2>4
<1>4. QED
  BY <1>1, <1>2, <1>3 DEF ContextInv

\* One builder moves, and changes what it holds the lock of.
LEMMA BuilderMoves ==
  ASSUME ContextInv, UNCHANGED <<file, snaps, litter>>, NEW p \in Workers,
         NEW me \in Building \cup {C!Idle}, proc' = [proc EXCEPT ![p] = me],
         BuilderInv(p, me)', OutputsInv(catalog, latest, before)',
         (records = C!NoJournal \/ JournalOf(records))',
         \A q \in Workers \ {p} :
           lock = q => lock' = lock /\ UNCHANGED <<catalog, latest, before, records>>
  PROVE  ContextInv'
<1>1. HistoryInv' /\ Onward
  BY NothingMoves DEF ContextInv
<1>2. proc' \in [Workers -> Building \cup {C!Idle}]
  BY DEF ContextInv
<1>3. ASSUME NEW q \in Workers PROVE BuilderInv(q, proc[q])'
  <2>1. CASE q = p
    <3>1. proc'[q] = me
      BY <2>1 DEF ContextInv
    <3>2. QED
      BY <2>1, <3>1
  <2>2. CASE q # p
    <3>1. PICK m : m = proc[q]
      OBVIOUS
    <3>2. BuilderInv(q, m) /\ proc'[q] = m
      BY <2>2, <3>1 DEF ContextInv
    <3>3. CASE m # C!Idle
      <4>1. Locked(m) => lock' = lock /\ UNCHANGED <<catalog, latest, before, records>>
        BY <2>2, <3>2, <3>3 DEF BuilderInv
      <4>2. BuilderInv(q, m)'
        BY <1>1, <3>2, <4>1, BuilderStays
      <4>3. QED
        BY <3>2, <4>2
    <3>4. CASE m = C!Idle
      BY <3>2, <3>4 DEF BuilderInv
    <3>5. QED
      BY <3>3, <3>4
  <2>3. QED
    BY <2>1, <2>2
<1>4. QED
  BY <1>1, <1>2, <1>3 DEF ContextInv

\* A builder that changes nothing but itself and the lock.
LEMMA BuilderThinks ==
  ASSUME ContextInv, UNCHANGED <<file, snaps, litter, catalog, latest, before, records>>,
         NEW p \in Workers, NEW me \in Building \cup {C!Idle},
         proc' = [proc EXCEPT ![p] = me], BuilderInv(p, me)',
         lock' = lock \/ lock \in {None, p}
  PROVE  ContextInv'
<1>1. Onward
  BY NothingMoves DEF ContextInv
<1>2. PICK c, new, old, r : c = catalog /\ new = latest /\ old = before /\ r = records
  OBVIOUS
<1>3. OutputsInv(c, new, old)' /\ (r = C!NoJournal \/ JournalOf(r)')
  BY <1>1, <1>2, OutputsStay, JournalStays DEF ContextInv
<1>4. c = catalog' /\ new = latest' /\ old = before' /\ r = records'
  BY <1>2
<1>5. OutputsInv(catalog, latest, before)' /\ (records = C!NoJournal \/ JournalOf(records))'
  BY <1>3, <1>4
<1>6. \A q \in Workers \ {p} :
        lock = q => lock' = lock /\ UNCHANGED <<catalog, latest, before, records>>
  BY SearchAssumption
<1>7. QED
  BY <1>5, <1>6, BuilderMoves

LEMMA ContextInit == C!Init => ContextInv
<1> SUFFICES ASSUME C!Init PROVE ContextInv
  OBVIOUS
<1>1. file \in Worlds
  <2>1. \A x \in C!Paths : file[x] \in Value(x)
    BY DEF C!Init, Value, SourceStates, ChapterStates, C!Paths
  <2>2. \A x \in C!Paths : file[x] \in Values
    BY <2>1 DEF Value, Values
  <2>3. file = [x \in C!Paths |-> file[x]]
    BY DEF C!Init
  <2>4. QED
    BY <2>1, <2>2, <2>3 DEF Worlds, Readings
<1>2. snaps = {file} /\ litter = FALSE
  BY DEF C!Init
<1>3. C!Edits = 0
  <2>1. C!Cardinality(snaps \ {file}) = Cardinality(snaps \ {file})
    BY DEF C!Cardinality, Cardinality
  <2>2. snaps \ {file} = {}
    BY <1>2
  <2>3. Cardinality(snaps \ {file}) = 0
    BY <2>2, FS_EmptySet
  <2>4. QED
    BY <1>2, <2>1, <2>3 DEF C!Edits
<1>4. DOMAIN file = C!Paths /\ \A x \in C!Paths : file[x].n = 0
  BY DEF C!Init, C!Paths
<1>5. Behind(file)
  BY <1>3, <1>4 DEF Behind
<1>6. HistoryInv
  BY <1>1, <1>2, <1>5, FS_Singleton DEF HistoryInv
<1>7. OutputsInv(catalog, latest, before)
  BY <1>1, <1>5 DEF C!Init, OutputsInv, Published
<1>8. /\ proc \in [Workers -> Building \cup {C!Idle}]
      /\ \A p \in Workers : BuilderInv(p, proc[p])
  BY DEF C!Init, BuilderInv
<1>9. records = C!NoJournal
  BY DEF C!Init
<1>10. QED
  BY <1>6, <1>7, <1>8, <1>9 DEF ContextInv

\* The owner, and who works for him.
LEMMA OwnerEdits ==
  ASSUME ContextInv, NEW x \in C!Paths, NEW v \in Value(x), C!Edit(x, v),
         v = None \/ v.n = C!Edits + 1, lock' = lock
  PROVE  ContextInv'
<1>1. EditOf(x, v) /\ UNCHANGED <<catalog, index, latest, before, records, proc>>
  BY DEF C!Edit, C!outputs, EditOf
<1>2. HistoryInv' /\ Onward
  BY <1>1, FileIsEdited DEF ContextInv
<1>3. QED
  BY <1>1, <1>2, OwnerMoves

LEMMA ChapterIsEdited ==
  ASSUME ContextInv, NEW c \in Chapters,
         \/ \E status \in {"DRAFT", "OWNER_ACCEPTED", "ARCHIVED"} : C!EditStatus(c, status)
         \/ \E deps \in SUBSET (Chapters \ {c}) : C!EditDependencies(c, deps)
         \/ C!RemoveChapter(c)
  PROVE  ContextInv'
<1>1. c \in C!Paths /\ C!Edits \in Nat
  BY EditsCount DEF C!Paths, ContextInv
<1>2. c # Source /\ (c # Root => None \in Value(c)) /\ ChapterStates \subseteq Value(c)
  BY ContextAssumption DEF Value
<1>3. file[c] # None => file[c] \in ChapterStates
  BY <1>1, <1>2 DEF ContextInv, HistoryInv, Worlds, Readings, Value
<1>4. ASSUME NEW status \in {"DRAFT", "OWNER_ACCEPTED", "ARCHIVED"}, C!EditStatus(c, status)
      PROVE  ContextInv'
  <2>1. PICK v : v = [file[c] EXCEPT !.n = C!Edits + 1, !.status = status]
    OBVIOUS
  <2>2. v \in ChapterStates /\ v.n = C!Edits + 1
    <3>1. PICK old \in ChapterStates : old = file[c]
      BY <1>3, <1>4 DEF C!EditStatus
    <3>2. /\ v = [n |-> C!Edits + 1, status |-> status, deps |-> old.deps]
          /\ old.deps \subseteq Chapters
      BY <2>1, <3>1 DEF ChapterStates
    <3>3. QED
      BY <1>1, <3>2 DEF ChapterStates
  <2>3. C!Edit(c, v) /\ lock' = lock
    BY <1>4, <2>1 DEF C!EditStatus, C!Edit
  <2>4. QED
    BY <1>1, <1>2, <2>2, <2>3, OwnerEdits
<1>5. ASSUME NEW deps \in SUBSET (Chapters \ {c}), C!EditDependencies(c, deps)
      PROVE  ContextInv'
  <2>1. PICK v : v = [file[c] EXCEPT !.n = C!Edits + 1, !.deps = deps]
    OBVIOUS
  <2>2. v \in ChapterStates /\ v.n = C!Edits + 1
    <3>1. PICK old \in ChapterStates : old = file[c]
      BY <1>3, <1>5 DEF C!EditDependencies
    <3>2. /\ v = [n |-> C!Edits + 1, status |-> old.status, deps |-> deps]
          /\ old.status \in {"DRAFT", "OWNER_ACCEPTED", "ARCHIVED"}
      BY <2>1, <3>1 DEF ChapterStates
    <3>3. QED
      BY <1>1, <3>2 DEF ChapterStates
  <2>3. C!Edit(c, v) /\ lock' = lock
    BY <1>5, <2>1 DEF C!EditDependencies, C!Edit
  <2>4. QED
    BY <1>1, <1>2, <2>2, <2>3, OwnerEdits
<1>6. ASSUME C!RemoveChapter(c) PROVE ContextInv'
  <2>1. C!Edit(c, None) /\ c # Root /\ lock' = lock
    BY <1>6 DEF C!RemoveChapter, C!Edit
  <2>2. QED
    BY <1>1, <1>2, <2>1, OwnerEdits
<1>7. QED
  BY <1>4, <1>5, <1>6

LEMMA SourceIsEdited ==
  ASSUME ContextInv, C!EditSource \/ C!SupersedeSource
  PROVE  ContextInv'
<1>1. Source \in C!Paths /\ C!Edits \in Nat /\ Value(Source) = SourceStates
  BY EditsCount DEF C!Paths, ContextInv, Value
<1>2. file[Source] \in SourceStates
  BY <1>1 DEF ContextInv, HistoryInv, Worlds, Readings
<1>3. PICK v : /\ C!Edit(Source, v)
               /\ \/ v = [file[Source] EXCEPT !.n = C!Edits + 1, !.exact = FALSE]
                  \/ v = [file[Source] EXCEPT !.n = C!Edits + 1, !.superseded = TRUE]
  BY DEF C!EditSource, C!SupersedeSource
<1>4. v \in SourceStates /\ v.n = C!Edits + 1
  <2>1. PICK old \in SourceStates : old = file[Source]
    BY <1>2
  <2>2. /\ old.exact \in BOOLEAN /\ old.superseded \in BOOLEAN
        /\ \/ v = [n |-> C!Edits + 1, exact |-> FALSE, superseded |-> old.superseded]
           \/ v = [n |-> C!Edits + 1, exact |-> old.exact, superseded |-> TRUE]
    BY <1>3, <2>1 DEF SourceStates
  <2>3. PICK a \in BOOLEAN, b \in BOOLEAN :
          v = [n |-> C!Edits + 1, exact |-> a, superseded |-> b]
    BY <2>2
  <2>4. QED
    BY <1>1, <2>3 DEF SourceStates
<1>5. lock' = lock
  BY <1>3 DEF C!Edit
<1>6. QED
  BY <1>1, <1>3, <1>4, <1>5, OwnerEdits

LEMMA ChapterIsCreated ==
  ASSUME ContextInv, NEW c \in Chapters, NEW killed \in BOOLEAN, C!CreateChapter(c, killed)
  PROVE  ContextInv'
<1>1. C!Edits \in Nat /\ C!Edits = Cardinality(snaps) - 1 + (IF litter THEN 1 ELSE 0)
  BY EditsCount DEF ContextInv
<1>2. CASE killed
  <2>1. /\ litter' = TRUE /\ lock = None
        /\ UNCHANGED <<file, snaps, catalog, index, latest, before, records, proc>>
    BY <1>2 DEF C!CreateChapter, C!outputs
  <2>2. C!Edits' = C!Cardinality(snaps \ {file}) + 1
    BY <2>1 DEF C!Edits
  <2>3. C!Edits = C!Cardinality(snaps \ {file}) + (IF litter THEN 1 ELSE 0)
    BY DEF C!Edits
  <2>4. C!Cardinality(snaps \ {file}) \in Nat
    <3>1. C!Cardinality(snaps \ {file}) = Cardinality(snaps \ {file})
      BY DEF C!Cardinality, Cardinality
    <3>2. IsFiniteSet(snaps \ {file})
      BY FS_RemoveElement DEF ContextInv, HistoryInv
    <3>3. QED
      BY <3>1, <3>2, FS_CardinalityType
  <2>5. C!Edits' \in Nat /\ C!Edits <= C!Edits'
    BY <2>2, <2>3, <2>4 DEF ContextInv, HistoryInv
  <2>6. ASSUME NEW w \in Partial, Behind(w) PROVE Behind(w)'
    <3> SUFFICES ASSUME NEW x \in DOMAIN w, w[x] # None
                 PROVE  w[x].n <= C!Edits' /\ (file'[x] # None => w[x].n <= file'[x].n)
      BY DEF Behind
    <3>1. w[x].n <= C!Edits /\ (file[x] # None => w[x].n <= file[x].n)
      BY <2>6 DEF Behind
    <3>2. w[x].n \in Nat
      BY PartialCounts
    <3>3. QED
      BY <1>1, <2>1, <2>5, <3>1, <3>2
  <2>7. HistoryInv' /\ Onward
    BY <2>1, <2>6, WorldIsPartial DEF ContextInv, HistoryInv, Onward
  <2>8. QED
    BY <2>1, <2>7, OwnerMoves
<1>3. CASE ~killed
  <2>1. PICK v : v = [n |-> C!Edits + 1, status |-> "DRAFT", deps |-> {}]
    OBVIOUS
  <2>2. v \in ChapterStates /\ v.n = C!Edits + 1
    BY <1>1, <2>1 DEF ChapterStates
  <2>3. C!Edit(c, v) /\ lock' = lock
    BY <1>3, <2>1 DEF C!CreateChapter, C!Edit
  <2>4. c \in C!Paths /\ v \in Value(c)
    BY <2>2, ContextAssumption DEF C!Paths, Value
  <2>5. QED
    BY <2>2, <2>3, <2>4, OwnerEdits
<1>4. QED
  BY <1>2, <1>3

(***************************************************************************)
(* The builders                                                            *)
(***************************************************************************)
LEMMA BuildingFields ==
  ASSUME NEW m \in Building \cup {C!Idle}, m.at # "idle"
  PROVE  /\ m \in Building /\ m # C!Idle
         /\ m.at \in Stages /\ m.kind \in {"rebuild", "build", "pack"} /\ m.todo \subseteq C!Paths
         /\ m.got \in Partial /\ m.plan \in Partial /\ m.seen \in Packages \cup {None}
<1>1. m # C!Idle /\ m \in Building
  BY DEF C!Idle
<1>2. QED
  BY <1>1 DEF Building

LEMMA EmptyReading == << >> \in Partial /\ Behind(<< >>) /\ DOMAIN << >> = {}
BY DEF Partial, Behind

\* All paths have been read.
LEMMA WorldIsRead ==
  ASSUME NEW w \in Partial, DOMAIN w = C!Paths
  PROVE  w \in Worlds
<1>1. w # << >>
  BY EmptyReading, ContextAssumption DEF C!Paths
<1>2. PICK T \in SUBSET C!Paths : w \in Readings(T)
  BY <1>1 DEF Partial
<1>3. DOMAIN w = T
  BY <1>2 DEF Readings
<1>4. QED
  BY <1>2, <1>3 DEF Worlds

LEMMA BuildBegins ==
  ASSUME ContextInv, NEW p \in Workers, NEW kind \in {"rebuild", "build", "pack"},
         C!Begin(p, kind)
  PROVE  ContextInv'
<1>1. PICK me : me = [at |-> "plan", kind |-> kind, todo |-> C!Paths, got |-> << >>,
                      plan |-> << >>, seen |-> None]
  OBVIOUS
<1>2. /\ proc' = [proc EXCEPT ![p] = me]
      /\ UNCHANGED <<file, snaps, litter, catalog, latest, before, records>>
      /\ IF kind = "pack" THEN lock' = lock ELSE lock = None /\ lock' = p
  BY <1>1 DEF C!Begin, C!Read, C!owned, C!outputs
<1>3. me \in Building
  BY <1>1, EmptyReading DEF Building, Stages
<1>4. ReadingInv(me)' /\ WritingInv(me)'
  <2>1. Behind(<< >>)'
    BY EmptyReading DEF Behind
  <2>2. /\ me.at = "plan" /\ DOMAIN me.got = {} /\ me.todo = C!Paths /\ Behind(me.got)'
    BY <1>1, <2>1, EmptyReading
  <2>3. QED
    BY <2>2 DEF ReadingInv, WritingInv, NotOlder
<1>5. Locked(me) => lock' = p
  BY <1>1, <1>2 DEF Locked
<1>6. QED
  BY <1>2, <1>3, <1>4, <1>5, BuilderThinks DEF BuilderInv

\* What is read now is not older than the package, and it is what is there.
LEMMA PathIsRead ==
  ASSUME ContextInv, NEW p \in Workers, C!ReadPath(p)
  PROVE  ContextInv'
<1>1. PICK m : m = proc[p]
  OBVIOUS
<1>2. m.at \in {"plan", "bytes", "confirm"} /\ m.todo # {}
  BY <1>1 DEF C!ReadPath
<1>3. /\ m \in Building /\ m # C!Idle /\ m.kind \in {"rebuild", "build", "pack"}
      /\ m.todo \subseteq C!Paths
      /\ m.got \in Partial /\ m.plan \in Partial /\ m.seen \in Packages \cup {None}
  BY <1>1, <1>2, BuildingFields DEF ContextInv
<1>4. (Locked(m) => lock = p) /\ ReadingInv(m) /\ WritingInv(m)
  BY <1>1, <1>3 DEF ContextInv, BuilderInv
<1>5. PICK x : x = C!First(m.todo)
  OBVIOUS
<1>6. x \in m.todo /\ x \in C!Paths
  BY <1>2, <1>3, <1>5 DEF C!First
<1>7. PICK got1 : got1 = C!With(m.got, x)
  OBVIOUS
<1>8. PICK me : me = [m EXCEPT !.todo = m.todo \ {x}, !.got = got1]
  OBVIOUS
<1>9. /\ proc' = [proc EXCEPT ![p] = me]
      /\ UNCHANGED <<file, snaps, litter, catalog, latest, before, records, lock>>
  BY <1>1, <1>5, <1>7, <1>8 DEF C!ReadPath, C!owned, C!outputs
<1>10. /\ DOMAIN got1 = DOMAIN m.got \cup {x} /\ got1[x] = file[x]
       /\ \A y \in DOMAIN m.got \ {x} : got1[y] = m.got[y]
       /\ DOMAIN m.got = C!Paths \ m.todo /\ Behind(m.got)
  BY <1>2, <1>4, <1>7 DEF C!With, ReadingInv
<1>11. /\ DOMAIN got1 = C!Paths \ (m.todo \ {x})
       /\ \A y \in DOMAIN m.got : got1[y] = m.got[y]
  BY <1>3, <1>6, <1>10
<1>12. /\ file \in Worlds /\ Behind(file) /\ DOMAIN file = C!Paths
       /\ file[x] \in Value(x) /\ file[x] \in Values
  BY <1>6 DEF ContextInv, HistoryInv, Worlds, Readings
<1>13. got1 \in Partial
  <2>1. \A y \in DOMAIN m.got : m.got[y] \in Value(y) /\ m.got[y] \in Values
    <3>1. CASE m.got = << >>
      BY <3>1, EmptyReading
    <3>2. CASE m.got # << >>
      <4>1. PICK T \in SUBSET C!Paths : m.got \in Readings(T)
        BY <1>3, <3>2 DEF Partial
      <4>2. QED
        BY <4>1 DEF Readings
    <3>3. QED
      BY <3>1, <3>2
  <2>2. \A y \in DOMAIN got1 : got1[y] \in Value(y) /\ got1[y] \in Values
    BY <1>10, <1>12, <2>1
  <2>3. got1 = [y \in DOMAIN got1 |-> got1[y]]
    BY <1>7 DEF C!With
  <2>4. DOMAIN got1 \in SUBSET C!Paths
    BY <1>11
  <2>5. got1 \in Readings(DOMAIN got1)
    BY <2>2, <2>3 DEF Readings
  <2>6. QED
    BY <2>4, <2>5 DEF Partial
<1>14. /\ me \in Building /\ me.at = m.at /\ me.kind = m.kind /\ me.plan = m.plan
       /\ me.got = got1 /\ me.todo = m.todo \ {x}
  <2>1. m.todo \ {x} \in SUBSET C!Paths
    BY <1>3
  <2>2. QED
    BY <1>3, <1>8, <1>13, <2>1 DEF Building
<1>15. Behind(got1)
  BY <1>6, <1>10, <1>11, <1>12 DEF Behind
<1>16. NotOlder(file, latest)
  <2> SUFFICES ASSUME latest # None, NEW y \in DOMAIN file \cap DOMAIN latest.files,
                      file[y] # None
               PROVE  file[y].n >= latest.files[y].n
    BY DEF NotOlder
  <2>1. Content(latest.kind, latest.files) /\ latest.files \in Partial
    BY DEF ContextInv, OutputsInv, Published, Packages
  <2>2. latest.files[y] # None /\ latest.files[y].n <= file[y].n
    BY <2>1 DEF Content, Behind
  <2>3. latest.files[y].n \in Nat
    BY <2>1, <2>2, PartialCounts
  <2>4. file[y].n \in Nat
    BY <1>12, PartialCounts, WorldIsPartial
  <2>5. QED
    BY <2>2, <2>3, <2>4
<1>17. Locked(m) => NotOlder(got1, latest)
  BY <1>2, <1>4, <1>6, <1>10, <1>11, <1>12, <1>16 DEF NotOlder, ReadingInv
<1>18. Locked(me) <=> Locked(m)
  BY <1>14 DEF Locked
<1>19. m.at = "bytes" => Copied(catalog, got1)
  <2> SUFFICES ASSUME m.at = "bytes" PROVE Copied(catalog, got1)
    OBVIOUS
  <2>1. Copied(catalog, m.got)
    BY <1>4 DEF ReadingInv
  <2>2. QED
    BY <2>1, <1>10, <1>11 DEF Copied
<1>20. ASSUME NEW w, NEW taken, Snapped(w, m.got, taken) PROVE Snapped(w, got1, taken)
  BY <1>10, <1>11, <1>20 DEF Snapped
<1>21. ReadingInv(me)
  BY <1>2, <1>4, <1>11, <1>14, <1>15, <1>17, <1>18, <1>19, <1>20 DEF ReadingInv
<1>22. WritingInv(me)
  BY <1>2, <1>14 DEF WritingInv
<1>23. BuilderInv(p, me)'
  <2>1. BuilderInv(p, me) /\ (Locked(me) => lock = p)
    BY <1>4, <1>14, <1>18, <1>21, <1>22 DEF BuilderInv
  <2>2. Onward
    BY <1>9, NothingMoves DEF ContextInv
  <2>3. QED
    BY <1>9, <2>1, <2>2, BuilderStays
<1>24. QED
  BY <1>9, <1>14, <1>23, BuilderThinks

LEMMA BuilderIs ==
  ASSUME ContextInv, NEW p \in Workers, NEW m, m = proc[p], m.at # "idle"
  PROVE  /\ m \in Building /\ m.at \in Stages /\ m.kind \in {"rebuild", "build", "pack"}
         /\ m.todo \subseteq C!Paths
         /\ m.got \in Partial /\ m.plan \in Partial /\ m.seen \in Packages \cup {None}
         /\ (Locked(m) => lock = p) /\ ReadingInv(m) /\ WritingInv(m)
<1>1. m \in Building \cup {C!Idle} /\ BuilderInv(p, m)
  BY DEF ContextInv
<1>2. QED
  BY <1>1, BuildingFields DEF BuilderInv

LEMMA GivesUp ==
  ASSUME ContextInv, NEW p \in Workers, C!GiveUp(p),
         UNCHANGED <<file, snaps, litter, catalog, latest, before, records>>
  PROVE  ContextInv'
<1>1. PICK me : me = C!Idle
  OBVIOUS
<1>2. proc' = [proc EXCEPT ![p] = me] /\ (lock' = lock \/ lock \in {None, p})
  BY <1>1 DEF C!GiveUp
<1>3. BuilderInv(p, me)'
  BY <1>1 DEF BuilderInv
<1>4. QED
  BY <1>1, <1>2, <1>3, BuilderThinks

\* What holds of a builder in this state does in the next, if only it moves.
LEMMA BuilderGoesOn ==
  ASSUME ContextInv, NEW p \in Workers, NEW me \in Building,
         UNCHANGED <<file, snaps, litter, catalog, latest, before, records, lock>>,
         proc' = [proc EXCEPT ![p] = me],
         Locked(me) => lock = p, ReadingInv(me), WritingInv(me)
  PROVE  ContextInv'
<1>1. Onward
  BY NothingMoves DEF ContextInv
<1>2. BuilderInv(p, me)
  BY DEF BuilderInv
<1>3. BuilderInv(p, me)'
  BY <1>1, <1>2, BuilderStays
<1>4. QED
  BY <1>3, BuilderThinks

LEMMA CatalogIsPlanned ==
  ASSUME ContextInv, NEW p \in Workers, C!Rebuild(p)
  PROVE  ContextInv'
<1>1. UNCHANGED <<file, snaps, litter, catalog, latest, before, records>>
  BY DEF C!Rebuild, C!owned, C!outputs
<1>2. CASE C!GiveUp(p)
  BY <1>1, <1>2, GivesUp
<1>3. CASE proc' = [proc EXCEPT ![p].at = "publish"] /\ UNCHANGED lock
  <2>1. PICK m : m = proc[p]
    OBVIOUS
  <2>2. m.at = "plan" /\ m.kind = "rebuild" /\ m.todo = {}
    BY <2>1 DEF C!Rebuild, C!AllRead
  <2>3. m \in Building /\ m.got \in Partial /\ ReadingInv(m) /\ (Locked(m) => lock = p)
    BY <2>1, <2>2, BuilderIs
  <2>4. PICK me : me = [m EXCEPT !.at = "publish"]
    OBVIOUS
  <2>5. me \in Building /\ me.at = "publish" /\ me.kind = "rebuild" /\ me.got = m.got
    BY <2>2, <2>3, <2>4 DEF Building, Stages
  <2>6. m.got \in Worlds /\ Behind(m.got)
    BY <2>2, <2>3, WorldIsRead DEF ReadingInv
  <2>7. ReadingInv(me) /\ WritingInv(me)
    BY <2>5, <2>6 DEF ReadingInv, WritingInv
  <2>8. lock = p
    BY <2>2, <2>3 DEF Locked
  <2>9. QED
    BY <1>1, <1>3, <2>1, <2>4, <2>5, <2>7, <2>8, BuilderGoesOn
<1>4. QED
  BY <1>2, <1>3 DEF C!Rebuild

\* The catalog is of the files on the route; those that are still what it was
\* built from have not changed.
LEMMA RouteIsPrepared ==
  ASSUME ContextInv, NEW p \in Workers, C!PrepareRoute(p)
  PROVE  ContextInv'
<1>1. UNCHANGED <<file, snaps, litter, catalog, latest, before, records>>
  BY DEF C!PrepareRoute, C!owned, C!outputs
<1>2. CASE C!GiveUp(p)
  BY <1>1, <1>2, GivesUp
<1>3. CASE C!Route(proc[p].got) /\ proc' = [proc EXCEPT ![p] = C!Again(p, "bytes")]
           /\ UNCHANGED lock
  <2>1. PICK m : m = proc[p]
    OBVIOUS
  <2>2. m.at = "plan" /\ m.kind = "build" /\ m.todo = {}
    BY <2>1 DEF C!PrepareRoute, C!AllRead
  <2>3. m \in Building /\ m.got \in Partial /\ ReadingInv(m) /\ (Locked(m) => lock = p)
    BY <2>1, <2>2, BuilderIs
  <2>4. PICK me : me = [m EXCEPT !.at = "bytes", !.todo = C!Paths, !.got = << >>]
    OBVIOUS
  <2>5. /\ me \in Building /\ me.at = "bytes" /\ me.kind = "build" /\ me.got = << >>
        /\ me.todo = C!Paths
    BY <2>2, <2>3, <2>4, EmptyReading DEF Building, Stages
  <2>6. catalog \in Worlds /\ Behind(catalog)
    BY <1>3 DEF C!Route, C!CatalogOf, ContextInv, OutputsInv
  <2>7. Copied(catalog, << >>)
    BY EmptyReading DEF Copied, ContextInv, HistoryInv
  <2>8. ReadingInv(me) /\ WritingInv(me)
    BY <2>5, <2>6, <2>7, EmptyReading DEF ReadingInv, WritingInv, NotOlder
  <2>9. lock = p
    BY <2>2, <2>3 DEF Locked
  <2>10. proc' = [proc EXCEPT ![p] = me]
    BY <1>3, <2>1, <2>4 DEF C!Again
  <2>11. QED
    BY <1>1, <1>3, <2>5, <2>8, <2>9, <2>10, BuilderGoesOn
<1>4. QED
  BY <1>2, <1>3 DEF C!PrepareRoute

LEMMA RouteIsRead ==
  ASSUME ContextInv, NEW p \in Workers, C!ReadRoute(p)
  PROVE  ContextInv'
<1>1. /\ UNCHANGED <<file, snaps, litter, catalog, latest, before, records, lock>>
      /\ proc' = [proc EXCEPT ![p] = [C!Again(p, "confirm") EXCEPT !.plan = proc[p].got]]
  BY DEF C!ReadRoute, C!owned, C!outputs
<1>2. PICK m : m = proc[p]
  OBVIOUS
<1>3. m.at = "bytes" /\ m.kind = "build" /\ m.todo = {}
  BY <1>2 DEF C!ReadRoute, C!AllRead
<1>4. m \in Building /\ m.got \in Partial /\ ReadingInv(m) /\ (Locked(m) => lock = p)
  BY <1>2, <1>3, BuilderIs
<1>5. PICK a : a = [m EXCEPT !.at = "confirm", !.todo = C!Paths, !.got = << >>]
  OBVIOUS
<1>6. PICK me : me = [a EXCEPT !.plan = m.got]
  OBVIOUS
<1>7. /\ a \in Building /\ a.at = "confirm" /\ a.kind = "build" /\ a.got = << >>
      /\ a.todo = C!Paths
  BY <1>3, <1>4, <1>5, EmptyReading DEF Building, Stages
<1>8. /\ me \in Building /\ me.at = "confirm" /\ me.kind = "build" /\ me.got = << >>
      /\ me.todo = C!Paths /\ me.plan = m.got
  BY <1>4, <1>6, <1>7 DEF Building
<1>9. /\ m.got \in Worlds /\ Behind(m.got) /\ NotOlder(m.got, latest)
      /\ catalog \in Worlds /\ Behind(catalog) /\ Copied(catalog, m.got)
      /\ DOMAIN m.got = C!Paths
  BY <1>3, <1>4, WorldIsRead DEF ReadingInv, Locked
<1>10. Snapped(catalog, << >>, m.got)
  BY <1>9, EmptyReading DEF Copied, Snapped
<1>11. ReadingInv(me) /\ WritingInv(me)
  BY <1>8, <1>9, <1>10, EmptyReading DEF ReadingInv, WritingInv, NotOlder
<1>12. lock = p
  BY <1>3, <1>4 DEF Locked
<1>13. proc' = [proc EXCEPT ![p] = me]
  BY <1>1, <1>2, <1>5, <1>6 DEF C!Again
<1>14. QED
  BY <1>1, <1>8, <1>11, <1>12, <1>13, BuilderGoesOn

\* A route that is confirmed is of one instant, closed and current.
LEMMA RouteIsContent ==
  ASSUME ContextInv, NEW t \in Worlds, Behind(t), C!Route(catalog), catalog \in Worlds,
         Snapped(catalog, catalog, t)
  PROVE  Content("build", C!Part(t, C!Along(catalog)))
<1>1. PICK w : w = C!Part(t, C!Along(catalog))
  OBVIOUS
<1>2. C!Along(catalog) \subseteq C!Paths /\ Source \in C!Along(catalog)
  BY KnownChapters DEF C!Along, C!Closure, C!Paths
<1>3. DOMAIN w = C!Along(catalog) /\ \A x \in C!Along(catalog) : w[x] = t[x]
  BY <1>1 DEF C!Part
<1>4. w \in Partial
  <2>1. \A x \in C!Along(catalog) : t[x] \in Value(x) /\ t[x] \in Values
    BY <1>2 DEF Worlds, Readings
  <2>2. w \in Readings(C!Along(catalog))
    BY <1>1, <2>1 DEF C!Part, Readings
  <2>3. QED
    BY <1>2, <2>2 DEF Partial
<1>5. Behind(w)
  <2>1. DOMAIN t = C!Paths
    BY DEF Worlds, Readings
  <2>2. QED
    BY <1>2, <1>3, <2>1 DEF Behind
<1>6. /\ \A x \in C!Along(catalog) : catalog[x] # None
      /\ C!Along(catalog) \ {Source} = C!Closure(catalog, Root)
      /\ Root \in C!Closure(catalog, Root) /\ catalog[Source] \in SourceStates
  <2>1. \A c \in C!Closure(catalog, Root) : c \in Chapters /\ catalog[c] # None
    BY DEF C!Closure, C!Known
  <2>2. catalog[Source] \in SourceStates /\ Root \in C!Known(catalog)
    BY KnownChapters
  <2>3. catalog[Source] # None
    BY <2>2, ContextAssumption DEF SourceStates
  <2>4. Root \in C!Closure(catalog, Root)
    BY <2>2 DEF C!Closure
  <2>5. QED
    BY <2>1, <2>2, <2>3, <2>4, ContextAssumption DEF C!Along
<1>7. PICK s \in snaps : \A x \in C!Along(catalog) : s[x] = catalog[x] /\ t[x] = catalog[x]
  <2>1. DOMAIN catalog = C!Paths
    BY DEF Worlds, Readings
  <2>2. QED
    BY <1>2, <1>6, <2>1 DEF Snapped
<1>8. Together(w) /\ \A x \in DOMAIN w : w[x] # None
  BY <1>3, <1>6, <1>7 DEF Together
<1>9. \A c \in C!Closure(catalog, Root) :
        /\ catalog[c].status = "OWNER_ACCEPTED" /\ C!Sound(catalog, c)
        /\ catalog[c].deps \subseteq C!Closure(catalog, Root)
  <2> SUFFICES ASSUME NEW c \in C!Closure(catalog, Root)
               PROVE  /\ catalog[c].status = "OWNER_ACCEPTED" /\ C!Sound(catalog, c)
                      /\ catalog[c].deps \subseteq C!Closure(catalog, Root)
    OBVIOUS
  <2>1. C!Acyclic(catalog) /\ C!Freshness(catalog)[c] = "CURRENT"
    BY DEF C!Route
  <2>2. c \in C!Known(catalog)
    BY ClosureIsClosed
  <2>3. /\ catalog[c].status = "OWNER_ACCEPTED" /\ C!Sound(catalog, c)
        /\ catalog[c].deps \subseteq C!Known(catalog)
    BY <2>1, <2>2, CurrentIsSound
  <2>4. QED
    BY <2>3, ClosureIsClosed
<1>10. Current(w)
  <2>1. catalog[Source].exact /\ ~catalog[Source].superseded
    BY <1>6, <1>9 DEF C!Sound
  <2>2. w[Source] = catalog[Source]
    BY <1>2, <1>3, <1>7
  <2>3. \A c \in C!Closure(catalog, Root) : w[c] = catalog[c]
    BY <1>3, <1>7 DEF C!Along
  <2>4. DOMAIN w \ {Source} = C!Closure(catalog, Root)
    BY <1>3, <1>6
  <2>5. QED
    BY <1>6, <1>9, <2>1, <2>2, <2>3, <2>4 DEF Current
<1>11. QED
  BY <1>1, <1>4, <1>5, <1>8, <1>10 DEF Content

LEMMA RouteIsConfirmed ==
  ASSUME ContextInv, NEW p \in Workers, C!ConfirmRoute(p)
  PROVE  ContextInv'
<1>1. UNCHANGED <<file, snaps, litter, catalog, latest, before, records>>
  BY DEF C!ConfirmRoute, C!owned, C!outputs
<1>2. CASE C!GiveUp(p)
  BY <1>1, <1>2, GivesUp
<1>3. CASE /\ C!Route(proc[p].got) /\ UNCHANGED lock
           /\ proc' = [proc EXCEPT ![p].at = "publish", ![p].plan = << >>,
                                   ![p].got = C!Part(proc[p].plan, C!Along(catalog))]
  <2>1. PICK m : m = proc[p]
    OBVIOUS
  <2>2. m.at = "confirm" /\ m.kind = "build" /\ m.todo = {}
    BY <2>1 DEF C!ConfirmRoute, C!AllRead
  <2>3. m \in Building /\ ReadingInv(m) /\ (Locked(m) => lock = p)
    BY <2>1, <2>2, BuilderIs
  <2>4. PICK w : w = C!Part(m.plan, C!Along(catalog))
    OBVIOUS
  <2>5. PICK me : me = [m EXCEPT !.at = "publish", !.plan = << >>, !.got = w]
    OBVIOUS
  <2>6. /\ m.plan \in Worlds /\ Behind(m.plan) /\ NotOlder(m.plan, latest)
        /\ catalog \in Worlds /\ Snapped(catalog, m.got, m.plan)
    BY <2>2, <2>3 DEF ReadingInv
  <2>7. m.got = catalog
    BY <1>3, <2>1 DEF C!Route, C!CatalogOf
  <2>8. Content("build", w)
    BY <1>3, <2>1, <2>4, <2>6, <2>7, RouteIsContent
  <2>9. NotOlder(w, latest)
    <3>1. C!Along(catalog) \subseteq C!Paths
      BY <2>6, KnownChapters DEF C!Along, C!Closure, C!Paths
    <3>2. DOMAIN m.plan = C!Paths
      BY <2>6 DEF Worlds, Readings
    <3>3. QED
      BY <2>4, <2>6, <3>1, <3>2 DEF C!Part, NotOlder
  <2>10. me \in Building /\ me.at = "publish" /\ me.kind = "build" /\ me.got = w
    BY <2>2, <2>3, <2>5, <2>8, EmptyReading DEF Building, Stages, Content
  <2>11. ReadingInv(me) /\ WritingInv(me)
    BY <2>8, <2>9, <2>10 DEF ReadingInv, WritingInv
  <2>12. lock = p
    BY <2>2, <2>3 DEF Locked
  <2>13. proc' = [proc EXCEPT ![p] = me]
    BY <1>3, <2>1, <2>4, <2>5
  <2>14. QED
    BY <1>1, <1>3, <2>10, <2>11, <2>12, <2>13, BuilderGoesOn
<1>4. QED
  BY <1>2, <1>3 DEF C!ConfirmRoute, C!Confirmed

LEMMA PackIsPlanned ==
  ASSUME ContextInv, NEW p \in Workers, C!PlanPack(p)
  PROVE  ContextInv'
<1>1. /\ UNCHANGED <<file, snaps, litter, catalog, latest, before, records, lock>>
      /\ proc' = [proc EXCEPT ![p] = [C!Again(p, "lock") EXCEPT !.plan = proc[p].got,
                                                                !.seen = latest]]
  BY DEF C!PlanPack, C!owned, C!outputs
<1>2. PICK m : m = proc[p]
  OBVIOUS
<1>3. m.at = "plan" /\ m.kind = "pack" /\ m.todo = {}
  BY <1>2 DEF C!PlanPack, C!AllRead
<1>4. m \in Building /\ m.got \in Partial /\ ReadingInv(m)
  BY <1>2, <1>3, BuilderIs
<1>5. PICK a : a = [m EXCEPT !.at = "lock", !.todo = C!Paths, !.got = << >>]
  OBVIOUS
<1>6. PICK me : me = [a EXCEPT !.plan = m.got, !.seen = latest]
  OBVIOUS
<1>7. a \in Building /\ a.at = "lock" /\ a.kind = "pack" /\ a.got = << >> /\ a.todo = C!Paths
  BY <1>3, <1>4, <1>5, EmptyReading DEF Building, Stages
<1>8. /\ me \in Building /\ me.at = "lock" /\ me.kind = "pack" /\ me.got = << >>
      /\ me.todo = C!Paths /\ me.plan = m.got
  <2>1. latest \in Packages \cup {None}
    BY DEF ContextInv, OutputsInv, Published
  <2>2. QED
    BY <1>4, <1>6, <1>7, <2>1 DEF Building
<1>9. m.got \in Worlds /\ Behind(m.got) /\ DOMAIN m.got = C!Paths
  BY <1>3, <1>4, WorldIsRead DEF ReadingInv
<1>10. Snapped(m.got, << >>, m.got)
  BY <1>9, EmptyReading DEF Snapped, ContextInv, HistoryInv
<1>11. ReadingInv(me) /\ WritingInv(me) /\ ~Locked(me)
  BY <1>8, <1>9, <1>10, EmptyReading DEF ReadingInv, WritingInv, NotOlder, Locked
<1>12. proc' = [proc EXCEPT ![p] = me]
  BY <1>1, <1>2, <1>5, <1>6 DEF C!Again
<1>13. QED
  BY <1>1, <1>8, <1>11, <1>12, BuilderGoesOn

LEMMA PackIsLocked ==
  ASSUME ContextInv, NEW p \in Workers, C!LockPack(p)
  PROVE  ContextInv'
<1>1. /\ UNCHANGED <<file, snaps, litter, catalog, latest, before, records>>
      /\ lock = None /\ lock' = p /\ proc' = [proc EXCEPT ![p].at = "confirm"]
  BY DEF C!LockPack, C!owned, C!outputs
<1>2. PICK m : m = proc[p]
  OBVIOUS
<1>3. m.at = "lock"
  BY <1>2 DEF C!LockPack
<1>4. m \in Building /\ ReadingInv(m)
  BY <1>2, <1>3, BuilderIs
<1>5. PICK me : me = [m EXCEPT !.at = "confirm"]
  OBVIOUS
<1>6. /\ me \in Building /\ me.at = "confirm" /\ me.kind = m.kind /\ me.got = m.got
      /\ me.todo = m.todo /\ me.plan = m.plan
  BY <1>4, <1>5 DEF Building, Stages
<1>7. m.kind = "pack" /\ DOMAIN m.got = {}
  BY <1>3, <1>4 DEF ReadingInv
<1>8. ReadingInv(me) /\ WritingInv(me)
  BY <1>3, <1>4, <1>6, <1>7 DEF ReadingInv, WritingInv, NotOlder
<1>9. ReadingInv(me)' /\ WritingInv(me)'
  <2>1. Onward
    BY <1>1, NothingMoves DEF ContextInv
  <2>2. /\ \A w \in Partial : Behind(w) => Behind(w)'
        /\ m.got \in Partial /\ m.plan \in Partial
    BY <1>4, <2>1 DEF Onward, Building
  <2>3. Snapped(m.plan, m.got, m.plan)'
    <3>1. m.plan \in Worlds /\ Behind(m.plan) /\ Snapped(m.plan, m.got, m.plan)
      BY <1>3, <1>4, <1>7 DEF ReadingInv
    <3>2. QED
      BY <2>1, <3>1, SnappedStays
  <2>4. WritingInv(me)'
    BY <1>6 DEF WritingInv
  <2>5. /\ DOMAIN me.got = C!Paths \ me.todo /\ Behind(me.got)' /\ NotOlder(me.got, latest)'
    BY <1>3, <1>4, <1>6, <1>7, <2>2 DEF ReadingInv, NotOlder
  <2>6. me.plan \in Worlds /\ Behind(me.plan)'
    BY <1>6, <1>7, <1>8, <2>2 DEF ReadingInv
  <2>7. ReadingInv(me)'
    BY <1>6, <1>7, <2>3, <2>5, <2>6 DEF ReadingInv
  <2>8. QED
    BY <2>4, <2>7
<1>10. BuilderInv(p, me)'
  BY <1>1, <1>6, <1>9 DEF BuilderInv
<1>11. QED
  BY <1>1, <1>2, <1>5, <1>6, <1>10, BuilderThinks

LEMMA PackIsConfirmed ==
  ASSUME ContextInv, NEW p \in Workers, C!ConfirmPack(p)
  PROVE  ContextInv'
<1>1. UNCHANGED <<file, snaps, litter, catalog, latest, before, records>>
  BY DEF C!ConfirmPack, C!owned, C!outputs
<1>2. CASE C!GiveUp(p)
  BY <1>1, <1>2, GivesUp
<1>3. CASE /\ C!SameState(p) /\ UNCHANGED lock
           /\ proc' = [proc EXCEPT ![p].at = "publish", ![p].plan = << >>, ![p].seen = None,
                                   ![p].got = C!Part(proc[p].plan, C!Present(proc[p].plan))]
  <2>1. PICK m : m = proc[p]
    OBVIOUS
  <2>2. m.at = "confirm" /\ m.kind = "pack" /\ m.todo = {}
    BY <2>1 DEF C!ConfirmPack, C!AllRead
  <2>3. m \in Building /\ ReadingInv(m) /\ (Locked(m) => lock = p)
    BY <2>1, <2>2, BuilderIs
  <2>4. PICK t : t = m.plan
    OBVIOUS
  <2>5. PICK w : w = C!Part(t, C!Present(t))
    OBVIOUS
  <2>6. PICK me : me = [m EXCEPT !.at = "publish", !.plan = << >>, !.seen = None, !.got = w]
    OBVIOUS
  <2>7. m.got = t
    BY <1>3, <2>1, <2>4 DEF C!SameState
  <2>8. t \in Worlds /\ Behind(t) /\ Snapped(t, t, t) /\ NotOlder(t, latest)
    BY <2>2, <2>3, <2>4, <2>7 DEF ReadingInv, Locked
  <2>9. /\ DOMAIN t = C!Paths /\ C!Present(t) \subseteq C!Paths
        /\ DOMAIN w = C!Present(t) /\ \A x \in C!Present(t) : w[x] = t[x] /\ w[x] # None
    BY <2>5, <2>8 DEF Worlds, Readings, C!Present, C!Part
  <2>10. Content("pack", w)
    <3>1. \A x \in C!Present(t) : t[x] \in Value(x) /\ t[x] \in Values
      BY <2>8, <2>9 DEF Worlds, Readings
    <3>2. w \in Readings(C!Present(t))
      BY <2>5, <3>1 DEF C!Part, Readings
    <3>3. w \in Partial
      BY <2>9, <3>2 DEF Partial
    <3>4. Behind(w)
      BY <2>8, <2>9 DEF Behind
    <3>5. Together(w)
      BY <2>8, <2>9 DEF Together, Snapped
    <3>6. QED
      BY <2>9, <3>3, <3>4, <3>5 DEF Content
  <2>11. NotOlder(w, latest)
    BY <2>8, <2>9 DEF NotOlder
  <2>12. me \in Building /\ me.at = "publish" /\ me.kind = "pack" /\ me.got = w
    BY <2>2, <2>3, <2>6, <2>10, EmptyReading DEF Building, Stages, Content
  <2>13. ReadingInv(me) /\ WritingInv(me)
    BY <2>10, <2>11, <2>12 DEF ReadingInv, WritingInv
  <2>14. lock = p
    BY <2>2, <2>3 DEF Locked
  <2>15. proc' = [proc EXCEPT ![p] = me]
    BY <1>3, <2>1, <2>4, <2>5, <2>6
  <2>16. QED
    BY <1>1, <1>3, <2>12, <2>13, <2>14, <2>15, BuilderGoesOn
<1>4. QED
  BY <1>2, <1>3 DEF C!ConfirmPack

(***************************************************************************)
(* Publication.  What the journal keeps is what was published before, so a *)
(* rollback and a recovery restore what holds.                             *)
(***************************************************************************)
LEMMA OutputsKept ==
  ASSUME ContextInv, UNCHANGED <<file, snaps, litter>>
  PROVE  /\ \A c, new, old : c = catalog /\ new = latest /\ old = before
              => OutputsInv(c, new, old)'
         /\ \A r : r = records => (r = C!NoJournal \/ JournalOf(r)')
         /\ \A kind, w : Content(kind, w) => Content(kind, w)'
         /\ \A w \in Partial : Behind(w) => Behind(w)'
<1>1. Onward
  BY NothingMoves DEF ContextInv
<1>2. \A c, new, old : OutputsInv(c, new, old) => OutputsInv(c, new, old)'
  BY <1>1, OutputsStay
<1>3. \A r : r = C!NoJournal \/ JournalOf(r) => (r = C!NoJournal \/ JournalOf(r)')
  BY <1>1, JournalStays
<1>4. \A kind, w : Content(kind, w) => Content(kind, w)'
  BY <1>1, ContentStays
<1>5. QED
  BY <1>1, <1>2, <1>3, <1>4 DEF ContextInv, Onward

LEMMA Tracked ==
  ASSUME ContextInv, UNCHANGED <<file, snaps, litter>>, C!Track
  PROVE  JournalOf(records)'
<1>1. PICK c, i, new, old : c = catalog /\ i = index /\ new = latest /\ old = before
  OBVIOUS
<1>2. OutputsInv(c, new, old)'
  BY <1>1, OutputsKept
<1>3. PICK r : r = [sound |-> FALSE, catalog |-> c, index |-> i, latest |-> new, before |-> old]
  OBVIOUS
<1>4. records' = r
  BY <1>1, <1>3 DEF C!Track
<1>5. /\ {"catalog", "index", "latest", "before"} \subseteq DOMAIN r
      /\ r.catalog = c /\ r.latest = new /\ r.before = old
  BY <1>3
<1>6. QED
  BY <1>2, <1>4, <1>5 DEF JournalOf

LEMMA Marked ==
  ASSUME ContextInv, UNCHANGED <<file, snaps, litter>>, JournalOf(records), NEW sound,
         records' = [records EXCEPT !.sound = sound]
  PROVE  JournalOf(records)'
<1>1. PICK r : r = records
  OBVIOUS
<1>2. PICK r1 : r1 = [r EXCEPT !.sound = sound]
  OBVIOUS
<1>3. DOMAIN r1 = DOMAIN r /\ \A key \in DOMAIN r \ {"sound"} : r1[key] = r[key]
  BY <1>2
<1>4. /\ {"catalog", "index", "latest", "before"} \subseteq DOMAIN r
      /\ OutputsInv(r.catalog, r.latest, r.before)
  BY <1>1 DEF JournalOf
<1>5. r1.catalog = r.catalog /\ r1.latest = r.latest /\ r1.before = r.before
  BY <1>3, <1>4
<1>6. Onward
  BY NothingMoves DEF ContextInv
<1>7. OutputsInv(r.catalog, r.latest, r.before)'
  BY <1>4, <1>6, OutputsStay
<1>8. JournalOf(r1)'
  BY <1>3, <1>4, <1>5, <1>7 DEF JournalOf
<1>9. records' = r1
  BY <1>1, <1>2
<1>10. QED
  BY <1>8, <1>9

\* The holder of the lock goes to a stage of which only the journal is known.
LEMMA HolderMoves ==
  ASSUME ContextInv, NEW p \in Workers, UNCHANGED <<file, snaps, litter, lock>>, lock = p,
         NEW me \in Building, proc' = [proc EXCEPT ![p] = me],
         \/ me.at \in {"catalogued", "second"} /\ me.kind = "rebuild"
         \/ me.at \in {"mark", "complete"},
         OutputsInv(catalog, latest, before)', JournalOf(records)'
  PROVE  ContextInv'
<1>1. ReadingInv(me)' /\ WritingInv(me)'
  BY DEF ReadingInv, WritingInv
<1>2. BuilderInv(p, me)'
  BY <1>1 DEF BuilderInv
<1>3. QED
  BY <1>2, BuilderMoves

LEMMA CatalogIsPublished ==
  ASSUME ContextInv, NEW p \in Workers, C!PublishCatalog(p)
  PROVE  ContextInv'
<1>1. PICK m : m = proc[p]
  OBVIOUS
<1>2. /\ m.at = "publish" /\ m.kind = "rebuild" /\ C!Track /\ catalog' = m.got
      /\ UNCHANGED <<file, snaps, litter, latest, before, lock>>
      /\ proc' = [proc EXCEPT ![p].at = "catalogued"]
  BY <1>1 DEF C!PublishCatalog, C!owned
<1>3. m \in Building /\ m.got \in Worlds /\ Behind(m.got) /\ lock = p
  BY <1>1, <1>2, BuilderIs DEF WritingInv, Locked
<1>4. PICK me : me = [m EXCEPT !.at = "catalogued"]
  OBVIOUS
<1>5. me \in Building /\ me.at = "catalogued" /\ me.kind = "rebuild"
  BY <1>2, <1>3, <1>4 DEF Building, Stages
<1>6. OutputsInv(catalog, latest, before)'
  <2>1. PICK c, new, old : c = catalog /\ new = latest /\ old = before
    OBVIOUS
  <2>2. OutputsInv(c, new, old)' /\ Behind(m.got)'
    BY <1>2, <1>3, <2>1, OutputsKept, WorldIsPartial
  <2>3. OutputsInv(m.got, new, old)'
    BY <1>3, <2>2 DEF OutputsInv
  <2>4. catalog' = m.got /\ latest' = new /\ before' = old
    BY <1>2, <2>1
  <2>5. QED
    BY <2>3, <2>4
<1>7. JournalOf(records)'
  BY <1>2, Tracked
<1>8. proc' = [proc EXCEPT ![p] = me]
  BY <1>1, <1>2, <1>4
<1>9. QED
  BY <1>2, <1>3, <1>5, <1>6, <1>7, <1>8, HolderMoves

LEMMA CatalogIsMarked ==
  ASSUME ContextInv, NEW p \in Workers,
         C!MarkCatalog(p) \/ C!PublishIndex(p) \/ C!MarkPublished(p)
  PROVE  ContextInv'
<1>1. PICK m : m = proc[p]
  OBVIOUS
<1>2. PICK to, sound :
        /\ \/ m.at = "catalogued" /\ to = "second"
           \/ m.at = "second" /\ m.kind = "rebuild" /\ to = "mark"
           \/ m.at = "mark" /\ to = "complete"
        /\ records' = [records EXCEPT !.sound = sound]
        /\ proc' = [proc EXCEPT ![p].at = to]
        /\ UNCHANGED <<file, snaps, litter, catalog, latest, before, lock>>
  BY <1>1 DEF C!MarkCatalog, C!PublishIndex, C!MarkPublished, C!owned, C!outputs
<1>3. m \in Building /\ JournalOf(records) /\ lock = p /\ (to = "second" => m.kind = "rebuild")
  BY <1>1, <1>2, BuilderIs DEF WritingInv, Locked
<1>4. PICK me : me = [m EXCEPT !.at = to]
  OBVIOUS
<1>5. to \in Stages
  BY <1>2 DEF Stages
<1>6. me \in Building /\ me.at = to /\ me.kind = m.kind
  BY <1>3, <1>4, <1>5 DEF Building
<1>7. JournalOf(records)'
  BY <1>2, <1>3, Marked
<1>8. OutputsInv(catalog, latest, before)'
  <2>1. PICK c, new, old : c = catalog /\ new = latest /\ old = before
    OBVIOUS
  <2>2. OutputsInv(c, new, old)'
    BY <1>2, <2>1, OutputsKept
  <2>3. c = catalog' /\ new = latest' /\ old = before'
    BY <1>2, <2>1
  <2>4. QED
    BY <2>2, <2>3
<1>9. proc' = [proc EXCEPT ![p] = me]
  BY <1>1, <1>2, <1>4
<1>10. QED
  BY <1>2, <1>3, <1>6, <1>7, <1>8, <1>9, HolderMoves

LEMMA PackageIsDisplaced ==
  ASSUME ContextInv, NEW p \in Workers, C!DisplacePackage(p)
  PROVE  ContextInv'
<1>1. PICK m, last, old, c : m = proc[p] /\ last = latest /\ old = before /\ c = catalog
  OBVIOUS
<1>2. /\ m.at = "publish" /\ m.kind # "rebuild" /\ C!Track
      /\ latest' = None /\ before' = last /\ catalog' = c
      /\ UNCHANGED <<file, snaps, litter, lock>>
      /\ proc' = [proc EXCEPT ![p].at = "second"]
  BY <1>1 DEF C!DisplacePackage, C!owned
<1>3. m \in Building /\ Content(m.kind, m.got) /\ NotOlder(m.got, last) /\ lock = p
  BY <1>1, <1>2, BuilderIs DEF WritingInv, Locked
<1>4. PICK me : me = [m EXCEPT !.at = "second"]
  OBVIOUS
<1>5. me \in Building /\ me.at = "second" /\ me.kind = m.kind /\ me.got = m.got
  BY <1>3, <1>4 DEF Building, Stages
<1>6. OutputsInv(c, last, old)' /\ Content(m.kind, m.got)'
  BY <1>1, <1>2, <1>3, OutputsKept
<1>7. OutputsInv(catalog, latest, before)'
  <2>1. OutputsInv(c, None, last)'
    BY <1>6 DEF OutputsInv, Published
  <2>2. QED
    BY <1>2, <2>1
<1>8. JournalOf(records)'
  BY <1>2, Tracked
<1>9. ReadingInv(me)' /\ WritingInv(me)'
  <2>1. NotOlder(m.got, before)'
    BY <1>2, <1>3 DEF NotOlder
  <2>2. QED
    BY <1>2, <1>5, <1>6, <1>8, <2>1 DEF ReadingInv, WritingInv
<1>10. BuilderInv(p, me)'
  BY <1>2, <1>3, <1>5, <1>9 DEF BuilderInv
<1>11. proc' = [proc EXCEPT ![p] = me]
  BY <1>1, <1>2, <1>4
<1>12. \A q \in Workers \ {p} : lock # q
  BY <1>3
<1>13. QED
  BY <1>2, <1>5, <1>7, <1>8, <1>10, <1>11, <1>12, BuilderMoves

LEMMA PackageIsPublished ==
  ASSUME ContextInv, NEW p \in Workers, C!PublishPackage(p)
  PROVE  ContextInv'
<1>1. PICK m, old, c, r : m = proc[p] /\ old = before /\ c = catalog /\ r = records
  OBVIOUS
<1>2. PICK new : new = [kind |-> m.kind, files |-> m.got]
  OBVIOUS
<1>3. /\ m.at = "second" /\ m.kind # "rebuild"
      /\ latest' = new /\ before' = old /\ catalog' = c /\ records' = r
      /\ UNCHANGED <<file, snaps, litter, lock>>
      /\ proc' = [proc EXCEPT ![p].at = "mark"]
  BY <1>1, <1>2 DEF C!PublishPackage, C!owned
<1>4. /\ m \in Building /\ Content(m.kind, m.got) /\ NotOlder(m.got, old) /\ lock = p
      /\ JournalOf(r) /\ m.kind \in {"rebuild", "build", "pack"}
  BY <1>1, <1>3, BuilderIs DEF WritingInv, Locked
<1>5. PICK me : me = [m EXCEPT !.at = "mark"]
  OBVIOUS
<1>6. me \in Building /\ me.at = "mark"
  BY <1>4, <1>5 DEF Building, Stages
<1>7. Onward
  BY <1>3, NothingMoves DEF ContextInv
<1>8. OutputsInv(c, latest, old)' /\ Content(m.kind, m.got)' /\ JournalOf(r)'
  <2>1. PICK last : last = latest
    OBVIOUS
  <2>2. OutputsInv(c, last, old)'
    BY <1>1, <1>3, <2>1, OutputsKept
  <2>3. Content(m.kind, m.got)'
    BY <1>4, <1>7, ContentStays
  <2>4. new \in Packages /\ new.kind = m.kind /\ new.files = m.got
    BY <1>2, <1>3, <1>4 DEF Packages, Content
  <2>5. Published(new)'
    BY <2>3, <2>4 DEF Published
  <2>6. OutputsInv(c, new, old)'
    BY <1>4, <2>2, <2>4, <2>5 DEF OutputsInv
  <2>7. OutputsInv(r.catalog, r.latest, r.before)'
    BY <1>4, <1>7, OutputsStay DEF JournalOf
  <2>8. QED
    BY <1>3, <1>4, <2>3, <2>6, <2>7 DEF JournalOf
<1>9. OutputsInv(catalog, latest, before)' /\ JournalOf(records)'
  BY <1>3, <1>8
<1>10. proc' = [proc EXCEPT ![p] = me]
  BY <1>1, <1>3, <1>5
<1>11. QED
  BY <1>3, <1>4, <1>6, <1>9, <1>10, HolderMoves

LEMMA Restored ==
  ASSUME ContextInv, UNCHANGED <<file, snaps, litter>>, C!RestoreTargets
  PROVE  OutputsInv(catalog, latest, before)'
<1>1. PICK c, new, old, r : c = catalog /\ new = latest /\ old = before /\ r = records
  OBVIOUS
<1>2. OutputsInv(c, new, old)' /\ (r = C!NoJournal \/ JournalOf(r)')
  BY <1>1, OutputsKept
<1>3. CASE r = C!NoJournal
  <2>1. catalog' = c /\ latest' = new /\ before' = old
    BY <1>1, <1>3 DEF C!RestoreTargets, C!outputs
  <2>2. QED
    BY <1>2, <2>1
<1>4. CASE r # C!NoJournal
  <2>1. catalog' = r.catalog /\ latest' = r.latest /\ before' = r.before
    BY <1>1, <1>4 DEF C!RestoreTargets
  <2>2. OutputsInv(r.catalog, r.latest, r.before)'
    BY <1>2, <1>4 DEF JournalOf
  <2>3. QED
    BY <2>1, <2>2
<1>5. QED
  BY <1>3, <1>4

\* A builder that ends, with its lock or without it.
LEMMA BuilderEnds ==
  ASSUME ContextInv, NEW p \in Workers, UNCHANGED <<file, snaps, litter>>,
         proc' = [proc EXCEPT ![p] = C!Idle],
         OutputsInv(catalog, latest, before)', (records = C!NoJournal \/ JournalOf(records))',
         \/ lock = p
         \/ lock # p /\ lock' = lock /\ UNCHANGED <<catalog, latest, before, records>>
  PROVE  ContextInv'
<1>1. PICK me : me = C!Idle
  OBVIOUS
<1>2. BuilderInv(p, me)'
  BY <1>1 DEF BuilderInv
<1>3. proc' = [proc EXCEPT ![p] = me] /\ me \in Building \cup {C!Idle}
  BY <1>1
<1>4. QED
  BY <1>2, <1>3, BuilderMoves

LEMMA BuildCompletes ==
  ASSUME ContextInv, NEW p \in Workers, C!Complete(p)
  PROVE  ContextInv'
<1>1. /\ UNCHANGED <<file, snaps, litter, catalog, latest, before>>
      /\ records' = C!NoJournal /\ proc' = [proc EXCEPT ![p] = C!Idle]
      /\ proc[p].at = "complete"
  BY DEF C!Complete, C!GiveUp, C!owned, C!outputs
<1>2. lock = p
  BY <1>1, BuilderIs DEF Locked
<1>3. OutputsInv(catalog, latest, before)'
  <2>1. PICK c, new, old : c = catalog /\ new = latest /\ old = before
    OBVIOUS
  <2>2. OutputsInv(c, new, old)'
    BY <1>1, <2>1, OutputsKept
  <2>3. c = catalog' /\ new = latest' /\ old = before'
    BY <1>1, <2>1
  <2>4. QED
    BY <2>2, <2>3
<1>4. (records = C!NoJournal)'
  BY <1>1 DEF C!NoJournal
<1>5. QED
  BY <1>1, <1>2, <1>3, <1>4, BuilderEnds

LEMMA BuildFails ==
  ASSUME ContextInv, NEW p \in Workers, C!Fails(p)
  PROVE  ContextInv'
<1>1. UNCHANGED <<file, snaps, litter>> /\ C!GiveUp(p)
  BY DEF C!Fails, C!owned
<1>2. CASE lock = p
  <2>1. C!RestoreTargets /\ records' = C!NoJournal /\ proc' = [proc EXCEPT ![p] = C!Idle]
    BY <1>2 DEF C!Fails, C!GiveUp
  <2>2. OutputsInv(catalog, latest, before)' /\ (records = C!NoJournal)'
    BY <1>1, <2>1, Restored DEF C!NoJournal
  <2>3. QED
    BY <1>1, <1>2, <2>1, <2>2, BuilderEnds
<1>3. CASE lock # p
  <2>1. UNCHANGED <<catalog, latest, before, records>>
    BY <1>3 DEF C!Fails, C!outputs
  <2>2. QED
    BY <1>1, <2>1, GivesUp
<1>4. QED
  BY <1>2, <1>3

LEMMA BuilderDies ==
  ASSUME ContextInv, NEW p \in Workers, C!Killed(p)
  PROVE  ContextInv'
<1>1. /\ UNCHANGED <<file, snaps, litter, catalog, latest, before, records>>
      /\ proc' = [proc EXCEPT ![p] = C!Idle]
      /\ lock' = lock \/ lock = p
  BY DEF C!Killed, C!owned, C!outputs
<1>2. PICK me : me = C!Idle
  OBVIOUS
<1>3. BuilderInv(p, me)'
  BY <1>2 DEF BuilderInv
<1>4. QED
  BY <1>1, <1>2, <1>3, BuilderThinks

\* While the lock is a dead process's no builder holds it.
LEMMA WorkspaceRecovers ==
  ASSUME ContextInv, C!Recover
  PROVE  ContextInv'
<1>1. /\ UNCHANGED <<file, snaps, litter, proc>> /\ lock = "dead"
      /\ C!RestoreTargets /\ records' = C!NoJournal
  BY DEF C!Recover, C!owned
<1>2. HistoryInv' /\ Onward
  BY <1>1, NothingMoves DEF ContextInv
<1>3. OutputsInv(catalog, latest, before)' /\ (records = C!NoJournal)'
  BY <1>1, Restored DEF C!NoJournal
<1>4. ASSUME NEW q \in Workers PROVE BuilderInv(q, proc[q])'
  <2>1. PICK m : m = proc[q]
    OBVIOUS
  <2>2. BuilderInv(q, m) /\ proc'[q] = m
    BY <1>1, <2>1 DEF ContextInv
  <2>3. CASE m # C!Idle
    <3>1. ~Locked(m)
      BY <1>1, <2>2, <2>3, ContextAssumption DEF BuilderInv
    <3>2. BuilderInv(q, m)'
      BY <1>2, <2>2, <3>1, BuilderStays
    <3>3. QED
      BY <2>2, <3>2
  <2>4. CASE m = C!Idle
    BY <2>2, <2>4 DEF BuilderInv
  <2>5. QED
    BY <2>3, <2>4
<1>5. QED
  BY <1>1, <1>2, <1>3, <1>4 DEF ContextInv

LEMMA ContextInvariant == Spec => []ContextInv
<1>1. Init => ContextInv
  BY ContextInit DEF Init
<1>2. ContextInv /\ [Next]_vars => ContextInv'
  <2> SUFFICES ASSUME ContextInv, [Next]_vars PROVE ContextInv'
    OBVIOUS
  <2>1. CASE C!Next
    <3>1. ASSUME NEW c \in Chapters,
                 \/ \E status \in {"DRAFT", "OWNER_ACCEPTED", "ARCHIVED"} : C!EditStatus(c, status)
                 \/ \E deps \in SUBSET (Chapters \ {c}) : C!EditDependencies(c, deps)
                 \/ \E killed \in BOOLEAN : C!CreateChapter(c, killed)
                 \/ C!RemoveChapter(c)
          PROVE  ContextInv'
      BY <3>1, ChapterIsEdited, ChapterIsCreated
    <3>2. ASSUME NEW p \in Workers,
                 \/ \E kind \in {"rebuild", "build", "pack"} : C!Begin(p, kind)
                 \/ C!ReadPath(p) \/ C!Rebuild(p) \/ C!PrepareRoute(p) \/ C!ReadRoute(p)
                 \/ C!ConfirmRoute(p) \/ C!PlanPack(p) \/ C!LockPack(p) \/ C!ConfirmPack(p)
          PROVE  ContextInv'
      BY <3>2, BuildBegins, PathIsRead, CatalogIsPlanned, RouteIsPrepared, RouteIsRead,
         RouteIsConfirmed, PackIsPlanned, PackIsLocked, PackIsConfirmed
    <3>3. ASSUME NEW p \in Workers,
                 \/ C!PublishCatalog(p) \/ C!MarkCatalog(p) \/ C!PublishIndex(p)
                 \/ C!DisplacePackage(p) \/ C!PublishPackage(p)
                 \/ C!MarkPublished(p) \/ C!Complete(p) \/ C!Fails(p) \/ C!Killed(p)
          PROVE  ContextInv'
      BY <3>3, CatalogIsPublished, CatalogIsMarked, PackageIsDisplaced, PackageIsPublished,
         BuildCompletes, BuildFails, BuilderDies
    <3>4. QED
      BY <2>1, <3>1, <3>2, <3>3, SourceIsEdited, WorkspaceRecovers DEF C!Next
  <2>2. CASE UNCHANGED contextVars
    <3>1. /\ UNCHANGED <<file, snaps, litter, catalog, index, latest, before, records, proc>>
          /\ lock' = lock
      BY <2>2 DEF contextVars
    <3>2. HistoryInv' /\ Onward
      BY <3>1, NothingMoves DEF ContextInv
    <3>3. QED
      BY <3>1, <3>2, OwnerMoves
  <2>3. QED
    BY <2>1, <2>2 DEF Next, InstallationNext, ContentNext, vars
<1>3. QED
  BY <1>1, <1>2, PTL DEF Spec

\* For any chapters, builders and edits, with failures and kills between any
\* two steps: what a package holds was there together at one moment; the
\* package of a task is closed under dependencies, accepted and of sound
\* sources; none replaces one made from newer files; and a chapter is fresh
\* exactly if it lies in a closed set of accepted chapters.
THEOREM Context == Spec => []ContextSound
<1>1. ContextInv => ContextSound
  <2> SUFFICES ASSUME ContextInv
               PROVE  C!OneInstant /\ C!ContextCurrent /\ C!NeverOlder /\ C!FreshnessTrue
    BY DEF ContextSound
  <2>1. C!OneInstant
    BY DEF ContextInv, OutputsInv, Published, Content, Together, C!OneInstant
  <2>2. C!ContextCurrent
    BY DEF ContextInv, OutputsInv, Published, Content, Current, C!ContextCurrent
  <2>3. C!NeverOlder
    BY DEF ContextInv, OutputsInv, Published, Content, NotOlder, C!NeverOlder
  <2>4. C!FreshnessTrue
    <3>1. file \in Worlds
      BY DEF ContextInv, HistoryInv
    <3>2. QED
      BY <3>1, FreshnessIsTrue DEF Accepted, C!FreshnessTrue
  <2>5. QED
    BY <2>1, <2>2, <2>3, <2>4
<1>2. QED
  BY <1>1, ContextInvariant, PTL

(***************************************************************************)
(* The types of the library, of the attempts and of the builders.  A limit *)
(* that an operation looks at before it adds one - the storage of a        *)
(* workspace, the attempts at a task - holds afterwards.                   *)
(***************************************************************************)
\* The texts of the derivations are finitely many.
TextsCounted ==
  /\ IsFiniteSet(M!Texts) /\ Cardinality(M!Texts) \in Nat /\ Len(sources) \in Nat
  /\ M!Stored = Len(sources) + Cardinality(M!Texts)

LEMMA TextsFinite == LibraryTypes => TextsCounted
<1> SUFFICES ASSUME LibraryTypes PROVE TextsCounted
  OBVIOUS
<1>1. derivs \in Seq(Derivations) /\ sources \in Seq(Halves)
  BY DEF LibraryTypes
<1>2. DOMAIN derivs = 1 .. Len(derivs) /\ Len(derivs) \in Nat /\ Len(sources) \in Nat
  BY <1>1, LenProperties
<1>3. M!Texts \subseteq DOMAIN derivs
  BY DEF M!Texts
<1>4. IsFiniteSet(DOMAIN derivs)
  <2>1. 1 \in Int /\ Len(derivs) \in Int
    BY <1>2
  <2>2. QED
    BY <1>2, <2>1, FS_Interval
<1>5. M!Cardinality(M!Texts) = Cardinality(M!Texts)
  BY DEF M!Cardinality, Cardinality
<1>6. QED
  BY <1>2, <1>3, <1>4, <1>5, FS_Subset, FS_CardinalityType DEF TextsCounted, M!Stored

\* The halves are counted, and what is stored fits.
LibraryBounds ==
  original \in (0 .. MaxCaptures) \X (0 .. MaxCaptures) /\ M!Stored <= MaxStorage

\* What is stored does not become more.
LEMMA NothingIsAdded ==
  ASSUME LibraryInv, LibraryInv', LibraryBounds, Len(sources') <= Len(sources),
         M!Texts' \subseteq M!Texts, UNCHANGED original
  PROVE  LibraryBounds'
<1> DEFINE old == M!Texts
           new == M!Texts'
<1>1. /\ IsFiniteSet(old) /\ Cardinality(old) \in Nat /\ Len(sources) \in Nat
      /\ M!Stored = Len(sources) + Cardinality(old)
  BY TextsFinite DEF TextsCounted, LibraryInv
<1>2. /\ Cardinality(new) \in Nat /\ Len(sources') \in Nat
      /\ M!Stored' = Len(sources') + Cardinality(new)
  <2>1. LibraryTypes'
    BY DEF LibraryInv
  <2>2. TextsCounted'
    BY <2>1, TextsFinite, PTL
  <2>3. QED
    BY <2>2 DEF TextsCounted
<1> HIDE DEF old, new
<1>3. Cardinality(new) <= Cardinality(old)
  <2>1. new \in SUBSET old
    BY DEF old, new
  <2>2. QED
    BY <1>1, <2>1, FS_Subset
<1>4. Len(sources) + Cardinality(old) <= MaxStorage /\ MaxStorage \in Nat
  BY <1>1, BoundAssumption DEF LibraryBounds
<1>5. M!Stored' <= MaxStorage
  BY <1>1, <1>2, <1>3, <1>4
<1>6. QED
  BY <1>5 DEF LibraryBounds

\* One content more, if there is room for it.
LEMMA OneIsAdded ==
  ASSUME LibraryInv, LibraryInv', LibraryBounds, M!Stored < MaxStorage, UNCHANGED original, NEW n,
         \/ Len(sources') = Len(sources) + 1 /\ M!Texts' \subseteq M!Texts
         \/ Len(sources') = Len(sources) /\ M!Texts' \subseteq M!Texts \cup {n}
  PROVE  LibraryBounds'
<1> DEFINE old == M!Texts
           new == M!Texts'
<1>1. /\ IsFiniteSet(old) /\ Cardinality(old) \in Nat /\ Len(sources) \in Nat
      /\ M!Stored = Len(sources) + Cardinality(old)
  BY TextsFinite DEF TextsCounted, LibraryInv
<1>2. /\ Cardinality(new) \in Nat /\ Len(sources') \in Nat
      /\ M!Stored' = Len(sources') + Cardinality(new)
  <2>1. LibraryTypes'
    BY DEF LibraryInv
  <2>2. TextsCounted'
    BY <2>1, TextsFinite, PTL
  <2>3. QED
    BY <2>2 DEF TextsCounted
<1> HIDE DEF old, new
<1>3. \/ Len(sources') = Len(sources) + 1 /\ Cardinality(new) <= Cardinality(old)
      \/ Len(sources') = Len(sources) /\ Cardinality(new) <= Cardinality(old) + 1
  <2>1. CASE Len(sources') = Len(sources) + 1 /\ new \in SUBSET old
    BY <1>1, <2>1, FS_Subset
  <2>2. CASE Len(sources') = Len(sources) /\ new \in SUBSET (old \cup {n})
    <3>1. /\ IsFiniteSet(old \cup {n})
          /\ Cardinality(old \cup {n}) = IF n \in old THEN Cardinality(old)
                                         ELSE Cardinality(old) + 1
      BY <1>1, FS_AddElement
    <3>2. Cardinality(new) <= Cardinality(old \cup {n})
      BY <2>2, <3>1, FS_Subset
    <3>3. QED
      BY <1>1, <1>2, <2>2, <3>1, <3>2
  <2>3. QED
    BY <2>1, <2>2 DEF old, new
<1>4. Len(sources) + Cardinality(old) < MaxStorage /\ MaxStorage \in Nat
  BY <1>1, BoundAssumption
<1>5. M!Stored' <= MaxStorage
  BY <1>1, <1>2, <1>3, <1>4
<1>6. QED
  BY <1>5 DEF LibraryBounds

\* A derivation that becomes e is a text afterwards only if it was one before.
LEMMA TextsKept ==
  ASSUME LibraryInv, NEW d \in DOMAIN derivs, NEW e, derivs' = [derivs EXCEPT ![d] = e],
         derivs[d].text # "gone" \/ e.text = "gone"
  PROVE  M!Texts' \subseteq M!Texts
<1>1. DOMAIN derivs' = DOMAIN derivs /\ derivs'[d] = e
      /\ \A c \in DOMAIN derivs : c # d => derivs'[c] = derivs[c]
  OBVIOUS
<1>2. QED
  BY <1>1 DEF M!Texts

LEMMA FileStaysBounded == ASSUME LibraryInv, LibraryBounds, M!WriteFile PROVE LibraryBounds'
<1>1. UNCHANGED M!Stored
  BY DEF M!WriteFile, M!Stored, M!Texts
<1>2. PICK a, b \in 0 .. MaxCaptures : original = <<a, b>> /\ original[1] = a /\ original[2] = b
  BY DEF LibraryBounds
<1>3. /\ a < MaxCaptures \/ b < a
      /\ original' = IF b < a THEN <<a, a>> ELSE <<a + 1, b>>
  BY <1>2 DEF M!WriteFile
<1>4. original' \in (0 .. MaxCaptures) \X (0 .. MaxCaptures)
  BY <1>2, <1>3, BoundAssumption
<1>5. QED
  BY <1>1, <1>4 DEF LibraryBounds

LEMMA SourceIsStored ==
  ASSUME LibraryInv, LibraryInv', LibraryBounds, NEW content, NEW next, M!Publish(content, next),
         UNCHANGED <<original, derivs>>
  PROVE  LibraryBounds'
<1>1. UNCHANGED M!Texts
  BY DEF M!Texts
<1>2. sources \in Seq(Halves) /\ Len(sources) \in Nat
  BY TextsFinite DEF TextsCounted, LibraryInv, LibraryTypes
<1>3. CASE UNCHANGED sources
  BY <1>1, <1>2, <1>3, NothingIsAdded
<1>4. CASE M!Stored < MaxStorage /\ sources' = Append(sources, content)
  <2>1. Len(sources') = Len(sources) + 1
    BY <1>2, <1>4
  <2>2. QED
    BY <1>1, <1>4, <2>1, OneIsAdded
<1>5. QED
  BY <1>3, <1>4 DEF M!Publish

LEMMA SourceIsTakenBack ==
  ASSUME LibraryInv, op \in Capturing \cup Promoting, sources' = M!RollbackCapture
  PROVE  Len(sources') <= Len(sources)
<1>1. sources \in Seq(Halves) /\ Len(sources) \in Nat
  BY TextsFinite DEF TextsCounted, LibraryInv, LibraryTypes
<1>2. op.fresh => sources # << >>
  BY DEF LibraryInv, OwnSource, Knows
<1>3. CASE op.fresh
  <2>1. sources' = M!Front(sources) /\ sources # << >>
    BY <1>2, <1>3 DEF M!RollbackCapture
  <2>2. Len(sources') = Len(sources) - 1
    BY <1>1, <2>1, FrontIs
  <2>3. QED
    BY <1>1, <2>2
<1>4. CASE ~op.fresh
  BY <1>1, <1>4 DEF M!RollbackCapture
<1>5. QED
  BY <1>3, <1>4

LEMMA DerivationIsStored ==
  ASSUME LibraryInv, LibraryInv', LibraryBounds, M!PublishDerivation
  PROVE  LibraryBounds'
<1>1. UNCHANGED <<original, sources>> /\ derivs \in Seq(Derivations) /\ Len(sources) \in Nat
  BY TextsFinite DEF TextsCounted, LibraryInv, LibraryTypes, M!PublishDerivation
<1>2. CASE UNCHANGED derivs
  <2>1. UNCHANGED M!Texts
    BY <1>2 DEF M!Texts
  <2>2. QED
    BY <1>1, <2>1, NothingIsAdded
<1>3. CASE M!Stored < MaxStorage /\ \E e : derivs' = Append(derivs, e)
  <2>1. PICK e : derivs' = Append(derivs, e)
    BY <1>3
  <2>2. PICK n : n = Len(derivs) + 1
    OBVIOUS
  <2>3. DOMAIN derivs' = DOMAIN derivs \cup {n} /\ \A d \in DOMAIN derivs : derivs'[d] = derivs[d]
    BY <1>1, <2>1, <2>2
  <2>4. M!Texts' \subseteq M!Texts \cup {n}
    BY <2>3 DEF M!Texts
  <2>5. QED
    BY <1>1, <1>3, <2>4, OneIsAdded
<1>4. QED
  BY <1>2, <1>3 DEF M!PublishDerivation

LEMMA RegistrationStays ==
  ASSUME LibraryInv, LibraryInv', LibraryBounds, NEW ok \in BOOLEAN, M!RegisterReceipt(ok)
  PROVE  LibraryBounds'
<1>1. /\ UNCHANGED <<original, sources>> /\ derivs \in Seq(Derivations) /\ Len(sources) \in Nat
      /\ op.kind = "register" /\ op.at = "receipt"
      /\ derivs' = IF ok THEN derivs ELSE M!Front(derivs)
  BY TextsFinite DEF TextsCounted, LibraryInv, LibraryTypes, M!RegisterReceipt
<1>2. derivs # << >>
  <2>1. op \in Registering
    BY <1>1, OpsApart DEF LibraryInv, LibraryTypes
  <2>2. QED
    BY <2>1 DEF LibraryInv
<1>3. DOMAIN derivs' \subseteq DOMAIN derivs /\ \A d \in DOMAIN derivs' : derivs'[d] = derivs[d]
  BY <1>1, <1>2, FrontIs
<1>4. M!Texts' \subseteq M!Texts
  BY <1>3 DEF M!Texts
<1>5. QED
  BY <1>1, <1>4, NothingIsAdded

LEMMA ReviewsStay ==
  ASSUME LibraryInv, LibraryInv', LibraryBounds, NEW d \in DOMAIN derivs,
         \/ \E decision \in {"ACCEPT", "REJECT"} : M!Review(d, decision)
         \/ M!RemoveText(d)
  PROVE  LibraryBounds'
<1>1. derivs[d] \in Derivations /\ ~derivs[d].removed /\ M!Loadable
  BY DerivationIs DEF M!Review, M!RemoveText, M!Ready
<1>2. derivs[d].text = "text"
  BY <1>1 DEF M!Loadable
<1>3. \E e : derivs' = [derivs EXCEPT ![d] = e]
  BY DEF M!Review, M!RemoveText
<1>4. M!Texts' \subseteq M!Texts
  BY <1>2, <1>3, TextsKept
<1>5. Len(sources') <= Len(sources) /\ UNCHANGED original
  BY TextsFinite DEF TextsCounted, LibraryInv, M!Review, M!RemoveText
<1>6. QED
  BY <1>4, <1>5, NothingIsAdded

LEMMA PromotionStays ==
  ASSUME LibraryInv, LibraryInv', LibraryBounds, M!WritePromotion \/ M!PromoteFails
  PROVE  LibraryBounds'
<1>1. op.at \in {"promotion", "promotionReceipt"} /\ UNCHANGED original
  BY DEF M!WritePromotion, M!PromoteFails
<1>2. op \in Promoting /\ op.d \in DOMAIN derivs /\ derivs[op.d] \in Derivations
  BY <1>1, PromotionIs, DerivationIs
<1>3. PICK d, x : d = op.d /\ derivs' = [derivs EXCEPT ![d].promoted = x]
  BY DEF M!WritePromotion, M!PromoteFails
<1>4. PICK e : e = [derivs[d] EXCEPT !.promoted = x]
  OBVIOUS
<1>5. derivs' = [derivs EXCEPT ![d] = e] /\ e.text = derivs[d].text
  BY <1>2, <1>3, <1>4 DEF Derivations
<1>6. M!Texts' \subseteq M!Texts
  BY <1>2, <1>3, <1>5, TextsKept, ZenonT(40)
<1>7. Len(sources') <= Len(sources)
  BY <1>2, SourceIsTakenBack, TextsFinite
  DEF TextsCounted, LibraryInv, M!WritePromotion, M!PromoteFails
<1>8. QED
  BY <1>1, <1>6, <1>7, NothingIsAdded

LEMMA RemovalStays ==
  ASSUME LibraryInv, LibraryInv', LibraryBounds,
         M!RecordRemoval \/ M!UnlinkText \/ \E undone \in BOOLEAN : M!RemoveFails(undone)
  PROVE  LibraryBounds'
<1>1. op.at \in {"record", "unlink"} /\ UNCHANGED <<original, sources>>
  BY DEF M!RecordRemoval, M!UnlinkText, M!RemoveFails
<1>2. PICK d : d = op.d
  OBVIOUS
<1>3. d \in DOMAIN derivs /\ derivs[d].text = "moved"
  BY <1>1, <1>2, RemovalIs
<1>4. DOMAIN derivs' = DOMAIN derivs /\ \A c \in DOMAIN derivs : c # d => derivs'[c] = derivs[c]
  BY <1>2 DEF M!RecordRemoval, M!UnlinkText, M!RemoveFails, M!RemovalUndone
<1>5. M!Texts' \subseteq M!Texts
  BY <1>3, <1>4 DEF M!Texts
<1>6. Len(sources') <= Len(sources)
  BY <1>1, TextsFinite DEF TextsCounted, LibraryInv
<1>7. QED
  BY <1>1, <1>5, <1>6, NothingIsAdded

\* workspace.py and media.py: the storage limit holds in every state.
LEMMA LibraryTyped == Spec => [](focus = "library" => M!TypeOK)
<1>1. Init => LibraryBounds
  <2> SUFFICES ASSUME Init PROVE LibraryBounds
    OBVIOUS
  <2>1. original = <<0, 0>> /\ sources = << >> /\ derivs = << >> /\ LibraryTypes
    BY LibraryInit DEF Init, M!Init, LibraryInv
  <2>2. M!Texts = {} /\ Len(sources) = 0
    BY <2>1 DEF M!Texts
  <2>3. M!Stored = 0
    BY <2>1, <2>2, TextsFinite, FS_EmptySet DEF TextsCounted
  <2>4. QED
    BY <2>1, <2>3, BoundAssumption DEF LibraryBounds
<1>2. LibraryInv /\ LibraryInv' /\ LibraryBounds /\ [Next]_vars => LibraryBounds'
  <2> SUFFICES ASSUME LibraryInv, LibraryInv', LibraryBounds, [Next]_vars PROVE LibraryBounds'
    OBVIOUS
  <2>1. ASSUME UNCHANGED <<original, sources, derivs>> PROVE LibraryBounds'
    BY <2>1 DEF LibraryBounds, M!Stored, M!Texts
  <2>2. CASE M!Next
    <3>1. CASE \/ \E kind \in {"capture", "register"} : M!Begin(kind)
               \/ M!CopyFirst \/ M!CopySecond \/ M!Verify
               \/ M!CaptureReceipt \/ M!PromotionReceipt \/ M!Killed
      BY <2>1, <3>1 DEF M!Begin, M!CopyFirst, M!CopySecond, M!Verify, M!CaptureReceipt,
                        M!PromotionReceipt, M!Killed
    <3>2. CASE M!PublishCapture
      BY <3>2, SourceIsStored DEF M!PublishCapture
    <3>3. ASSUME NEW d \in DOMAIN derivs, M!Promote(d) PROVE LibraryBounds'
      BY <3>3, SourceIsStored DEF M!Promote
    <3>4. CASE M!CaptureReceiptFails
      <4>1. op \in Capturing
        BY <3>4, OpsApart DEF M!CaptureReceiptFails, LibraryInv, LibraryTypes
      <4>2. sources' = M!RollbackCapture /\ UNCHANGED <<original, derivs>>
        BY <3>4 DEF M!CaptureReceiptFails
      <4>3. M!Texts' \subseteq M!Texts
        BY <4>2 DEF M!Texts
      <4>4. QED
        BY <4>1, <4>2, <4>3, SourceIsTakenBack, NothingIsAdded
    <3>5. ASSUME NEW ok \in BOOLEAN, M!RegisterReceipt(ok) \/ M!RemoveFails(ok)
          PROVE  LibraryBounds'
      BY <3>5, RegistrationStays, RemovalStays
    <3>6. ASSUME NEW d \in DOMAIN derivs,
                 \/ \E decision \in {"ACCEPT", "REJECT"} : M!Review(d, decision)
                 \/ M!RemoveText(d)
          PROVE  LibraryBounds'
      BY <3>6, ReviewsStay
    <3>7. QED
      BY <2>2, <3>1, <3>2, <3>3, <3>4, <3>5, <3>6, FileStaysBounded, DerivationIsStored,
         PromotionStays, RemovalStays DEF M!Next
  <2>3. CASE UNCHANGED libraryVars
    BY <2>1, <2>3 DEF libraryVars
  <2>4. QED
    BY <2>2, <2>3 DEF Next, InstallationNext, ContentNext, vars
<1>3. LibraryInv /\ LibraryBounds => M!TypeOK
  <2> SUFFICES ASSUME LibraryInv, LibraryBounds PROVE M!TypeOK
    OBVIOUS
  <2>1. \A d \in M!Texts : derivs[d].text \in {"text", "moved"}
    BY DerivationIs DEF M!Texts, Derivations
  <2>2. QED
    BY <2>1 DEF M!TypeOK, LibraryBounds
<1>4. QED
  BY <1>1, <1>2, <1>3, LibraryInvariant, PTL DEF Spec

\* attempts.py: nothing is appended once the attempts are used up.
LEMMA ExecutorTyped == Spec => [](focus = "executor" => X!TypeOK)
<1>1. Init => Len(attempts) <= MaxTotal
  <2>1. Len(<< >>) = 0 /\ MaxTotal \in Nat
    BY AttemptAssumption
  <2>2. QED
    BY <2>1 DEF Init, X!Init
<1>2. ExecutorInv /\ Len(attempts) <= MaxTotal /\ [Next]_vars => (Len(attempts) <= MaxTotal)'
  <2> SUFFICES ASSUME ExecutorInv, Len(attempts) <= MaxTotal, [Next]_vars
               PROVE  (Len(attempts) <= MaxTotal)'
    OBVIOUS
  <2>1. CASE UNCHANGED attempts
    BY <2>1
  <2>2. ASSUME NEW r \in Workers, NEW a, X!AppendAttempt(r, a) PROVE (Len(attempts) <= MaxTotal)'
    <3>1. CASE UNCHANGED attempts
      BY <3>1
    <3>2. CASE task.status = "IN_EXECUTION" /\ attempts' = Append(attempts, a)
      <4>1. ~(Len(attempts) >= MaxTotal)
        BY <3>2, BudgetIs DEF ExecutorInv, BudgetUsed
      <4>2. attempts \in Seq(Attempts) /\ Len(attempts) \in Nat
        BY LenProperties DEF ExecutorInv, ExecutorTypes
      <4>3. Len(attempts') = Len(attempts) + 1
        BY <3>2, <4>2
      <4>4. QED
        BY <4>1, <4>2, <4>3, AttemptAssumption
    <3>3. QED
      BY <2>2, <3>1, <3>2 DEF X!AppendAttempt, X!SameHead
  <2>3. CASE X!Next
    BY <2>1, <2>2, <2>3
    DEF X!Next, X!Register, X!Approve, X!BeginTask, X!Finish, X!Edit, X!BuildContext,
        X!BuildOther, X!Prepare, X!ReadChain, X!BindExecutor
  <2>4. CASE UNCHANGED executorVars
    BY <2>1, <2>4 DEF executorVars
  <2>5. QED
    BY <2>3, <2>4 DEF Next, InstallationNext, ContentNext, vars
<1>3. ExecutorInv /\ Len(attempts) <= MaxTotal => X!TypeOK
  <2> SUFFICES ASSUME ExecutorInv, Len(attempts) <= MaxTotal PROVE X!TypeOK
    OBVIOUS
  <2>1. task.status \in {"none", "IN_EXECUTION", "SUBMITTED", "BLOCKED"}
    BY DEF ExecutorInv, ExecutorTypes
  <2>2. ASSUME NEW r \in Workers PROVE rec[r].at \in {"idle", "read", "bound"}
    <3>1. rec[r] \in {X!Idle} \cup [at : {"read", "bound"}, seen : Seq(Attempts)]
      BY DEF ExecutorInv, ExecutorTypes
    <3>2. X!Idle.at = "idle"
      BY DEF X!Idle
    <3>3. QED
      BY <3>1, <3>2
  <2>3. QED
    BY <2>1, <2>2 DEF X!TypeOK
<1>4. QED
  BY <1>1, <1>2, <1>3, ExecutorInvariant, PTL DEF Spec

\* What the owner has done is counted, and the lock has one holder.
ContextBounds == C!Edits <= MaxEdits /\ lock \in Workers \cup {None, "dead"}

EditsCounted ==
  C!Edits \in Nat /\ C!Edits = Cardinality(snaps) - 1 + (IF litter THEN 1 ELSE 0)

LEMMA EditsAreCounted == HistoryInv => EditsCounted
BY EditsCount DEF EditsCounted

\* One more thing that the owner does, if he may.
LEMMA OneEditMore ==
  ASSUME HistoryInv, HistoryInv', ContextBounds, C!Edits < MaxEdits,
         lock' \in {lock, "dead"}, NEW x,
         \/ snaps' = snaps /\ litter'
         \/ snaps' = snaps \cup {x} /\ UNCHANGED litter
  PROVE  ContextBounds'
<1>1. EditsCounted /\ EditsCounted'
  BY EditsAreCounted, PTL
<1>2. /\ IsFiniteSet(snaps) /\ Cardinality(snaps) \in Nat
      /\ litter \in BOOLEAN /\ litter' \in BOOLEAN
  BY FS_CardinalityType DEF HistoryInv
<1>3. /\ IsFiniteSet(snaps \cup {x}) /\ Cardinality(snaps \cup {x}) \in Nat
      /\ Cardinality(snaps \cup {x}) <= Cardinality(snaps) + 1
  BY <1>2, FS_AddElement
<1>4. C!Edits' <= C!Edits + 1
  <2>1. CASE snaps' = snaps /\ litter'
    BY <1>1, <1>2, <2>1 DEF EditsCounted
  <2>2. CASE snaps' = snaps \cup {x} /\ litter' = litter
    BY <1>1, <1>2, <1>3, <2>2 DEF EditsCounted
  <2>3. QED
    BY <2>1, <2>2
<1>5. C!Edits' <= MaxEdits
  BY <1>1, <1>4, BoundAssumption DEF EditsCounted
<1>6. QED
  BY <1>5 DEF ContextBounds

LEMMA OwnerStaysBounded ==
  ASSUME HistoryInv, HistoryInv', ContextBounds,
         \/ \E c \in Chapters :
              \/ \E status : C!EditStatus(c, status)
              \/ \E deps : C!EditDependencies(c, deps)
              \/ \E killed \in BOOLEAN : C!CreateChapter(c, killed)
              \/ C!RemoveChapter(c)
         \/ C!EditSource \/ C!SupersedeSource
  PROVE  ContextBounds'
<1>1. ASSUME NEW x, NEW content, C!Edit(x, content) PROVE ContextBounds'
  <2>1. PICK w : w = file'
    OBVIOUS
  <2>2. C!Edits < MaxEdits /\ snaps' = snaps \cup {w} /\ UNCHANGED <<litter, lock>>
    BY <1>1, <2>1 DEF C!Edit
  <2>3. QED
    BY <2>2, OneEditMore
<1>2. ASSUME NEW c, C!CreateChapter(c, TRUE) PROVE ContextBounds'
  BY <1>2, OneEditMore DEF C!CreateChapter
<1>3. ASSUME NEW c, C!CreateChapter(c, FALSE) PROVE ContextBounds'
  BY <1>1, <1>3 DEF C!CreateChapter
<1>4. QED
  BY <1>1, <1>2, <1>3
  DEF C!EditStatus, C!EditDependencies, C!RemoveChapter, C!EditSource, C!SupersedeSource

LEMMA BuildersStayBounded ==
  ASSUME ContextBounds, C!Recover \/ \E p \in Workers :
           \/ \E kind : C!Begin(p, kind)
           \/ C!ReadPath(p) \/ C!Rebuild(p) \/ C!PrepareRoute(p) \/ C!ReadRoute(p)
           \/ C!ConfirmRoute(p) \/ C!PlanPack(p) \/ C!LockPack(p) \/ C!ConfirmPack(p)
           \/ C!PublishCatalog(p) \/ C!MarkCatalog(p) \/ C!PublishIndex(p)
           \/ C!DisplacePackage(p) \/ C!PublishPackage(p)
           \/ C!MarkPublished(p) \/ C!Complete(p) \/ C!Fails(p) \/ C!Killed(p)
  PROVE  ContextBounds'
<1>1. ASSUME UNCHANGED <<file, snaps, litter>>, lock' \in Workers \cup {lock, None, "dead"}
      PROVE  ContextBounds'
  BY <1>1 DEF ContextBounds, C!Edits
<1>2. CASE C!Recover
  BY <1>1, <1>2, SMTT(30) DEF C!Recover, C!owned
<1>3. ASSUME NEW p \in Workers,
             \/ \E kind : C!Begin(p, kind)
             \/ C!ReadPath(p) \/ C!ReadRoute(p) \/ C!PlanPack(p) \/ C!LockPack(p)
             \/ C!PublishCatalog(p) \/ C!MarkCatalog(p) \/ C!PublishIndex(p)
             \/ C!DisplacePackage(p) \/ C!PublishPackage(p) \/ C!MarkPublished(p)
      PROVE  ContextBounds'
  BY <1>1, <1>3, ZenonT(40)
  DEF C!Begin, C!ReadPath, C!ReadRoute, C!PlanPack, C!LockPack, C!PublishCatalog, C!MarkCatalog,
      C!PublishIndex, C!DisplacePackage, C!PublishPackage, C!MarkPublished, C!owned
<1>4. ASSUME NEW p \in Workers,
             \/ C!Rebuild(p) \/ C!PrepareRoute(p) \/ C!ConfirmRoute(p) \/ C!ConfirmPack(p)
             \/ C!Complete(p) \/ C!Fails(p) \/ C!Killed(p)
      PROVE  ContextBounds'
  BY <1>1, <1>4
  DEF C!Rebuild, C!PrepareRoute, C!ConfirmRoute, C!ConfirmPack, C!Complete, C!Fails, C!Killed,
      C!GiveUp, C!owned
<1>5. QED
  BY <1>2, <1>3, <1>4

\* catalog.py and core.py: who publishes holds the writer lock.
LEMMA ContextTyped == Spec => [](focus = "context" => C!TypeOK)
<1>1. Init => ContextBounds
  <2> SUFFICES ASSUME Init PROVE ContextBounds
    OBVIOUS
  <2>1. snaps \ {file} = {} /\ ~litter /\ lock = None
    BY DEF Init, C!Init
  <2>2. Cardinality({}) = 0 /\ C!Cardinality({}) = Cardinality({})
    BY FS_EmptySet DEF C!Cardinality, Cardinality
  <2>3. C!Edits = 0
    BY <2>1, <2>2 DEF C!Edits
  <2>4. QED
    BY <2>1, <2>3, BoundAssumption DEF ContextBounds
<1>2. ContextInv /\ ContextInv' /\ ContextBounds /\ [Next]_vars => ContextBounds'
  <2> SUFFICES ASSUME ContextInv, ContextInv', ContextBounds, [Next]_vars PROVE ContextBounds'
    OBVIOUS
  <2>1. HistoryInv /\ HistoryInv'
    BY DEF ContextInv
  <2>2. CASE C!Next
    BY <2>1, <2>2, OwnerStaysBounded, BuildersStayBounded DEF C!Next
  <2>3. CASE UNCHANGED contextVars
    BY <2>3 DEF contextVars, ContextBounds, C!Edits
  <2>4. QED
    BY <2>2, <2>3 DEF Next, InstallationNext, ContentNext, vars
<1>3. ContextInv /\ ContextBounds => C!TypeOK
  <2> SUFFICES ASSUME ContextInv, ContextBounds PROVE C!TypeOK
    OBVIOUS
  <2>1. DOMAIN file = C!Paths
    BY DEF ContextInv, HistoryInv, Worlds, Readings
  <2>2. ASSUME NEW p \in Workers, proc[p].at \in {"catalogued", "second", "mark", "complete"}
        PROVE  lock = p
    <3>1. C!Idle.at = "idle"
      BY DEF C!Idle
    <3>2. Locked(proc[p])
      BY <2>2 DEF Locked
    <3>3. QED
      BY <2>2, <3>1, <3>2 DEF ContextInv, BuilderInv
  <2>3. QED
    BY <2>1, <2>2 DEF C!TypeOK, ContextBounds
<1>4. QED
  BY <1>1, <1>2, <1>3, ContextInvariant, PTL DEF Spec
=============================================================================
