---------------------------- MODULE SourceLibrary ---------------------------
(***************************************************************************)
(* Captured sources and the texts derived from them, workspace.py and      *)
(* media.py: capture, register, review, promote, remove.  Every operation  *)
(* holds the writer lock of the workspace, so one runs at a time, but it   *)
(* takes many file operations: any of them may fail, the process may be    *)
(* killed between two, and the file it copies belongs to somebody else,    *)
(* who writes it in two halves meanwhile.                                  *)
(*                                                                         *)
(* A content is the versions of its two halves; equal contents have equal  *)
(* digests.  All derivations here are of one captured source, which the    *)
(* list of sources leaves out.                                             *)
(***************************************************************************)
EXTENDS Naturals, Sequences, SequencesExt, FiniteSets

CONSTANTS
  MaxWrites,    \* bound on the versions of a half
  MaxStorage,   \* the storage budget, in contents
  MaxDerivs,    \* bound on the derivations of the source
  None

VARIABLES
  file,      \* the file outside, as it is
  was,       \* every content it had (history)
  sources,   \* captured contents by number
  derivs,    \* derivations by number
  answered,  \* the sources that a receipt names (history)
  op,        \* the operation that holds the lock, and where it is
  cut        \* derivations whose removal died or could not be undone (history)

vars == <<file, was, sources, derivs, answered, op, cut>>

Idle == [kind |-> None, at |-> "idle"]

Init ==
  /\ file = <<0, 0>> /\ was = {file}
  /\ sources = << >> /\ derivs = << >>
  /\ answered = {} /\ op = Idle /\ cut = {}

\* Somebody writes the file, first half first.
WriteFile ==
  /\ file[1] < MaxWrites \/ file[2] < file[1]
  /\ file' = IF file[2] < file[1] THEN <<file[1], file[1]>> ELSE <<file[1] + 1, file[2]>>
  /\ was' = was \cup {file'}
  /\ UNCHANGED <<sources, derivs, answered, op, cut>>

(***************************************************************************)
(* _stage_capture and _stage_derivation                                    *)
(***************************************************************************)
Begin(kind) ==
  /\ op = Idle
  /\ op' = [kind |-> kind, at |-> "first", stat |-> file, copy |-> file]
  /\ UNCHANGED <<file, was, sources, derivs, answered, cut>>

CopyFirst ==
  /\ op.at = "first"
  /\ op' = [op EXCEPT !.at = "second", !.copy[1] = file[1]]
  /\ UNCHANGED <<file, was, sources, derivs, answered, cut>>

CopySecond ==
  /\ op.at = "second"
  /\ op' = [op EXCEPT !.at = "verify", !.copy[2] = file[2]]
  /\ UNCHANGED <<file, was, sources, derivs, answered, cut>>

UnchangedSize == TRUE  \* compares nothing but the number of bytes

\* The identity of the file - device, inode, size, times - before and after.
SameFile == op.stat = file

Verify ==
  /\ op.at = "verify"
  /\ op' = IF SameFile THEN [op EXCEPT !.at = "publish"] ELSE Idle
  /\ UNCHANGED <<file, was, sources, derivs, answered, cut>>

(***************************************************************************)
(* capture_source                                                          *)
(***************************************************************************)
Captured(content) == {i \in DOMAIN sources : sources[i] = content}
Texts == {d \in DOMAIN derivs : derivs[d].text # "gone"}
Stored == Len(sources) + Cardinality(Texts)

\* A content that is stored already is answered with its source; else the
\* staged directory becomes visible, if the budget allows.
Publish(content, next) ==
  IF Captured(content) # {}
  THEN /\ op' = [next EXCEPT !.id = CHOOSE i \in Captured(content) : TRUE, !.fresh = FALSE]
       /\ UNCHANGED sources
  ELSE /\ Stored < MaxStorage
       /\ sources' = Append(sources, content)
       /\ op' = [next EXCEPT !.id = Len(sources) + 1, !.fresh = TRUE]

PublishCapture ==
  /\ op.kind = "capture" /\ op.at = "publish"
  /\ Publish(op.copy, [kind |-> "capture", at |-> "receipt", id |-> 0, fresh |-> FALSE])
  /\ UNCHANGED <<file, was, derivs, answered, cut>>

CaptureReceipt ==
  /\ op.kind = "capture" /\ op.at = "receipt"
  /\ answered' = answered \cup {op.id}
  /\ op' = Idle
  /\ UNCHANGED <<file, was, sources, derivs, cut>>

\* _rollback_capture: what this operation has made visible, the newest source.
RollbackCapture == IF op.fresh THEN Front(sources) ELSE sources

CaptureReceiptFails ==
  /\ op.kind = "capture" /\ op.at = "receipt"
  /\ sources' = RollbackCapture
  /\ op' = Idle
  /\ UNCHANGED <<file, was, derivs, answered, cut>>

(***************************************************************************)
(* register_derivation and review_derivation                               *)
(***************************************************************************)
\* _load_derivations: one broken derivation makes all of its source unusable.
Loadable ==
  \A d \in DOMAIN derivs :
    /\ derivs[d].text = IF derivs[d].removed THEN "gone" ELSE "text"
    /\ derivs[d].promoted # None =>
         /\ derivs[d].promoted \in DOMAIN sources
         /\ sources[derivs[d].promoted] = derivs[d].content

PublishDerivation ==
  /\ op.kind = "register" /\ op.at = "publish" /\ Loadable /\ Len(derivs) < MaxDerivs
  /\ IF \E d \in Texts : derivs[d].content = op.copy
     THEN op' = Idle /\ UNCHANGED derivs
     ELSE /\ Stored < MaxStorage
          /\ derivs' = Append(derivs, [content |-> op.copy, text |-> "text", review |-> None,
                                       promoted |-> None, removed |-> FALSE])
          /\ op' = [kind |-> "register", at |-> "receipt"]
  /\ UNCHANGED <<file, was, sources, answered, cut>>

RegisterReceipt(ok) ==
  /\ op.kind = "register" /\ op.at = "receipt"
  /\ derivs' = IF ok THEN derivs ELSE Front(derivs)
  /\ op' = Idle
  /\ UNCHANGED <<file, was, sources, answered, cut>>

Ready(d) == op = Idle /\ Loadable

\* One review; its file goes if the receipt fails, so a failure is no step.
Review(d, decision) ==
  /\ Ready(d) /\ ~derivs[d].removed /\ derivs[d].review = None
  /\ derivs' = [derivs EXCEPT ![d].review = decision]
  /\ UNCHANGED <<file, was, sources, answered, op, cut>>

(***************************************************************************)
(* promote_derivation: a capture inside, then the promotion, the receipt   *)
(***************************************************************************)
Promote(d) ==
  /\ Ready(d) /\ ~derivs[d].removed
  /\ derivs[d].review = "ACCEPT" /\ derivs[d].promoted = None
  /\ Publish(derivs[d].content, [kind |-> "promote", at |-> "promotion", d |-> d, id |-> 0,
                                 fresh |-> FALSE])
  /\ UNCHANGED <<file, was, derivs, answered, cut>>

WritePromotion ==
  /\ op.at = "promotion"
  /\ derivs' = [derivs EXCEPT ![op.d].promoted = op.id]
  /\ op' = [op EXCEPT !.at = "promotionReceipt"]
  /\ UNCHANGED <<file, was, sources, answered, cut>>

PromotionReceipt ==
  /\ op.at = "promotionReceipt"
  /\ answered' = answered \cup {op.id}
  /\ op' = Idle
  /\ UNCHANGED <<file, was, sources, derivs, cut>>

PromoteFails ==
  /\ op.at \in {"promotion", "promotionReceipt"}
  /\ derivs' = [derivs EXCEPT ![op.d].promoted = None]
  /\ sources' = RollbackCapture
  /\ op' = Idle
  /\ UNCHANGED <<file, was, answered, cut>>

(***************************************************************************)
(* remove_derivation                                                       *)
(***************************************************************************)
RemoveText(d) ==
  /\ Ready(d) /\ ~derivs[d].removed
  /\ derivs' = [derivs EXCEPT ![d].text = "moved"]
  /\ op' = [kind |-> "remove", at |-> "record", d |-> d]
  /\ UNCHANGED <<file, was, sources, answered, cut>>

RecordRemoval ==
  /\ op.at = "record"
  /\ derivs' = [derivs EXCEPT ![op.d].removed = TRUE]
  /\ op' = [op EXCEPT !.at = "unlink"]
  /\ UNCHANGED <<file, was, sources, answered, cut>>

UnlinkText ==
  /\ op.at = "unlink"
  /\ derivs' = [derivs EXCEPT ![op.d].text = "gone"]
  /\ op' = Idle
  /\ UNCHANGED <<file, was, sources, answered, cut>>

\* The record goes and the text is moved back; if that fails too, the text is
\* deleted all the same.
RemovalUndone(back) ==
  [derivs EXCEPT ![op.d].removed = FALSE, ![op.d].text = IF back THEN "text" ELSE "gone"]

RemoveFails(back) ==
  /\ op.at \in {"record", "unlink"}
  /\ derivs' = RemovalUndone(back)
  /\ cut' = IF back THEN cut ELSE cut \cup {op.d}
  /\ op' = Idle
  /\ UNCHANGED <<file, was, sources, answered>>

\* What a killed removal leaves behind - the text or the record under another
\* name - keeps the derivations of the source from loading.
Killed ==
  /\ op # Idle
  /\ cut' = IF op.kind = "remove" THEN cut \cup {op.d} ELSE cut
  /\ op' = Idle
  /\ UNCHANGED <<file, was, sources, derivs, answered>>

Next ==
  \/ WriteFile
  \/ \E kind \in {"capture", "register"} : Begin(kind)
  \/ CopyFirst \/ CopySecond \/ Verify
  \/ PublishCapture \/ CaptureReceipt \/ CaptureReceiptFails
  \/ PublishDerivation
  \/ \E ok \in BOOLEAN : RegisterReceipt(ok) \/ RemoveFails(ok)
  \/ \E d \in DOMAIN derivs :
       \/ \E decision \in {"ACCEPT", "REJECT"} : Review(d, decision)
       \/ Promote(d) \/ RemoveText(d)
  \/ WritePromotion \/ PromotionReceipt \/ PromoteFails
  \/ RecordRemoval \/ UnlinkText \/ Killed

Spec == Init /\ [][Next]_vars

(***************************************************************************)
(* Properties                                                              *)
(***************************************************************************)
TypeOK ==
  /\ file \in (0 .. MaxWrites) \X (0 .. MaxWrites)
  /\ Stored <= MaxStorage
  /\ \A d \in Texts : derivs[d].text \in {"text", "moved"}

\* What is stored was the content of the file at one moment, never a mixture
\* of two, and it is stored once.
StoredWhole ==
  /\ \A i \in DOMAIN sources : sources[i] \in was
  /\ \A d \in DOMAIN derivs : derivs[d].content \in was
  /\ \A i, j \in DOMAIN sources : sources[i] = sources[j] => i = j

\* A source that a receipt named is never taken away again, not by the failure
\* of a later operation that found it; so a promotion keeps its source.
AnsweredStays ==
  /\ answered \subseteq DOMAIN sources
  /\ \A d \in DOMAIN derivs : derivs[d].promoted # None =>
       /\ derivs[d].promoted \in DOMAIN sources
       /\ sources[derivs[d].promoted] = derivs[d].content

\* Nothing but a kill, or a failure of the undoing, makes the derivations of a
\* source unusable.
UsableUnlessCut == op = Idle /\ cut = {} => Loadable
=============================================================================
