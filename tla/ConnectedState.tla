--------------------------- MODULE ConnectedState --------------------------
(***************************************************************************)
(* The connected view of connected_state.py: a publisher that reads the    *)
(* native store under .operation.lock, commits the combo and then its own  *)
(* pointer; an owner who updates the combo with the command line; and a    *)
(* reader, connected_status, that takes no lock at all.                    *)
(*                                                                         *)
(* A digest is the value itself: both the native state and the combo carry *)
(* a revision, so that no value returns.  Generations are immutable and    *)
(* complete before the pointer names them, so a pointer is the value it    *)
(* names.  Both locks are kernel locks and die with their holder.          *)
(***************************************************************************)
EXTENDS Combo, Sequences

CONSTANTS
  Roadmaps,   \* roadmap ids, in the order they are started: 1 .. n
  MaxEvents,  \* bound on the events of a roadmap
  MaxUpdates, \* bound on the revision of the combo
  OwnerEntries, \* completed entries the owner may record
  None

VARIABLES
  flow,      \* the native state: roadmap, events, complete?
  combo,     \* the combo CURRENT names, or None
  rooted,    \* does the combo directory exist?
  view,      \* the bundle CURRENT names, or None
  pub, cli,  \* the publisher and the owner's command
  reader,    \* a lock-free connected_status
  seen,      \* has the answer CURRENT been right since the reader began? (history)
  recorded   \* completions that were committed to the combo (history)

vars == <<flow, combo, rooted, view, pub, cli, reader, seen, recorded>>

Idle == [at |-> "idle"]

Init ==
  /\ flow = [id |-> 1, seq |-> 0, complete |-> FALSE]
  /\ combo = None /\ rooted = FALSE /\ view = None
  /\ pub = Idle /\ cli = Idle /\ reader = Idle
  /\ seen = FALSE /\ recorded = {}

(***************************************************************************)
(* The native writer, under .operation.lock                                *)
(***************************************************************************)
Advance ==
  /\ pub = Idle /\ flow.seq < MaxEvents /\ ~flow.complete
  /\ \E complete \in BOOLEAN :
       flow' = [flow EXCEPT !.seq = @ + 1, !.complete = complete]
  /\ UNCHANGED <<combo, rooted, view, pub, cli, reader, recorded>>

\* start_flow moves the whole store away, the views too.  It takes continuity.lock,
\* which excludes no publisher; that a roadmap is started while nobody publishes is
\* the owner's discipline, not the code's.
StartFlow ==
  /\ pub = Idle /\ flow.complete /\ flow.id + 1 \in Roadmaps
  /\ flow' = [id |-> flow.id + 1, seq |-> 0, complete |-> FALSE]
  /\ view' = None
  /\ UNCHANGED <<combo, rooted, pub, cli, reader, recorded>>

(***************************************************************************)
(* write_combo, for the publisher and the command line                     *)
(***************************************************************************)
CommitAnyway(expected, updated, added) ==  \* does not look at the expected digest
  combo' = updated /\ recorded' = recorded \cup added

\* The commit under .writer.lock: nothing if the combo is not the expected
\* one; else the new generation becomes CURRENT.
Commit(expected, updated, added) ==
  IF combo = expected THEN combo' = updated /\ recorded' = recorded \cup added
  ELSE UNCHANGED <<combo, recorded>>

Completed(c) == c.recent \cup c.history


WriteCombo(expected, updated, added) ==
  /\ rooted' = TRUE
  /\ combo # None => combo.revision < MaxUpdates
  /\ Commit(expected, updated, added)

(***************************************************************************)
(* publish_connected_state                                                 *)
(***************************************************************************)
\* The roadmap as an entry: its statement names the decision.
Entry == [id |-> flow.id, key |-> 2 * flow.id + (IF flow.complete THEN 1 ELSE 0), seq |-> flow.seq]

\* The view of a goal is never replaced by one without; a goal makes a
\* complete roadmap a completion.
Prepare(goal, base) ==
  LET others == base.active \ SameId(base.active, Entry)
      cleared == IF others # base.active THEN SetActiveRoadmaps(base, others) ELSE base
  IN IF goal /\ flow.complete
     THEN IF Entry \in cleared.recent THEN cleared ELSE UpdateCombo(cleared, Entry)
     ELSE IF Entry \in base.active THEN base
          ELSE SetActiveRoadmaps(base, others \cup {Entry})

PublishStart(goal) ==
  /\ pub = Idle
  /\ view # None => combo # None /\ (view.goal => goal)
  /\ LET base == IF combo = None THEN NewCombo ELSE combo
         updated == Prepare(goal, base)
     IN /\ CanActivate(updated.active)
        /\ pub' = [at |-> IF updated = base THEN "view" ELSE "mkdir", goal |-> goal,
                   base |-> base, updated |-> updated, expected |-> None]
  /\ UNCHANGED <<flow, combo, rooted, view, cli, reader, recorded>>

\* The digest expected is that of the combo that was read, unless there is no
\* combo directory yet; write_combo then makes it.
PublishRoot ==
  /\ pub.at = "mkdir"
  /\ pub' = [pub EXCEPT !.at = "commit", !.expected = IF rooted THEN pub.base ELSE None]
  /\ rooted' = TRUE
  /\ UNCHANGED <<flow, combo, view, cli, reader, recorded>>

\* A combo that was changed meanwhile ends the publication.
PublishCombo ==
  /\ pub.at = "commit"
  /\ WriteCombo(pub.expected, pub.updated, Completed(pub.updated) \ Completed(pub.base))
  /\ pub' = IF combo' = pub.updated THEN [pub EXCEPT !.at = "view"] ELSE Idle
  /\ UNCHANGED <<flow, view, cli, reader>>

PublishView ==
  /\ pub.at = "view"
  /\ view' = [flow |-> flow, combo |-> pub.updated, goal |-> pub.goal]
  /\ pub' = Idle
  /\ UNCHANGED <<flow, combo, rooted, cli, reader, recorded>>

PublisherKilled ==
  /\ pub # Idle
  /\ pub' = Idle
  /\ UNCHANGED <<flow, combo, rooted, view, cli, reader, recorded>>

(***************************************************************************)
(* combo init, active and update                                           *)
(***************************************************************************)
ComboInit ==
  /\ combo = None
  /\ WriteCombo(None, NewCombo, {})
  /\ UNCHANGED <<flow, view, pub, cli, reader>>

\* The owner's completed entries are about any roadmap, of any sequence.
ComboRead(e) ==
  /\ cli = Idle /\ combo # None
  /\ cli' = [at |-> "commit", base |-> combo, entry |-> e]
  /\ UNCHANGED <<flow, combo, rooted, view, pub, reader, recorded>>

ComboUpdate ==
  /\ cli.at = "commit"
  /\ WriteCombo(cli.base, UpdateCombo(cli.base, cli.entry), {cli.entry})
  /\ cli' = Idle
  /\ UNCHANGED <<flow, view, pub, reader>>

ComboActive ==
  /\ cli.at = "commit"
  /\ WriteCombo(cli.base, SetActiveRoadmaps(cli.base, {}), {})
  /\ cli' = Idle
  /\ UNCHANGED <<flow, view, pub, reader>>

(***************************************************************************)
(* connected_status, one file after the other                              *)
(***************************************************************************)
ReadFlow ==
  /\ reader = Idle
  /\ reader' = [at |-> "pointer", flow |-> flow]
  /\ UNCHANGED <<flow, combo, rooted, view, pub, cli, recorded>>

ReadView ==
  /\ reader.at = "pointer"
  /\ reader' = IF view = None THEN Idle
               ELSE [at |-> "combo", flow |-> reader.flow, view |-> view]
  /\ UNCHANGED <<flow, combo, rooted, view, pub, cli, recorded>>

Matches(f, v, c) == v.flow = f /\ v.combo = c

ReadCombo ==
  /\ reader.at = "combo"
  /\ reader' = [at |-> "answered", current |-> Matches(reader.flow, reader.view, combo)]
  /\ UNCHANGED <<flow, combo, rooted, view, pub, cli, recorded>>

Answered ==
  /\ reader.at = "answered"
  /\ reader' = Idle
  /\ UNCHANGED <<flow, combo, rooted, view, pub, cli, recorded>>

Current == view # None /\ view.flow = flow /\ view.combo = combo

Next ==
  /\ \/ Advance \/ StartFlow
     \/ \E goal \in BOOLEAN : PublishStart(goal)
     \/ PublishRoot \/ PublishCombo \/ PublishView \/ PublisherKilled
     \/ ComboInit \/ ComboUpdate \/ ComboActive
     \/ \E e \in OwnerEntries : ComboRead(e)
     \/ ReadFlow \/ ReadView \/ ReadCombo \/ Answered
  /\ seen' = (reader'.at # "idle" /\ (seen \/ Current'))

Spec == Init /\ [][Next]_vars

(***************************************************************************)
(* Properties                                                              *)
(***************************************************************************)
TypeOK ==
  /\ flow.id \in Roadmaps /\ flow.seq \in 0 .. MaxEvents
  /\ combo # None => Cardinality(combo.recent) <= MaxRecent /\ Cardinality(combo.active) <= MaxActive
  /\ pub.at \in {"idle", "mkdir", "commit", "view"}

\* A completion that was committed stays findable under its roadmap's id,
\* however many follow, in whatever order of sequences, and whoever races;
\* only an entry with its own key may take its place.
CompletionsFindable ==
  \A e \in recorded :
    \/ Query(combo, e.id) # {}
    \/ \E f \in recorded : f # e /\ f.key = e.key

\* The lock-free answer CURRENT was right at some moment while it was read,
\* whatever was published, committed or started meanwhile.
CurrentWasTrue == reader.at = "answered" /\ reader.current => seen
=============================================================================
