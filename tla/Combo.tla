-------------------------------- MODULE Combo ------------------------------
(***************************************************************************)
(* The logical combo object of combo.py: the roadmaps at work, the newest  *)
(* completed ones, and the index of those that made way for newer ones.    *)
(* An entry is [id, key, seq]: the roadmap it is about, what              *)
(* _dedup_key compares, and its sequence.  Statements, tags, epochs and    *)
(* relations are left out; decisions, conflicts and capabilities follow    *)
(* the rule of the completed roadmaps, without an index behind them.       *)
(***************************************************************************)
EXTENDS Naturals, FiniteSets

CONSTANTS MaxActive, MaxRecent  \* 12 and 3 in the code

NewCombo == [revision |-> 0, active |-> {}, recent |-> {}, history |-> {}, sources |-> {}]

\* a comes before b in a list that keeps the newest.  Entries equal in both
\* keep their order in the code; here their keys decide.
Newer(a, b) ==
  \/ a.seq > b.seq
  \/ a.seq = b.seq /\ a.id < b.id
  \/ a.seq = b.seq /\ a.id = b.id /\ a.key < b.key

Newest(entries, n) ==
  {e \in entries : Cardinality({f \in entries : Newer(f, e)}) < n}

SameId(entries, e) == {f \in entries : f.id = e.id}
SameKey(entries, e) == {f \in entries : f.key = e.key}

\* set_active_roadmaps refuses more than its maximum.
CanActivate(entries) == Cardinality(entries) <= MaxActive

SetActiveRoadmaps(combo, entries) ==
  [combo EXCEPT !.revision = @ + 1, !.active = entries]

BoundedAppend(entries, e) ==
  Newest((entries \ SameKey(entries, e)) \cup {e}, MaxRecent)

\* What a full list and the new entry have too much goes to the index, under
\* its id.
Displaced(entries, e) ==
  IF Cardinality(entries) >= MaxRecent
  THEN (entries \cup {e}) \ Newest(entries \cup {e}, MaxRecent) ELSE {}

\* update_combo, for one completed roadmap.
UpdateCombo(combo, e) ==
  LET out == Displaced(combo.recent, e)
  IN [combo EXCEPT !.revision = @ + 1,
                   !.recent = BoundedAppend(@, e),
                   !.history = (@ \ UNION {SameId(@, o) : o \in out}) \cup out,
                   !.sources = @ \cup {e.id}]

\* What query_combo finds under an id.
Query(combo, id) == {e \in combo.active \cup combo.recent \cup combo.history : e.id = id}
=============================================================================
