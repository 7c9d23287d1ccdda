------------------------------ MODULE MCStores ------------------------------
\* The durable stores on small instances.
EXTENDS Stores

\* Both digests in shards of their own.
ShardOfMC == <<1, 2>>

\* A completion the owner records for a roadmap that ends, and one of another.
OwnerEntriesMC == {[id |-> 2, key |-> 0, seq |-> 0], [id |-> 1, key |-> 1, seq |-> 1]}

\* A root with two leaves; the second waits for the first.  And two parents that
\* wait for one another's leaf, as _acyclic allows.
Leaf(parent, outcome, dependsOn) ==
  [parent |-> parent, children |-> {}, outcomes |-> {outcome}, dependsOn |-> dependsOn,
   status |-> "OPEN", repair |-> FALSE]
PlansMC ==
  LET root == [Leaf(None, "x", {}) EXCEPT !.children = {2, 3}, !.outcomes = {"x", "y"}]
  IN {<<root, Leaf(1, "x", {}), Leaf(1, "y", {2})>>,
      <<root, [Leaf(1, "x", {5}) EXCEPT !.children = {4}],
        [Leaf(1, "y", {4}) EXCEPT !.children = {5}], Leaf(2, "x", {}), Leaf(3, "y", {})>>}

\* What the sources of the two outcomes may hold.
WaitsMC == <<{}, {}>>
SourcesMC ==
  LET s(size, gap, hit) == [size |-> size, gap |-> gap, hit |-> hit]
  IN <<{s(1, FALSE, TRUE), s(1, TRUE, TRUE)}, {s(1, FALSE, TRUE), s(0, FALSE, FALSE)}>>
=============================================================================
