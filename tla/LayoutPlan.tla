----------------------------- MODULE LayoutPlan ----------------------------
(***************************************************************************)
(* The layout migration plan of layout_plan.py: a manifest of moves is     *)
(* turned into a plan, and the plan is verified again later, each time by  *)
(* looking at one operation after the other while the owner of the folders *)
(* keeps working.  Nothing is ever moved here; what the plan is for is     *)
(* that the moves could be made.                                           *)
(*                                                                         *)
(* The file system is a small tree of paths; a path is absent or has one   *)
(* of a few contents.  Links, locks, lengths, free space and the state of  *)
(* a git repository only ever add findings and are left out.               *)
(***************************************************************************)
EXTENDS Naturals, Sequences

CONSTANTS
  Paths,
  Below,       \* Below[p]: p and everything beneath it
  Protected,   \* paths no operation may touch
  Contents,
  Changes,     \* bound on what the owner changes meanwhile
  Absent

Operations == [src : Paths, dst : Paths]

VARIABLES
  manifest,  \* the operations, in order
  world,     \* world[p]: the content of path p, or Absent
  planned,   \* the source states captured so far
  phase,     \* "plan", "verify" or how it ended
  at,        \* the operation looked at next
  edits,     \* changes made so far
  quiet      \* has nothing changed since the verification began? (history)

vars == <<manifest, world, planned, phase, at, edits, quiet>>

Closed(w) == \A p \in Paths : w[p] = Absent => \A q \in Below[p] : w[q] = Absent

OverlapExact(p, q) == p = q  \* compares the two paths only

Overlap(p, q) == p \in Below[q] \/ q \in Below[p]

\* Two operations of a manifest may not share destinations or sources.
Conflict(m) ==
  \E i, j \in DOMAIN m : i < j /\ (\/ Overlap(m[i].dst, m[j].dst)
                                   \/ Overlap(m[i].src, m[j].src))

Snapshot(p) == [q \in Below[p] |-> world[q]]

Touches(op, ps) == \E p \in ps : Overlap(op.src, p) \/ Overlap(op.dst, p)

Init ==
  /\ manifest \in [1 .. 2 -> {op \in Operations : op.src # op.dst}]
  /\ world \in {w \in [Paths -> Contents \cup {Absent}] : Closed(w)}
  /\ planned = << >> /\ at = 1 /\ edits = 0 /\ quiet = TRUE
  /\ phase = IF Conflict(manifest) THEN "BLOCKED" ELSE "plan"

\* build_layout_plan, one operation at a time; a single finding blocks it.
PlanOperation ==
  /\ phase = "plan"
  /\ LET op == manifest[at] IN
       /\ planned' = Append(planned, Snapshot(op.src))
       /\ phase' = IF \/ Overlap(op.src, op.dst) \/ Touches(op, Protected)
                      \/ world[op.dst] # Absent \/ world[op.src] = Absent
                   THEN "BLOCKED"
                   ELSE IF at = Len(manifest) THEN "READY" ELSE "plan"
  /\ at' = at + 1
  /\ UNCHANGED <<manifest, world, edits, quiet>>

\* Only a READY plan can be loaded for verification.
StartVerify ==
  /\ phase = "READY"
  /\ phase' = "verify" /\ at' = 1 /\ quiet' = TRUE
  /\ UNCHANGED <<manifest, world, planned, edits>>

VerifyOperation ==
  /\ phase = "verify"
  /\ LET op == manifest[at] IN
       phase' = IF \/ Snapshot(op.src) # planned[at] \/ world[op.dst] # Absent
                   \/ Touches(op, Protected)
                THEN "STALE"
                ELSE IF at = Len(manifest) THEN "VERIFIED" ELSE "verify"
  /\ at' = at + 1
  /\ UNCHANGED <<manifest, world, planned, edits, quiet>>

\* The owner's programs write, create or remove something.
Edit(p, c) ==
  /\ edits < Changes /\ phase \in {"plan", "READY", "verify"}
  /\ world' = IF c = Absent THEN [q \in Paths |-> IF q \in Below[p] THEN c ELSE world[q]]
                            ELSE [world EXCEPT ![p] = c]
  /\ Closed(world') /\ world' # world
  /\ edits' = edits + 1 /\ quiet' = FALSE
  /\ UNCHANGED <<manifest, planned, phase, at>>

Next ==
  \/ PlanOperation \/ StartVerify \/ VerifyOperation
  \/ \E p \in Paths, c \in Contents \cup {Absent} : Edit(p, c)

Spec == Init /\ [][Next]_vars

(***************************************************************************)
(* Properties                                                              *)
(***************************************************************************)
\* The tree after a move: the source is gone, the destination and the folders
\* above it exist.
Moved(w, op) ==
  [q \in Paths |-> IF q \in Below[op.src] THEN Absent
                   ELSE IF op.dst \in Below[q] /\ w[q] = Absent THEN "moved" ELSE w[q]]

Fits(w, op, state) ==
  /\ \A q \in Below[op.src] : w[q] = state[q]
  /\ w[op.dst] = Absent

\* A plan verified while nothing changed can be carried out in its order: the
\* first move does not disturb what the second was planned for - unless it
\* moves into the second's source, which no check looks for.
VerifiedApplies ==
  LET first == manifest[1]
      second == manifest[2]
  IN (phase = "VERIFIED" /\ quiet) =>
       /\ Fits(world, first, planned[1])
       /\ first.dst \in Below[second.src] \/ Fits(Moved(world, first), second, planned[2])
=============================================================================
