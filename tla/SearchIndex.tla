------------------------------ MODULE SearchIndex ------------------------------
(***************************************************************************)
(* search_index.py: the full-text index of a project and the older index   *)
(* beside it (knowledge.py).  A builder remembers the generation of the    *)
(* index, measures every file, takes the documents of the files whose      *)
(* measure is unchanged from the index, reads the others, and publishes    *)
(* if the generation is still the same.  Nothing stops the owner from      *)
(* editing, other builders from publishing, or a builder from dying.       *)
(*                                                                         *)
(* All contents have the same size, so that only the time of modification  *)
(* tells two of them apart; every write gives a file a new one.            *)
(***************************************************************************)
EXTENDS Naturals, Sequences, FiniteSets

CONSTANTS
  Builders,
  Files,
  Contents,
  MaxWrites,   \* bound on the writes of the owner, and the damage
  MaxBegun,    \* bound on the builds and deliveries that are begun
  None

VARIABLES
  text,     \* content and time of modification, or None
  clock,    \* the time of the last write
  search,   \* search-v2.sqlite
  legacy,   \* index-v1.json: the contents it was made from
  publisher,  \* the holder of the publication lock
  builds,   \* how many builds and deliveries were begun
  torn,     \* was a builder killed between its two publications, what it took
            \* back read by another one, or a generation published that another
            \* one expects although it has read a later one? (history)
  built,    \* what a build that nobody disturbed has made, until the next write
  builder,  \* the builders
  query     \* the delivery that is being made

owned == <<text, clock>>
published == <<search, legacy, publisher, torn>>
vars == <<owned, published, builds, built, builder, query>>


\* The files are taken in one order, any.
First(todo) == CHOOSE f \in todo : TRUE

\* f with one more argument.
With(f, x, v) == [y \in DOMAIN f \cup {x} |-> IF y = x THEN v ELSE f[y]]

Idle == [at |-> "idle"]
Existing == {f \in Files : text[f] # None}
ContentsOf(docs) == [f \in DOMAIN docs |-> docs[f].content]

\* The digest of the metadata, which holds no time of modification.
NewIndex(docs, strict, reused) ==
  [docs |-> docs, sound |-> TRUE,
   generation |-> [contents |-> ContentsOf(docs), strict |-> strict, reused |-> reused]]

Generation(i) == IF i = None THEN None ELSE i.generation

\* An index was built once, or none was.
Init ==
  /\ text = [f \in Files |-> [content |-> CHOOSE c \in Contents : TRUE, mtime |-> 0]] /\ clock = 0
  /\ search \in {None, NewIndex(text, FALSE, 0)}
  /\ legacy = (IF search = None THEN None ELSE ContentsOf(text))
  /\ publisher = None /\ torn = FALSE
  /\ builds = 0 /\ built = None /\ builder = [p \in Builders |-> Idle]
  /\ query = Idle

(***************************************************************************)
(* The owner                                                               *)
(***************************************************************************)
Disturbed(x) == IF x = Idle THEN x ELSE [x EXCEPT !.quiet = FALSE]

Write(f, c) ==
  /\ clock < MaxWrites
  /\ clock' = clock + 1
  /\ text' = [text EXCEPT ![f] = IF c = None THEN None ELSE [content |-> c, mtime |-> clock']]
  /\ built' = None
  /\ builder' = [p \in Builders |-> Disturbed(builder[p])]
  /\ query' = Disturbed(query)
  /\ UNCHANGED <<published, builds>>

\* The words of the index no longer agree with its documents.
Rot ==
  /\ search # None /\ search.sound
  /\ clock < MaxWrites /\ clock' = clock + 1
  /\ search' = [search EXCEPT !.sound = FALSE]
  /\ UNCHANGED <<text, legacy, publisher, torn, builds, built, builder, query>>

(***************************************************************************)
(* build_search_index                                                      *)
(***************************************************************************)
Begin(p, strict) ==
  /\ builder[p] = Idle /\ builds < MaxBegun
  /\ builds' = builds + 1
  /\ builder' = [builder EXCEPT ![p] =
       [at |-> "measure", strict |-> strict, expected |-> Generation(search), todo |-> Files,
        measured |-> << >>, previous |-> << >>, docs |-> << >>, reused |-> {}, quiet |-> TRUE]]
  /\ UNCHANGED <<owned, published, built, query>>

\* _candidate_paths
Measure(p) ==
  /\ builder[p].at = "measure" /\ builder[p].todo # {}
  /\ LET f == First(builder[p].todo)
     IN builder' = [builder EXCEPT
          ![p].todo = @ \ {f},
          ![p].measured = IF text[f] = None THEN @ ELSE With(@, f, text[f].mtime)]
  /\ UNCHANGED <<owned, published, builds, built, query>>

\* _previous_documents
Previous(p) ==
  /\ builder[p].at = "measure" /\ builder[p].todo = {}
  /\ builder' = [builder EXCEPT ![p].at = "read",
                          ![p].previous = IF search = None THEN << >> ELSE search.docs,
                          ![p].todo = DOMAIN builder[p].measured]
  /\ UNCHANGED <<owned, published, builds, built, query>>

Reusable(p, f) ==
  /\ ~builder[p].strict
  /\ f \in DOMAIN builder[p].previous /\ builder[p].previous[f].mtime = builder[p].measured[f]

SizeDocument(p, f) ==  \* takes files of one size for the same
  [content |-> IF f \in DOMAIN builder[p].previous THEN builder[p].previous[f].content
                                                ELSE text[f].content,
   mtime |-> builder[p].measured[f]]

Document(p, f) ==
  IF Reusable(p, f) THEN builder[p].previous[f]
                    ELSE [content |-> text[f].content, mtime |-> builder[p].measured[f]]

\* A file that is gone since it was measured ends the build.
ReadFile(p) ==
  /\ builder[p].at = "read" /\ builder[p].todo # {}
  /\ LET me == builder[p]
         f == First(me.todo)
         more == IF Reusable(p, f) THEN {f} ELSE {}
     IN builder' = [builder EXCEPT ![p] =
          IF text[f] = None /\ ~Reusable(p, f) THEN Idle
          ELSE [me EXCEPT !.todo = me.todo \ {f}, !.docs = With(me.docs, f, Document(p, f)),
                          !.reused = me.reused \cup more]]
  /\ UNCHANGED <<owned, published, builds, built, query>>

\* An unchanged index is kept; if it is damaged, only a strict build replaces it.
Decide(p) ==
  /\ builder[p].at = "read" /\ builder[p].todo = {}
  /\ LET me == builder[p]
         kept == me.previous = me.docs /\ search # None
         damaged == kept /\ ~search.sound
         new == NewIndex(me.docs, me.strict, Cardinality(me.reused))
     IN builder' = [builder EXCEPT ![p] =
          IF damaged /\ ~me.strict THEN Idle
          ELSE [at |-> "publish", expected |-> me.expected, new |-> new,
                write |-> ~kept \/ damaged, backup |-> None, quiet |-> me.quiet]]
  /\ UNCHANGED <<owned, published, builds, built, query>>

(***************************************************************************)
(* _publish_indexes.  The lock is an operating system lock: it refuses at  *)
(* once while somebody holds it, and goes with its holder.                 *)
(***************************************************************************)
WritesLegacy(p) == legacy # ContentsOf(builder[p].new.docs)

Finish(p) ==
  /\ builder' = [builder EXCEPT ![p] = Idle]
  /\ built' = IF builder[p].quiet THEN builder[p].new.docs ELSE built

LockIndex(p) ==
  /\ builder[p].at = "publish"
  /\ IF /\ publisher = None /\ Generation(search) = builder[p].expected
        /\ builder[p].write \/ WritesLegacy(p)
     THEN /\ publisher' = p /\ UNCHANGED built
          /\ builder' = [builder EXCEPT ![p].at = IF builder[p].write THEN "search" ELSE "legacy"]
     ELSE /\ UNCHANGED publisher
          /\ IF publisher = None /\ Generation(search) = builder[p].expected
             THEN Finish(p)
             ELSE builder' = [builder EXCEPT ![p] = Idle] /\ UNCHANGED built
  /\ UNCHANGED <<owned, search, legacy, torn, builds, query>>

PublishSearch(p) ==
  /\ builder[p].at = "search"
  /\ search' = builder[p].new
  /\ builder' = [builder EXCEPT ![p].at = "legacy", ![p].backup = search]
  /\ torn' = (torn \/ \E q \in Builders \ {p} : /\ builder[q].at \in {"read", "publish"}
                                                 /\ builder[q].expected = Generation(search'))
  /\ UNCHANGED <<owned, legacy, publisher, builds, built, query>>

PublishLegacy(p) ==
  /\ builder[p].at = "legacy"
  /\ legacy' = ContentsOf(builder[p].new.docs)
  /\ publisher' = None
  /\ Finish(p)
  /\ UNCHANGED <<owned, search, torn, builds, query>>

Restored(p) == IF builder[p].write THEN builder[p].backup ELSE search

\* A publication raises: the index is what it was.
PublishFails(p) ==
  /\ builder[p].at \in {"search", "legacy"}
  /\ search' = IF builder[p].at = "legacy" THEN Restored(p) ELSE search
  /\ publisher' = None
  /\ builder' = [builder EXCEPT ![p] = Idle]
  /\ torn' = (torn \/ \E q \in Builders \ {p} : builder[q].at \in {"read", "publish"})
  /\ UNCHANGED <<owned, legacy, builds, built, query>>

Killed(p) ==
  /\ builder[p] # Idle
  /\ builder' = [builder EXCEPT ![p] = Idle]
  /\ publisher' = IF publisher = p THEN None ELSE publisher
  /\ torn' = (torn \/ (builder[p].at = "legacy" /\ builder[p].write))
  /\ UNCHANGED <<owned, search, legacy, builds, built, query>>

(***************************************************************************)
(* search_delivery: snippets from one opening of the index, the coverage   *)
(* from another                                                            *)
(***************************************************************************)
Search ==
  /\ query = Idle /\ builds < MaxBegun /\ search # None
  /\ builds' = builds + 1
  /\ query' = [at |-> "load", docs |-> search.docs, loaded |-> TRUE,
               todo |-> DOMAIN search.docs,
               changed |-> FALSE, quiet |-> TRUE]
  /\ UNCHANGED <<owned, published, built, builder>>

\* search_full_text: a file that is not what was indexed is a stale source.
LoadItem ==
  /\ query.at = "load" /\ query.todo # {}
  /\ LET f == First(query.todo)
     IN query' = [query EXCEPT !.todo = @ \ {f},
          !.loaded = @ /\ text[f] # None /\ text[f].content = query.docs[f].content]
  /\ UNCHANGED <<owned, published, builds, built, builder>>

\* search_index_status
OpenCoverage ==
  /\ query.at = "load" /\ query.todo = {}
  /\ query' = IF search = None \/ ~search.sound THEN Idle
              ELSE [query EXCEPT !.at = "scan", !.docs = search.docs, !.todo = Files]
  /\ UNCHANGED <<owned, published, builds, built, builder>>

Scan ==
  /\ query.at = "scan" /\ query.todo # {}
  /\ LET f == First(query.todo)
         same == IF f \in DOMAIN query.docs
                 THEN text[f] # None /\ text[f].mtime = query.docs[f].mtime
                 ELSE text[f] = None
     IN query' = [query EXCEPT !.todo = @ \ {f}, !.changed = @ \/ ~same]
  /\ UNCHANGED <<owned, published, builds, built, builder>>

Complete == query.at = "scan" /\ query.todo = {} /\ query.loaded /\ ~query.changed

Answer ==
  /\ query.at = "scan" /\ query.todo = {}
  /\ query' = Idle
  /\ UNCHANGED <<owned, published, builds, built, builder>>

Next ==
  \/ \E f \in Files, c \in Contents \cup {None} : Write(f, c)
  \/ Rot
  \/ \E p \in Builders :
       \/ \E strict \in BOOLEAN : Begin(p, strict)
       \/ Measure(p) \/ Previous(p) \/ ReadFile(p) \/ Decide(p)
       \/ LockIndex(p) \/ PublishSearch(p) \/ PublishLegacy(p) \/ PublishFails(p) \/ Killed(p)
  \/ Search \/ LoadItem \/ OpenCoverage \/ Scan \/ Answer

Spec == Init /\ [][Next]_vars

(***************************************************************************)
(* Properties                                                              *)
(***************************************************************************)
TypeOK ==
  /\ clock \in 0..MaxWrites /\ builds \in 0..MaxBegun
  /\ \A f \in Existing : text[f].mtime <= clock
  /\ publisher \in Builders \cup {None}
  /\ \A p \in Builders : builder[p].at \in {"search", "legacy"} <=> publisher = p

\* A document that the index would reuse tells what the file holds: whatever
\* was edited between measuring and reading, no index stays wrong unnoticed.
NeverStaleForGood ==
  search # None =>
    \A f \in DOMAIN search.docs \cap Existing :
      search.docs[f].mtime = text[f].mtime => search.docs[f].content = text[f].content

\* A build that nobody disturbed made exactly what a full reading would make,
\* however much it took over from the index before.
IncrementalIsFull ==
  built # None => built = [f \in Existing |-> text[f]]

\* The two indexes tell the same, unless a builder died between them, took one
\* back that another builder had compared its own documents with, or made the
\* index again that another builder expects, having compared with a later one.
ProjectionsAgree ==
  publisher = None /\ ~torn /\ search # None => legacy = ContentsOf(search.docs)

\* A delivery that calls itself complete is of an index that has all files as
\* they are, if nobody wrote while it was made.
CompleteTrue ==
  query # Idle /\ Complete /\ query.quiet =>
    ContentsOf(query.docs) = [f \in Existing |-> text[f].content]
=============================================================================
