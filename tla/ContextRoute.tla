----------------------------- MODULE ContextRoute -----------------------------
(***************************************************************************)
(* From chapters and sources to .opencntx/latest: catalog.py rebuilds the  *)
(* catalog, navigator.py builds the context package of a task along it,    *)
(* core.py packs a project, each under the workspace writer lock.  Files   *)
(* are read one after the other while their owner edits them without any   *)
(* lock, so a package could hold what was never there at one time.         *)
(*                                                                         *)
(* An edit gives a file a content it never had: the code compares digests, *)
(* and a file edited back to what it was defeats it.  Every chapter refers *)
(* to the one source.                                                      *)
(***************************************************************************)
EXTENDS Naturals, FiniteSets

CONSTANTS
  Builders,
  Chapters,
  Source,
  Root,        \* the chapter that the inputs of the task name and pin
  MaxEdits,    \* bound on the edits of the owner, killed creations included
  MaxBegun,    \* bound on the builds that are begun
  None

VARIABLES
  file,     \* chapters and source as they are
  snaps,    \* every state they were in together (history)
  litter,   \* did a killed creation leave its directory below CHAPTERS?
  catalog,  \* catalog.sqlite: what it was built from, and the index it names
  index,    \* CHAPTERS/INDEX.md: what it was built from
  latest,   \* the context package, or None while there is none
  before,   \* the package that it replaced (history)
  lock,     \* the holder of the workspace writer lock; "dead" if it died
  journal,  \* what its transaction restores, and whether it can
  begun,    \* how many builds were begun
  proc      \* the builders

owned == <<file, snaps, litter>>
outputs == <<catalog, index, latest, before>>
vars == <<owned, outputs, lock, journal, begun, proc>>

Paths == Chapters \cup {Source}

\* The paths are read in one order, any.
First(todo) == CHOOSE x \in todo : TRUE

Idle == [at |-> "idle"]
NoJournal == [sound |-> TRUE]

Init ==
  /\ file = [x \in Paths |-> IF x = Source THEN [n |-> 0, exact |-> TRUE, superseded |-> FALSE]
                                           ELSE [n |-> 0, status |-> "OWNER_ACCEPTED",
                                                 deps |-> IF x = Root THEN Chapters \ {x} ELSE {}]]
  /\ snaps = {file} /\ litter = FALSE
  /\ catalog \in {None, file} /\ index = catalog  \* built by now or not yet
  /\ latest = None /\ before = None
  /\ lock = None /\ journal = NoJournal /\ begun = 0
  /\ proc = [p \in Builders |-> Idle]

Edits == Cardinality(snaps \ {file}) + (IF litter THEN 1 ELSE 0)

(***************************************************************************)
(* The owner, and create_chapter and capture_source on his behalf          *)
(***************************************************************************)
Edit(x, content) ==
  /\ Edits < MaxEdits
  /\ file' = [file EXCEPT ![x] = content]
  /\ snaps' = snaps \cup {file'}
  /\ UNCHANGED <<litter, outputs, lock, journal, proc, begun>>

EditStatus(c, status) ==
  file[c] # None /\ Edit(c, [file[c] EXCEPT !.n = Edits + 1, !.status = status])

EditDependencies(c, deps) ==
  file[c] # None /\ deps # file[c].deps /\ Edit(c, [file[c] EXCEPT !.n = Edits + 1, !.deps = deps])

RemoveChapter(c) == file[c] # None /\ c # Root /\ Edit(c, None)

EditSource == Edit(Source, [file[Source] EXCEPT !.n = Edits + 1, !.exact = FALSE])

SupersedeSource ==
  lock = None /\ Edit(Source, [file[Source] EXCEPT !.n = Edits + 1, !.superseded = TRUE])

\* A draft; a source that is superseded or not exact is refused.  A creation
\* killed before its rename leaves a CHAPTER.md where none may be.
CreateChapter(c, killed) ==
  /\ lock = None /\ file[c] = None
  /\ file[Source].exact /\ ~file[Source].superseded /\ Edits < MaxEdits
  /\ IF killed
     THEN /\ litter' = TRUE /\ lock' = "dead"
          /\ UNCHANGED <<file, snaps, outputs, journal, begun, proc>>
     ELSE Edit(c, [n |-> Edits + 1, status |-> "DRAFT", deps |-> {}])

(***************************************************************************)
(* What a reading w of all files says                                      *)
(***************************************************************************)
Known(w) == {c \in Chapters : w[c] # None}

\* _detect_dependency_cycles
Acyclic(w) ==
  ~\E S \in SUBSET Known(w) : S # {} /\ \A c \in S : w[c].deps \cap S # {}

Sound(w, c) == w[Source].exact /\ ~w[Source].superseded

\* _calculate_freshness
Freshness(w) ==
  LET fresh[c \in Known(w)] ==
        LET deps == {fresh[d] : d \in w[c].deps \cap Known(w)}
        IN IF w[c].status = "ARCHIVED" THEN "ARCHIVED"
           ELSE IF ~Sound(w, c) \/ deps \cap {"STALE", "ARCHIVED"} # {} THEN "STALE"
           ELSE IF w[c].status = "DRAFT" \/ ~(w[c].deps \subseteq Known(w)) \/ "INCOMPLETE" \in deps
             THEN "INCOMPLETE"
           ELSE "CURRENT"
  IN fresh

Closed(w, S) == \A c \in S : w[c].deps \subseteq S

\* _dependency_closure
Closure(w, c) == {d \in Known(w) : \A S \in SUBSET Known(w) : c \in S /\ Closed(w, S) => d \in S}

\* The files on the route.
Along(w) == Closure(w, Root) \cup {Source}

\* _read_catalog: the catalog and the index that it names are of these files.
CatalogOf(w) == catalog # None /\ catalog = w /\ index = w

\* _prepare_route: the inputs of the task are what it pins, the catalog is of
\* these very files, and all that is selected is current.
Route(w) ==
  /\ ~litter /\ Acyclic(w)
  /\ w[Root].n = 0
  /\ CatalogOf(w)
  /\ \A c \in Closure(w, Root) : Freshness(w)[c] = "CURRENT"

(***************************************************************************)
(* The builders: what they read, path by path                              *)
(***************************************************************************)
Read(p, at, kind) ==
  [at |-> at, kind |-> kind, todo |-> Paths, got |-> << >>, plan |-> << >>, seen |-> None]

Begin(p, kind) ==
  /\ proc[p] = Idle /\ begun < MaxBegun
  /\ begun' = begun + 1
  /\ IF kind = "pack" THEN UNCHANGED lock ELSE lock = None /\ lock' = p
  /\ proc' = [proc EXCEPT ![p] = Read(p, "plan", kind)]
  /\ UNCHANGED <<owned, outputs, journal>>

\* The reading r of some paths, and then of x.
With(r, x) == [y \in DOMAIN r \cup {x} |-> IF y = x THEN file[x] ELSE r[y]]

ReadPath(p) ==
  /\ proc[p].at \in {"plan", "bytes", "confirm"} /\ proc[p].todo # {}
  /\ LET me == proc[p]
         x == First(me.todo)
     IN proc' = [proc EXCEPT ![p] = [me EXCEPT !.todo = me.todo \ {x}, !.got = With(me.got, x)]]
  /\ UNCHANGED <<owned, outputs, lock, journal, begun>>

AllRead(p, at, kind) ==
  proc[p].at = at /\ proc[p].kind = kind /\ proc[p].todo = {}

\* A package is of the files that are there.
Part(w, paths) == [x \in paths |-> w[x]]
Present(w) == {x \in Paths : w[x] # None}

Again(p, at) == [proc[p] EXCEPT !.at = at, !.todo = Paths, !.got = << >>]

GiveUp(p) ==
  /\ proc' = [proc EXCEPT ![p] = Idle]
  /\ lock' = IF lock = p THEN None ELSE lock

(***************************************************************************)
(* rebuild_catalog                                                         *)
(***************************************************************************)
\* INDEX.md is the one that the catalog names; else somebody has written it.
Managed == catalog = None \/ catalog = index

Rebuild(p) ==
  /\ AllRead(p, "plan", "rebuild")
  /\ IF ~litter /\ Managed /\ Acyclic(proc[p].got)
     THEN proc' = [proc EXCEPT ![p].at = "publish"] /\ UNCHANGED lock
     ELSE GiveUp(p)
  /\ UNCHANGED <<owned, outputs, journal, begun>>

(***************************************************************************)
(* build_context_package                                                   *)
(***************************************************************************)
PrepareRoute(p) ==
  /\ AllRead(p, "plan", "build")
  /\ IF Route(proc[p].got)
     THEN proc' = [proc EXCEPT ![p] = Again(p, "bytes")] /\ UNCHANGED lock
     ELSE GiveUp(p)
  /\ UNCHANGED <<owned, outputs, journal, begun>>

\* _read_route: the bytes of the files on the route.
ReadRoute(p) ==
  /\ AllRead(p, "bytes", "build")
  /\ proc' = [proc EXCEPT ![p] = [Again(p, "confirm") EXCEPT !.plan = proc[p].got]]
  /\ UNCHANGED <<owned, outputs, lock, journal, begun>>

NotConfirmed(p) == TRUE  \* publishes what it has read

\* The same route again, with the same fingerprint.
Confirmed(p) == Route(proc[p].got)

ConfirmRoute(p) ==
  /\ AllRead(p, "confirm", "build")
  /\ IF Confirmed(p)
     THEN /\ proc' = [proc EXCEPT ![p].at = "publish", ![p].plan = << >>,
                                  ![p].got = Part(proc[p].plan, Along(catalog))]
          /\ UNCHANGED lock
     ELSE GiveUp(p)
  /\ UNCHANGED <<owned, outputs, journal, begun>>

(***************************************************************************)
(* pack_project: what it plans before the lock is planned again under it   *)
(***************************************************************************)
PlanPack(p) ==
  /\ AllRead(p, "plan", "pack")
  /\ proc' = [proc EXCEPT ![p] = [Again(p, "lock") EXCEPT !.plan = proc[p].got, !.seen = latest]]
  /\ UNCHANGED <<owned, outputs, lock, journal, begun>>

LockPack(p) ==
  /\ proc[p].at = "lock" /\ lock = None
  /\ lock' = p
  /\ proc' = [proc EXCEPT ![p].at = "confirm"]
  /\ UNCHANGED <<owned, outputs, journal, begun>>

SameState(p) == proc[p].got = proc[p].plan /\ latest = proc[p].seen

ConfirmPack(p) ==
  /\ AllRead(p, "confirm", "pack")
  /\ IF SameState(p)
     THEN /\ proc' = [proc EXCEPT ![p].at = "publish", ![p].plan = << >>, ![p].seen = None,
                                  ![p].got = Part(proc[p].plan, Present(proc[p].plan))]
          /\ UNCHANGED lock
     ELSE GiveUp(p)
  /\ UNCHANGED <<owned, outputs, journal, begun>>

(***************************************************************************)
(* Publication in a transaction: _atomic_package_write and the end of      *)
(* _rebuild_catalog_unlocked.  A transaction that died between a change    *)
(* and its phase record cannot be diagnosed, nor rolled back.              *)
(***************************************************************************)
Track ==
  journal' = [sound |-> FALSE, catalog |-> catalog, index |-> index, latest |-> latest,
              before |-> before]

PublishCatalog(p) ==
  /\ proc[p].at = "publish" /\ proc[p].kind = "rebuild"
  /\ Track
  /\ catalog' = proc[p].got
  /\ proc' = [proc EXCEPT ![p].at = "catalogued"]
  /\ UNCHANGED <<owned, index, latest, before, lock, begun>>

MarkCatalog(p) ==
  /\ proc[p].at = "catalogued"
  /\ journal' = [journal EXCEPT !.sound = TRUE]
  /\ proc' = [proc EXCEPT ![p].at = "second"]
  /\ UNCHANGED <<owned, outputs, lock, begun>>

PublishIndex(p) ==
  /\ proc[p].at = "second" /\ proc[p].kind = "rebuild"
  /\ index' = proc[p].got
  /\ journal' = [journal EXCEPT !.sound = FALSE]
  /\ proc' = [proc EXCEPT ![p].at = "mark"]
  /\ UNCHANGED <<owned, catalog, latest, before, lock, begun>>

\* The old package goes out of the way.
DisplacePackage(p) ==
  /\ proc[p].at = "publish" /\ proc[p].kind # "rebuild"
  /\ Track
  /\ latest' = None /\ before' = latest
  /\ proc' = [proc EXCEPT ![p].at = "second"]
  /\ UNCHANGED <<owned, catalog, index, lock, begun>>

PublishPackage(p) ==
  /\ proc[p].at = "second" /\ proc[p].kind # "rebuild"
  /\ latest' = [kind |-> proc[p].kind, files |-> proc[p].got]
  /\ proc' = [proc EXCEPT ![p].at = "mark"]
  /\ UNCHANGED <<owned, catalog, index, before, lock, journal, begun>>

MarkPublished(p) ==
  /\ proc[p].at = "mark"
  /\ journal' = [journal EXCEPT !.sound = TRUE]
  /\ proc' = [proc EXCEPT ![p].at = "complete"]
  /\ UNCHANGED <<owned, outputs, lock, begun>>

Complete(p) ==
  /\ proc[p].at = "complete"
  /\ journal' = NoJournal
  /\ GiveUp(p)
  /\ UNCHANGED <<owned, outputs, begun>>

RestoreTargets ==
  IF journal = NoJournal THEN UNCHANGED outputs
  ELSE /\ catalog' = journal.catalog /\ index' = journal.index
       /\ latest' = journal.latest /\ before' = journal.before

\* Any step raises; the transaction is rolled back.
Fails(p) ==
  /\ proc[p] # Idle
  /\ IF lock = p THEN RestoreTargets /\ journal' = NoJournal ELSE UNCHANGED <<outputs, journal>>
  /\ GiveUp(p)
  /\ UNCHANGED <<owned, begun>>

Killed(p) ==
  /\ proc[p] # Idle
  /\ proc' = [proc EXCEPT ![p] = Idle]
  /\ lock' = IF lock = p THEN "dead" ELSE lock
  /\ UNCHANGED <<owned, outputs, journal, begun>>

\* recover_workspace
Recover ==
  /\ lock = "dead" /\ journal.sound
  /\ RestoreTargets
  /\ journal' = NoJournal /\ lock' = None
  /\ UNCHANGED <<owned, proc, begun>>

Next ==
  \/ \E c \in Chapters :
       \/ \E status \in {"DRAFT", "OWNER_ACCEPTED", "ARCHIVED"} : EditStatus(c, status)
       \/ \E deps \in SUBSET (Chapters \ {c}) : EditDependencies(c, deps)
       \/ \E killed \in BOOLEAN : CreateChapter(c, killed)
       \/ RemoveChapter(c)
  \/ EditSource \/ SupersedeSource
  \/ \E p \in Builders :
       \/ \E kind \in {"rebuild", "build", "pack"} : Begin(p, kind)
       \/ ReadPath(p) \/ Rebuild(p) \/ PrepareRoute(p) \/ ReadRoute(p) \/ ConfirmRoute(p)
       \/ PlanPack(p) \/ LockPack(p) \/ ConfirmPack(p)
       \/ PublishCatalog(p) \/ MarkCatalog(p) \/ PublishIndex(p)
       \/ DisplacePackage(p) \/ PublishPackage(p)
       \/ MarkPublished(p) \/ Complete(p)
       \/ Fails(p) \/ Killed(p)
  \/ Recover

Spec == Init /\ [][Next]_vars

(***************************************************************************)
(* Properties                                                              *)
(***************************************************************************)
TypeOK ==
  /\ DOMAIN file = Paths /\ Edits <= MaxEdits
  /\ lock \in Builders \cup {None, "dead"}
  /\ \A p \in Builders : proc[p].at \in {"catalogued", "second", "mark", "complete"} => lock = p

\* What a package holds was there together at one time, although its files
\* were read one by one.
OneInstant ==
  latest # None => \E s \in snaps : \A x \in DOMAIN latest.files : s[x] = latest.files[x]

\* The context of a task holds accepted knowledge only, all it depends on
\* included, with sources that are exact and the newest.
ContextCurrent ==
  latest # None /\ latest.kind = "build" =>
    LET w == latest.files
        chapters == DOMAIN w \ {Source}
    IN /\ Root \in chapters /\ w[Source].exact /\ ~w[Source].superseded
       /\ \A c \in chapters : w[c].status = "OWNER_ACCEPTED" /\ w[c].deps \subseteq chapters

\* A package never replaces one that was made from newer files.
NeverOlder ==
  latest # None /\ before # None =>
    \A x \in DOMAIN latest.files \cap DOMAIN before.files :
      latest.files[x].n >= before.files[x].n

\* Freshness is what its definition says: current is what lies in a closed set
\* of accepted chapters with sound sources.  It depends on the files alone, so
\* it is looked at before anything is built.
FreshnessTrue ==
  begun = 0 /\ Acyclic(file) =>
    LET fresh == Freshness(file)
        accepted == {d \in Known(file) : file[d].status = "OWNER_ACCEPTED" /\ Sound(file, d)}
    IN \A c \in Known(file) :
         fresh[c] = "CURRENT" <=> \E S \in SUBSET accepted : c \in S /\ Closed(file, S)
=============================================================================
