-------------------------- MODULE AdaptiveStorage --------------------------
(***************************************************************************)
(* The adaptive project storage, adaptive_storage.py: records that name    *)
(* deduplicated content objects, generations that pin them, search indexes *)
(* beside them, and the cleanup that deletes what nothing names.           *)
(*                                                                         *)
(* A content is its digest; a record is the digest it names, or None.  The *)
(* state file is replaced atomically; the objects, the staging directory,  *)
(* the receipts and each index are other files, so the process that holds  *)
(* .writer.lock may be killed between any two of them.  The kernel lock    *)
(* dies with its holder: one variable, work, says where the holder is.     *)
(* A command that raises before its first write is a stuttering step.      *)
(***************************************************************************)
EXTENDS Naturals, Sequences, FiniteSets, StorageRetention

CONSTANTS
  Records,      \* record ids
  Digests,      \* contents, told apart by digest: 1 .. n
  Shards,       \* index shards of the LARGE_LOCAL profile
  ShardOf,      \* ShardOf[d]: the shard of a digest's first two characters
  Profiles,     \* the profiles a plan may ask for
  HardLimit,    \* the hard limit less the rollback reserve, in objects
  Days,         \* days on which a generation may be made
  MaxRevision,  \* bound on writes of the state file
  None

VARIABLES
  profile,   \* of the initialised storage, or None
  revision,
  records,   \* records[r]: the digest r names, or None
  objects,   \* digests the state file lists as stored
  gens,      \* generations: [day, pins]
  blobs,     \* digests with a file under objects/
  index,     \* index[s][r]: the digest shard s has for r, or None
  work,      \* what the holder of the lock has still to do
  plan,      \* a cleanup plan, with what its applications left: the digests in
             \* its staging directory, its audit event, its receipt; or None
  lapsed     \* records whose index update was cut short (history)

stateFile == <<profile, revision, records, objects, gens>>
disk == <<blobs, index>>
vars == <<stateFile, disk, work, plan, lapsed>>

Idle == [at |-> "idle", rec |-> None, new |-> None, old |-> None]
NoPins == [r \in Records |-> None]

Named(pins) == {pins[r] : r \in Records} \ {None}

\* What the records and the generations name: build_storage_cleanup_plan.
Referenced == Named(records) \cup UNION {Named(gens[i].pins) : i \in DOMAIN gens}

\* The storage files that hold the index of a digest.
IndexPaths(d) ==
  CASE profile = "LARGE_LOCAL" -> {ShardOf[d]}
    [] profile = "LOCAL_INDEXED" -> {ShardOf[1]}
    [] OTHER -> {}

Init ==
  /\ profile = None /\ revision = 0
  /\ records = NoPins /\ objects = {} /\ gens = << >>
  /\ blobs = {}
  /\ index = [s \in Shards |-> NoPins]
  /\ work = Idle /\ plan = None
  /\ lapsed = {}

\* A profile other than the current one is the target only once approved.
TargetProfile(current, requested, approved) ==
  IF requested # current /\ ~approved THEN current ELSE requested

\* An existing storage is returned as it is and never changes its profile.
Initialize ==
  /\ work = Idle /\ profile = None
  /\ \E current, requested \in Profiles, approved \in BOOLEAN :
       profile' = TargetProfile(current, requested, approved)
  /\ UNCHANGED <<revision, records, objects, gens, disk, work, plan, lapsed>>

(***************************************************************************)
(* put_storage_record and release_storage_record                           *)
(***************************************************************************)
\* A put of what the record already says is UNCHANGED; one that was prepared
\* at an older revision, or would pass the hard limit, is refused.
PutObject(r, d) ==
  /\ work = Idle /\ profile # None /\ revision < MaxRevision
  /\ records[r] # d
  /\ Cardinality(blobs \cup {d}) <= HardLimit
  /\ blobs' = blobs \cup {d}
  /\ work' = [at |-> "putState", rec |-> r, new |-> d, old |-> records[r]]
  /\ UNCHANGED <<stateFile, index, plan, lapsed>>

PutState ==
  /\ work.at = "putState"
  /\ records' = [records EXCEPT ![work.rec] = work.new]
  /\ objects' = objects \cup {work.new}
  /\ revision' = revision + 1
  /\ work' = [work EXCEPT !.at = "unindex"]
  /\ UNCHANGED <<profile, gens, disk, plan, lapsed>>

\* The record leaves every shard but the one of its new digest.
UnindexNothing ==  \* leaves the record in the shards it has left
  /\ work.at = "unindex"
  /\ work' = [work EXCEPT !.at = "index"]
  /\ UNCHANGED <<stateFile, blobs, index, plan, lapsed>>

Unindex ==
  /\ work.at = "unindex"
  /\ index' = [s \in Shards |-> IF s \in IndexPaths(work.new) THEN index[s]
                                ELSE [index[s] EXCEPT ![work.rec] = None]]
  /\ work' = [work EXCEPT !.at = "index"]
  /\ UNCHANGED <<stateFile, blobs, plan, lapsed>>

UpsertIndex ==
  /\ work.at = "index"
  /\ index' = [s \in Shards |-> IF s \in IndexPaths(work.new)
                                THEN [index[s] EXCEPT ![work.rec] = work.new]
                                ELSE index[s]]
  /\ work' = Idle
  /\ lapsed' = lapsed \ {work.rec}
  /\ UNCHANGED <<stateFile, blobs, plan>>

ReleaseState(r) ==
  /\ work = Idle /\ profile # None /\ revision < MaxRevision
  /\ records[r] # None
  /\ records' = [records EXCEPT ![r] = None]
  /\ revision' = revision + 1
  /\ work' = [at |-> "release", rec |-> r, new |-> None, old |-> records[r]]
  /\ UNCHANGED <<profile, objects, gens, disk, plan, lapsed>>

ReleaseIndex ==
  /\ work.at = "release"
  /\ index' = [s \in Shards |-> IF s \in IndexPaths(work.old)
                                THEN [index[s] EXCEPT ![work.rec] = None]
                                ELSE index[s]]
  /\ work' = Idle
  /\ UNCHANGED <<stateFile, blobs, plan, lapsed>>

(***************************************************************************)
(* create_storage_generation                                               *)
(***************************************************************************)
\* An existing generation with the same objects is returned instead.  The
\* caller's created_at never goes back.
CreateGeneration(day) ==
  /\ work = Idle /\ profile # None /\ revision < MaxRevision
  /\ \A i \in DOMAIN gens : gens[i].pins # records /\ gens[i].day <= day
  /\ gens' = RetainedGenerations(Append(gens, [day |-> day, pins |-> records]))
  /\ revision' = revision + 1
  /\ UNCHANGED <<profile, records, objects, disk, work, plan, lapsed>>

(***************************************************************************)
(* build_storage_cleanup_plan reads without the lock: first the state, then *)
(* the objects; apply_storage_cleanup works through the plan               *)
(***************************************************************************)
ReadForPlan ==
  /\ plan = None /\ profile # None
  /\ plan' = [rev |-> revision, cands |-> Referenced, ready |-> FALSE,
              staged |-> {}, cleaned |-> FALSE, receipt |-> FALSE]
  /\ UNCHANGED <<stateFile, disk, work, lapsed>>

ScanForPlan ==
  /\ plan # None /\ ~plan.ready
  /\ plan' = [plan EXCEPT !.cands = blobs \ @, !.ready = TRUE]
  /\ UNCHANGED <<stateFile, disk, work, lapsed>>

\* A plan is applied, perhaps again and again, until its owner lets it go.
DropPlan ==
  /\ plan # None /\ plan.ready /\ work = Idle
  /\ plan' = None
  /\ UNCHANGED <<stateFile, disk, work, lapsed>>

\* A retry after the commit only writes the receipt again.
CleanupAgain ==
  /\ work = Idle /\ plan # None
  /\ plan.cleaned /\ ~plan.receipt
  /\ work' = [Idle EXCEPT !.at = "receipt"]
  /\ UNCHANGED <<stateFile, disk, plan, lapsed>>

CleanupStart ==
  /\ work = Idle /\ plan # None
  /\ plan.ready /\ ~plan.cleaned
  /\ revision = plan.rev /\ revision < MaxRevision
  /\ work' = [Idle EXCEPT !.at = "stage"]
  /\ UNCHANGED <<stateFile, disk, plan, lapsed>>

\* In the order of the plan; a candidate an earlier try has staged already is
\* taken from there.
StageNext(d) ==
  /\ work.at = "stage" /\ d \in plan.cands \ plan.staged
  /\ \A e \in plan.cands \ plan.staged : d <= e
  /\ d \in blobs
  /\ blobs' = blobs \ {d}
  /\ plan' = [plan EXCEPT !.staged = @ \cup {d}]
  /\ UNCHANGED <<stateFile, index, work, lapsed>>

CleanupState ==
  /\ work.at = "stage" /\ plan.staged = plan.cands
  /\ objects' = objects \ plan.cands
  /\ revision' = revision + 1
  /\ plan' = [plan EXCEPT !.cleaned = TRUE]
  /\ work' = [work EXCEPT !.at = "receipt"]
  /\ UNCHANGED <<profile, records, gens, disk, lapsed>>

\* Any exception before the commit, a missing candidate among them, puts back
\* what this try met and removes the staging directory with all it holds.
CleanupFails ==
  /\ work.at = "stage"
  /\ \E met \in SUBSET plan.staged :
       /\ \A d \in met, e \in plan.staged : e < d => e \in met
       /\ blobs' = blobs \cup met
  /\ plan' = [plan EXCEPT !.staged = {}]
  /\ work' = Idle
  /\ UNCHANGED <<stateFile, index, lapsed>>

CleanupReceipt ==
  /\ work.at = "receipt"
  /\ plan' = [plan EXCEPT !.receipt = TRUE]
  /\ work' = [work EXCEPT !.at = "purge"]
  /\ UNCHANGED <<stateFile, disk, lapsed>>

CleanupPurge ==
  /\ work.at = "purge"
  /\ plan' = [plan EXCEPT !.staged = {}]
  /\ work' = Idle
  /\ UNCHANGED <<stateFile, disk, lapsed>>

\* The process that holds the lock dies.
Killed ==
  /\ work # Idle
  /\ work' = Idle
  /\ lapsed' = IF work.at \in {"unindex", "index", "release"}
               THEN lapsed \cup {work.rec} ELSE lapsed
  /\ UNCHANGED <<stateFile, disk, plan>>

Next ==
  \/ Initialize
  \/ \E r \in Records, d \in Digests : PutObject(r, d)
  \/ PutState \/ Unindex \/ UpsertIndex
  \/ \E r \in Records : ReleaseState(r)
  \/ ReleaseIndex
  \/ \E day \in Days : CreateGeneration(day)
  \/ ReadForPlan \/ ScanForPlan \/ DropPlan
  \/ CleanupAgain \/ CleanupStart
  \/ \E d \in Digests : StageNext(d)
  \/ CleanupState \/ CleanupFails \/ CleanupReceipt \/ CleanupPurge
  \/ Killed

Spec == Init /\ [][Next]_vars

(***************************************************************************)
(* search_adaptive_storage: a query for one digest, or None for all        *)
(***************************************************************************)
LocalMatches(q) ==
  {<<r, records[r]>> : r \in {x \in Records : records[x] # None /\ q \in {None, records[x]}}}

IndexedMatches(q) ==
  UNION {{<<r, index[s][r]>> : r \in {x \in Records : index[s][x] # None
                                                     /\ q \in {None, index[s][x]}}} : s \in Shards}

(***************************************************************************)
(* Properties                                                              *)
(***************************************************************************)
TypeOK ==
  /\ profile \in Profiles \cup {None} /\ revision \in 0 .. MaxRevision
  /\ records \in [Records -> Digests \cup {None}]
  /\ objects \subseteq Digests /\ blobs \subseteq Digests
  /\ gens \in Seq([day : Days, pins : [Records -> Digests \cup {None}]])
  /\ plan = None \/ plan.staged \subseteq plan.cands
  /\ index \in [Shards -> [Records -> Digests \cup {None}]] /\ lapsed \subseteq Records

\* Whatever a record or a kept generation names is stored and is listed as
\* stored, through cleanups, their failures, kills and retries.
NothingDangles == Referenced \subseteq blobs \cap objects

\* With no writer at work, a search through the indexes finds what a scan of
\* the records finds, but for records whose index update was cut short.
SearchAgrees ==
  (work = Idle /\ profile \in {"LARGE_LOCAL", "LOCAL_INDEXED"}) =>
    \A q \in Digests \cup {None} : \A r \in Records \ lapsed, d \in Digests :
      <<r, d>> \in IndexedMatches(q) <=> <<r, d>> \in LocalMatches(q)
=============================================================================
