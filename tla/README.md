# A TLA+ verification of OPENCNTX

OPENCNTX is a local command line program that keeps the state of an assisted
software project in files: a task workspace with an append-only chain of events
per task, sources and what is derived from them, context packages and indexes, a
continuity store that hands a roadmap from one host to the next with further
stores around it, the program's own installation, and the journal and locks under
all of them. Every command is a process of its own; there
is no server. What is hard in it is therefore what is hard in a small file-based
database: several processes at the same files, a process killed between any two
writes, a step that fails after earlier ones are visible, a command repeated
because its caller does not know what became of it.

This directory holds TLA+ modules for those parts, TLC configurations that check
them on small instances, and proofs of the central results that TLAPS checks for
all instances. Paths like `integrity.py:602` mean lines under
`src/src/opencntx/`; `PROJECT.json` maps each definition to the lines it stands
for.

## 1. Inventory

| Component | State it keeps | Operations | Interacts with | Hard | What makes it correct |
|---|---|---|---|---|---|
| Writer locks (`integrity.py`) | lock files with metadata, flocks on them | `_FileLock.create`, `is_active`, `open_stale`, `close`; `_locks` | every writer, `doctor`, `recover` | creation, flock and unlink are separate system calls | one writer; the file names it; nothing is left behind |
| Transactions (`integrity.py`) | `transactions/active`, `completed`, `backups`; intent, target records, phases | `writer_transaction`, `track_target`, `mark_*`, `complete`, `abort`, `doctor_workspace`, `recover_workspace` | runs under the locks, around every mutation | kills and errors at every step; recovery killed, repeated, or planned too early | atomic mutations; sound diagnosis; recovery ends |
| Task workflow (`workflow.py`) | event files, `TASK.md`, artifacts | propose, approve, begin, attempt, result, review, accept, close, cancel, supersede | transactions; reads without locks | two independent locks, stale reads, dirty reads, artifacts copied outside the lock | valid append-only chains, one active task |
| Continuity flow and hosts (`continuity.py`, `host_protocol.py`, `recovery.py`) | event ledger, context, handoffs, claims, parked inputs, pending result, `state.json` | `start_flow`, `advance_flow`, `claim_host`, checkpoint, park, return | own operation lock; sync; capsules | files written before the events that bind them; repeated requests; three recovery regimes | applied once; the roadmap is followed; the store loads |
| Sources, derivations, lifecycle (`workspace.py`, `media.py`, `lifecycle.py`) | captured contents, derived texts with record, review, promotion, removal; checkpoints outside | capture, register, review, promote, remove; clean up, restore | writer lock; transactions that track none of these targets | the captured file is written meanwhile; undo by hand in `except` blocks | what is stored was there whole, once, and stays; undone means undone |
| Executors and attempts (`playbook.py`, `attempts.py`) | revisions of playbooks and roles, executor packages, attempt records | register, approve, prepare, bind, `record_attempt` | task chain, context package | judged on a chain read without the lock | the chain loads again; budgets hold; an executor stands on what its task pins |
| Catalog and context packages (`catalog.py`, `navigator.py`, `core.py`) | chapters, `catalog.sqlite`, `INDEX.md`, `.opencntx/latest` | create a chapter, rebuild, build a context, pack | owner's files, transactions | files read one by one while they are edited; two outputs published one after the other | a package is of one instant, current, and never older than the one before |
| Search index (`search_index.py`, `knowledge.py`) | full-text index, legacy index beside it | build (incremental or strict), search, status, delivery | own publication lock | reuse by time of modification; two builders; two files | incremental is full; nothing stays stale unnoticed; complete means complete |
| Goals and sessions (`goal_*.py`, `outcome_coverage.py`, `session_continuity.py`) | goal hierarchy, its binding, outcome reports, failed attempts; evidence objects, handoffs, acknowledgements | recover a leaf, bind, compile the goal; prepare, accept, idle | native store of `continuity.py` | two supervisors; a handoff read again after the state moved | no outcome closed by its repair; no wait brought in; no blind repetition; resumed only what was handed over |
| Combo, connected view, navigation, scale (`combo.py`, `connected_state.py`, `navigation.py`, `scale_assurance.py`) | active and completed roadmaps, view generations and `CURRENT`, chat index, acquisition queue | update, publish, read; reserve, roll over; claim, complete a batch | continuity locks for writers, none for readers | bounded lists that displace entries, lost answers, expired leases | a completion stays findable; one successor; one answer per lease |
| Continuity replica (`continuity_sync.py`) | Git branch, error and receipt files | preview, apply, status | called inside `advance_flow` | other pushers, writers that hold no common lock | pushes overwrite nothing; a receipt names a commit no older than it says |
| Adaptive storage (`adaptive_storage.py`) | state file, content objects, generations, indexes, cleanup staging | put, release, create a generation, plan and apply a cleanup, search | own kernel lock | a plan read earlier, deletion in steps, kills in between | what is named is stored; indexes agree with records |
| Installation and update (`install_manager.py`, `transactional_update.py`, `layout_plan.py`) | installed wheel and cache, components in four places, journals, receipts | update, resume; apply, replay, recover; plan and verify moves | package manager, own kernel locks | kill during a cutover or inside the package manager | the original survives; journals and receipts are true; what is verified can be done |
| Project layer (`governance.py`, `control.py`, `contracts.py`, ...) | documents | validate, report | one reading each | none | - |
| Security filter (`security.py`) | none | scan a text | - | none | - |
| Presentation, integrations (`human_interface.py`, `visual_*.py`, ...) | none | format, discover tools | - | none | - |
| Command line (`cli*.py`) | none | parse, dispatch, print | all of the above | none | - |

A task command reads and validates its task, calls `writer_transaction` (lock,
journal, basis check), changes the files in the body and lets the transaction
complete or abort. `doctor` and `recover` look at what a killed process left. A
host asks the continuity store for its assignment, may claim it, and advances the
flow with a PASS or FAIL; the store takes its own `.operation.lock` for one batch
of events and, after an advance, a second time to remove the pending result.
The components around them meet in files: a task pins files and chapters, its
context package is built along the catalog, its executor stands on both; goals,
handoffs and the connected view are bound to a state of the native store by its
digest, and refused when that has moved. The hazards with lines are in
`PROJECT.json`.

## 2. Modules

| Module | Role |
|---|---|
| `WriterLock` | the lock protocol of one lock path, one system call per action |
| `AtomicMutation` | abstract: a mutation happens as a whole or not at all |
| `Transaction` | the journal protocol, diagnosis and recovery; implements `AtomicMutation` |
| `TaskBoard` | abstract: statuses of tasks and the legal moves |
| `TaskWorkspace` | the task commands on event chains, cards and artifacts; implements `TaskBoard` |
| `RoadmapFlow` | abstract: a roadmap worked off in dependency order with bounded failures |
| `ContinuityStore` | the continuity store with its hosts; implements `RoadmapFlow` |
| `SourceLibrary` | captured sources, derivations, promotion and removal |
| `Lifecycle` | cleanup behind a checkpoint, restore, the record of the workspace |
| `Executors` | definitions, executor packages and failed attempts of one task |
| `ContextRoute` | chapters, freshness, catalog, context packages and pack |
| `SearchIndex` | the full-text index, the legacy index, deliveries |
| `GoalProgress` | the hierarchy of a goal, its recoveries and its binding |
| `GoalOutcomes` | outcome reports, failed attempts and the follow-up decision |
| `SessionHandoff` | handing a session over |
| `Combo` | pure: the bounded object of active and completed roadmaps |
| `ConnectedState` | publisher, owner and lock-free reader of the connected view; extends `Combo` |
| `Navigation` | chats, notes and projections, calls repeated |
| `AcquisitionQueue` | batches leased and answered |
| `Replica` | synchronisation with a Git branch |
| `StorageRetention` | pure: which generations are kept |
| `AdaptiveStorage` | objects, generations, indexes and cleanup; extends `StorageRetention` |
| `UpdateCutover` | cutover of several components, recovery, receipts |
| `InstallManager` | replacing the installed wheel, resuming |
| `LayoutPlan` | planning and verifying moves |
| `MC*` | processes, permutations and small instances for TLC |
| `Workspace`, `Stores` | eight components each side by side, one running (`focus`) |
| `WriterLockProofs`, `TransactionProofs`, `TaskWorkspaceProofs`, `ContinuityStoreProofs` | theorems and proofs about the module of that name |
| `WorkspaceProofs`, `ContentProofs`, `ContextProofs` | about `Workspace`: installation and update, and the types of all its components (it extends the other two); cleanup and search index; library, executors and context packages |
| `StoresProofs` | about `Stores`: sessions, queue, navigation, replica, outcomes and hierarchy of a goal, storage, connected view |

They form three layers that meet in assumptions rather than in one product.
`WriterLock` reduces a transaction to "its journal is in `active/`" and shows
that the lock excludes and names its writer. `Transaction` uses that result: its
lock is a variable with one holder.
`TaskWorkspace` uses the result of `Transaction`: the abort of a failed body and
the recovery of a killed one are one step each. `ContinuityStore` has its own
lock and no journal, and stands beside them. Every other module has the locks of
its component as one variable with one holder, or as operations that are one step
because they run under a lock from their first read to their last write; where the
code reads without the lock, the reading is a step of its own.

### WriterLock

`dirEntry` is the inode the lock path names, `content` what lies in each inode,
`flock` who holds its lock, `handle` which inode a process has open. A directory
entry, an inode and an open file are separate, since that is where the races are:
`unlink` removes the path whatever it names by then, and a flock dies with its
process. `OpenNew`, `WriteZero`, `LockNew`, `WriteMetadata`, `SyncLockDirectory`
are `_FileLock.create`, `CreateFails` and `Undo` its clean-up, `Probe*` is
`is_active` (called by writers that found a file, by doctors and by
recoverers), `OpenStale` and `LockStale` are `open_stale`, `Unlock` and `Unlink`
are `close`. `journal` is the set of lock ids with a directory in `active/`,
`backups` those with a recovery backup. `faults` is history. Left out: the
re-entrance of `_held` and a mutation that takes several locks.

### Transaction

`file` is the content of the managed files, `origin` what it was when the
transaction began (history). `tracked`, `before`, `copies` and `published` are
the target records, `previous_sha256`, the files under `previous/` and the
digests in the phases; `place` is where the directory lies, `torn` says that a
kill cut off a record. They are those of the transaction begun last; `left` says that an
earlier one still lies in `active/`. `writer_transaction` does not look there: when an
abort, a completion or a recovery has itself failed, its lock is given back and the next
writer begins over whatever was restored by then. `AtomicMutation` calls such a mutation
abandoned (`Abandon`): it is never archived, and the next one starts from the files as
they are. `Begin` ... `ReleaseLock` follow `writer_transaction`,
`Raise`, `Restore`, `Restored` are `abort`, `Purge` and `Archive` are `complete`,
`Plan` ... `CloseRecovery` are `recover_workspace(apply=True)`; `Diagnosable` is
what `doctor_workspace` calls `RECOVERY_REQUIRED` with an id. A restored file
is first moved away and then put back, in two steps, in the reverse order of the
records. The body of a mutation is any sequence of tracked changes, since each
caller has another one; that callers track before they change is taken from them.
Left out: directories as targets, transactions that track nothing.

### TaskWorkspace

`events[t]` is the chain on disk; an event carries its number, its statuses, its
writer and the identity of its predecessor, which stands for the record digest.
`card`, `result`, `evidence` and `partial` are `TASK.md` and the artifacts.
`committed` is history. `Load` is the reading and checking before the lock,
`OpenTransaction` the task lock with the comparison of the head, then
`CopyEvidence`, `WriteEvent`, `WriteCard` and `Commit`; `Abort` and recovery
restore what the transaction tracked. `StartCopy`, `FinishCopy` and `CleanUp` are
the artifact of `submit_result`, which is copied outside the transaction.
Proposals digest all of `TASKS` and hold the workspace lock, the others hold a
task lock; the two exclude nobody from each other. `Kinds` selects the commands
of a run. `StandingSpec` has the behaviours of `Spec` in which no proposal takes back
(`TakesBack`) what others have written into its task. `CommitProposal` compares nothing:
its chain was loaded right after the rename, and what matters is that the task is still
there. Left out: the hidden staging directory of a proposal (section 5).

### ContinuityStore

`ledger` is the event file reduced by `_reduce`: status, current assignment, what
is done and skipped, failure fingerprints, claims, checkpoints. It changes in one
step, because the file is replaced atomically, while `context`, `handoffs`,
`claimFile`, `cache` (`state.json`) and `pending` are files with steps of their
own. `Loads` is `_load_store`: each of these files must be bound to the ledger.
`Load`, `WriteHandoff`, `PrepareSelection`, `AppendEvents`, `ClearContext`,
`CacheState`, `SavePending`, `RemovePending`, `Answer` are one `advance_flow`;
`ReplayPending` is the answer from the pending result. `Failed` has the three
recovery regimes (no class, chain, standalone). A host that got no final answer
to an advance is in `doubt` and repeats the same request (`Retry`); the
assumption is that nobody else's process uses that request. `Gives` says which
commands each host gives. A roadmap is started while no command runs and none is
in doubt, and no command is given before the first start: `start_flow` takes
another lock than the commands do, so this discipline is the owner's. A failure
is reported for the stage its host has seen, and a claim is only named for the
current assignment. Left out: capsules, the finalization guard, the guarded copy,
the replica inside an advance, texts and receipts.

### Content of a workspace

`SourceLibrary` copies a file in two halves while somebody writes it; `Verify`
is the comparison of its identity before and after. `Publish` is the end of a
capture, used by `capture_source` and inside `promote_derivation`; `RollbackCapture`
takes back only what this operation made visible. `Loadable` is
`_load_derivations`: one broken derivation makes all of its source unusable. `cut`
is history: removals that were killed or whose undoing failed.

`Executors` has recorders that read the chain (`ReadChain`), check their executor
(`BindExecutor`) and append under the lock if the head is still the one they read
(`SameHead`). `latest` is the one context package of a workspace, which another
task or `pack` may replace. `Reached` and `BasisStatus` are the pure functions of
`attempts.py`; `ChainLoads` recomputes both for every attempt from the attempts
before it, as the validation of a loaded chain does.

`ContextRoute` reads path by path (`ReadPath`) while the owner edits. `Route` is
`_prepare_route`, which a build runs before and after it has read the bytes;
`SameState` is the second plan of a pack under its lock. `Freshness` is the
recursion of `catalog.py`, compared with a definition by closed sets. The
publication is the transaction of module `Transaction`, reduced to one journal.

`SearchIndex` gives a file a content and a time of modification. `Measure`,
`Previous`, `ReadFile`, `Decide`, `LockIndex`, `PublishSearch`, `PublishLegacy` are
one build, `Search` ... `Answer` one delivery. `torn` and the `quiet` flags are
history: what a kill between the two files, or a writer meanwhile, excuses.

`Lifecycle` moves targets away behind a checkpoint and back, with the undo that is
written by hand; the transaction around it knows none of the targets.

### Stores beside the native one

`AdaptiveStorage`: a put, a release, a generation and a cleanup under the storage
lock, each write a step, and killed anywhere; a cleanup plan is read earlier
(`ReadForPlan`) and compared by revision and digest when it is applied.
`RetainedGenerations` is the retention, one fold over the generations.
`ConnectedState` over `Combo`: the publisher reads the native state, commits the
combo and switches `CURRENT`, the owner updates the combo by digest, the reader
takes no lock. A roadmap is started while nothing is published: `start_flow` takes
`continuity.lock`, the publisher `.operation.lock`, so this, too, is the owner's
discipline. `GoalProgress`, `GoalOutcomes` and `SessionHandoff` take the native
store as the sequence of its states, since all they ask of it is whether it is
still the one they were bound to. `AcquisitionQueue` and `Navigation` have calls
that are one step each, and callers that do not know whether their last call was
answered; a worker whose answer was lost still holds its batch and hands it in again.
`Replica` counts events: the store is read three times, for the preview, for the one
that is compared with it, and for what is pushed, each time its health, the names of the
event files and the state file one after the other while they grow; the branch may have
moved when the push arrives. The receipt is about the preview, the commit about the third
reading.

In `GoalProgress` a plan is any hierarchy `_nodes` and `_acyclic` accept. `Split` gives
the resumption the action of the leaf, so a split repair leaves two; `Finished` is
`finish_recovery`, which asks for a leaf that one beside it waits for and not whether it
is a repair. `named` is history: the outcomes closed so.

### Installation

`UpdateCutover` has four places for each component (active, retired, backup,
staging) and one process that holds `writer.lock`; copies may be cut short, renames
may not. `Preflight` is `_recovery_preflight`, which decides whether a recovery may
begin at all. `InstallManager` has a package manager that installs, fails, or is
killed in between; only the newest journal matters, as `resume_update` reads it.
`LayoutPlan` never moves anything, as the code never does: `VerifiedApplies` runs
the moves on a copy of the file system and asks whether each could be made.

## 3. What TLC checks

Twelve runs, each a question of its own; the runs `workspace` and `stores` ask it of
components that share no state, one at a time (`focus`), so that their spaces add
instead of multiplying. All deadlock checks are on except where the cfg says that
the system may really stop: transactions end when nobody starts a new one or a
killed recovery cannot be repeated, a stray result file makes a task unreadable,
and the bounded edits, builds and calls of the last two runs come to an end.

| Run | Checks | Shows |
|---|---|---|
| `lock_exclusion` | `TypeOK`, `MutualExclusion`, `LockNamesItsWriter`, `JournalCovered`, `NoLockLeft` | two writers that may be killed, a doctor and a recoverer: one process inside a mutation, and the lock file is its own; an interrupted journal stays behind its lock, and a failed creation leaves nothing |
| `lock_release` | `LockReleased` | without kills the path becomes free again and again, in spite of failures, probes and collisions |
| `txn_atomic` | `TypeOK`, `DiagnosisIsSound`, `ImplementsAtomicMutation` | two targets and a receipt, every step may fail, writer and recoverer may be killed, and the next writer comes whatever was left: mutations are atomic, or abandoned where their end fails |
| `txn_recovery` | `RecoveryCompletes` | what a killed writer left in a recoverable state is recovered and the lock freed |
| `task_chain` | `TypeOK`, `ChainsValid`, `CommittedStay`, `CardCurrent`, `BlockedStays`, `LedgerImplementsBoard` | every pair of racing commands on one task, with failures, kills and recoveries |
| `task_single` | `OneActiveTask`, `DiskImplementsBoard` | proposals, approvals, cancellations and supersessions of two tasks, without failures: one active task |
| `task_dirty_read` | `OneActiveTask`, violated | a proposal that saw a cancellation rolled back later leaves two active tasks |
| `flow_advance` | `TypeOK`, `AppliedOnce`, `FlowImplementsRoadmap` | one host passes and fails assignments and may be killed anywhere, another claims and passes: a repeated advance is applied once, and the roadmap is followed |
| `flow_hosts` | `StoreHealthy` | two hosts give every command over two generations of the store: nothing is left half done when nobody is in the lock |
| `flow_skip` | `RestartSees`, violated | a skipped assignment followed by a PASS of the last one leaves a store that cannot be loaded |
| `workspace` | `TypeOK` and nine named conjunctions, below | installation, update, layout, cleanup; sources, attempts, packages, search index |
| `stores` | `TypeOK` and seven named conjunctions, below | adaptive storage, roadmaps, goals, sessions, queue, navigation, replica |

The properties of the last two runs, by component:

| Property | Parts | Says |
|---|---|---|
| `UpdateRecoverable` | `OriginalKept`, `Recoverable` | the original of each component survives whole somewhere, and what a process leaves without a half copy can be recovered |
| `UpdateReceiptTrue` | `ReceiptIsTrue` | a success receipt at rest means a green postflight |
| `InstallJournalTrue` | `WayBack`, `OutcomeIsTrue` | an unfinished installation has its way back in the cache; the newest journal says what is installed |
| `LayoutPlanApplies` | `VerifiedApplies` | moves that were verified can be made in their order |
| `CleanupUndone` | `NothingLost`, `AllOrNothing` | a cleanup loses nothing; one that is not cut short is whole or undone |
| `LibrarySound` | `StoredWhole`, `AnsweredStays`, `UsableUnlessCut` | stored contents were there at one moment, and once; what a receipt named stays; only a kill, or an undo that fails, makes derivations unusable |
| `ExecutorSound` | `ChainLoads`, `BudgetHolds`, `ExecutorBound` | racing recorders leave a chain that loads, and a used-up budget means a blocked task; an executor stands on the approved revision and the context of its task |
| `ContextSound` | `OneInstant`, `ContextCurrent`, `NeverOlder`, `FreshnessTrue` | a package was there together at one time, is accepted and complete, and never replaces a newer one; freshness is what its definition by closed sets says |
| `SearchSound` | `NeverStaleForGood`, `IncrementalIsFull`, `ProjectionsAgree`, `CompleteTrue` | no wrong document would be reused; an incremental build is a full one; both indexes agree; a complete delivery is of all files |
| `StorageSound` | `NothingDangles`, `SearchAgrees` | what is named is stored; an index that nobody was killed over agrees with the records |
| `RoadmapsRemembered` | `CompletionsFindable`, `CurrentWasTrue` | a completed roadmap stays findable; what a reader saw as current was so at one time |
| `GoalsKept` | `OutcomesKept`, `NeverStuck` | a repair never closes an outcome (but `finish_recovery` of an ordinary leaf does); a goal is stuck only if the hierarchy it began with waited for itself or had a blocked parent |
| `GoalsTrue` | `CompleteIsTrue`, `NoBlindRepeat`, `RebindProgresses` | complete only when it is; nothing is repeated without a changed fact; a rebinding makes progress |
| `HandoffSound` | `ResumedFromHandover`, `IdleIsCovered` | a target resumes only what was handed over; a source leaves only what is resumed or ended |
| `GivenOnce` | `OneAnswer`, `NothingLost`, `OneSuccessor` | a lease is answered once and no item is lost; a chat has one successor however often it is asked for |
| `ReplicaSound` | `NothingOverwritten`, `NeverGoesBack`, `ReceiptTrue` | a push overwrites nothing, the replica does not go back, a receipt names a commit of the branch no older than the preview it describes |

The two violated properties are quoted from the repository's own documents; the
findings in `PROJECT.json` name the lines. The three passing properties most
likely to be misread: `MutualExclusion` and `JournalCovered` hold while a
recovery is run for a dead writer (`OperatorWaits`); `JournalCovered` and
`StoreHealthy` are about the time before a failed completion or a kill
respectively; `AppliedOnce` excepts two windows (a kill between the append and
the pending record, and between the removal of that record and the answer), which
the code cannot tell apart from a new request.

### Bounds, and why they suffice

- Locks: two writers race for creation, a third adds no step that reads more than
  the one file; one doctor and one recoverer each disturb them. Three inodes are
  one for the path and one for each other file that can still be open; two lock
  ids distinguish "mine" from "another one". In `lock_release` there is no
  recoverer and no kill, so two inodes are enough.
- Transactions: two targets show a half-restored bundle, two contents tell a
  changed file from the original; transactions follow each other without bound.
  `txn_recovery` needs no second content, since it asks whether something happens.
- Tasks: two processes are every race between two commands, and a third process
  meets the same two locks. `MaxAttempts` is 2 instead of 5: one attempt below
  the limit and one at it. `task_chain` needs one task, since other tasks touch
  it only through supersession, which `task_single` has. The kinds in
  `task_chain` reach every step of `_append_event` and the artifact steps; review,
  acceptance and closure run through the same steps with other rows of
  `EventSpecs`.
- Continuity: two assignments are enough for a skip, a block, a completion and a
  dependency; one is standalone and one a chain assignment, so four stages of both
  regimes occur. Two fingerprints give a repeated and a new strategy. `MaxStores`
  bounds the roadmaps ever started: one where kills and retries are the subject,
  two where the archive of a complete store is.
- `workspace`: two components show a cutover that is half done; three wheels of
  which two have one version; five paths with two nested pairs; two targets of a
  cleanup. One rewrite of a captured file, in two halves, meets every step of a
  capture; storage for two contents is full when the third comes. Three attempts,
  limits at two equal, three in all and four actions, so each is reached alone. Two
  chapters, one source, two edits and two builds: an edit before and one after a
  reading, and a second builder. Two files, two contents, two writes (so a file may
  return to its content), two builds or deliveries.
- `stores`: two records, two contents, two shards, two days; two roadmaps with one
  recent place, so that one is displaced; a goal of a root and two leaves of which one
  depends on the other, and one whose two branches wait for each other, with two
  repairs, so that the third of a split repair is reached; two handoffs over three native states; four items in
  batches of two, one unidentified, with a lease of one tick; three chats, one note; three synchronisations of
  two processes, two events, one foreign push: a native write and a push of somebody else
  fall between any two of the three readings.

Both runs take about two minutes, which is what limits them.

### Fairness

`lock_release` assumes that an operation once begun goes on until it ends
(weak fairness per process): nothing in it waits, since the flock is non-blocking
and a refused writer returns. `txn_recovery` assumes that a running writer and a
running recovery go on, and that somebody runs the recovery `doctor` asks for
(weak fairness of `Plan`); that is the documented duty of the operator, not a
scheduler in the code. No fairness is assumed of the begin of an operation.

## 4. What is proved

TLAPS checks the theorems below for every number of processes, targets, contents,
tasks and bounds. Each is `THEOREM ... == Spec => []P` (or `Spec => Abstract`) for a
property `P` that a run of section 3 checks on a small instance; where it needs more
than the assumptions of the module, the table says so. The argument is always an
inductive invariant that holds at the start, is kept by every action, and implies
the property; what it adds to the property, and why that is needed, follows the
table. The invariants were checked by TLC on the instance of the run before they
were proved.

| Theorem | Property | Needs besides the module's assumptions |
|---|---|---|
| `WriterLockProofs.Typing`, `NothingLeft` | `TypeOK`, `NoLockLeft` | - |
| `WriterLockProofs.Exclusion`, `LockNames` | `MutualExclusion`, `LockNamesItsWriter` | `OneRecovery` |
| `WriterLockProofs.Covered` | `JournalCovered` | `OneRecovery`, recoverers are not killed |
| `TransactionProofs.Typing` | `TypeOK` | - |
| `TransactionProofs.DiagnosisSound`, `Implements` | `DiagnosisIsSound`, `ImplementsAtomicMutation` | `OperatorWaits` |
| `TaskWorkspaceProofs.Typing` | `TypeOK` | - |
| `TaskWorkspaceProofs.Chains`, `Blocked`, `Card` | `ChainsValid`, `BlockedStays`, `CardCurrent` | `StandingSpec` instead of `Spec` |
| `TaskWorkspaceProofs.Durable`, `WithoutProposals` | `CommittedStay`; the three above, of `Spec` | no command is a proposal |
| `TaskWorkspaceProofs.Implements` | `LedgerImplementsBoard` | the same, and at most one task begins proposed |
| `TaskWorkspaceProofs.OneActive`, `DiskImplements` | `OneActiveTask`, `DiskImplementsBoard` | `Calm` |
| `ContinuityStoreProofs.Typing`, `Once`, `Healthful` | `TypeOK`, `AppliedOnce`, `StoreHealthy` | - |
| `ContinuityStoreProofs.Implements` | `FlowImplementsRoadmap` | `Remembering` |
| `WorkspaceProofs.JournalTrue`, `Recoverability`, `ReceiptTrue`, `Layout` | `InstallJournalTrue`, `UpdateRecoverable`, `UpdateReceiptTrue`, `LayoutPlanApplies` | - |
| `ContentProofs.Cleanup`, `Search` | `CleanupUndone`, `SearchSound` | - |
| `ContextProofs.Library`, `Executor`, `Context` | `LibrarySound`, `ExecutorSound`, `ContextSound` | - |
| `StoresProofs.Handoff`, `Given`, `Replication` | `HandoffSound`, `GivenOnce`, `ReplicaSound` | - |
| `StoresProofs.GoalTrue`, `GoalKept`, `Storage`, `RoadmapsKept` | `GoalsTrue`, `GoalsKept`, `StorageSound`, `RoadmapsRemembered` | - |
| `WorkspaceProofs.WorkspaceTyped`, `StoresProofs.StoresTyped` | `TypeOK` of `MCWorkspace` and of `MCStores` | - |

### Assumptions

About constants (TLC evaluates each in a run): processes of different kinds are
different and sentinels like `None` are no members of the sets they extend; bounds
and limits are numbers, and limits that the code fixes are at least one
(`BoundAssumption`: revisions, leases, edits and the storage limit); files and
chapters are finitely many; dependencies of a roadmap have a depth, as
`validate_roadmap` makes sure; folders form a tree; every digest has a shard; entries
of the combo have an id, a key and a sequence; a goal starts with any of `Plans`, trees
without repairs, as `_nodes` makes sure.

Further conditions stand in the theorems. They exclude behaviour that section 5
describes:

- `OneRecovery`: the operator recovers only what a dead process left, one recovery at
  a time. Two recoveries of one lock exclude each other only until the first unlinks.
- `StandingSpec`: no proposal takes back a task in which another command holds the lock
  or has committed. A proposal may still fail or be killed at each of its steps, be
  recovered, and be taken back while nobody else has begun to write into its task.
- No command is a proposal, for `Durable` and `Implements`: an event committed to a task
  whose proposal has not ended goes when that is aborted (section 5), and a command that
  overtakes a proposal makes the first commit to the task, which the board does not know
  yet. `LEMMA StandingDurable` says the first is the only way to lose a committed event.
- `Calm`: nothing is rolled back and no artifact is copied. It is necessary: the run
  `task_dirty_read` shows two active tasks after a rollback.
- `Remembering`: all assignments of a roadmap have a class, or none is standalone.

### Locks

Mutual exclusion is not inductive: a lock file may be unlinked by a writer that has
closed it already. `ExclusionInv` adds `OneOwner` (at most one writer is between its
exclusive creation and its unlink), `OwnerFile` (until it has closed the file, that
writer's handle is the entry, with its flock and metadata once taken) and `StaleFile`
(a recoverer whose digest matched has the file of a dead writer, so that nobody owns
it). `JournalInv` adds that a journal in `active/` is named by the lock file, that
none is there while the owner creates or removes it, and that backups have no owner.

### Transactions

That a diagnosis is sound says nothing of how far a rollback has come, so `UndoInv`
adds `Roles` (who may be active with which lock), `RecordsDescribeOrigin` (each
record holds the content before the mutation, an untracked target still has it) and
`RollbackProgress` (during a rollback every target whose record is no longer in
`todo` has its former content again). All of it is about the transaction begun last, so a
writer that begins over an abandoned one starts it anew: what the files are then is what
they were "before". For the refinement `NoneAbandoned` says that a transaction is given up
only where a step outside the body may fail or a recovery be killed.

### Tasks

`ChainInv` adds `Held` (the lock of a task is held exactly by the process in a
transaction on it) and `OnDisk`: every chain on disk is the committed one, which the
process in the transaction has read, plus its legal event once written. Proposals make
"the committed one" weaker (`Backed`): a task whose proposal is not finished has its one
event on disk and nothing committed, and whoever overtakes the proposal builds on that
event. `CardInv` adds for each step of a transaction what card and evidence show.
`CalmInv` follows proposals, which hold another lock than the commands they meet: what
a proposal has seen ended stays ended, because nothing follows an ending event and
nothing is rolled back.

### Continuity

`OnceInv` says where the only result of each request can be: with its caller, or in
`pending`, which belongs to whoever is in the lock; only a kill in the two windows of
`AppliedOnce` (`lapses`) breaks this. `HealthInv` says for each step in the lock
which files are already those of the next ledger and which still those of the old
one (`Halfway`), so that the last step leaves them in agreement. `FlowInv` is about
the ledger alone: passed and skipped are disjoint, and the current assignment has
failures left.

### Installation

`InstallInv` ties each step of an update to what the cache, the journal and the
installed wheel are at it. `UpdateInv` says where each component is at each step of a
cutover and of a recovery (`Places`), that those after the current one are untouched,
and that every step of a recovery can be repeated.

### Content

`CleanupInv`: while a target is moved it is in the workspace or, whole, in the
checkpoint. `SearchInv`: an index is of files as they were, and its generation tells
whether a document in it may be reused; a second builder is told by the generation it
has read. `LibraryInv` rests on the halves of a file that only grow: a file whose
identity is the same before and after a copy was that all along. `ExecutorInv` says
that an attempt was appended to the chain its recorder had read while the task was
open, so that limits were free before it. `ContextInv` is the longest: `HistoryInv`
(what is replaced never comes back), so a file read twice with one content had it all
the time in between, and all files of a confirmed route had theirs at the moment when
the second reading began; `OutputsInv` (what is published is older than what is
there, and none replaces a newer one), kept by `JournalOf`, what the journal would
restore; and `BuilderInv`, this for each step of a build. Freshness, a recursion in
the code, is proved to be its definition by closed sets, by a least counterexample.

`WorkspaceTyped` says of these components, besides the forms of their records, what
their bounds promise: the sources kept never exceed the storage limit, because the
check and the copy lie under one lock and a copy is one source more (`OneIsAdded`); no
executor records an attempt past its total; whoever publishes a package or a chapter
has the writer lock.

### Stores

`HandoffInv`: a record and its acknowledgement name states that have been, with the
evidence taken in them. `QueueInv`: the batch of a lease is younger than every answer
to its items. `NavigationInv`: successor and predecessor name each other, so that a
call that is repeated finds the first answer. `ReplicaInv`: what a synchroniser has
seen lies between its base and the store, so that a push on top of its base does not
go back; and what it previewed lies before what it read last, so that a receipt is of
nothing newer than its commit. `OutcomeInv`: whatever changes takes the last answer
back, so that an answer is the decision of now, and reports come from sources the
outcomes can have.
`StorageInv`: the plan of a cleanup, while the revision it was made of is the current
one, names nothing that a record or a kept generation needs, and nobody else writes
while it is applied; in the index a record is as it is, except while its own update is
at work. `ConnectedInv`: every commit makes the revision of the combo greater, so that
none returns, and what a view names has been the combo (`Past`); whatever the reader
holds that would make its answer CURRENT was seen as such (`Watching`), so that a later
commit can only make it stale; an entry that leaves the newest ones goes to the index
under its id, where that id stays, or has made way for one with its key (`Remembered`).

`GoalInv` is about every hierarchy at once, those of supervisors included: a parent is
older than its children (which makes `Ancestors`, a recursive function, well defined,
by a least counterexample), and every outcome was worked off, or closed by a
`finish_recovery` of an ordinary leaf, or is owned by an open leaf that is not below a
repair. Waiting is the third part (`Circles`): a set of nodes of which each waits for one
in the set, where a node waits for its children and for what its ancestors depend on, has
above it such a set of the first hierarchy. This survives the splitting of a leaf without
renumbering, since the set with the two new nodes replaced by their parent is one as well.
A goal that is stuck has such a set in what is not finished, or a blocked parent, which
only the first hierarchy can have.

### Not proved

Liveness (`LockReleased`, `RecoveryCompletes`) is out of the prover's reach, and the
two violated runs are counterexamples. Every other property of the runs is stated by a
theorem, under the conditions named above; the runs of `TaskWorkspace` with failures
have no proposals, so that proposals which fail are covered by the proofs only. The
induction theorems of the library cannot be instantiated, so inductions are by a least
counterexample (`Least`, `LeastNumber`), from the theorem that inclusion of finite sets
is well founded.

## 5. Behaviour the assumptions exclude

Each of these was met as a counterexample while modelling; the assumption that
excludes it is named, so that nobody takes the result for more than it is.

- A recovery started while the writer is alive breaks exclusion
  (`integrity.py:1253`; `OperatorWaits`): between the writer's unlock and its
  unlink the recoverer takes the lock and later unlinks the next writer's file.
- A recovery planned early restores only the records read before the lock
  (`integrity.py:1126`; `OperatorWaits`).
- A doctor's probe makes a lone writer fail with "Another writer is active"
  (`integrity.py:467`), and a doctor may report a lock that is being created or
  removed as interrupted (`integrity.py:485`). Neither breaks a checked property.
- A kill before the intent is durable leaves a lock file without a transaction
  (`integrity.py:602`), which `recover` cannot remove.
- A failing abort, completion or recovery releases the lock over an active journal
  (`integrity.py:850`, `1253`) that no lock file names, so that nobody is offered its
  rollback, and the next writer works over half-restored files. `JournalCovered` is about
  the time before; `AtomicMutation` calls the mutation abandoned.
- A lock file that cannot be unlinked stays (`integrity.py:442`, `493`); in `WriterLock`
  an unlink succeeds, and `NoLockLeft` is about the failures of the other steps.
- The abort of a proposal removes an approval committed meanwhile
  (`workflow.py:1643`; `Durable`): the task is visible, and its own lock free, from
  the rename (`workflow.py:1595`) until the proposal has written its receipt.
- Two result submissions may replace each other's file (`workflow.py:1749`); the
  loser's event is refused.
- A flow that is blocked by an earlier skip cannot be loaded again (`flow_skip`);
  `StoreHealthy` is about flows that are not blocked.
- A kill after a handoff, context or claim file was written and before its event
  leaves a continuity store that does not load (`continuity.py:1556`,
  `host_protocol.py:213`); `StoreHealthy` is about the time before a kill.
- Roadmaps in which only some assignments have a class forget what was skipped
  (`continuity.py:663`); the runs use fully classified roadmaps.
- Parked inputs return in the order of their names (`host_protocol.py:332`).
- A recovery killed after it made `transactions/backups/<id>` can never be repeated,
  although `doctor` still offers it and `docs/troubleshooting.md:106` says to use
  `workspace recover` (`integrity.py:1181`); `txn_recovery` is about recoveries that
  are not killed.
- A result submission refused by the lock with an `IntegrityError`, or killed after
  its copy, leaves a file in `artifacts/` that no event names, and the task cannot be
  loaded again (`workflow.py:1871`).

Content:

- A file that is edited and edited back between two readings (A-B-A) defeats the
  comparison of digests in `build_context_package` and `pack_project`
  (`navigator.py:921`, `core.py:684`); in `ContextRoute` an edit is always new. The
  generation of the search index holds no times (`search_index.py:602`), so an older
  builder may replace a newer index after such edits; the status then finds it stale.
  If a third builder brought the same generation back, the legacy index may then be of
  other documents, unnoticed. Two builds, the bound of the run, do not reach this; the
  proof did, and `ProjectionsAgree` excepts it.
- A file that was absent at both readings of a pack may have been there in between;
  two absences cannot be told apart. `OneInstant` is about the files that are present
  in a package. This, too, was found by the proof.
- A builder whose legacy index fails takes its search index back. Another builder
  that read it meanwhile takes its own documents for unchanged and leaves the
  restored index in place, with the legacy index new (`search_index.py:788` and
  `638`): `ProjectionsAgree` excepts it (`torn`), as it does a kill between the two.
- The coverage of a delivery is of the index at that time, its items may be from an
  older one (`search_index.py:1300`); `CompleteTrue` is about deliveries while nobody
  writes files.
- A killed proposal leaves a hidden staging directory, and every later proposal is
  refused (`workflow.py:1015`, `task_staging_incomplete`).
- The rollback of an executor package that was published and cannot be validated
  (`playbook.py:1634`, `1649`) is one step with the publication in `Executors`.
- A killed `create_chapter`, registration or preparation leaves a hidden directory
  that makes every rebuild fail (`catalog.py:567`), every revision unloadable
  (`playbook.py:704`), or the executor exist for ever (`playbook.py:1620`).
- After the first attempt any other package in `.opencntx/latest` makes the executor
  stale for good (`playbook.py:1955`).
- The `finally` of `remove_derivation` deletes the moved text even if it could not be
  moved back (`media.py:1353`), and a kill leaves names that keep all derivations of
  the source from loading; `UsableUnlessCut` excepts both.
- An edit of `INDEX.md` by hand between the check and the replace is overwritten
  (`catalog.py:1341`).

Stores:

- A kill between the state and an index of the adaptive storage leaves the index
  behind for good (`adaptive_storage.py:473`); `SearchAgrees` excepts such records.
- A kill between the creation of the combo directory and its first `CURRENT` makes
  every later publication refuse (`connected_state.py:245`). Decisions and conflicts
  beyond their bound have no index and are dropped (`combo.py:272`).
- A source session that advances after the acknowledgement and idles while its
  target has died leaves no session on the goal; an acknowledgement
  `RECONCILE_REQUIRED` is never replaced (`session_continuity.py:567`). Two handoffs
  prepared from one state may both be resumed.
- The validation of a goal hierarchy accepts waits across subtrees that block each
  other (`goal_progress.py:125`), for instance children of A and B of which each
  depends on the other's parent; such a goal is stuck from the start (`NeverStuck`).
- `finish_recovery` should "Finish only the repair; resumption still owns the original
  outcome" (`goal_progress.py:459`), but takes any leaf that one beside it depends on
  (`460`) and so closes the outcome of an ordinary one; `OutcomesKept` excepts it.
- The repairs of a goal are bounded by three where a recovery begins (`426`), but the
  resumption of a split repair counts as well (`430`), so that there may be four, and
  every later recovery is refused. Left out, since they only refuse: the recovery round
  of the native store, the limits of fifty nodes and eight levels.
- A replica holds files that were read one by one (`continuity_sync.py:376`), so it
  may mix two states of the store. Its receipt has the digest and counts of the preview
  (`432`, `436`), which a native write before the third reading makes different from
  what the commit holds, although `docs/continuity.md:252` says that a changed preview
  stops the synchronisation; `ReplicaSound` says what remains.
- A roadmap started during a publication meets a publisher that holds another lock
  (`continuity.py:1384`); `CurrentWasTrue` is about owners who do not.
- A kill between the queue and its plan file leaves a queue whose plan is never
  written (`scale_assurance.py:283`).

Installation:

- A copy cut short by a kill makes `apply` and `recover` refuse
  (`transactional_update.py:517`, `540`); `Recoverable` excepts it (`torn`).
- The replacement of a wheel by another of the same version, killed before the
  package manager ran, is reported as healthy by `resume_update`
  (`install_manager.py:825`); `OutcomeIsTrue` excepts updates
  that leave the version as it was.
- A kill between the directory and its owner marker leaves a cache directory that is
  refused from then on (`install_manager.py:735`).
- A move whose destination lies inside the source of a later one is not examined
  (`layout_plan.py:497` compares destinations with destinations and sources with
  sources), so it changes what the later move was planned for; `VerifiedApplies`
  excepts such a pair.
- A rename that fails while the artifacts of an installation are placed takes the new
  wheel and its directory away again (`install_manager.py:758`); `InstallManager` leaves
  this out, and has the kill there.
- An owner who creates a cleaned target again makes its restore refuse
  (`lifecycle.py:1481`); in `Lifecycle` the owner only writes targets that are there.
- A kill inside the removal loop of a restore leaves what the owner must undo from
  the checkpoint by hand (`lifecycle.py:1437`).

## 6. Plan

1. Locks, transactions, task workflow, continuity flow, the content of a workspace,
   the stores and the installation: modelled as above.
2. Proofs: section 4. Every safety property of the runs is proved; next the theorems
   whose assumptions can be weakened: `OneActive` with rollbacks of other commands than
   cancellations first, then `Implements` with proposals.
3. Abstract specifications still worth stating: `UpdateCutover` as "all old or all
   new", which `AtomicMutation` already says; `SearchIndex` as one map from files to
   contents.
4. Missing operations: capsules and the finalization guard of `continuity.py`,
   heartbeats, schema migrations of `lifecycle.py`, `layout.py`.

Runs stay at twelve: a later module joins `workspace` or `stores`, or takes the place
of a run that only demonstrates a known violation, whose finding then moves to
section 5.

## 7. Not modelled

Formatting, parsing, ranking and snippets of searches, byte and token budgets,
command line and texts: no property is about them. Also left out are operations that
are functions of one reading (status and verify reports, session metrics, assurance
plans, technique cards and adoption manifests, permission audits), the schema
migrations of `lifecycle.py`, `layout.py`, and the capsules of `continuity.py`. The
project layer, the security filter and presentation keep no state between calls. Power
loss (as opposed to a killed process) and file systems without atomic rename are
outside the model: every completed write is taken as durable, as the code's fsync
discipline intends. Windows locks differ from flock and are not modelled.
