# A TLA+ development of ach-agent

ach-agent runs coding agents for events that arrive on channels (webhooks, queues, cron, A2A).
A **control** process (`src/runtime`, Python, one event loop) admits deliveries, keeps one
**Workspace** per unit of work alive on a host, and sends prompts to the **execution unit** (the
mini-harness) of that Workspace. A **host** (`src/operator/internal/host`, Go) creates and removes
the units. The files of a Workspace and of its sessions survive in **S3**, guarded by a fenced
registry. This directory models the parts where the order of events decides correctness, checks
them with TLC and proves the central ones with TLAPS.

## 1. Inventory

| Component | State | Operations | Hard behaviour | What makes it correct |
|---|---|---|---|---|
| Snapshot storage (`storage/s3.py`, `storage/fencing.py`) | registry document per domain, immutable snapshot objects, commit records | `acquire_writer`, `persist`, `restore` | lost and late answers, retries, crash between upload, CAS and record, two writers | pointer durable, commit once, only the current epoch commits, acknowledged work kept |
| Lifecycle (`harness/lifecycle.py`) | leases, bases, failed saves, idle clocks | restore, close with retry window, tick, session saves | a put that outlives its timeout; a tick that races deliveries | a failed close is retried; a lost unit is noticed; only what is saved is deleted |
| Admission (`harness/admission.py`) | tickets, released keys, lanes, monitors, permits, recovered runs | `admit`, `recover`, lane consumer, monitor, `close` | deadline against dequeue, re-admission, close in the middle of anything | counted capacity, one generation at a time, every future answered |
| Workspace manager (`harness/workspaces.py`) | slots, published endpoints, retained errors, per-ref lock | `ensure`, `_start`, `_retire`, `close`, `recover`, `adopt` | late retire confirmations, loss during close, adoption with the gateway down | a slot is free only when no unit writes; waiters are woken |
| Hosted source (`harness/hosted.py`) | desired entries, registrations, inventory, gateway flag | `place`, `retire`, `register`, `unregister`, `accept_inventory` | requests of a host that acts on an old listing | a stale DELETE never removes a new entry |
| Host loop (`operator/internal/host`) | last listing | `Sync`, `Pass`, `ensureRunning`, `retire` | stale listings, calls that time out and still arrive | no leaked unit, no unit confirmed stopped while it runs |
| Execution service (`execution/service.py`, `sessions.py`) | invocations, session locks, cleanup budget | `start`, `cancel`, deadline watch, settlement, `close`, snapshot, restore, retire | four triggers race for one cleanup; an owner that ignores cancellation | one run per session, halt confirmed before release |
| Delivery (`harness/delivery.py`, `control.py`, `transfer.py`) | pinned instance, prepared requests, recovered runs | prepare, Start, status polling, cancel, reconnect | a Start whose answer is lost; an instance replaced behind its endpoint; a control that restarts over running work | one admission reaches one instance; running work is held by a ticket; every delivery ends |
| Channels (`channels/*.py`, `harness/app.py`) | stream cursor and batch, scheduled tick, cancel events and emitters of A2A tasks | consume, sweep, ack, fire, execute, cancel, post | crash between Started and ack; several executes of a task; shutdown in the middle of a wait | an acknowledged entry was started, a pending one is delivered again, a cancel reaches who waits |
| Scripts and handoff (`harness/scripts.py`, `handoff.py`) | process group, directory | run, time out, kill | deadline against spawn and exit | a process lives no longer than its ticket |
| Engines (`engine/*.py`) | native sessions and processes | start, cancel, suspend, snapshot, restore | process that does not die within the halt budget | halt is confirmed, never assumed |
| Artifact store (`storage/artifacts.py`, `facades/artifacts.py`) | body and manifest object per artifact | create, read | conditional puts that are lost, late or raced by a repeated call; expiry; damaged bodies | one artifact to everybody: receipts, manifest, body and reads agree |
| Facades, hydration, rendering, CRDs, observability | none or write-once | proxy, render, validate | none (pure or stateless) | - |

Interactions: a channel calls `Admission.admit`; the lane's runner calls `WorkspaceManager.ensure`,
then delivers to the unit; the manager publishes desired entries in the hosted source, which the
host lists, and which the host answers with registrations, deletions and inventories; the manager
calls lifecycle hooks that restore from and persist to S3; the lifecycle tick calls `close` and
`recover` of the manager. `PROJECT.json` lists every component, also those not modelled, and the
hazards of the code with the property that covers each.

## 2. Modules

| Module | Models | Kind |
|---|---|---|
| `FencedRegister` | what the storage contract promises of one domain | abstract specification |
| `SnapshotStore` | bucket, writers, late puts | component |
| `SnapshotStoreProofs` | its theorems | proofs |
| `Restores` | `S3Storage.restore` and `storage/cache.py`, extends `SnapshotStore` | component |
| `Artifacts` | `storage/artifacts.py` | component |
| `Storage` | the bucket with its writers, restores and artifacts | composition |
| `StorageProofs` | theorems of `Storage`, extends `SnapshotStoreProofs` | proofs |
| `DeliveryLedger` | what deduplication promises of one delivery key | abstract specification |
| `Admission` | `harness/admission.py` | component |
| `AdmissionProofs` | its theorems | proofs |
| `HostedSource` | `harness/hosted.py` | component |
| `Workspaces` | `harness/workspaces.py`, extends `HostedSource` | component |
| `Hosting` | host loop, units, gateway; composes the two above | composition |
| `HostingProofs` | its theorems | proofs |
| `Execution` | `execution/service.py`, `sessions.py`, the protocols of `snapshots.py` and `app.py`, the opencode engine as the service sees it | component |
| `ExecutionProofs` | its theorems | proofs |
| `SessionSaves` | the session half of `harness/lifecycle.py` with S3 persistence | component |
| `SessionSavesProofs` | its theorems | proofs |
| `Dispatch` | `harness/delivery.py`, the runner and the recovery of `harness/control.py`, the hook of `harness/handoff.py`, with the unit's record of each run | component |
| `Channels` | `channels/queue.py`, `cron.py`, `a2a.py`, the webhooks of `harness/app.py`, `harness/scripts.py` and the life of the control (`harness/boot.py`); extends `Dispatch` | composition |
| `ChannelsProofs` | theorems of `Channels` and `Dispatch` | proofs |
| `ProofFacts` | lemmas about queues, minima and finite sets for the proofs | lemmas |
| `MC*` | constants, symmetry | model checking |

Everywhere, an action is what the code runs between two awaits (or between two calls of the host),
so any other process may run between two actions. A definition whose comment starts with "Mutant"
is not part of a specification: it is a plausible error that must break a property.

### SnapshotStore

`registry`, `blobs`, `records` are the objects of one domain; `inflight` holds conditional puts
whose caller has stopped waiting and which S3 may still apply. A *writer* is a control process with
the instance it drives; `pc` says which await of `acquire_writer` or `persist` it is at, `cur` is its
last read of the registry, `base` is `Lifecycle._bases`. `files` and `content` are sets of
snapshots: the work an instance's files, or the bytes of a snapshot, contain. `hist` is a history
variable.

* An ETag is a hash of the object, so the document stands for its ETag. The absent registry is the
  document with epoch 0 and generation 0.
* A close draws a fresh uuid, so a snapshot id never belongs to other bytes and the
  `SnapshotConflict` branches cannot be reached. What a restore does with retention, checksums and
  the cache is in `Restores`.
* `Start` merges the reads of `current_writer` and `restore`; `AcquireRejected` may fail at any
  time, which covers the 20 attempts of the loop; the guard against a backend that rejects the ETag
  it just served is not modelled (a correct backend never does).
* `PutUnanswered` is a fault with three outcomes: applied, never applied, or left in `inflight`.

### Restores, Artifacts, Storage

`Restores` adds callers of `restore` to the bucket. `restore[r]` says which await a call is at, the
registry document it read and the bytes it has; `known` remembers what had been acknowledged to
anybody when it began. The cache is a sequence of slots, least recently used first; a get and a put with its
eviction are atomic because the code holds one lock. Bytes are the snapshot they are the archive
of, or `Damaged`: a size or checksum that does not match. `expired` may grow at any moment.
The cache is part of `storage/` but no production code constructs one; a restore without it is the
case `CacheRoom = 0`, in which every get misses.

`Artifacts` has one artifact id: `body` and `manifest`, each created once, calls that publish
(`pub`), calls that read (`read`), puts nobody waits for any more (`stray`), and every receipt that
was returned. Descriptor, checksum and size are one value; `created_at` is the only date, and the
expiry follows from it. A publisher whose call is over may call again, as a run does that did not get
its answer. The expiry is tested before a body is downloaded and not after it, as in the code.

`Storage` composes the three. A behaviour is about the writers (with all faults), about restores
beside two writers, or about the artifact: the objects have different keys and no code path touches
an artifact and a snapshot together.

### Admission

A ticket is a key and a generation. Time is abstract: `overdue` and `windowOver` may grow at any
moment. Futures are none, pending or done. The rate window of a channel, which only refuses
deliveries, is left out. The runner is the environment: it may start, end or hang.

### HostedSource, Workspaces, Hosting

An entry of the source is identified by a number that stands for the Python object and its
registration (the base URL follows from the name). `tasks` is the FIFO of the per-ref lock and `op`
what its holder awaits. `listing` is what the host last read; `todo` what is left of its pass;
`wire` the DELETE calls that timed out and may still arrive. `gateway` merges the host's report with
what the backend really sees. Ids that nothing refers to are used again, so the number of
activations is not bounded; only faults are. Restore and reconnect are one await ("prepare"), since
both fail the same way. The `probing`/`serving` label of an entry is only reported, never read, and
is left out. A `WorkspaceConflict` of `place` is unreachable: an entry stays only while its slot is held.
At most one close of a Workspace is under way because only the lifecycle tick calls it.

### Execution

`inv` is `_invocations`: each record says where the run's owner task, deadline watch, settle task,
cleanup, engine cancel and owner stop are. `lock` and `queue` are the `asyncio.Lock` of a session
with its waiters. `native` is what the engine knows of the session's process (alive, exited cleanly,
halt confirmed) and `work` what that process really does with a prompt: the gap between the two is
what the cleanup has to close. `op` is the session operation that holds or waits for the lock.

* Time is nondeterministic: `expired` may become true at any moment, and a bounded wait (the owner
  stop, the halt budget, the observation of a cleanup) may run out at any moment.
* A status other than 200 to the prompt means that it was not taken; a lost or unreadable answer
  leaves it open, and a prompt in flight may still be taken after its sender gave up.
* A session operation always passes through the queue of the lock, also when the lock is free.
* Waits of a cleanup that the code runs in two tasks of one `asyncio.wait` start in one step.
* `Start` evicts at most one record, since the registry never exceeds its limit, and the
  idempotency window of a record may be over or not. A second `start` of a retained run only joins
  its future and is not an action.
* Left out: `configure`, usage reports, `prune`. Runs adopted from a restored session are in `Dispatch`.

### SessionSaves

`unit` is what the mini-harness knows of each session: whether it lists it, whether it was
initialized, what is in its HOME, and its process. `stored` is the content of the latest snapshot,
`ticket` how far the delivery of the session is (`none` is `has_work` false), `saves` the four sets
of `Lifecycle` (failed, with a retry time, retire pending, close confirmed), `tick` the progress of
`_tick_workspace` and what it has read so far, `late` the retires that outlived their call. A
member of `Works` is what one run leaves in a HOME, so that a HOME and a snapshot are sets.

* The operation lock is held by a tick or by the preparation of a delivery; a run, the start of a
  prepared delivery and the unit take steps in the middle of a tick.
* Nothing orders a run and a tick: a prepared delivery may start and end between any two calls of a
  tick. `tick.new` is a history of the sessions that did start one since the inventory was read.
* Clocks are abstract: a live session is idle long enough or not, a retry time is over or not.
  The early returns of a tick (no writer, retry time of a failed close not over) are stuttering.
* The unit is what `Execution` says of it: an export stops the process and fails if its exit was
  not clean, a retire is refused while a run or the process is alive or uncertain. A commit is one
  step (`SnapshotStore` has its parts); a commit whose window ended may have landed.
* A close confirmed by the manager removes the unit and every HOME. The next unit is another
  instance, so no key of `saves` names it. The loss of a unit is in `Hosting` and not here.
* A control restart keeps the unit and its runs (they are recovered) and forgets the rest.
* Faults are named, and a cfg chooses which may happen: `halt` is a process killed by the cleanup of
  its run with the halt confirmed, `uncertain` the same without confirmation, `late` a retire that outlives its caller, `retire` one that is
  lost or whose answer is lost. `conflict` is a refused writer, after which nothing retries; a
  failed close of the Workspace is always transient here.

### Dispatch, Channels

A delivery is named by its key, which is its invocation id: both are derived from the channel and
the event id, so a redelivered event has the same one. Two admissions of one event differ in the
deadline of the ticket, here its *generation*, and the unit answers a Start with another deadline with
409. `phase` says which await of `Control.run` a delivery is at, `pin` the instance it holds, `post`
the request it waits for and `stray` requests that may still arrive. `unit`, `active` and `lost` are
the running instance, the published one and `_lost_instances`; `rec` is the unit's record of each run
and `archive` what the session archives say of it. `prompts`, `begun` and `outcome` are history
variables: engine sends, Starteds published by a unit, outcomes recorded.

* Admission, the manager, the host and the run itself are reduced to what a delivery sees of them;
  `Admission`, `Workspaces`, `Hosting` and `Execution` have them in full.
* `Faults` names what may go wrong and every behaviour has a bounded number of faults. A *mix* gives
  the channel of each delivery, how often it may be admitted and that number.
* A consumer batch and the pending cursor of the stream consumer are kept; ids of
  entries and times of ticks are ordered like the keys. At the end of the pending entries the server
  answers with the stream and an empty list, so the reset of the cursor and the time of the next
  sweep (`queue.py:121-123`) are code that is not reached and not in the model. The rate of a channel and a full queue are
  the fault `admit`.
* An A2A execute keeps the cancel event it was registered with, so that an execute that outlives the
  entry of its task in the bridge would be seen. A repeated `execute` after the end of a task whose
  idempotency window is over is not modelled.
* The process of a script or a hook and its directory are one member of `procs`. Children that a
  script leaves in the background after it exits with success are not killed by the code and are not
  modelled.

## 3. Runs

| Run | Instance | Shows |
|---|---|---|
| `Storage` | writers: 3 controls in turn, 2 instances, 2 closes, 2 faults; restores: 2 controls, 1 restorer, cache of 1 entry, 1 damaged copy; artifact: 3 publishers (one with other content), 1 reader, 2 mishaps | everything the store promises, without overlap; a restore gives out committed, undamaged, acknowledged work; an artifact is one thing to all |
| `SnapshotStoreRetry` | 1 control, 1 late put, fair | **violation**: a failed close is never tried again |
| `Admission` | 2 keys, one admitted twice, in one lane, in two, or beside a script; runners that hang; fair | counting, deduplication, answering; every queued delivery is answered; `close()` returns |
| `Hosting` | 1 Workspace, 2 faults, fair | slots, publication and confirmation of stops; timeouts settle, losses are noticed, adoption ends, no unit is leaked |
| `HostingPair` | 2 Workspaces, 1 slot, 1 fault | waiters are woken by whatever frees a slot |
| `Execution` | one session with 2 retained runs and the gate hook; with 2 runs of which one is retained, and exports; with 1 run, the gate hook and all session operations; fair | one run at a time works in a session; freezes, copies and close find it quiet; answers and outcomes are final; eviction forgets nothing that is still owned; every start is answered and every run reported |
| `SessionSaves` | 2 sessions, 2 runs, 2 faults of 8 kinds, fair | only saved work is deleted, unless a close overlooks the session; an archived session is continued; a run never loses its HOME; an idle session is saved or given up |
| `SessionSavesInventory` | 1 session, 2 runs, no fault | **violation**: a close deletes the work of a run that began after the inventory was read |
| `SessionSavesPending` | 1 session, one failed retire, fair | **violation**: later work is never saved |
| `Channels` | one delivery of each channel with 1 or 2 faults of 15 kinds and up to 2 admissions; two queue entries, or an entry and a tick, without faults; 2 instances, 2 executes; fair | a Start reaches one instance; an acknowledged entry was started; running work is held; waiters are reached; deliveries end and pending entries are delivered again by the sweep |
| `ChannelsPending` | 1 queue entry, refused twice by Admission, fair | **violation**: an entry the sweep has passed is never delivered again |
| `ChannelsUncertain` | 1 queue entry, one ambiguous native send | **violation**: the ticket of uncertain work is released |

Why the bounds are enough: the errors these properties exclude need one stale read and one lost or
late call; two snapshots give a predecessor and a successor, two generations a re-admission, two
faults a timeout with a late arrival or a restart; two runs of one session are a run
that is being given up and the one that waits for its lock; two sessions are the one a tick saves
and the one that is used meanwhile; two instances are the one a Start was sent to and its
replacement, two executes the one that leaves and the one that stays, two entries a batch with a rest. For every property
`PROJECT.json` names a plausible error of the code that breaks it within the same bounds.
The safety properties of `Execution`, `SessionSaves` and `Channels` are also proved for every bound
(section 4), so that these runs are sized by their liveness properties.
Every run allows termination (`CHECK_DEADLOCK FALSE`): faults, keys and snapshots are bounded, and
a closed or stopped process does nothing.

### The violations

* `SnapshotStoreRetry`: a commit that lands after the retry window leaves `_bases` behind, so the
  next close is a `ConcurrentModification`, which `_do_close` retains for ever. The contract says
  that a failed persistence keeps being retried.
* `SessionSavesPending`: a key of `_pending_session_retire` survives later activity
  (`lifecycle.py:532`), so after one failed retire nothing but the retire is tried again; it is
  refused while the process of the session lives, and what a later run leaves is never exported.
  The contract orders a close as stop, snapshot, persist, release.
* `SessionSavesInventory`: `_tick_workspace` lists sessions and runs once (`lifecycle.py:614`). A
  delivery of a session that is not on the list, prepared before the tick, starts and ends while the
  tick awaits its calls; at the end `has_work` is false (682), nothing of the session is in
  `active_refs`, and the close (690) removes the unit with a HOME that was never exported. The
  contract starts the idle time of a Workspace when it has no open session.
* `ChannelsPending`: the sweep of pending entries starts anew only on an empty reply
  (`queue.py:121`), and `XREADGROUP` with an id other than `>` never gives one: it answers with the
  stream and no entry. The cursor stays behind the last entry, so one that was refused, expired or
  not acknowledged when the sweep passed it waits for the next control. The contract says that an
  entry over a rate limit stays pending and is retried later. The fake client of the tests does
  give the empty reply.
* `ChannelsUncertain`: when the native send is ambiguous the unit keeps its run as unknown and answers
  503 (`execution/app.py:107`); `delivery.py:154` takes every status but 202 for a rejection, so the
  ticket and its permits are released while the prompt may be at work. The comment at `control.py:662`
  says that uncertain work is not released.

### Limits of what is shown

The properties say under which conditions they hold; outside of them TLC finds counterexamples.

* `AckedIsKept` needs controls that do not overlap (`Overlap = FALSE`). The restore reads the latest
  snapshot and `acquire_writer` reads the registry again (`lifecycle.py:254`): a commit of another
  control in between becomes the predecessor of files that do not contain it. The contract says that
  fencing does not make an overlap correct. `Fenced` and the refinement are proved with overlap too.
* `SeenCopyIsKept` is `OnlyCopyIsKept` without the close that overlooks a session
  (`SessionSavesInventory`). Both exclude sessions whose process was killed. A pending retire then deletes what a
  later run left. A key of `_confirmed_session_closes` is removed only by a tick that sees activity
  (`lifecycle.py:675`), so a session restored, used and killed between two ticks counts as saved and
  goes with its Workspace. The contract allows a forced stop to lose work.
* They also exclude sessions with a retire still on its way, and `SessionContinues` units where a
  retire outlived its call: `_retire_session` waits 10 s, then the lock is released; a delivery that
  sees the session initialized restores nothing, and the unit may execute the retire after that.
* `IdleIsSavedOrGivenUp` is `IdleIsSaved` without the sessions the code gives up on (`GivenUp`): a killed
  or uncertain process and a refused writer leave a session unsaved by design, a failed retire does so
  too (`SessionSavesPending`). Both are about what a session holds in the end; work that was deleted
  before, because a close overlooked the session, is `SeenCopyIsKept`.
* `PendingIsSwept` says that the control which serves in the end delivers every pending entry again,
  once; what becomes of that delivery is `ChannelsPending`.
* `DeliveriesEnd` excepts deliveries the published unit has no end to report of (`Unresolvable`): a
  Start that was lost on its way to a unit that lives on, one whose deadline passed just before it
  was sent, one whose answer was lost while the unit knows an earlier admission of the event, and a
  run the unit itself reports as unknown. `_observe_run` polls them for as long as that unit is published.
* `AckedWasStarted` is about a unit that has started the event, in this admission or an earlier one.
  An entry that is still pending when its run has ended as unknown is admitted again after the
  idempotency window, and started if the unit no longer knows the run; the contract (v1, line 116)
  says that a new writer after an ambiguous result sends no other prompt, which no property here states.
* `WorkIsHeld` is about runs the unit has accepted or runs; `ChannelsUncertain` shows that it fails
  for unknown ones. A crash of the control takes its requests with it (`CrashControl`): a Start sent
  by a control that died is not modelled as arriving after the next one has adopted the unit. Within
  the life of one control requests nobody waits for any more do arrive. A Start that did outlive its
  control for so long would run without a ticket, because adoption lists the runs once.
* `OneInstancePerStart` counts sends of one admission. Two admissions of one event (a redelivery
  after its window) are two Starts by design.

### Fairness

`Admission` assumes that the event loop runs ready tasks and that time passes; runners and
recovered runs are not fair. `Hosting` assumes the event loop, the lifecycle tick, the host
loop, that units start and end, that an unanswered call times out and that the gateway comes back;
deliveries, closes and faults are not fair. `SnapshotStoreRetry` assumes only that a control goes on
with the operation it is in. `Execution` assumes only that deadlines pass and that the deadline
watch and a claimed cleanup go on; the owner, the engine and the process may hang
anywhere. `SessionSaves` assumes that the tick and a preparation that has the
operation lock go on; deliveries and runs need not end. `Channels` assumes that ready tasks, the stream consumer, units and the host
go on, that requests arrive or time out, that clocks pass, that the gateway returns and that a
stopped control is started again; no fault, producer, client or cancel is fair. Fairness is weak, with
two exceptions in `SessionSaves`: `TickBegins` is strongly fair, because the operation lock is a FIFO, and
so is `TickSaves`, because a tick may find the idle or the retry time not yet over many times but not
for ever.

## 4. Proofs

The theorems hold for every value of the constants that satisfies the named `ASSUME`s of the
modules: any sets of writers, callers, keys, Workspaces, runs and sessions, any number of faults.

| Module | Theorems | State |
|---|---|---|
| `SnapshotStoreProofs` | `TypeCorrect`, `PointerIsDurable`, `CommitsAreUnique`, `RecordsNameCommits`, `Fencing`, `Refinement` | types, `LatestIsDurable`, one commit per snapshot, `RecordsAreTrue`, `Fenced`, the store implements `FencedRegister` |
| `StorageProofs` | `AcknowledgedIsKept`, `RestoresReturnAcked`, `ArtifactsAreWhole` | `AckedIsKept` and `RestoredIsAcked` when controls do not overlap, `ArtifactIsWhole` |
| `AdmissionProofs` | `CapacityIsExact`, `GenerationsAreExclusive`, `TicketsAreAnswered`, `LedgerRefinement` | `CapacityCounted`, `OneGeneration`, `OverIsAnswered`, admission implements `DeliveryLedger` |
| `HostingProofs` | `HostingTypes`, `SlotsAreHeld`, `PublishedAreSettled`, `WaitersAreWoken`, `RestoredAtMostOnce` | types, `SlotIsHeld`, `PublishedIsSettled`, `SlotWaitersAreWoken`, `RestoredOnce` |
| `ExecutionProofs` | `ExecutionTypes`, `WorkIsOwned`, `LocksAreNotStranded`, `ExclusiveAccessIsQuiet`, `DecisionsStand`, `EvictionIsSafe` | types, `NativeWorkIsOwned`, `NoStrandedLock`, `ExclusiveIsQuiet`, `DecidedOnce`, `EvictedIsOver` |
| `SessionSavesProofs` | `SessionTypes`, `SeenCopyStays`, `ArchivedSessionsContinue`, `RunsKeepTheirHomes` | types, `SeenCopyIsKept`, `SessionContinues`, `RunKeepsItsHome` |
| `ChannelsProofs` | `ChannelTypes`, `StartsReachOneInstance`, `AckedAreStarted`, `RunningWorkIsHeld`, `TaskWaitersAreReached` | types, `OneInstancePerStart`, `AckedWasStarted`, `WorkIsHeld`, `WaitersAreReached` |

Each is a theorem `Spec => []Inv` or `Spec => [][A]_vars` that follows from one inductive invariant
per component (three in the storage modules). TLC checked every one of these invariants on the
instances of section 3 before it was proved. A component's module has one lemma per action, which
`Inductive` (or the step lemma) combines; the lemmas before them say what the helpers of the model
do (`Resolve`, `CancelMonitors`, `Same`, `Advance`, ...), so that an action's lemma is about
the code's action and not about sequences or records.

### Assumptions

* `InstanceOf` maps writers to instances; `NoInstance` and `NoSnapshot` are not ids; the fault bounds
  are natural numbers; the capacities of admission and of the manager are what their modules state.
* `Keys` (admission) and `Refs` (hosting) are finite. Both are names derived from SHA-256 digests, and
  what is proved counts them: the capacity counter is a cardinality, and so is the number of held slots.
* `Waiters` (channels) is finite: `_waiter_counts` of `a2a.py` counts the executes of a task. Deliveries, admissions, instances
  and faults are any numbers.
* Nothing is assumed of the lanes of a plan, of the hooks of a deployment, of the order in which the host
  acts, or of the length of any queue.
* `AcknowledgedIsKept` and `RestoresReturnAcked` have the hypothesis `Overlap = FALSE`. Without it they
  are false (section 3, limits). The others of the storage modules hold with overlap too.
* The theorems about session saves and about channels have no hypothesis: they hold with every kind of fault.

### Storage

The invariant `IndInv` of `SnapshotStoreProofs` is the conjunction of `TypeOK` and

* `Ordered`: two documents of the history with the same generation are equal, and the registry has
  the highest generation; hence a put whose expected document is the registry cannot be a stale one;
* `CommittedOnce`, `RecordsAreTrue`, `Durable` (the objects named by any document of the history);
* `Local(w)`: what a writer at each `pc` knows (its last read is in the history, its lease is no
  newer than the registry, the snapshot it uploads is its own);
* `OneWriter`: an epoch has one lease holder;
* `Settled`: where the code is about to write `latest`, that snapshot was never committed before, or
  the put is stale and will be rejected;
* `LateIsSafe`: a put in flight is stale, or may still follow the registry (`MayFollow`);
* `Acknowledged`: an acknowledged snapshot was committed.

Each conjunct has one lemma per step (`OrderedStep`, `DurableStep`, ...), which split on the actions
of `Next`; `IndInvStep` combines them.

`StorageProofs` adds three invariants to it. `KeptInv`, for one control at a time: the live control is the one the
registry names (`LeasesAreCurrent`), its files and the archive it captured hold all acknowledged
work (`LiveHasWork`), so do the files of the instance that a restart would adopt (`OwnerHasWork`),
and a put that may still be applied takes none away (`LateKeepsWork`): either it commits an archive that has
all of it, or it begins an epoch for an instance that has it and no control holds a lease. The last
part is what makes a crash between a put and its answer harmless. `RestoreInv`: a restore
holds a document of the history whose snapshot contains all it must, and no bytes but those of that
snapshot once they are verified; the cache has one slot per version. `ArtifactInv` relates every call past its body, and every stray put, to the one date
of the body.

### Admission

The invariant says who answers for a record. A ticket in a lane owns its key and holds capacity
(`HeldOK`); a pending future belongs to such a ticket, or to one that `close()` is about to sweep
(`PendingOK`); a live monitor is the registered one of the generation that owns the key
(`MonitorsOK`), so that the deadline of an old generation never releases a new one; what is released
or expired has a record (`RecordsOK`, `RecoveriesOK`); the counter is the number of unreleased
records (`CountOK`); a closed admission has no lane and no such record (`ClosedOK`). `LanesOK` is the shape of
a lane at each stage of its consumer. For the refinement, every action is a step of the ledger of
each key or leaves it alone; `HeldOK` shows that the key a consumer starts or ends is still accepted.

### Hosting

The invariant is about one Workspace at a time. `TasksOK`: at most one activation, adoption or
retire is in the queue of its lock, and nothing is published or retained meanwhile. `StartOK`: what
is known before adoption. `EntryOK`: what the entry of the source means to the operation under way,
e.g. that a retire still waits for its own entry or for none. `WriterOK`: a
process that was given the Workspace's files is registered, and a DELETE on the wire names another
process. `Frame` shows that a step of one Workspace keeps the invariant of the others; only
`SlotWaitersAreWoken`, which counts slots, looks at all of them. `SlotIsHeld` needs all four: a
process that writes is registered, a registered entry is in the source, and what is in the source
holds a slot.

### Execution

`RunOK` relates the parts of one invocation record: owner task, reservation, cleanup, engine cancel and owner
stop. `ReservationIsLock`, `LockIsOfSession` and `OpIsLock` tie the record to the session lock as the
lock sees it. `WorkOK` and `NativeOK`: native work is that of a registered run which no cancellation
has confirmed, in a process that was not seen to halt. `OpOK`, `FrozenOK` and `ClosingOK` are what exclusive access
needs. Most actions change one record; for these, a lemma about records (`Advance`) and one
about the state around it are enough.

### Session saves

The invariant has three parts. `SessionOf(s)`: a HOME without the marker is empty, a restore is under way only where nothing is
local, what a delivery finds contains the snapshot unless a retire outlived its caller, and a
session that is pending or confirmed has nothing new while its process is a stopped one (a run since
would have left it alive, killed or uncertain). `SavingOK`: the session being saved has no delivery past
the operation lock, and the copy is its HOME. `SweepOK`: every session the tick has passed
without noting activity is safe to delete, or a run of it has begun since. A close therefore finds
only sessions of which nothing is lost and the ones it overlooks; that is as much as the code
guarantees, and `SeenCopyStays` states it. `HomeGoes` says when a HOME may lose something, from which two of the action
properties follow.

### Channels

The invariant grows in layers, and the proof of each may use the ones before it.

* `BookOK`: the ticket of a delivery, the phase of its runner, its request and its process agree, and a
  control that is down or has not adopted yet knows of nothing.
* `GenerationsOK`: which units may know an admission. Until its first request leaves, none does
  (`Unsent`); from then on all that is left of it, on the wire, in a unit or in the history of prompts,
  is at one instance (`OnlyAt`), which is the pin while the runner may send again. Instances are numbered in order, so a
  new one is neither pinned nor lost. `StartsReachOneInstance` follows.
* `HoldingOK`: a run that is accepted or running in the published unit is held by the runner that is
  pinned to it, and a request on its way there either finds a record or is held too. The second half is what
  recovery needs: a run is registered when a request arrives, possibly long after it was sent.
* `StartedOK`: a ticket, a record or an archived record that says Started is of a delivery that began, and the
  consumer's batch has queue messages only. `AckedAreStarted` follows.
* `BridgeOK`: an execute that is inside has the task's current cancel event and is one of its
  emitters, and the count of the task is their number.

The actions fall into a few classes (`Advances`, `Abandons`, `Ends`, `Marked`, `Progress`), each of which has
one lemma for the parts of the invariant it keeps; the lemma of an action shows its class and treats the rest.
`UncertainIsHeld` is not among the theorems: the code violates it (section 3).

### Only model-checked

* Liveness (`ENABLED` and fairness are out of the prover's reach), that is every temporal property
  of section 3 that is not an action property.
* What a recursive definition computes for every input (induction over data). The models have no such
  definition: queues are changed by `Append`, `Tail` and `RemoveFirst`, which `ProofFacts` describes.

## 5. Not modelled

File-system work (archives, hydration, session directories), HTTP parsing, routing and
authentication of requests, the proxying facades, rendering of manifests, CRD types, metrics; the
volume and none types of persistence; the pi engine and the event intervals of the opencode engine;
key rotation; the local source; the host runner. The reasons are in `PROJECT.json`.

## 6. Plan

Every safety property of a passing run is stated by a theorem. Left are components: the pi engine and
the halt budget; key rotation; the local source; the host runner.
