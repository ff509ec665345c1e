# Formal models of chromium infra services

TLA+ modules that model parts of this repository, TLC configurations that
check them on small instances, and proofs that TLAPS checks for every value of
the constants. `PROJECT.json` lists every run, theorem, finding and hazard and
maps every definition to the lines it translates.

    tlc -workers 2 -config MCDroneQueen_lease.cfg MCDroneQueen   # a run
    tlapm DroneQueenProofs.tla                                    # the proofs

Paths below are relative to `src/go/src/infra/` unless they start otherwise.

## 1. Inventory

The repository holds the services and tools of the Chromium infrastructure.
Many are thin: web pages over a database, command line clients, packaging. The
parts whose own logic has to survive concurrency and failure are these.

| Part | State | Operations | Talks to | What must be right |
|---|---|---|---|---|
| Drone queen, `appengine/drone-queen` | datastore entities `Drone` (lease) and `DUT` (assigned drone, draining) | `ReportDrone`, `ReleaseDuts`, `DeclareDuts`; crons free-invalid-duts, prune-expired-drones, prune-drained-duts | drone agents, the inventory | leases are monotone and kept; a live drone keeps its DUTs; capacity; abandoned DUTs come free |
| Drone agent, `cmd/drone-agent` | session (UUID, expire timer), controller (DUTs, stop signals, blocked), bot processes | register, report, apply update; add, drain, terminate a DUT; SIGTERM, drain file | the queen, Swarming bots | no bot outlives a session or its release; stop signals arrive; sessions end |
| Quota scheduler node store, `qscheduler/service/app/state/nodestore` | `stateRecord` and `stateNode` entities, a cache per process | `Create`, `Run`, `Clean`, `Delete` | batch runner, admin calls, cleanup loop | operators are applied one after the other, at most once |
| Quota scheduler batch runner, `.../state/batchrunner.go` | queue of requests, the current batch | `Notify`, `Assign`, batch loop | frontends, node store | every request is answered once, with the result of its batch |
| Quota scheduler reconciler and algorithm, `qscheduler/qslib` | worker queues, task errors; workers, requests, balances | notifications, `AssignTasks`, timeouts; `RunOnce` | Swarming through the frontends | no task on two workers, late notifications change nothing, balances bounded |
| Buildbucket, `src/appengine/cr-buildbucket` | `Build` entities with leases, status, task and steps; push and pull tasks | lease, heartbeat, start, complete, reset, cancel, delete; crons for leases and timeouts; sync with Swarming, PubSub, bbagent updates; announcements | Swarming, PubSub, BigQuery, ResultDB | a build ends once and the end is announced, a lease is honoured and taken back, the sync chain does not break |
| Monorail, `src/appengine/monorail` | RAM caches per job, memcache, Invalidate table | read through, prefetch from replicas, update, invalidate, process invalidations, consolidate | SQL, memcache | a committed change reaches every cache; no cached value is stored back |
| Cloudtail, `tools/cloudtail` | pending entries, flush timer | `Send`, flush, retry, `Stop` | Cloud Logging | each entry is sent or counted as dropped; `Stop` returns |
| ts_mon on App Engine, `src/appengine_module/gae_ts_mon` | `Instance` entities with task numbers, cumulative metrics | flush, shutdown, assign numbers (cron) | Monarch | no two live instances with one number; counts are reset before a number changes; every instance gets one |
| service_manager, `src/infra/services/service_manager` | process table, state files | start, stop, restart, own update | supervised processes | one process per service |

Findit, Predator, Tricium, Arquebus, crosskylabadmin, unified fleet,
sheriff-o-matic and the smaller applications are request handlers over a
database, pipelines or displays; the Go and Python commands are clients;
recipes, packaging, `node`, `python_pb2` and third-party code hold no logic of
the repository's own. `PROJECT.json` names each with the reason why it is not
modelled.

How they interact: an inventory declares DUTs to the queen. Agents report to
it; the answer is a lease and DUTs. Each agent runs a Swarming bot per DUT; the
bots appear as workers in the quota scheduler, which Swarming calls with
notifications and asks for assignments; these are batched per process and
applied to the pool's state through the node store.

What is hard in the parts chosen:

* *Drone queen.* Crons work from a query and then write entity by entity
  outside of a transaction, `ReportDrone` is two transactions, and everything
  depends on a clock that goes on meanwhile.
* *Drone agent.* The report loop, three watchers, one goroutine per DUT and a
  timer share a mutex, one-message channels, a WaitGroup and a context.
* *Node store.* Optimistic concurrency over entities that are not in one
  transaction, with a cache that is not either, and a cleanup that runs beside.
* *Buildbucket.* Six kinds of writers move one entity, some on what they loaded
  before their transaction; push tasks run at least once and may fail between any
  two of their calls; clients do not know that their lease is gone.
* *Monorail caches.* RAM, memcache, replicas and database are read and changed
  apart; the table of changes is truncated by a cron and in the middle of requests,
  and its rows become visible in another order than they are numbered.
* *ts_mon.* A cron works from an eventually consistent query, outside any
  transaction, on entities that the instances write meanwhile.

## 2. Plan

Order of work, most important behaviour first. The first seven are done.

1. `DroneQueen`, `MCDroneQueen`, `DroneQueenProofs`.
2. `DroneAgent`, `MCDroneAgent`, `DroneAgentProofs`.
3. `QSAtomicState` (abstract) and `QSNodeStore`, `MCQSNodeStore`,
   `QSNodeStoreProofs`: the store refines the abstract state.
4. `BuildEntity`, the part of a build's life that all builds share, and its two
   uses: `BuildLeases` (clients that poll) and `Buildbucket` (Swarming).
5. `MonorailCache`.
6. `TaskNumbers`.
7. `BuildEntityProofs`, `BuildLeasesProofs`, `BuildbucketProofs`,
   `TaskNumbersProofs`, `MonorailCacheProofs`.
8. `QSBatchRunner` (requests, batches, the context of the first request) and
   `PushBuffer` (cloudtail).
9. `DroneFleet`: queen and agents composed over calls that may be lost, be late
   or time out (`ReleaseDuts`), with an abstract specification of leases.
10. `QSReconciler`, `QSScheduler` and `ServiceManager`, as far as they repay it.

## 3. The modules

### 3.1 DroneQueen

| Model | Code |
|---|---|
| `drones`, `expiration`; `duts`, `assigned`, `draining` | entities of `internal/entities/entities.go`; all DUTs are in one entity group |
| `report[h]` | one running `ReportDrone` call (`internal/frontend/queen.go:45-107`) |
| `ReportNew`, `ReportKnown` | with and without `CreateNewDrone`, whose time is read before its transaction |
| `ReportRead`, `ReportCommit`, `ReportConflict` | the refresh transaction: it reads the clock before it commits |
| `ReportAssign` | the second transaction, `queries.AssignNewDUTs`, with the int32 conversion |
| `ReportFail` | error, deadline or loss of the instance between transactions |
| `ReleaseDut`, `DeclareDuts` | one transaction per DUT; one for all |
| `Free*`, `PruneDrone*`, `PruneDUT*` | the crons (`internal/queries/queries.go:129-220`, `internal/cron/cron.go`): one action per query, transaction or delete, abort anywhere |
| `Tick`, `lapsed` | the clock; a history of drones whose lease was over at some time |

The environment is open: any caller may report any issued UUID, release any DUT
as any drone and declare any set of DUTs. Assumed of App Engine: transactions
are serializable, queries strongly consistent, one clock, new UUIDs differ from
all before.

| Run | Instance | What it shows |
|---|---|---|
| `queen_lease` | 2 drones, 1 DUT, 2 concurrent reports, lease 1, clock to 2, two crons | `LeaseMonotone`, `PromisedLeaseHeld`, `EstablishedDroneKeepsDUTs`, `OnlyLapsedDronesDeleted` |
| `queen_live` | 1 drone, 2 DUTs, capacities 0 and 1 over a 2-bit "int32", all crons, fairness | `CapacityRespected`, `AbandonedDUTsFreed`, `UndeclaredDUTsDeleted` |

Why the bounds are enough: a lease must be taken, refreshed at its very end,
lapse and be seen by a cron that started before, which takes two ticks and two
concurrent reports; a DUT has to pass between two drones. Each run switches on
(`Crons`) the crons its properties are about: prune-drained-duts does not read a
lease. `queen_live` takes one report at a time; that concurrent reports keep the
capacity, over integers of any width, is proved (section 4). DUTs, drones and
handlers are symmetric in `queen_lease`.

Two things that the crons may do, and no property forbids: free-invalid-duts takes
a DUT from a drone that registered after the cron read the valid drones
(`EstablishedDroneKeepsDUTs` speaks of drones registered before), and
prune-drained-duts deletes a DUT that was declared again after its query.

### 3.2 DroneAgent

| Model | Code |
|---|---|
| `main` | `Run`, `runOnce`, `reportLoop` and `applyUpdateToState` (`internal/agent/agent.go`): the next call of the loop |
| `watch` | the three goroutines of `reportLoop` (`agent.go:139-171`) |
| `run[u]` | the goroutine of `AddDUT` / `runBotForDUT` and its bot (`internal/agent/state/controller.go`) |
| `active`, `blocked` | `Controller.duts`, `Controller.blocked` |
| `drainSig`, `termSig` | the one-message channels of `dutSignals` |
| `lease`, `deadline`, `expired` | the last response and the timer of `state.go` and `internal/delay` |
| `Cancel`, `Drain` | `signal.go`, `notifyDraining` in `main.go` |
| `releasing` | `ReleaseDuts` calls in progress, of a goroutine or of the loop |

Every critical section, channel operation and blocking call is an action. The
queen answers anything: an error, UNKNOWN_UUID, any DUTs, any of them draining,
any expiration up to `Duration` ahead. Bots start, fail to start, crash and
exit when they like. Bots run on unix, where Terminate is a SIGTERM; writing the
drain file may fail.

| Run | Instance | What it shows |
|---|---|---|
| `agent_session` | 1 DUT, leases of length 0, clock to 1 | `SessionEndsClean`, `ReleasedDUTHasNoBot`, `SignalsReachAll`; with fairness, `LeaseGivenUp` |
| `agent_live` | 1 DUT, leases of length 0 or 1, clock at 0, fairness | `CanceledSessionEnds`, `CanceledAgentExits`, `DrainedAgentExits` |

With one DUT all of loop, watchers, goroutine, bot and timer interleave; the
DUTs of one agent meet only in the mutex and the loop, and the safety properties
are proved for any set of DUTs (section 4). A lease of length 0 lets the timer
fire at any step, which is the most hostile clock; one of length 1 that the clock
never reaches leaves it to SIGTERM, drains and the queen to end a session, so
that the liveness properties do not hold by expiry alone. Sessions repeat
without bound.

### 3.3 QSNodeStore and QSAtomicState

A state is the set of operators it contains; that tells lost, repeated and
resurrected changes apart, and is all the store can do to a state. The
scheduler part is copied for an operator, the reconciler part is an object in
memory shared with the cache (`heap`), as `reconciler.NewFromProto` shares it.

| Model | Code (`nodestore.go`) |
|---|---|
| `record`, `nodes` | `stateRecord`, `stateNode` (all shards of a state are one node) |
| `cache`, `heap` | `NodeStore.cache` per process; reconciler protos in memory |
| `call[c]` | the operation a caller is in, and its local variables |
| `Run`, `LoadRecord`, `LoadNodes`, `Modify`, `Marshal`, `Put`, `Commit`, `WrongGeneration`, `SetCached` | `Run`, `loadState`, `tryRun`, `setCached`, one datastore call or lock each |
| `Create*`, `Delete*`, `Clean*`, `DeleteNode`, `NodesDeleted` | `Create`, `Delete`, `Clean`; a multi-delete deletes one by one |
| `Fail`, the `"lost"` outcome of `Commit` | error returns; a commit whose answer is lost by a deadline |
| `Crash` | a process restarts: its cache and calls are gone |

The callers are those of the service: batch runners (`Batchers`, one operator at
a time per process, changing both parts), administrative calls (`Admins`,
changing the scheduler; `Wipe`, which installs a fresh reconciler, is one of the
operators whose effect is abstracted), cleanup loops, and, if any, calls that
delete the pool (`Deleters`). Ten attempts of the slow path and 100 generations
are `MaxAttempts` and `Keep`; `MaxCalls` bounds the operations and so the
generations. A lost answer means that the commit has happened, not that it will
happen later.

`QSAtomicState` is what callers rely on: the state exists from one `Create` on,
operators change it one after the other, each at most once, and an operator
whose `Run` returned no error has changed it. `RunIsAtomic` says that
`QSNodeStore` implements it, with `state <- Value`, what a load finds.

| Run | Instance | What it shows |
|---|---|---|
| `store_run` | a process with batch runner and cleanup, another with an administrator, 4 operations, 2 attempts, `Keep` 1 | `RunIsAtomic` (refinement), `CacheCoherent`, `LoadSurvivesClean` |
| `store_delete` | one administrator who creates, changes and deletes, 6 operations | `RecordHasNodes` |
| `store_reconciler_finding` | 2 callers | the finding below |

The administrator's commits make the batch runner's cache stale, and a lost
answer makes it stale within one process; four operations are a `Create` and
three that conflict, enough to use up both attempts. With `Keep` 1 three
generations suffice for a load to be overtaken by exactly `Keep` and by more.
`RunIsAtomic` and `CacheCoherent` hold without deletions of the
pool only: a cache survives them, and a pool created again that reaches its
generation gets the deleted pool's state. `RecordHasNodes` holds without deletions
and for an administrator on his own, as section 4 proves; a `Delete` beside a `Create`
or a `Run` breaks it, because the nodes are queried and deleted after the record, in
no transaction.

### 3.4 BuildEntity, BuildLeases, Buildbucket

Paths are relative to `src/appengine/cr-buildbucket/`. `BuildEntity` is the entity
and what can happen to every build; it has no specification of its own. Two
modules extend it, for the two ways in which a build is executed.

| Model | Code |
|---|---|
| `build` | `Build` of `model.py`: status, lease key and date, the task ID of `BuildInfra`, whether `BuildSteps` has incomplete steps |
| `Put`, `Announce`, `queue` | a put with a new status and what `events.py` enqueues in its transaction |
| `CancelBuild`, `DeleteBuild`, `ExpireBuild` | `service.cancel_async`, `_task_delete_many_builds`, `expiration.expire_builds` |
| `ReadBuild`, `SendTask`, `SendFails`, `DropTask` | the tasks of `notifications.py`, `bq.py`, `resultdb.py`: read the build, then call PubSub, BigQuery or ResultDB |
| `LeaseBuild`, `Heartbeat`, `StartBuild`, `CompleteBuild`, `ResetBuild` | `service.py`; `held[c]` is what a client knows of its lease, which a lost response leaves behind |
| `ValidDates` | the dates that a lease or a heartbeat may store: chosen by the client, checked by `errors.validate_lease_expiration_date` before the build is read and perhaps past when they are stored |
| `lost[c]` | history: the earliest date that the client's heartbeats set while their responses were lost |
| `ExpireLease` | `expiration.expire_build_leases` |
| `worker[w]`, `Sync*`, `Task*`, `Record*`, `CancelUnrecorded`, `EndBuild`, `Fail` | one execution of `swarming._sync_build`: each request to Swarming and each transaction is a step, and it may fail between any two |
| `syncQ`, `lastGen` | push tasks of one name per generation: a name is not used again; an execution may fail after it has enqueued the next one, and is then repeated |
| `NoticeRead`, `NoticeApply` | `SubNotify`: load the result, then apply it |
| `UpdateBuild`, `Updated` | `api.update_build_async`, called by bbagent, perhaps late; steps in the update mask are stored as they come, otherwise incomplete ones are canceled with the end |
| `tasks`, `SwarmingStep`, `Kill` | Swarming (external) |

A transaction is one action: ndb runs it again after a conflict and it decides on
what it reads inside. Lease keys are random 32-bit numbers in the code; the model
draws a new one each time, in order. The Swarming states left out behave like one
that is there: NO_RESOURCE like EXPIRED; TIMED_OUT, COMPLETED with `failure` and a
task that has disappeared like BOT_DIED.
The date of a heartbeat is absolute and is not compared with the one that is stored, so
that a shorter, delayed or repeated request moves it back, although the docstring says
"Extends build lease" (`service.py:299`): a client can count on its lease no longer than
until the earliest date that it may have set, and that is what `LeaseHonoured` promises
(`Until(c)`). A date that has passed before it is stored is represented by now, which is
all that the cron tells apart. A response arrives at the commit or not at all.
`sent` records announcements of ends only, the ones a property is about.
`MaxGen` bounds the generations; the last one follows itself. Left out: rows that
BigQuery rejects for good, the age at which App Engine gives up a task, the URL
of a build, and swarming builds that are created leased.

| Run | Instance | What it shows |
|---|---|---|
| `build_lease` | 2 clients, 2 keys, leases of up to 2, timeout 1, clock to 1, all three announcements, fairness | `LeaseMatchesStatus`, `LeaseHonoured`, `EndTasksFindEndedBuild`, `EndAnnounced`, `AbandonedLeaseTakenBack` |
| `build_sync` | 2 executions, 2 swarming tasks, 2 generations, timeout 1 | `SyncChainAlive`, `TaskIdStable`, `StatusForward` |
| `build_live` | 2 executions, 1 swarming task that expires or dies, fairness | `FinishedTaskEndsBuild` |

Two clients and two keys are what a build needs to be taken from one and given to
another while the first goes on. Dates up to two ticks ahead over a clock to 1 tell a
date that passes from one that does not, let a heartbeat move a date back or forth, and
let the cron see either; longer leases and clocks are covered by the proofs. Two executions of one
generation, or of one and its successor, are all that two workers can meet, and two swarming tasks are one for each. `StatusForward`
exempts the transaction of `_end_build`, which is the only one that does not look
at the status: a build canceled, or ended by its task, while a creation request
was being refused becomes INFRA_FAILURE. Two more things the code lets happen: an
execution that comes second may cancel the task that the first one has recorded,
when Swarming answered both with that task; and the task of a build canceled
between the creation of the task and its recording is recorded and not canceled.

### 3.5 MonorailCache

Paths are relative to `src/appengine/monorail/`.

| Model | Code |
|---|---|
| `db`, `rows`, `step` | what is committed: versions of items, the Invalidate table, its AUTO_INCREMENT |
| `ram`, `done` | `RamCache` and `processed_invalidations_up_to` of a job (`services/caches.py`, `services/cachemanager_svc.py`) |
| `memcache` | a version, nothing, or an entry locked by `delete_multi(seconds=5)` |
| `req[j]` | the request of a job: its snapshot of the database, and the fetch or update it is in |
| `BeginRequest`, `Restart` | `DoDistributedInvalidation` at the beginning of a request, in a running job or a new one |
| `ReadMemcache`, `Fetch`, `FetchReplica`, `AddToMemcache` | `AbstractTwoLevelCache.GetAll`; the prefetch of `search/backendsearch.py` |
| `LoadForUpdate`, `Insert`, `Commit`, `CommitFails`, `PurgeRows`, `DeleteFromMemcache` | `GetIssue(use_cache=False)` and `UpdateIssues` (`services/issue_svc.py`), `StoreInvalidateRows`, `StoreInvalidateAll`, `framework/sql.py` |
| `Change`, then `Insert`, `Commit` from `"late"` | a change committed alone and its row later: `DeltaUpdateIssue` of a bulk edit and `InvalidateIIDs` (`tracker/issuebulkedit.py:353-379`, `issue_svc.py:1489-1585`), `UpdateIssueStructure` (`issue_svc.py:1431-1435`), updates of projects (`project_svc.py:456-457, 498-499`), new labels (`config_svc.py:579-582`) |
| `SelectKept`, `DeleteOld` | the cron `RamCacheConsolidate`, two statements |
| `missed`, `cutoff`, `stray`, `began` | histories |

A value is the version of an item. The first read of a transaction takes a
snapshot (InnoDB, repeatable read). `Alone` are the items that may be changed in a
transaction of their own; a bulk edit has one changed item at a time here, and its
reads between the change and the row are left out, since the row that follows drops
them. `AddToMemcache` may also delete the key, as `_WriteToMemcache` does for a value
that memcache does not accept. The run `monorail_cache` has an issue in a
two-level cache, whose updates write a row for it, in the transaction of the change or
after it, and a project that is only written, with rows for all of its kind; one job
updates the issue, the other updates the project and prefetches, so that rows become
visible in another order than they are numbered. `Limit` 2 and 3 timesteps are the
smallest where the cron deletes, a job has as many new rows as it considers, and rows
of another kind have gone. `Updates` lets the issue change once and the project twice:
what takes the issue's row from a job is rows that follow it, as many as the limit, and
one new version of the issue tells stale from current. The proofs hold for all
these bounds; TLC also checked the invariant of section 4 on this instance.

`StaleWillBeDropped` is the promise of the cache manager for values that a job has
read from the master. A change that is committed before its row is an exemption of its
own, `RowDue`: until the job that made it has inserted the row, no job can know. This
contradicts "This approach makes jobs use cached values that are not stale at the time
that processing of each request begins" (`cachemanager_svc.py:23-24`). The other
exemption, `missed`, records the ways in which a job does miss a row:

* it was to follow a change that was committed alone, and the request was cut off, or
  the commit of the row failed: then there is none, and jobs keep what they have read
  until something else drops it;
* it became visible after some job had seen a later one;
* the cron deleted it, and a `StoreInvalidateAll` deleted so many others, before or
  between the two statements of the cron (`raced`), that the job does not find too
  many;
* a `StoreInvalidateAll` deleted it although its own row was not there: it had been
  rolled back by a failed commit, which is logged and ignored, or the cron or another
  `StoreInvalidateAll` had deleted it.

`MemcacheForgets` bounds what may be wrong in memcache: an item is in `stray` from an
`add` of an old value (read before the update, or from a replica), or a request cut
off before its deletion, until the next deletion; and while the job that changed an item
has its row and its deletion still to do. `UpdatesFreshVersion` says that no
cached version is stored; it does not say that updates are not lost: two requests may
load one version and both store. The size bound of a RAM cache is not modelled, it
only forgets more.

### 3.6 TaskNumbers

Paths are relative to `src/appengine_module/gae_ts_mon/`.

| Model | Code |
|---|---|
| `entity`, `settled` | `Instance` entities, and what the eventually consistent query sees at least |
| `target`, `base` | `state.target.task_num`; under which number the cumulative metrics were sent since their reset |
| `flush[i]`, `FlushUnassigned`, `FlushStart`, `FlushPut`, `FlushSend`, `FlushFails` | `exporter._flush_metrics`: the put and the send go on at the same time |
| `Shutdown`, `Vanish` | the shutdown hook of `config.py`; an instance that is gone without it |
| `CronQuery`, `CronPut`, `CronDelete`, `CronEnd` | `handlers._assign_task_num`: query and decision, then the calls in any order, or a failure |

Assumed of time: the next run of the cron starts when the flushes that were in
progress at the end of the last one are over, and its query sees what was
committed by then. Without the first, an entity put back by a flush could be
expired, deleted and its number given away in one go.

The run `task_numbers` has two instances, expiry after 0 and a clock to 1: an
instance is expired as soon as it has missed a tick, and both may be waiting,
expired, put back or dead. It shows `NumbersUnique`, `NumberChangeResets` and, with
fairness, `InstancesGetNumbers`; the safety part was also checked with a clock to 2.
`NumbersUnique` speaks of instances that serve: what a dead instance has still under
way may carry a number that another one has got.

## 4. Proofs

`DroneQueenProofs` (for any drones, DUTs, handlers, lease, clock bound, widths):

* `QueenTypeOK`, by one lemma per group of actions.
* `LeaseInvariant`, the inductive invariant: what a call or cron has read is in a
  fixed relation to the store and the clock. A refresh to be committed over an
  unchanged entity read the clock no later than now and than its expiration; a
  drone known to free-invalid-duts but not valid in it, or in the list of
  prune-expired-drones, is in `lapsed`; expirations of entities are at most
  `clock + Duration`. None of the properties is inductive without it.
  `PromisedLeaseHeldThm`, `LeaseMonotoneThm`, `EstablishedDroneKeepsDUTsThm`
  and `OnlyLapsedDronesDeletedThm` follow.
* `CapacityRespectedThm`, by counting (lemmas `HeldShrinks`, `AssignCapacity`
  over `FiniteSetTheorems`): the int32 conversion of capacity minus DUTs held is
  negative or at most what is needed.

`DroneAgentProofs` (for any set of DUTs, lease, grace, clock):

* `AgentInvariant`: `RunInv` ties the pc of a DUT's goroutine to its bot and to
  membership in `active`, `WatchInv` the watchers to the report loop, `blocked`
  and `ready`, `ReleaseInv` the releases to goroutines and the loop, and
  `SignalsReachAll` completes it. `AgentTypeOK`, `SessionEndsCleanThm`,
  `ReleasedDUTHasNoBotThm` and `SignalsReachAllThm` follow.

`QSNodeStoreProofs` (for any processes, callers, numbers of calls, attempts and
generations kept):

* `StoreTypeOK`, also with calls that delete the pool. `Shape` says which fields
  an operation has at each step.
* `StoreInvariant`, without them (`Deleters = {}`; with them coherence and
  atomicity are false). The record names nodes of its generation
  that exist; nodes still to be written (`Unwritten`) do not exist; an operation
  whose generation is the record's works on exactly the current state, and the
  nodes it is about to commit are there (`Working`, `Committing`); a load has nodes
  of its generation, which are gone only if they are old (`Loading`); a cleanup
  deletes only nodes older than `Keep` generations before the record it read
  (`Cleaning`). The argument has one core: a step leaves
  written nodes alone or deletes old ones (`NodesKept`), and replaces a record
  only by one of a higher generation (`RecordGrows`); `OtherCalls` and
  `OtherCaches` conclude once that the other operations and caches do not mind,
  so that each action's lemma is about its own operation.
  `StoreCacheCoherent`, `StoreLoadSurvives` and `StoreRecordHasNodes` follow.
* `StoreRecordHasNodesAlone`, with deletions, for one caller (`Callers = {a}`; with two
  it is false): `SoleInv`, the nodes that he is about to point the record to are there,
  and while he deletes nodes there is no record.
* `StoreRunIsAtomic`, the refinement of `QSAtomicState`: by the invariant every
  commit is an `Apply`, every `SetCached` an `Acknowledge`, `CreateRecord` is
  `Create`, and all other steps stutter (`StepIsAtomic`).

`BuildLeasesProofs` and `BuildbucketProofs` (for any clients, keys, lease lengths,
tasks, executions, generations, timeouts and clock bounds) both use
`BuildEntityProofs`: what a put may announce, and `QueueInv`, that a task which
exports or finalizes a build finds it ended with the status it was enqueued for,
kept by every transaction that all builds share.

* `LeasesInvariant`: `KeysInv`, keys that the build or a client has were drawn, so
  that a new lease differs from all of them; `BelievedInv`, of the dates that a client
  must reckon with (the one it was told last and the earliest it may have set since)
  one has passed, or the lease is the build's and the build's date is no earlier than
  that one; and `QueueInv`. `LeaseHonoured` is not inductive
  without the first two: the cron takes a lease back by the date of the build,
  a client gives up by its own dates. `LeasesTypeOK`, `LeaseMatchesStatusThm`,
  `LeaseHonouredThm` and `EndTasksFindEndedBuildThm` follow.
* `SyncInvariant`: `TasksInv`, a swarming task that the build or an execution refers
  to was created and is still known, and an execution that applies a result has one;
  `ChainInv`, while the build lives and is not timed out, the last generation of sync
  tasks is in the queue, since only the execution that puts the next one in takes it
  out. Each lemma about an action shows with it `Forward`, what the step may do to
  the status and the task of the build. `SyncTypeOK`, `SyncChainAliveThm`,
  `TaskIdStableThm` and `StatusForwardThm` follow.

`TaskNumbersProofs` (for any finite set of instances, expiry and clock bound):

* `NumbersInvariant`: `OneNumber`, what an instance has counted, is sending and will
  flush next goes under one number; `Visible`, between two runs of the cron the query
  finds each number that a serving instance uses, in either version of its entity;
  `PutFits`, the puts that a run has still to do are for instances that are free and
  give different numbers that nobody uses. `NumbersUnique` is not inductive without the
  last two: a put that is under way has decided on a number before. `NumbersTypeOK`,
  `NumbersUniqueThm` and `NumberChangeResetsThm` follow.

`MonorailCacheProofs` (for any jobs, items, kinds, keys, limit of rows and bound on
timesteps, versions and updates, and whichever items are changed on their own):

* `CacheInvariant`: `Owed(j, i, v)` says that job j, having read version v of item i
  since its request began, has a new row about a later version, or as many new rows
  as make it drop everything where the cron deleted such a row, or that the job which
  changed the item has its row still to write, or that the row was missed or given up. It holds of every value read from the master, in RAM and, which
  `StaleWillBeDropped` does not speak of, in the snapshot of a request: a later fetch
  takes it from there. `RowsInv`: what the cron is going to keep is at least the limit
  (`KeptEnough`). `VersionsInv`: what is about to be committed is within the bound on
  versions, and one job at a time has the item's row locked. `RequestInv` compares what a request has read
  with the versions when it began. Each step that changes the tables is shown to keep
  what every job is owed (`ChangeInv`, `CommitInv`, `PurgeRowsInv`, `DeleteOldInv`; `UntoldOwed` for rows given up). `Max` and
  `Min` are CHOOSEs, so their values come from the well-foundedness of < (`MaxOf`).
  `CacheTypeOK`, `StaleWillBeDroppedThm`, `UpdatesFreshVersionThm` and
  `MemcacheForgetsThm` follow.

The proof attempt corrected the model: an earlier form of `StaleWillBeDropped`, with
fewer exemptions, held in the run of one writer and was not inductive; TLC then found
with two writers that a row for all may be deleted before the rows that it stands for,
and that the cron and a `StoreInvalidateAll` may race. The histories `raced` and
`missed` are as they are since then.

The assumptions are the `ASSUME`s of the modules: `Duration > 0` in the queen,
"" is no UUID, a uint32 is at most twice the largest int32 plus one, finitely
many DUTs; natural numbers in the agent; in the store disjoint kinds of callers,
at least one attempt, and a `None` that is no entity and no value; for builds a longest lease
of at least 1, and a `None` that is no key, no time, no swarming task and no state of
one; for task numbers a `None` that is no entity; for the caches a limit of at least
one row, "all" and `None` that are no items, marks in memcache that are no versions,
and an update that invalidates its item or all.

Every invariant and every action property of a passing run is stated by a theorem.
Only model-checked: the liveness properties, since fairness and ENABLED are out of the
prover's reach.

## 5. Fairness

* *Queen.* App Engine starts every cron again and again and a run that is not
  cut short goes on: weak fairness of each cron's steps. Runs may be cut short;
  the liveness properties say "unless for ever". Nothing is assumed of drones,
  handlers, declarations and time.
* *Agent.* Weak fairness of every goroutine, since the Go scheduler runs what can
  run; of each ready case of a select separately, since Go chooses among the ready
  cases at random; of timers and of RPCs, which have deadlines; and of the exit of
  a bot that was told to stop. Not of bots otherwise, nor of SIGTERM and drains.
* *Node store, Monorail.* Safety only.
* *Builds.* App Engine starts the crons every minute: weak fairness. It executes a
  push task until it succeeds, and cuts off a request at its deadline: an execution
  comes to an end (weak fairness), and the call that a task is there for fails, but
  not for ever (strong fairness of `SendTask` and `SyncApply`). In `BuildLeases` the
  clock does not stop; in `Buildbucket` not even that is assumed, nor anything of
  Swarming, PubSub, bbagent and users.
* *ts_mon.* Instances flush every minute, a flush ends, the cron runs every minute
  (weak fairness), and its put or delete of an entity fails but not for ever (strong
  fairness). Nothing is assumed of deaths, shutdowns and time.

## 6. Findings

`store_reconciler_finding` is a run that TLC refutes: changes of an operator that
failed to commit stay in the cached reconciler and are committed by the next one.
`PROJECT.json` quotes the line contradicted. Other behaviours that a reader may not
expect are in the sections above and in the notes of the hazards.

## 7. Not modelled

Of the parts modelled: logging, metrics, authorization, wire formats, the
read-only calls (`ListDrones`, `ListDuts`, `Get`, `List`), the token file of the
agent, and the wait for a bot process at the level of the operating system; of
builds their creation (deduplication by request ID, build numbers), peeking, pausing
and removal after the storage duration; of Monorail what an issue contains, search
and its caches, statements repeated on a new connection; of ts_mon the metrics and
their transport. Of the rest of the repository: everything the plan lists as future and the
components `PROJECT.json` marks `not_modelled`.
