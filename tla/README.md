# OpcTagManager in TLA+

OpcTagManager is a FastAPI application (`OpcTagManager.py`, `services/`) that
keeps the tags of a Kepware OPC server in a SQL registry, and a supervised
worker process (`workers/historian_worker.py`) that subscribes those tags over
OPC UA and writes their values to InfluxDB. This directory holds TLA+ models of
its concurrent core and of the services around it (alarms, the Kepware control,
the file stores, the network inventory), the TLC runs that check them and the
TLAPS proofs of what matters most.

Run from this directory:

    tlc -workers 2 -config HistorianRuntime_safety.cfg MCHistorianRuntime
    tlapm RuntimeSupervisorProofs.tla

`PROJECT.json` lists the runs, the source lines every definition stands for, a
mutant per property (a plausible bug of the mapped code that the property
catches), the hazards and the findings.

## 1. The system

| component | state | operations | talks to |
|---|---|---|---|
| Historian supervisor (`runtime_supervisor.py`) | one lock; `_process`, `_intentional_stop`, `_shutdown`, `_status` (worker and OPC state, completeness, two generation counters, `rebuild_pending`, restart count), live alarm view | `start`, `stop`, `shutdown`, `notify_registry_changed`, `notify_alarm_mappings_changed`, `_monitor` (one thread per process), `_apply_event` | the worker, over stdin (commands) and stdout (events) |
| Historian worker (`historian_worker.py`: `HistorianWorker`, `read_commands`, `BoundedOpcSession`) | command queue, `pending_generation`, retry count, the session under way | `run`, `run_session`, `_build_subscriptions`, `_command`, the reader thread | supervisor; SQL (tags), OPC, InfluxDB |
| Influx writer, alarm diagnostics, device collection filter (same file) | a client and a cool-down for each database; mappings, awaited and active alarms; nothing | `write`; `replace_mappings`, `observe`; `read_device_collection_states` | InfluxDB, supervisor, Kepware API |
| Tag registry (`tag_registry.py`) | `TagMaster`, `TagLevel`, `BrowserRun` in SQL | `apply_snapshot`, `sync_tag`, `_apply_scoped` | shared by the web processes of all lines |
| Full reconcile (`tag_reconcile.py`) | a lock, progress | `discover`, `validate_snapshot`, `reconcile` | OPC, registry, supervisor |
| Fast sync (`tag_fast_sync.py`) | none | `resolve`, `sync`, `sync_existing_tag` | OPC, registry, supervisor |
| Web application (`OpcTagManager.py`) | the objects above | `app_lifespan` (startup reconcile, start, periodic reconcile, shutdown), routes | everything |
| Alarm mappings, reload notifier | `Alarm_Lists` in SQL; an OPC counter node | create/update/delete; read, increment, write | registry, supervisor, the alarm player |
| Kepware configuration client (`kepware_config_api.py`) | cached collections under `_cache_lock`, `_write_lock` | cached reads, verified creation, `update_tag` with `PROJECT_ID` | Kepware REST API |
| Kepware system control (`kepware_system_control.py`) | `_operation_lock` | `inspect`, `bootstrap`, `repair`, `ensure_for_reload_failure` | the client, when a reload has failed |
| Shared resources (`shared_resources.py`, `resource_relationships.py`) | files and `resource.json` of each resource, links, decision tokens, one `_write_lock` | `upload_new`, `upload_version`, `link`, `unlink` | file system |
| Supplier and equipment profiles (`supplier_profiles.py`, `equipment_parts.py`) | `profile.json` and rendered Markdown versions of a resource | `create`, `edit` | the resource store, whose lock and tokens they use |
| Tag knowledge (`tag_knowledge.py`) | Markdown files, images and an index for each tag, `_write_lock` | `save`, `store_attachment`, `load` | file system |
| Network inventory (`network_inventory.py`) | profiles, history tables in SQL, one scan lock, progress | `sync_profiles`, `scan`, `persist`, `save_manual`, `current` | network, Kepware, SQL |

What makes it hard, and the properties that answer it, is the list under
`hazards` in `PROJECT.json`. In short:

* **Supervisor and worker.** Threads that interleave around a restart delay, two
  pipes that fill up while a lock is held, acknowledgements that cross, crashes
  with a rebuild in flight. It is correct if two historians never run at once, a
  registry change always reaches the subscriptions, and the status shown is
  never better than reality.
* **Values.** One worker writes to a database for each line, from rows that other
  tools may have spoilt, asks a Kepware that may be silent which devices collect,
  and drops writes after a failure. It is correct if a value ends up in the
  database of its line only, and the latest one is there unless its own write
  was refused or failed.
* **Registry.** A browse that takes minutes is applied to a table that other
  requests, and other lines' processes, write meanwhile; a process may die
  between commit and notification. It is correct if a path stays one row, lines
  do not touch each other's rows, and registry and subscriptions converge to
  what the OPC server has.
* **Alarms.** Check-then-insert; two announcements after the commit, one of them
  a counter read, incremented and written by concurrent requests; a view of
  active alarms kept in one process from events of another that reloads,
  reconnects and dies. It is correct if the player, the worker's engine and the
  view end up with what is configured and with what holds, and the view lists
  nothing else after an error either.
* **File stores.** Several files written in order with no transaction around
  them, by requests that fail or die between two, and cleaned up outside the
  lock. They are correct if what an index names is there and whole, no version
  or link is lost, and no content is stored twice.
* **Kepware control.** Objects made one after another in a project that others
  edit, by requests that may time out and still be served, next to browsers that
  fill the same cache. It is correct if a bootstrap completes what an earlier one
  left, builds on nothing that it has found to be somebody else's, and what was
  created is shown.
* **Network inventory.** Scans that fail half-way, and a view read table by table
  while they commit. It is correct if an address with a history is never offered
  as free and the progress adds up.

## 2. Modules

| module | models | state and actions, and the code they stand for |
|---|---|---|
| `WorkerPipes` | process table and pipes | `procState` is what `poll()` sees; `stdin`, `stdout` are bounded FIFO pipes whose writer blocks when they are full. A process that ends loses its unread commands, its events can still be read. |
| `RuntimeSupervisor` | `HistorianSupervisor` | One action per critical section of its lock. A section that writes a command stays open in `sending` until the pipe takes the line: nobody else gets the lock meanwhile. `caller` is the thread that runs `start`/`stop`/`shutdown`, `monitor[p]` the thread of process `p` (`reading`, in the restart `delaying`, about to be `respawning`, `done`). The worker is an arbitrary environment that acknowledges no generation it was never sent. |
| `HistorianWorker` | `HistorianWorker.run`/`run_session`, `read_commands` | One record per process; `pc` follows `run_session` from loading the tags to the idle loop, and whatever ends a session passes through `closing` (`BoundedOpcSession.__aexit__`), which may fail and replace the outcome. Timeouts, refused tags, lost connections and crashes are `faults` of the environment. The web process is an environment that sends any legal command, reads, and may die. |
| `RebuildContract` | abstract specification | What the slice 3 notes call the rebuild acknowledgement contract: `Request`, `Load`, `Acknowledge`. |
| `HistorianRuntime` | both, composed | Extends the supervisor and instantiates the worker with `parentAlive <- TRUE` and `registry <- status.registry_generation`; `LifespanStep` and `RouteStep` say when `app_lifespan` and the routes call the supervisor. `loaded` and `refused` are history variables. |
| `TagRegistry` | registry, reconcile, fast sync, start-up order | `rows` is `TagMaster` with the TagId as index. A scoped process (with a line name) holds an application lock and range locks, so a transaction is one action; a legacy process reads and writes in two. `subscribed`, `owed` abstract the historian of each line, of which `HistorianRuntime` is the detail. |
| `AlarmMappings` | alarm service, reload notifier, routes | `request[t]` is the request of a thread: `creating`/`updating`/`deleting` between the statement that looks and the one that writes, `saved` until the mapping is read back, `announcing` and `writing` between the read and the write of the reload node, `notifying` before the supervisor is told. The alarm player samples the node. `unannounced`, `setBack` are history variables. |
| `AlarmActivity` | alarm diagnostics of the worker, live view of the supervisor | Extends `AlarmMappings`. `diagnostics` is the mappings loaded and the engine's state (`awaiting` a first value, `active`), `due` what the subscription has still to deliver, `view` what `_apply_event` made of the events. `Observe` and `ObserveFails` are one value of a tag, the second with the exception that `observe` catches: some lines, then an error, which empties the view and not the engine (`viewLost`). `worker` abstracts `HistorianWorker` and `RuntimeSupervisor` to subscribed, between sessions, ended, seen to have ended. |
| `ResourceStore` | shared resources, links, supplier and equipment profiles | `index`, `files`, `profile`, `links` are what is on disk; `step[t]` says which writes of a request are done (`moved`, `edited`, `profiled`, `linking`, or `failed` with the clean-up still to come), `job[t]` what it is about to write. One action per file written; `Fault` lets one fail, `Crash` ends the process between any two. `made`, `interrupted` (an edit that stopped before its index) and `unmoved` (places to which a move failed) are history variables. |
| `TagKnowledge` | tag knowledge store | `save[w]` is a request under the lock: `checked` when the version is decided, `written` when its Markdown is. `leftover` is the temporary index a dead process left in the way. |
| `KepwareControl` | system control, configuration client | `project` is what Kepware holds of the four objects: absent, the control's own, a channel or device of somebody else's under that name, a tag with other properties. `SomebodyEdits` puts any of these anywhere. `Inspect` stops at what it finds missing or foreign, and ends with what OPC says of the tag. `op[t]` the phase of the operation of a thread and the request it makes next, `cache` and `fetch` what browsing shares with it. A request times out as a mishap, served, lost or served later (`late`). `reported`, `disturbed` (an operation that met a mishap) and `overtaken` (a change of somebody else since the inspection it acts on began) are history variables. |
| `NetworkInventory` | scans, manual records, current view | `scan` holds the locals of the request that scans, `view` those of a request for the current view, which reads one table per action. |
| `HistorianValues` | loading of tags, device collection filter, Influx writer, data-change handler | `eligible` is what the session subscribed, `due` the values not yet notified, `clients` and `cooling` are `InfluxWriter.clients` and `retry_after`, `stored` is what the databases show last. `seenDisabled` and `missed` are history variables. |
| `MC*` | TLC instances | constants; `MCTagRegistryDeployments` and `MCServices` also say which part moves |
| `RuntimeSupervisorProofs`, `HistorianRuntimeProofs`, `HistorianWorkerProofs`, `TagRegistryProofs`, `AlarmActivityProofs`, `ResourceStoreProofs`, `KepwareControlProofs` | proofs about the module of that name | section 5 |
| `ServicesProofs` | proofs about `TagKnowledge`, `NetworkInventory`, `HistorianValues` | section 5 |

Abstractions worth knowing:

* Only status fields the protocol depends on are kept; counts, times and texts
  shown to people are not. `subscriptions_build_failed` and
  `subscriptions_recovery` set the same worker state and are one event;
  `opc_state` is split by the state it carries.
* A command or event line is one pipe slot. `PipeCapacity = 1` makes every
  blocking situation of longer pipes happen early.
* The generation number when the tags are loaded (`snap`) stands for the
  content of the registry: a change is committed before it is notified, so a
  load after notification `g` sees the changes of all generations up to `g`.
* `TerminateProcess` ends a worker at once; the second `process.wait` of
  `stop()` is not a step of its own.
* In `TagRegistry` the NodeId and DataType of a tag are one attribute; rows of
  `TagLevel` are a function of the path and `BrowserRun` ids only tell touched
  rows from others. The NodeId conflict check needs two paths with one NodeId,
  which the enumerated servers do not have. A transaction that fails is rolled
  back by SQL Server, which is assumed.
* An alarm is high, low or off; a value is 0 or 1. The transition engine belongs to
  another package (`alarm_sound`) and is modelled by how the worker uses it: a
  first value is a baseline, after that changes trigger and clear. The mappings of a
  tag come from a query without an order, and a steady alarm is found when its own
  ten seconds are over, so that what one value finds is reported in any order.
* `start()` is called at the start of the application only, so no other thread
  spawns a worker while the output of an earlier one is read: `AlarmActivity`
  needs one worker, one pipe.
* A file is written, moved, replaced or unlinked atomically. A SHA-256 is the
  content it is of; the name of a versioned file is its resource, version and a
  stamp that stands for the second it was made in and the suffix it got.
* The cache of the Kepware client is one entry per level. With a line scope the
  control has a client of its own and shares no cache with browsers; the model is
  of the shared one.
* What a probe of an address finds is a set of traits; vendors, device types and
  names are left out, with the two queries of the view that only serve them.
* Channel scope is the set of paths (`TagRegistry`) or channels (`HistorianValues`)
  a line allows, not the matching of names.
* A notification carries the latest value of its tag: values that a subscription
  coalesces are not told apart. Subscribing is one step of `HistorianValues`; what
  a refused tag or a failed batch does is in `HistorianWorker`.

## 3. Runs

| run | instance | shows |
|---|---|---|
| `supervisor_safety` | 2 processes, 2 generations, 1 raising factory | With an arbitrary worker: never two live workers (`AtMostOneWorker`), pending exactly while the latest generation is unacknowledged (`PendingIffUnacknowledged`), stopped stays stopped (`StopIsFinal`), a live worker is read (`LiveWorkerIsMonitored`). |
| `worker` | 1 process, 2 generations, 2 batches, 2 faults | With an arbitrary web process: a generation is acknowledged only from tags loaded after it (`AckIsFresh`), survives failed sessions (`PendingGenerationKept`), is answered (`RebuildIsAnswered`), and an orphan ends (`OrphanEnds`). |
| `runtime_safety` | 2 processes, 2 generations, 3 faults, 1 raising factory | The composition implements `RebuildContract` (`ContractKept`); a live session is at least as new as what was acknowledged (`AcknowledgedIsLoaded`); a pending rebuild is always somewhere on its way (`RebuildOnItsWay`); the status is never better than reality (`ShownCompleteIsReal`). |
| `runtime_liveness` | 2 processes, 1 generation, 2 faults | Shutdown completes, a pending rebuild converges, the lock is always released although a command is written under it, a crashed worker is replaced. |
| `runtime_respawn_raises` | as above, the factory raises once | *violation*: finding 1. |
| `runtime_partial_rebuild` | 1 process, 1 refused tag, 1 lost connection | *violation*: finding 2. |
| `registry_scoped` | 1 line, 2 paths, 2 attributes, an ownerless row, 1 fast sync, 1 change, 1 fault | One path one row (`PathIsIdentity`), the historian follows the registry (`HistorianFollows`), both converge to the server (`RegistryConverges`). |
| `registry_deployments` | 2 lines sharing a path, with an ownerless row; or a process without a line name | `LinesAreIsolated`, and what holds without the locks, too: a full apply leaves exactly its browse active (`ApplyIsExact`), a fast sync takes nothing away (`SyncKeepsTheRest`). |
| `registry_duplicate` | a process without a line name | *violation*: finding 3. |
| `alarms` | 1 tag, 2 request threads, 3 requests, 1 fault | The player plays what is configured (`PlayerFollows`), the worker uses it (`DiagnosticsFollow`), the view is what the engine believes (`ViewMatchesEngine`) and what holds on the plant (`ViewIsTruthful`), or after an error a part of it. The fault is a load, a request, a session, an observation or a process that fails. |
| `alarms_counter` | the same, no fault | *violation*: finding 4. |
| `services` | section 3.1 | Resources: indexed files exist (`IndexedFilesExist`), no content twice and no unreviewed twin (`UploadsAreDistinct`), the revision follows the profile (`RevisionFollowsProfile`), versions and links are never lost (`HistoryIsKept`). Knowledge: `ActiveIsWhole`, `VersionsAdvance`. Kepware: a created object is shown (`CreatedIsShown`), an undisturbed bootstrap leaves every object in place (`BootstrapCompletes`), the control creates and repairs only below what its inspection found to be its own (`OwnershipIsRespected`). Inventory: an address with a history is never offered (`HistoryProtects`), `ProgressAddsUp`. Values: stored in the database of the line of the row and from the line's own channels (`PointsAreOfTheLine`), none stays behind (`LatestValuesAreStored`). |

Why the bounds are enough. Two processes give one crash, one restart delay and
one monitor thread that has been overtaken; a third would repeat the second.
Two generations are the least that cross. A capacity of one makes a full pipe
in both directions reachable with two messages. Two batches allow a command
between batches as well as after the last one. Faults are counted, not typed:
two of them already combine every failure with every other. Two paths are the
one a fast sync names and the rest; two attributes let a tag change in place.
Three alarm requests on two threads are the least that set the reload counter
back; with one tag the two creates of a check-then-insert meet, so that two
alarms of one tag are covered, while alarms of different tags do not touch each
other's engine state. The last process of `MaxSpawns` does not crash, and `TagMaster` does not outgrow
`MaxRows`: these are the only bounds that remove behaviours rather than
repetitions, and no property is about what lies behind them. Without faults left
the liveness properties say what they should: progress resumes once the
environment behaves. The request threads of `alarms` are symmetric; the only other symmetry is that of
`services`.

### 3.1 The run `services`

The four services and the handling of values share no state, no lock and no file, so that nothing is lost
by letting one of them move at a time: `focus`, chosen at first, names it, and
the others stay in their initial states. The properties of all are checked in
every state of each.

| part | instance | reached |
|---|---|---|
| resources | 2 requests, 2 documents, 2 profiles of one name, 1 upload type, 2 stamps, 2 resources of 2 versions, 1 confirmation, 1 failure or crash | similar uploads, a move that fails, a clean-up that races with an upload of the same second and takes its file, an edit that stops between any two of its files, links between resources and from a tag |
| knowledge | 2 writers, 1 image, 4 files, 3 versions, 2 failures or crashes | a save after a failed save, a left-over temporary index after a crash |
| Kepware | 2 healers, 1 creator, 3 projects (empty, a foreign device, a drifted tag), 1 mishap, 2 operations, browsers of the tags | two bootstraps at once, a channel or device replaced between an inspection and the creation it leads to, a tag that OPC does not confirm, a bootstrap that completes an earlier one, a POST that takes effect after its time-out, a fetch that spans a creation |
| inventory | 2 overlapping networks of 1 address or a single one, 2 runs, 2 requests, 1 manual record or restart | a scan of both networks that fails after the first, a view between whose queries a run is committed |
| values | 2 lines with a tag, or the second row in the other line, ownerless, or with the NodeId of the first; a worker of either line or of all; devices that collect, do not, or do not say; 2 changes, 2 failed writes | channels that do not answer, a client that could not be made, a point that arrived although its write failed, a restart during a cool-down |

Two requests are the least that race, and each lock lets one of them in at a
time. One failure is enough because each clean-up restores or leaves what a
second would find. The level browsed is that of the tag, the only one whose
verification does not read the collection and so does not repair the cache itself. With one address per network the
range arithmetic is not exercised, which no property is about.

The requests, documents, profiles and stamps of this run are symmetric: `Requests`,
`Writers`, `Healers` and `Scanners` are one set of threads, none of which an
initial state, an action or a property tells apart, and every `CHOOSE` in those
modules ranges over numbers, networks or addresses, or is the maximum of a
set.  The properties are invariants and action properties; none is a liveness
property.

### 3.2 Deadlock

The supervisor is switched off by configuration in one of its initial states,
so `enabled = FALSE` is covered by every run of it. `CHECK_DEADLOCK` is on
everywhere but in `services`, whose parts stop when their bounds are used up: where the system really stops (everything shut down, all workers
gone) the specification says so with a stuttering step of its own.

## 4. Fairness

* *Worker*: weak fairness of the main loop (each call it makes - SQL, OPC, the
  close of the session - is under a timeout in the code), of the end of a wait
  (`_wait_retry` has a deadline) and of the stdin thread, which waits for input
  only. Faults are never fair.
* *Supervisor*: a pipe write that can go on goes on (weak); `process.wait` with
  a timeout returns, and terminates the process when it has expired (weak); a
  thread that wants the lock gets it eventually although other threads keep
  taking it (strong, for monitor threads and for the `stop` of a shutdown).
  Python's locks are not queued, so this is an assumption about the scheduler
  and not a guarantee of the interpreter; without it a route called for ever
  could starve the monitor thread.
* *Registry*: weak fairness of the periodic reconcile (a task that sleeps and
  calls again; an interval of 0 disables it in the code, and with it
  `RegistryConverges`), of the steps of a reconcile and of a fast sync, of the start of
  the application, and of a load that is owed. The last is what `RebuildConverges`
  shows of the runtime.
* Nothing is assumed of people: no change of the server, no route, no shutdown is
  ever forced.

## 5. Proofs

`RuntimeSupervisorProofs` proves of `RuntimeSupervisor!Spec`, for every
`MaxSpawns`, `MaxGeneration`, `MaxSpawnFailures` in `Nat` and every positive
`PipeCapacity` (the assumptions `PipeConstants` and `SupervisorConstants`, and
no other):

    TypeCorrect        []TypeOK
    OneWorker          []AtMostOneWorker
    WorkerMonitored    []LiveWorkerIsMonitored
    PendingConsistent  []PendingIffUnacknowledged
    StopFinal          []StopIsFinal

all from one inductive invariant

    IInv == TypeOK /\ GenerationInv /\ SupervisionInv /\ StopIsFinal

* `TypeOK` is not inductive: a respawned worker is sent `rebuild(g)`, legal only
  for `g # 0`, and `rebuild_pending => g # 0` is part of `GenerationInv`.
* `PendingIffUnacknowledged` is not inductive: an acknowledgement still in a pipe
  could be ahead of the registry counter. `GenerationInv` adds that no event in
  any pipe is. `AcknowledgedCounters` is the lemma that one acknowledgement,
  however late, keeps the counters consistent.
* `AtMostOneWorker` is not inductive: a monitor thread that comes back from the
  restart delay spawns without polling. `SupervisionInv` says that a thread in
  its delay watches a process that has exited, that the live process is
  `_process` and is being read, and that processes above it were never born.
* `StopIsFinal` is inductive given the types: `start` clears `_intentional_stop`,
  a respawn tests it in the same critical section.

`TypeStep`, `GenerationStep`, `SupervisionStep` and `StopStep` have one step per
action.

`HistorianWorkerProofs` proves of `HistorianWorker!WorkerSpec`, for any number of
workers, generations, batches, retries, faults and pipe slots (`PipeConstants`,
`WorkerConstants`):

    AcknowledgementIsFresh    []AckIsFresh
    GenerationSurvives        PendingGenerationKept

from `WInv == WorkerTypes /\ OrderInv /\ AckIsFresh`. `AckIsFresh` is not inductive
without `OrderInv`: no generation pending, queued or in the pipe is ahead of the
registry that the next load reads. The second needs that a generation taken from
the queue is later than the one it replaces: `OrderInv` says that the rebuilds of a
worker's *line* (its queue followed by its pipe) rise above what is pending.
`MainLoop` reduces the nineteen actions of the main loop to four effects
(`GoesOn`, `Ended`), `LineTail`, `LineShift` and `LineAppend` are the sequence facts.

`HistorianRuntimeProofs` proves of `HistorianRuntime!RuntimeSpec`, of both programs and
the pipes between them, under `PipeConstants`, `SupervisorConstants` and
`WorkerConstants`:

    OneHistorianWriter         []AtMostOneWorker
    AcknowledgementsAreLoaded  []AcknowledgedIsLoaded
    RuntimeImplementsContract  ContractKept
    RebuildIsNeverLost         []RebuildOnItsWay
    ShownIsReal                []ShownCompleteIsReal

A step of the web process is one of `RuntimeSupervisor`, so types, counters and the
process table are kept by the lemmas of `RuntimeSupervisorProofs`; `LoopInv` follows a
generation round the loop instead: no command and no worker is ahead of the registry, no
event ahead of the latest load of tags. `AcknowledgedIsLoaded` needs `SessionInv`: a live
session works with the tags of the latest load, since a load is what begins a session
and only one process lives. `RInv` joins these. The refinement maps `loaded`
and the two counters of `status` to the contract's variables: a load is `Load`, a
change of the registry `Request`, and the reading of an acknowledgement
`Acknowledge`, allowed because `LoopInv` says it is not ahead of a load; all else
stutters. `RebuildOnItsWay` needs `ChainInv`, which names every place the latest
generation may be (the command in a pipe or queue, the worker's pending generation, the
event on its way back, or the monitor that will respawn) and what each place makes true
of the worker; `DeliveryKeepsChain`, `ReadingKeepsChain`, `SpawnKeepsChain`,
`SupervisorKeepsChain` and `WorkerKeepsChain` move it from one to the next.
`ShownCompleteIsReal` speaks of an empty pipe only, so it is not inductive: `ShownInv`
says for every content of the pipe what the console will show once it has been read
(the last event that turns a light on or off counts) and that this is never more than
the worker has. Reading shows what was going to be shown (`ReadingShowsNoMore`), and a
worker's step is judged by the one event it appends (`ReportKeepsShown`).

`TagRegistryProofs` proves of `TagRegistry!RegistrySpec`, for any paths, attributes,
lines, overlapping scopes, request threads and bounds, under `ScopedDeployment`: every
process has a line name, and the ownerless rows, finitely many, name a path once
(without a line name two of the theorems are false, see section 6):

    OneRowPerPath             []PathIsIdentity
    LinesStayIsolated         LinesAreIsolated
    AppliesAreExact           ApplyIsExact
    SyncsKeepTheRest          SyncKeepsTheRest
    ChangesReachTheHistorian  []HistorianFollows

First comes what one transaction does: `WrittenFacts` unfolds `Written` into what
becomes of the rows (`TableAfter`) and of the line's tags (`TagsAfter`),
`TransactionTags` draws from it the active tags of every line, `CountsTell` that a
full apply whose counts are all 0 changes none. The invariant is `RegistryInv ==
RegistryTypes /\ Snapshots /\ PathIsIdentity`: a browse or a sync holds each path
once (`Snapshots`), without which one apply could insert a path twice. For the last
theorem `FollowedOrOnItsWay` joins it: a historian that does not subscribe the
active tags has a load owed or a committed transaction that will ask for one.
`StepShape` reduces a step to one of the two commits or to one that writes nothing.

`AlarmActivityProofs` proves of `AlarmActivity!Spec`, which contains every step of
`AlarmMappings`, for any tags, request threads, requests, events and faults
(`AlarmConstants`, `ActivityConstants`):

    AlarmsAreTyped              [](MappingTypes /\ ActivityTypes)
    WorkerFollows               []DiagnosticsFollow
    ViewMatches                 []ViewMatchesEngine
    ViewTellsTheTruth           []ViewIsTruthful
    PlayerPlaysWhatIsConfigured []PlayerFollows     if MaxRequests < ReloadModulus

The first four from `AInv == MappingTypes /\ ActivityTypes /\ WorkerInv /\ EngineInv /\
PipeInv /\ ToldInv`. None of the properties is inductive: they speak of a quiet state.
`ToldInv` says at every moment who will still tell the worker that its mappings are
old: a command under way or a request that is about to send one. `PipeInv` follows the
view through the events it has not read yet: there is a `Chain` of views, from the one
shown through each event in the pipe, whose last one is what the engine believes, or after an error (`viewLost`) a part of it;
`PipeGrows` appends to it what one value, an exception in the middle of one, a reload or
an ended session reports, and
reading takes its first link away. It uses that the events of one value concern
different alarms, so that their order does not matter. `EngineInv` ties the engine to
the plant: an alarm past its first value is active exactly when its condition holds,
unless its tag has a value still to come.

The player's theorem has an invariant of its own, `PlayerInv`: unless the counter was
set back, the node is `k` writes ahead of what the player saw last, and `k` and the
requests that have still to write are together no more than all requests made. The
hypothesis says that there are fewer announcements than values of the node: with as
many, one that comes after a whole turn of the counter shows the player the value it
has. A node of 16 bits has 65536 values (`INTEGER_VARIANT_BOUNDS` of
`src/services/alarm_reload.py`).

`ResourceStoreProofs` proves of `ResourceStore!ResourceSpec`, for any requests,
documents, profiles, names, resources, versions, confirmations, failures and crashes
(`ResourceConstants`, `NoneIsNoContent`):

    ResourcesAreTyped         []ResourceTypeOK
    UploadsStayDistinct       []UploadsAreDistinct
    RevisionsFollow           []RevisionFollowsProfile
    HistoryStays              HistoryIsKept
    ListedFilesExist          []IndexedFilesExist

from `RInv == ResourceTypes /\ WriterHoldsLock /\ IdsInv /\ EntryInv /\ ContentInv /\
NameInv /\ RenderInv /\ LinkInv`, which says of every request between two of its files
what the next one relies on: the index it is about to write adds the version of the file in
place (`EntryInv`), no indexed content is the one about to be indexed (`ContentInv`:
uploads are compared, and a rendering is of its own resource and version), no upload
without a confirmation has its type and name (`NameInv`), and the profile of a resource
is the one rendered last, unless an edit was interrupted (`RenderInv`). All of it
because a writer holds the lock (`WriterHoldsLock`).
`RevisionFollowsProfile` speaks of the active version, `LastFollows` of the one rendered
last; `ActiveFollows` takes the one to the other with `ContentInv`: what is active is a
rendering for its very place, then it is the last one, or an upload.
`IndexedFilesExist` needs `FInv` besides, since a request that has failed removes its
file *outside* the lock: what it will remove is in no index, and no other request has a
file in the same place, unless a move to that place has failed before (`FilesInv`). For
such a place (`unmoved`) only this remains, that the file is the one listed or gone: see
the first of the services' observations in section 6.

`KepwareControlProofs` proves of `KepwareControl!KepwareSpec`, for any threads,
projects, mishaps and levels browsed (`KepwareConstants`):

    CreationsAreShown         []CreatedIsShown
    OwnershipHolds            OwnershipIsRespected
    BootstrapsComplete        []BootstrapCompletes

The first from `KepwareInv == OpTypes /\ CacheTypes /\ Answered` and `Underway(t)` for every undisturbed `t`, which
follows an object through its creation: posted, it is there (unless somebody has
disturbed the operation); invalidated while no browser holds an answer, it is shown
from then on, since whatever is fetched later lists it; answered for, it stays so.
`Harmless` says when a step keeps all of this, and every action but five is harmless.
The second from `OwnInv` besides: nothing is below what is absent (`Nested`), and a
thread whose inspection no change of somebody else has overtaken has `Footing`: the
channel and device above where it inspects, or above the object it is about to make or
to change, are its own, or have been deleted. That they are there when the request takes
effect follows from `Nested`, for Kepware makes nothing below what is missing. It is here
that no thread may be both a healer and a creator.
The third from `BootInv` and `CleanInv`: every operation follows its `Plan` and a bootstrap
holds the operation lock while it works (`Planned`); what an undisturbed one has found or
made is still there (`Steady`): at an inspection, all above the level it looks at, and its
own; in a later phase, what the earlier phases were for; before a POST, that nothing is in
its place. It begins only where an inspection found something missing, and then nothing
foreign and no drift is in the project (`Clean`): above what is missing all was its own,
below it there is nothing. `AfterInspectBoots` goes through the ways on from an
inspection. Another operation can add no object under it: a second bootstrap waits for the
lock, a creation by the form disturbs it, and a repair only writes a tag that is there
(`SteadyStays`).
`ControlInv` joins these four.

`ServicesProofs` proves of `TagKnowledge!KnowledgeSpec`, for any sets of
writers, images, texts and file names and every bound (`KnowledgeConstants`):

    KnowledgeTypes            []KnowledgeTypeOK
    ActiveVersionIsWhole      []ActiveIsWhole
    KnowledgeVersionsAdvance  VersionsAdvance

from `KInv == KnowledgeTypeOK /\ SaverHoldsLock /\ SaveInv /\ ActiveIsWhole`.
`ActiveIsWhole` is not inductive: that the index moves to a file that holds its
version needs to know that the Markdown of a save under way is still as it was
written (`SaveInv`), which holds because only free file names are written to and
because whoever saves holds the lock (`SaverHoldsLock`).

`ServicesProofs` proves of `NetworkInventory!InventorySpec`, for any networks,
ranges, probes, runs and restarts (`InventoryConstants`):

    KnownAddressesAreProtected  []HistoryProtects
    ScansAddUp                  []ProgressAddsUp

The first from `ViewInv`: what was known when a view began is known to the tables while its
queries run, because the tables only grow (`EvidenceGrows`), to the view once it has
read the evidence, and `KnownIsNotFree` afterwards.
The second from `ScanInv`, an account of what is counted and what is left: between two
networks, the addresses counted and those of the networks to do are the total
(`BetweenNetworks`); at a network, the baseline and those of the networks to do
(`AtNetwork`), where no more is counted than the network has. `OneNetworkLess` takes a
network's addresses off the sum, also when ranges overlap.

`ServicesProofs` proves of `HistorianValues!ValuesSpec`, for any tags, lines,
channels, registries, values and bounds (`ValueConstants`):

    PointsStayInTheLine       []PointsAreOfTheLine
    ValuesAreStored           []LatestValuesAreStored

from `VInv == ValueTypes /\ SessionInv /\ ClientsInv /\ PointsAreOfTheLine /\
CurrentInv`. The first is not inductive without `ClientsInv` (a client is kept for
the database it was switched to) and `SessionInv` (only tags of rows that were not
refused are notified); the second without `CurrentInv`, which says of every tag
that is not due what the property says when none is. `LoadedTag` and `DueTag` are
the lemmas that say what the scope guarantees of such a tag.

Only model-checked: liveness and fairness (`RebuildIsAnswered`, `OrphanEnds`,
`ShutdownCompletes`, `RebuildConverges`, `LockIsReleased`, `WorkerIsRestarted`,
`RegistryConverges`), which the prover does not reach, and processes without a line name
in `TagRegistry`, of which two of the theorems are false. Every invariant and every
action property of a passing run is also a theorem.

## 6. Findings

1. *A respawn that raises is never repeated* (`runtime_respawn_raises`).
   `_monitor` calls `_spawn` as its last act; an exception of the process factory
   ends the thread and nothing is left that would try again.
2. *A partial rebuild is never settled* (`runtime_partial_rebuild`). The worker
   forgets its generation after an incomplete acknowledgement, which the
   supervisor does not accept; a later session of the same worker that
   subscribes everything has nothing to acknowledge, so `rebuild_pending` stays.
   `RebuildOnItsWay` and `RebuildConverges` therefore except it (`refused`).
3. *A legacy registry can duplicate a path* (`registry_duplicate`). Without a
   line name there is no lock and no unique index: a fast sync between the read
   and the insert of a reconcile gives one path two TagIds, after which every
   reconcile is refused.
4. *The reload counter goes back* (`alarms_counter`). A request reads the node, two
   others increment it, and the first writes its value plus one: the node holds a
   value the player has seen, and the next announcement may bring it to the value
   the player saw last, which is then no change. `PlayerFollows` excepts it
   (`setBack`). Two requests that write the same value do no harm: both changes
   were committed before either wrote.

Seen in the model and not a finding: in a legacy process the counts that decide
about the notification come from the first read, so a deactivation may go
unnotified (same cause as 3; `HistorianFollows` is checked for scoped processes
only); a stop command taken from the queue is lost when the OPC session does not
close in time, which `terminate()` makes good; a tag that was fast-synced during
a browse is deactivated until the next one; two creates that overlap give one tag
two mappings, which the tag's alarm page then refuses to show; a reload of the
mappings forgets which alarms are active until their tags change; and after a
failed load, or an exception in `observe`, the view is emptied while the engine goes
on, is called ready again by the next event of any tag, and lacks alarms until the next
load (`viewLost`, excepted by the two properties of the view, which say what it still
never shows).

Seen in the services. The first two are the code against its documents, stated here and
excepted by the properties rather than run as violations of their own:

* *A failed move can take another request's file.* The clean-up of a failed
  `upload_version` unlinks its file after it has left the lock
  (`shared_resources.py:141`). When the move itself failed, the name is free, and a
  request of the same second may have uploaded and indexed a file under it, which the
  clean-up then takes: a listed version without its file, although "New versions retain
  history" (`md/OpcTagManager_Project_Context.md:62`). `services` reaches this.
  `IndexedFilesExist` excepts exactly the places to which a move has failed (`unmoved`);
  without the exception TLC finds the lost file.
* *An interrupted edit leaves the revision behind.* After an edit whose index could not
  be written the profile is ahead of the active version, and to send the edit again is
  answered "unchanged": the revision that integrations compare changes with the next
  different edit only, although "meaningful edits change the token"
  (`md/ENGINEERING_RELATIONSHIP_CONTRACT.md:51-52`). `RevisionFollowsProfile` excepts
  such resources (`interrupted`). A document uploaded on top of a profile is the active
  version, and its revision is the document's: the property then speaks of the version
  rendered last.

The others contradict nothing that is written:

* A bootstrap whose first inspection could not be verified goes on, and so does one
  whose *second* inspection finds a channel or device of somebody else's: it then
  creates the tag group below it (`kepware_system_control.py:148-152`), and only the
  tag is left out. `OwnershipIsRespected` speaks of the group for undisturbed
  bootstraps only.
* Between the inspection and the POST of the device or the tag
  (`kepware_system_control.py:143-155`), and between the inspection that found a drift
  and the fresh read of `PROJECT_ID` under the lock (`kepware_config_api.py:472`),
  somebody else may change the project: the tag is then created below a foreign device,
  since `create_tag` looks at nothing but its existence, or his change of the tag is
  overwritten. `OwnershipIsRespected` excepts operations that were `overtaken` by a
  change; what it says is that there is no other way.
* A bootstrap that nothing disturbs may still answer `verification_failed`, with every
  object in place: when OPC cannot be reached, resolves another NodeId, or offers a type
  the reload cannot use (`kepware_system_control.py:122-130`). `BootstrapCompletes`
  allows it (`tag_unverified`).
* After a POST that timed out, or an `update_tag`, the cached collection of the
  parent lacks the object, or shows it as it was, until its time to live is over.
  `CreatedIsShown` is about creations that were answered.
* A view of the inventory reads the history before the runs
  (`network_inventory.py:589`): a run committed in between is shown as the latest
  while its own evidence is not counted, for this one request. `HistoryProtects`
  is about what was committed before the view began.
* A value that was dropped during a cool-down is written when it changes or when
  a session begins, and not when the cool-down ends: the last point of a tag that
  stands still stays old. `LatestValuesAreStored` excepts it (`missed`).

## 7. Not modelled, and the plan

Left out for good: routes that read or render, the browser client, SQL scripts
run by hand, `alarm_audio`, `alarm_preflight`, `historian_cutover`,
`historian_validation`, `tag_value` (no state of their own), connection,
configuration and tracing helpers, the CSV exports and OUI diagnostics of the
network inventory, the reading of property definitions and documentation by the
Kepware client.

Not checked of what is modelled: that one confirmation makes one resource only
(three resources are the least that would show it), the control's
`driver_unavailable` answer; that SQL Server rolls a failed transaction of the registry
back, which is assumed.

Next (each with its mutants, sharing runs where components share an instance):

1. `LineScope.allows_channel` as an operator on names, against the examples of its
   tests.
2. A client of its own for the control when a line scope is set.

Theorems next: `AppliesAreExact` and `SyncsKeepTheRest` without `ScopedDeployment`, that
is, also for the processes without a line name, which read the whole registry.
