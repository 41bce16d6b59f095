# A TLA+ model of the SAP system exporter

This directory models and verifies `sap_system_exporter`: what happens when
several Prometheus collectors, each with a deadline, share one cache in front of a
SAP system that may be slow, partly down or silent; what a scrape shows of any
answer of SAP; and how the process is configured, started and lost.

## 1. Inventory of the system

| Component (source) | State it keeps | Operations | Hard part |
|---|---|---|---|
| Cache manager (`cache/manager.go`) | map key -> item with expiration, one `RWMutex`, statistics | `GetOrSet`, `getInternal`, `setInternal` | late expiration test, double check, user function called under the lock |
| Concurrent recorders (`collector/default_collector.go`) | a channel, a `WaitGroup` | `RecordConcurrently` | closing the channel at the right time, returning only when all ended |
| Instance list (`lib/sapcontrol/current_instance.go`) | `sap_sid` in the shared configuration | `GetCachedInstanceList`, `GetAllInstances`, `GetSingleInstance` | fan-out, partial failure, write to a shared map |
| Metrics (`SetDescriptor`, `makeMetric`, the bodies of the `record...` functions) | the descriptors of a collector | one line per record, counts | labels by position, a repeated series refuses the whole scrape |
| Process lists (`lib/sapcontrol/processes_list.go`) | none | `GetCachedProcessList`, `GetProcesses` | errors are cached as nil |
| SAPControl client (`lib/sapcontrol/webservice.go`, `client.go`) | none (a new SOAP client per call) | one function per SOAP call, conversions | failover over access points, deadlines |
| Collectors (`collector/start_service`, `dispatcher`, `enqueue_server`, `workprocess`, `alerts`) | none between two scrapes | `Collect` and the `record...` functions | deadline against lock, errors of one instance |
| Loki push (`collector/alerts`, `lib/sapcontrol/loki_client.go`) | the buffer of the promtail client | `NewLokiClient`, `Single() <-` | a blocking send without deadline, loss at exit |
| Configuration (`internal/config`) | viper | `New`, `loadConfigurationFromFile`, `sanitizeSapControlUrl`, `validateSapControlUrl` | precedence, rewriting of options |
| Startup and registry (`main.go`, `collector/registry`) | the Prometheus registry | `run`, `RegisterOptionalCollectors` | what one failure stops |
| Logger (`internal/config/logger.go`) | a level per logger | `NewLogger`, `SetLevel`, one function per level | eleven loggers that must agree |
| Generated binding (`doc/_generated_soap_wsdl.go`) | none; not compiled | the types of SAP's WSDL | the hand-copied part must say the same |
| Landing page | none | writes a constant page | none |

How they interact. Prometheus calls `/metrics`; client_golang calls `Collect` of
every registered collector, each in a goroutine, and two scrapes may overlap. A
`Collect` makes a context with the deadline `scrape_timeout`, asks the cache for
the instance list, and loops over the instances: it asks the cache for the
process list of the instance and/or calls SAPControl directly, and emits metrics.
The start service collector runs two such recorders through `RecordConcurrently`.
On a miss the cache calls back into `lib/sapcontrol` **while it holds its only
lock**; for the instance list that callback starts one goroutine per instance and
may write `sap_sid` to the configuration that everybody reads.

What makes it correct, per component:

- cache: SAP is not asked for what is still live; nobody is served a value that
  has been replaced; every call returns; every call is counted;
- recorders: no send on a closed channel; no return before every recorder ended;
- instance list: every instance once, whatever failed; labels that do not depend
  on luck once the SID is known; no crash from the shared configuration then;
- collectors: every `Collect` ends; waits for one another's fetches do not add up;
  data and cached errors are of bounded age; one failing instance hides no other;
- SAPControl client: a search ends, fails for cause only, and takes
  all instances from one access point; every instance is called at its own URL, and
  shown its own data;
- metrics: no legal answer makes a scrape panic or be refused, the counts agree with
  the lines, no label value stands under another label's name;
- configuration: the five options that say where SAP is agree; a URL that the user gave
  keeps its host and port; the file that counts is read or its failure reported;
- startup: a process that serves has exactly the collectors that are switched on; an
  alert that stays open, and young enough for `alert_samples_max_age`, reaches Loki
  although crashes lose what was buffered;
- wire format and conversions: nothing SAP sends is lost for a wrong name, a counter
  falls only where SAP sends no time at all, which the code takes for 0.

The hazards are listed line by line in `PROJECT.json`.

## 2. Modules

| Module | Models | Kind |
|---|---|---|
| `ReadThroughCache` | what the users of the cache rely on: `Invoke`, then an atomic `Hit`, or `Load` and `Loaded` | abstract specification |
| `CacheManager` | `cache/manager.go`, one action per stretch of code between two synchronisation points | implements `ReadThroughCache` |
| `ForkJoin` | what the callers of `RecordConcurrently` rely on | abstract specification |
| `FanOut` | `RecordConcurrently` | implements `ForkJoin` |
| `InstanceList` | `GetAllInstances`, `GetSystemInstanceList`, `GetSingleInstance`, `sap_sid` | detailed; takes the fan-out for its abstraction |
| `Scrape` | the collectors over `ReadThroughCache` | composition |
| `Alerts` | `recordAlerts`, `RemoveDuplicate`, the promtail client's channel | detailed |
| `CachedInstances` | `GetCachedInstanceList`: `InstanceList` over `ReadThroughCache` | composition |
| `Metrics` | descriptors, and what the recorders emit of any answer | detailed |
| `SapControl` | the search over the access points, the URLs, the cached process lists | detailed |
| `SoapWire` | the types of `webservice.go` against those of the WSDL binding | detailed against reference |
| `Conversions` | `ParceCPUTime`, `StateColorToFloat`, `StateColorToLevel` | algorithms against their meaning |
| `Answers` | an answer read off the wire, then converted: `Conversions` after `SoapWire` | composition |
| `Config` | `config.New` over viper's layers | detailed |
| `Startup` | `main`, `run`, the registry, the loggers, crashes and restarts | detailed, with a fault model |
| `MC...` | constants for TLC | model checking |
| `CacheManagerProofs`, `ScrapeProofs`, `SapControlProofs`, `ConfigProofs`, `StartupProofs` | theorems about the module of that name | TLAPS |
| `CollectorProofs` | theorems about `FanOut` and `Metrics` | TLAPS |
| `InstanceListProofs` | theorems about `InstanceList` and `CachedInstances` | TLAPS |
| `AnswersProofs` | theorems about `Alerts`, `Answers`, `SoapWire` and `Conversions` | TLAPS |

### CacheManager

`cache` is the map, `writer`/`readers` the state of the `RWMutex`, `pc`, `key`,
`item` and `result` the program counter and locals of each goroutine, `stats`
the counters.

| Code | Action |
|---|---|
| `GetOrSet` called | `GetOrSet` |
| `RLock`, granted or queued behind a writer | `RLock` |
| map lookup, `RUnlock` | `ReadItem` |
| expiration test *after* `RUnlock` (`manager.go:60-67`) | `CheckHit`, `CheckMiss` |
| `Lock`: announce, then wait for the readers inside | `Lock`, `Drain` |
| double check (`manager.go:99-109`) | `RecheckHit`, `RecheckMiss` |
| `setFunc` returns, `setInternal`, deferred `Unlock` | `Store` |

The two halves of `Lock` matter: an announced writer blocks new readers before it
owns the lock, and its `Unlock` wakes up all of them. The set function may return
any value, nil included, and any ttl, negative ones included.

### FanOut

One call with `N` recorders. `Spawn` is one turn of the starting loop
(`wg.Add(1)`, `go`); `Finish`, `Send` and `Done` are a recorder's end, its
send on the buffered channel and its deferred `wg.Done()`; `StartCloser` and
`Close` the goroutine of lines 79-82; `Receive` and `Return` the range loop.

### InstanceList

`GetSystemInstanceList` tries access points (`tried`) until one lists at least
one instance. `Spawn` starts one goroutine per instance; each reads the
configuration (`StartRead`, `EndRead`) and calls (`CallEnds`). `Receive` is one
turn of the loop over the results; `WriteSid` is the return of
`v.Set("sap_sid", ...)`, a step of its own because others may read meanwhile.
A read and a write of a Go map at the same time are undefined behaviour: the
model allows nothing to happen, or `Crash`. The end of the loop relies on
`ForkJoin`: every result is in. That one call runs at a time is `LockDiscipline`.

### Scrape

A recorder is idle, waits for the list (`Collect`, `GotList`), loops
(`Visit`, `Finish`), waits for a process list (`GotProcesses`) or for a direct
call (`CallEnds`). Four roles cover the code's recorders by what they need:

| Role | Recorders |
|---|---|
| `instances` | `recordInstances` |
| `processes` | `recordProcesses` |
| `queues` | `recordWorkProcessQueueStats`, `recordEnqStats`: a call if the process list shows the right process |
| `tables` | `recordWorkProcessStats` (ABAP instances only), `recordAlerts`: a call |

Time is discrete and passes only while every busy recorder waits for SAP or for
the lock that somebody holds during a fetch. A hit may wait for that lock too,
because `RLock` queues behind the writer. A value in the cache carries the time
`asof` at which SAP was asked. The push to Loki takes no time here.

### Alerts

Several Collects at a time, since scrapes may overlap. Each has a list of its own
(`InstanceLists`), which gives an instance its name and SID, or its number and `sap_sid`
if its properties could not be had (`Listed`): they label its series and its entries, so
that an alert may be another series, and go to another stream, from one list to the next.
`GetAlerts` is one turn of the loop over the instances (a failed call ends the turn), `Report` the list it
gets, with duplicates removed if the alerts go to Prometheus. `DropInvalid` and
`Record` are one turn of the loop over the alerts; `Push` is the send on the
promtail client's channel. The client is not in the repository: all the model
takes from it is a bounded channel that somebody drains (`Drain`). Every
combination of `send_alerts_to_prom` and a configured Loki is an initial state.
`TooOld` knows that the clock is read twice: with `alert_samples_max_age: 0` even an
alert that has just been given the current time is too old. The timestamp of an entry is
left out, apart from that. The `continue` at `alerts.go:192` (label names and values
differ in number) is left out too: both come from the same descriptor.

### CachedInstances

Extends `InstanceList`; the Collects, its `Readers`, share one cached list.
`GetCachedInstanceList`, `Hit`, `SetFunc` and `SetFuncReturns` are the cache's `Invoke`,
`Hit`, `Load` and `Loaded`, the third together with `GetAllInstances`; `Listing` is any
step of `InstanceList` while the Collect that loads holds the lock. `InstanceList` lets
anybody read the configuration at any time; here a Collect reads only outside `GetOrSet`
(`CachedConfigRead`). An error is stored as `Nil`. `Tick` moves every time one unit back
instead of the clock forward: only their difference matters, the states stay finite, and
the number of refreshes needs no bound.

### Metrics

One scrape, by recorders that have something to do with each other (`Together`: the
others got no instance list). `Turn` is one turn of a recorder's loop over the instances,
with any answer of SAP: a sequence, since a record may be listed twice. `Skip` is a failed
call, `Ends` the end. What a turn sends is a family of metrics: one may be sent twice, and
the order is not looked at. A label value is a pair, what it means and which one it is,
so that a value under a wrong name is seen (`LabelsAligned`). `Series` and `Emit`
are client_golang: a wrong number of label values panics, a series that is there
already refuses the scrape. `recordProcesses`, `recordInstances`, `recordQueues`,
`recordEnqStats`, `recordWorkProcessStats` and `sendWorkProcessMetrics` have the
source's names; the descriptor tables are copied from the constructors.
`recordProcessesPerInstance` is not modelled: nothing calls it (`start_service.go:171`);
the mutant `BothRecorders` stands for calling it, and the scrape would be refused.
The specification is `MetricsSpec`, with names of its own, so that one module of proofs
can be about `FanOut` and about it.

### SapControl

One Collect. `point` is the access point that is asked or is next; `CreateSoapClient`
begins a call, `Wait` lets time pass, `Decodes` is an answer, `CallContext` the end
of a call without one, `AllFailed` the end of the search. An access point works, has
an empty list, refuses, breaks off while it sends, or keeps silent. Then
`GetSingleInstance` and `GetCachedProcessList` call the instances at `Endpoint`;
`Listens` says who is there. `CallInstance` stands for the direct calls.

### SoapWire

`wsdl...` are the types of the seven operations as `doc/_generated_soap_wsdl.go` has
them, each a `Row` of elements, `OSProcess`, `Alert`, ... the ones of `webservice.go`.
`Call` sends a request, `Answer` is SAP's answer with any one element left out, `Decode`
what encoding/xml makes of it: a field whose element never comes keeps its zero value,
without an error.

### Conversions

A work process runs (`Run`), is restarted with another pid (`Restart`) and is shown in
any of the forms in which SAP may write its time (`Writes`, whenever it runs or is
restarted), the empty text among them, which the code reads as 0 whatever the time is:
`sendCpu` parses and emits what can be read. The series of a process has its status,
user and more among its labels; `counter` is the value last shown of the process, in
whichever of them. `Raise` is an alert of any colour, or none. In `Answers` both happen
only to an answer that was decoded, in which the element may be missing: then there is
no text and no colour.

### Config

`layers` are viper's six; `Get` answers with the first that has a value. One action
per call in `New`, in its order: `BindPFlags`, `setDefaults`, `bindEnvVars`,
`loadConfigurationFromFile`, `sanitizeSapControlUrl`, `validateSapControlUrl`. A URL
is what `url.ParseRequestURI` finds in it: scheme, first part of the host, domain,
port. The command line, the environment and the file are any mixture of the options
that `New` looks at itself; the rest passes through it unread. `disk` is the one file
that matters: `place` says where it lies, under which name, `SearchPath` where the loader
looks when no file is named (the name and the four directories of `loader.go:28-33`).
With several files there viper takes the first, so that the others do not count.

### Startup

`pc` goes through `main`, `LoadConfig`, `NewClients`, `RegisterStartService`,
`EnterRegistry`, `RegisterOptionalCollector` (one per optional collector) and `Serve`
to "serving". `Crash` may come anywhere: `Fatalf`, a signal, or the HUP that systemd
sends for a reload and nothing handles; the memory is lost, the deferred `Shutdown`
never runs, and `Start` is `Restart=always`. `lines` are the log lines printed while
the configuration is known. One alert at a time is followed: `Opens`, `Ages`, `Closes`;
`Scrape` pushes it while it is open and not too old (`Pushes`), `Deliver` and `LoseBatch`
are the Loki client's batch. `age` is how long ago SAP says that it was raised, or `None`
for a time that cannot be read, which the code replaces by the current one at each scrape.

## 3. Runs

| Run | Instance | Shows |
|---|---|---|
| `cache` | 3 goroutines that compete for one key, ttl in {-2, 1, 2}, counters that wrap | `LockDiscipline`, `HeldCopyCurrent`, `FetchOnlyWhenDead`, `StatsConserved`, `ImplementsReadThroughCache` (live items stay among it), `EveryCallReturns` |
| `fan_out` | 3 recorders | `NoSendOnClosed`, `ImplementsForkJoin` (it returns only after every recorder ended), `CallReturns` |
| `instance_list` | `CachedInstances`: 2 Collects, 2 instances, 2 access points, 2 SIDs, `sap_sid` absent, right or wrong, ttl 1 or for ever, any number of refreshes | `EveryInstanceOnce`, `FailedInstancesLabelled`, `CrashOnlyWhileUnknown`, `SidStable`, and `NoCrashOnceShown` over all refreshes |
| `scrape` | 3 recorders of 3 roles, 2 instances | `NoPileUp`, `NoneSkipped` |
| `scrape_liveness` | 2 recorders, items that expire repeatedly, SAP that may never answer | `Freshness`, `CollectEnds` |
| `alerts` | 2 Collects of an instance under either of 2 labels, up to 2 alerts of 3 kinds, one of which grows too old, a channel with room for one entry | `SeriesDistinct`, `NoAlertHidden`, `CollectEnds` |
| `metrics` | 2 instances; 2 of 3 processes, 2 of 5 work processes, 2 queues, in any order, twice too; 4 enqueue states, each of 3 colours, one unknown | `LabelsAligned`, `RefusedOnlyForRepeats`, `CountsAgree` |
| `sap_control` | 4 access points of 5 behaviours each, 3 instances of which 2 share a host, timeout 0 or 2, both schemes, a useless `host_domain` | `FailsOnlyForCause`, `FromOnePoint`, `OwnData`, `Reached`, `SearchEnds` |
| `answers` | `Answers`: 7 operations, any one element missing; 5 times around the boundaries in 1 to 4 parts or none, 2 pids | `NothingLost`, `ColoursAgree`, `CpuFaithful`, `CounterFallsOnlyWhenEmpty` |
| `config` | 406 080 inputs: URLs of every shape, by three ways at once, a file where it is named, where the loader searches, where section 6 says that the README has it, or none | `UrlAgrees`, `UserUrlKept`, `FileNotIgnored` |
| `startup` | 58 configurations, 2 crashes, alerts of an unreadable time or up to 3 units old, where the option accepts any age, none or 2 | `ServesAsConfigured`, `OpenAlertReachesLoki` |
| `scrape_per_request` | 2 recorders, 1 instance | **violated on purpose**, see section 6 |

No run checks types: the shape of the state is a theorem of every module of proofs
(`TypeOK`, `Types`, or a part of the inductive invariant), and so are `LiveItemStable`
and `ReturnsComplete`, which the refinements of `cache` and `fan_out` contain. Three
properties are conjunctions of named parts: `CountsAgree` (`ProcessCountsAgree`,
`WpCountsAgree`, `EnqueueStates`), `ServesAsConfigured` (`ServesComplete`,
`LoggersAgree`, `LevelDecides`) and `ColoursAgree` (`ColoursKnown` of `SoapWire`,
`RankedAlike` of `Conversions`).

Bounds and why they suffice. Three callers of the cache are a holder, a waiter
with an old copy and a third that overtakes. They compete for one key, which is where
they meet; the theorems of section 5 hold for any number of keys, and that a hit on
another key waits for the lock is in `Scrape`. The clock stops at `MaxTime`, late enough
for an item to expire and to be fetched again; callers go on for ever. The runs of
`Scrape` stop there, since time has to pass for SAP to answer or not, and so do not
look for deadlocks (`CHECK_DEADLOCK FALSE`), nor do `FanOut.cfg`, where the call is
over in the end, `CachedInstances.cfg`, where a crash ends everything, and
`Alerts.cfg`, where being stuck is what `CollectEnds` excludes. `StatsModulus` is
small where the code has 2^64. `CachedInstances` has two instances, one that fails
and one that brings the SID, and takes instances and Collects as symmetric: they are
only compared with one another, and no liveness is checked there.

`Metrics` lists at most two records per answer: enough for a repeated one, for two
of one kind and for two of different kinds, and the recorders treat records alike.
Its run stops when the scrape ends, as those of `SapControl`, `Answers` and `Config` do
when the Collect, the call or `New` ends (`CHECK_DEADLOCK FALSE`). Two crashes suffice
in `Startup`: one before and one after the alert was pushed. An alert there ages up to
`MaxAge`, past the limit of the option. In `Alerts` it is within the limit at first and
past it when the clock ends. `Config` has no bound; the
URLs are one of each shape that `New` tells apart, the places of the file one of each
kind: named, in the search path, outside it. `Conversions` needs the times at
which another part of the text changes.

In `Scrape` no `Collect` begins less than `Timeout` before `MaxTime`, so that
every one of them can reach its deadline.

## 4. Fairness

- `CacheManager`: weak fairness of every goroutine (the Go scheduler runs what is
  runnable; every set function returns, since its SOAP calls carry a deadline);
  strong fairness of winning the write lock, which `sync.Mutex` guarantees by
  handing the lock to a waiter that starved for a millisecond.
- `FanOut`: weak fairness of every goroutine; a recorder ends because its context
  has a deadline.
- `Scrape`: weak fairness of a recorder's own steps and of the failure of a call
  whose deadline has passed, strong fairness of the start of a fetch (the lock)
  and of the clock. An answer of SAP is *not* fair: SAP may be silent for ever.

- `Alerts`: weak fairness of the Collects and of the client's drain, which
  `loki_http_timeout` justifies; strong fairness of a push, since Go serves the
  goroutines blocked on a channel in the order of their arrival.

- `SapControl`: weak fairness of the search: a call ends with an answer, an error or
  the deadline of its context, which Go's timers guarantee. A silent access point
  answers never.
- `Startup`: weak fairness of the start (`Restart=always`) and of the scrapes
  (Prometheus); strong fairness of `Deliver`: if batches go on being sent, one gets
  through. Nothing is assumed of a single batch.

## 5. Proofs

| Theorem | For every value of the constants |
|---|---|
| `CacheManagerProofs!TypeCorrect`, `LockSafe`, `CopyCurrent`, `FetchJustified`, `LiveItemsStay` | the safety properties of the cache |
| `CacheManagerProofs!CallsCounted` | every call is in the statistics once, however many the callers and however narrow the counters |
| `CacheManagerProofs!Refinement` | `CacheManager` implements `ReadThroughCache` |
| `CollectorProofs!TypeCorrect`, `SendsSafe`, `ReturnsAll`, `Refinement` | `RecordConcurrently`, for any number of recorders; it implements `ForkJoin` |
| `CollectorProofs!AllAligned`, `RefusedForARepeat`, `NumbersAgree` | what a scrape shows, for any instances, processes, work processes, queues and answers of any length |
| `InstanceListProofs!TypeCorrect`, `CrashFree`, `Labelled`, `SidKept`, `EveryOnce` | the SID and what depends on it, and that every instance is listed once, for any instances and readers |
| `InstanceListProofs!CachedImplements`, `CallUnderLock`, `ShownSafe` | `CachedInstances` keeps to `InstanceList`, runs one `GetAllInstances` at a time, and crashes no more once a SID was shown, over any number of refreshes |
| `ScrapeProofs!TypeCorrect`, `WaitsDoNotAddUp`, `EveryInstanceVisited`, `AnswersFresh` | the Collects over the shared cache, for any recorders in any of the roles, instances, ttl and timeout |
| `ScrapeProofs!UsesCache` | `Scrape` uses the cache as `ReadThroughCache` lets it |
| `AnswersProofs!TypeCorrect`, `NoSeriesTwice`, `EveryAlertGoesOn` | alerts, for any Collects, instances, labels, alerts, ages and lists of any length |
| `AnswersProofs!TimesFaithful`, `CountersFallOnlyWhenEmpty` | CPU times, for every time, written or left out, and any number of restarts |
| `AnswersProofs!AnswersArrive`, `ColoursMeanTheSame` | the wire format and the colours |
| `SapControlProofs!TypeCorrect`, `FailsForCause`, `OnePoint`, `DataOwn`, `AllReached` | the SAPControl client, for any instances, timeouts and domains, and access points that behave in any way |
| `ConfigProofs!TypeCorrect`, `UrlsAgree`, `UserUrlStays`, `FileHonoured` | the options that say where SAP is agree, the user's URL is kept and the file that counts is not passed over, for any URLs, domains, ports and paths, any place of the file and any mixture of the six layers |
| `StartupProofs!ServesAsAsked` | a process that serves has what its configuration asks for, after any number of crashes and restarts |

Every safety property and every action property that a run checks is among them.

Assumptions, all named in the modules, and evaluated by TLC for the instances:

- `CacheAssumption`, `FanOutAssumption`, `InstanceListAssumption`, `AlertsAssumption`,
  `StartupAssumption`: numbers are numbers, there is an access point, a channel has room,
  and what stands for "none" is no value.
- `CachedInstancesAssumption`: no ttl is 0, which the code replaces by 30 s
  (`current_instance.go:36`); negative ones are allowed.
- `ScrapeAssumption`: a ttl that is not negative (a negative one never expires, and then
  `Freshness` is false), a positive timeout, and one key for the list that is no instance's.
- `ConversionsAssumption`: SAP writes a time in at most four parts, the form that
  `ParceCPUTime` is written for, or leaves it empty, whatever the time is; a part that
  cannot be read is no number.
- `SapControlAssumption`: there is an instance, a port of a host belongs to one instance,
  a host has one domain.
- `ConfigAssumption`: the defaults are among the hosts and ports.
- `Metrics` needs none; its `MaxList` may be anything.

In the model itself stands that the wall clock does not step back. The bounds
`MaxTime`, `MaxAlerts`, `MaxPid` and `MaxFailures` are arbitrary.

Arguments.

- *Cache.* The inductive invariant adds `LockState` to the properties: the lock belongs
  to the goroutine whose program counter says so, and no reader is inside while a writer
  is past `Drain`. A copy that is live when it is tested was current when it was taken;
  a writer stores only over an item that is dead (`FetchOnlyWhenDead`), and time does
  not bring a dead item back, so a copy that is still live was never replaced.
  `ExpiryTestsAgree` shows that the two tests, written differently, accept the same
  items. `CountState`: the calls that have begun are the hits, the misses and the calls
  still under way, which are finitely many, modulo the width of the counters, which may
  wrap at any time (`WrapIsHarmless`). The steps of the refinement are those of
  `ReadThroughCache`: a `CheckHit` or `RecheckHit` is its `Hit`, since a copy that is
  live is the current one.
- *Fan-out.* `GroupState` ties the `WaitGroup` counter to the number of goroutines that
  have still to call `Done`, so a closed channel means that there are none;
  `ChannelState` says that an outcome that was sent is either in the channel or was
  received, once.
- *Instance list.* `SidState`: a SID known when the call began still stands, hence the
  loop writes only if none was. `LabelState` is what `FailedInstancesLabelled` says of
  the list while it grows, with the link that a SID in the list implies a SID in the
  configuration. `PlaceState` says that an instance of the accepted answer is in exactly
  one place, with its goroutine, in the channel, in the hands of the loop or in the
  list, so that it is in the list once when the other places are empty.
- *Cached list.* `CachedStep`: a step of `CachedInstances` is one of `InstanceList` or
  leaves it alone, so that its invariants hold over all refreshes. `ShownState`: while
  anybody is served a list with a SID in it, `sap_sid` is set; a set one is not written
  any more, and only a write can crash. Where a served list may come from
  (`ServedComesFrom`) and what can change `sap_sid` (`SidSteps`) are the two lemmas.
- *Collects.* `Contents` bounds the life of an item by ttl and timeout from when SAP was
  asked, because a fetch that began with its Collect ends by the deadline (`Times`), or
  at once if it began after that. `Used` carries the bound from the hit to the use.
  `NoPileUp` is inductive together with `Times`: time passes only while somebody waits
  for SAP who has time left, and nobody's deadline is later than that of the last
  Collect that began.
- *Metrics.* `MetricsIInv`: every metric is well formed, its labels say which recorder
  and instance it belongs to (`Own`, unique by `OwnUnique`), and all of one recorder and
  one instance come from one turn (`OneTurn`). `SentDistinct`: a turn sends a series
  twice only if the answer lists a record twice. So a refusal has its cause, and the
  counts can be read off that turn: the lines of a colour and the records of that colour
  are in bijection, and so equally many (`SameNumber`).
- *Alerts.* `RemoveDuplicateKeeps`: the loop keeps every element, once. `SeriesAt` says
  that no series stands for an instance or an alert that is still to come; `ReportsAt`
  that what SAP reported is still to come, or was emitted and pushed, or is too old, and
  it stays so as time passes (`OldStaysOld`). `PlaceState`: what waits for room in the
  channel is an entry, and a Collect begins with nothing.
- *CPU times.* A time is the sum of its parts in days, hours, minutes and seconds
  (`TimeSplits`, which needs only that a unit is a multiple of the next), so that what
  is written in any number of parts is read as it was (`ReadAsWritten`); a text with an
  unreadable part is refused (`GarbledRefused`) and no text is 0 (`NothingIsZero`).
  `TimeState` says of the text in the field that it may stand for the time used
  (`MayStand`: one of its forms, a garbled one, or nothing), also when the answer lacks
  the element, and that the series of a process is not ahead of the time it has used: so
  a sample is below the one before it only if there was no text.
- *Wire.* `Fits` compares a type of the exporter with that of the binding, an operation
  at a time; `WireState` says that what is on the wire is of the binding's type and what
  was decoded is what was on the wire.
- *Startup.* `Memory` says for each place of the start which loggers and collectors
  there are (`Made`, `Registered`), and `Printed` what was printed by then; a crash
  empties both.

- *SAPControl client.* `Passed` says why the search left an access point behind: it
  does not work, or the time was over, so that a search that has passed all four
  failed for cause. `CacheState` says of the cache that what stands under a URL came
  from the instance that listens there; `ListensAlone`, that nobody else does, turns
  that into `OwnData`. The lemma needs that the two schemes' ports are distinct per
  host, the one assumption about SAP.
- *Configuration.* `UrlAgrees` holds only at the end; `Defaulted` (a layer always has
  a URL once the defaults are set) and `Sanitized` (the URL that is checked stands on
  the topmost layer and has a scheme) carry it there. `GetIs` says what `Get` returns
  of a value on the topmost layer, `GetStable` that an option whose own values do not
  change keeps what `Get` returns; `SettledAgrees` is the case analysis of
  `validateSapControlUrl`. For what the user gave, `Filled` says which layers are filled by
  then and with what, `UrlKept` that the repaired URL is the user's, `FileRead` that `New`
  goes on without a file only if none was named and none lies where it is searched; since
  no default names a file (`NoDefaultPath`), what `Get` says of the path is what the user
  said (`ConfigNamed`).

Two proofs need more than the provers' arithmetic. The induction theorems of the library
take an operator, which they cannot instantiate; `NatSetInduction` derives induction over
*sets* of numbers from the well-foundedness of `<`, and that is enough for the loop of
`RemoveDuplicate`, a recursive function. Division is reduced to quotient and
remainder, which are unique (`DivMod`, `OneRemainder`).

Only model-checked: liveness, which is beyond the prover: `EveryCallReturns`,
`CallReturns`, `CollectEnds` of `Scrape` and of `Alerts`, `SearchEnds`,
`OpenAlertReachesLoki`.

## 6. Findings

`doc/design.md:22` says "The data sources are read every time an HTTP request
comes, and the collected metrics are not shared: their lifecycle corresponds with
the request's." The run `scrape_per_request` shows a `Collect` that uses an
instance list which SAP was asked for by another one before. The cache was added
since; what the code promises instead is `Freshness`: an answer, or a cached
error, was asked for less than `cache_ttl + scrape_timeout` before the `Collect`
that uses it.

Seen while modelling, and described by the model as they are. More places where a
document, a comment or a test says otherwise than the code; none of the properties that
pass says that the code keeps these promises:

- `README.md:89` says that the program "will scan, in order, the current working
  directory, `$HOME/.config`, `/etc` and `/usr/etc` for files named
  `sap_host_exporter.(yaml|json|toml)`". The loader looks for `sap_system_exporter`, in
  `./`, `./config`, `./conf` and `/etc` (`loader.go:28-33`): a file where and as the
  README says is ignored, with a warning that there is none. `FileNotIgnored` is about
  the loader's places; `Config.cfg` has one of the README's among the places, and
  `FileSays` says that such a file counts for nothing.
- `optional_collectors.go:18` says that the optional collectors are registered "depending
  on the system where the exporter run", and `TestNoActivation`
  (`optional_collectors_test.go:115-148`) that those without a matching process are not.
  `RegisterOptionalCollectors` asks for no process list: the switches `collect_...` of the
  configuration alone decide, which is what `ServesAsConfigured` says. Whether an
  instance has the process is asked at each scrape instead (`Scrape`, role `queues`).
- `workprocess.go:41` calls the CPU time of a work process a "counter". `Cpu` is
  parsed unconditionally (`workprocess.go:143`), and no text is 0 without an error
  (`webservice.go:441-443`): a work process that runs, and whose answer lacks the element
  or has it empty, is shown with 0, which Prometheus takes for a reset.
  `CounterFallsOnlyWhenEmpty` says that nothing else makes the series fall.

- `doc/metrics.md:55` says that the value of `processes` "follows the SAP state colors
  convention"; a process of any other status is shown with 0 (`start_service.go:148`),
  and `ProcessCountsAgree` says that it is in no count.
- `doc/metrics.md:63` says that the number of lines is "the cardinality of `pid`";
  processes of two hosts may have the same pid, and have a line each.
- `README.md:90` says "the CLI flags have precedence over the config file"; the domain
  of a URL in the file replaces `--host_domain` (`config.go:100`). What holds is
  `UrlAgrees`.
- `doc/sap_host_exporter.yaml:2` says that its values are the defaults, and has
  `localhost:50013`; without configuration it is `https://localhost:50014`
  (`config.go:172`). `main.go:40` shows users a third spelling.
- `main.go:39` says of `log_level` "The minimum logging level"; every logger prints a
  DEBUG line when it is made (`logger.go:29`), the one exception in `LevelDecides`.

And besides:

- `InstanceInfo.HttpsPort` is given the http port (`current_instance.go:99`); nothing
  reads it, the URL is made of the right one before.
- `sap_host` is given the method `Hostname` instead of what it returns when the URL is
  completed with `host_domain` (`config.go:112`); nothing reads `sap_host`.
- An IP address in `sap_control_url` makes its last three parts the `host_domain`;
  instances that SAP lists by a short name are not found then (`Reached` excludes it).
- An alert that is closed before its batch gets through, or before a restart, never
  reaches Loki (`OpenAlertReachesLoki` is about one that stays open). Nor does an open one
  that grows older than `alert_samples_max_age`, two hours by default (`config.go:181`),
  while the exporter or Loki is down: the next scrapes leave it out (`alerts.go:203-206`).
  So with a limit and a readable time the property promises only what gets through before;
  with a negative value, or a time that cannot be read, it holds without a limit.
- An `alert_samples_max_age` of 0 also drops the alerts whose time cannot be read, although
  they are given the current time: `time.Since` finds it a moment old.
- An alert whose time can be read is the same Loki entry at each scrape only while the
  instance list gives its instance the same name and SID. When the properties of the
  instance cannot be had in one refresh (`current_instance.go:133`, `152`), the same alert
  is another series, and another stream of Loki, until the next one. One whose time
  cannot be read is another entry at each scrape.
- The two recorders of the start service collector ask the cache each for itself: the
  list may expire in between, and one scrape then shows two versions of the system.
- A negative `cache_ttl` is accepted and means "for ever", for errors too.

- A failed fetch is cached like a result, for the whole `cache_ttl` and for all
  collectors. A fetch fails at once when the deadline passed while its goroutine
  waited for the cache lock, however healthy SAP is.
- `sap_sid` is learnt by a write to the shared viper configuration. The model
  confirms that this races with reads, and `CrashOnlyWhileUnknown` that it can
  happen only until the SID is known: setting `sap_sid` avoids it.
- A failed instance that is listed before the first successful one of the first
  refresh carries an empty SID until the next refresh.

## 7. Plan

Done: every component that keeps state or decides something: the cache, the fan-out,
the instance list alone and behind the cache, the collectors over the cache, the
metrics they emit, the alerts, the client, the wire format, the conversions, the
configuration and the startup. Proved: every safety and every action property that a
run checks, and the refinements of `ReadThroughCache` and `ForkJoin`. What could follow:

1. Shorter proofs: the steps of `Record` in `AnswersProofs` and the counts in
   `CollectorProofs` are the longest.
2. A refinement that ties `CachedInstances` to the `Scrape` that reads its lists: both
   are over `ReadThroughCache`, but in `Scrape` an instance list is any set of
   instances.
3. `cache_ttl` below zero in `Scrape`, where the promise would have to be another one.

## 8. Not modelled, and why

- TLS, HTTP, the SOAP envelope and the insides of viper, client_golang and the promtail
  client: libraries; the model has what the code uses of them.
- The landing page writes a constant and keeps no state.
- `GetCurrentInstance` and its types, `Make_string_map` and the statistics `Updates` and
  `Deletes`: nothing calls or changes them.
- The branches for a constructor that returns an error (`main.go:130-143` and the
  registry): no constructor does.
- Of the generated binding, the operations that the exporter never calls.
- The numbers in queue and lock statistics, layout and wording of log lines, options
  that are only copied (users, passwords, Loki names, durations).
- Dashboards, packaging, mocks and tests, which are read as statements of intent only.
