# Flowmancer agent: a TLA+ verification

Flowmancer is a Kubernetes node agent. eBPF probes report every TCP connect and
every DNS answer of the node; the agent names the workload that connected and
the destination, learns the node's normal traffic for a fixed time, and from
then on reports connections that differ from it. This directory models the
agent, checks the models with TLC and proves theorems about them with TLAPS.

Paths below are relative to the repository; `*.tla` names are in this directory.

## 1. The system

### Components, their state and operations

| component | code | state | operations that change it |
|---|---|---|---|
| connect tracer | `bpf/tcp_connect.c` | `inflight`: one record per thread between the entry and the return of a connect; the ring buffer | entry and return probes of `tcp_v4_connect`, `tcp_v6_connect` |
| connect collector | `internal/tcp/tcp_connect_collector.go` | the ring reader, probe links | `Start`, `readLoop`, `Close` |
| connect handler | `cmd/agent/tcp_connect_event_handler.go` | none of its own | `Handle`, `handleBaselineLearning` |
| source resolver | `internal/k8smeta/source_resolver.go`, `procscan.go` | `podsByUID`, `netnsToPod` | informer handlers, `refreshNetnsCache` every 10 s |
| destination resolver | `internal/k8smeta/destination_resolver.go` | maps of pods and services by IP | `refresh` every 30 s |
| DNS capture | `bpf/dns_capture.c` | the ring buffer | one frame at a time: test, cut to 512 bytes, submit |
| DNS collector, parser | `internal/dns/*`, `cmd/agent/dns_response_handler.go` | the ring reader, the TC link | `Start`, `readLoop`, `ParseResponse`, `Handle`, `Close` |
| DNS cache | `internal/dns/dns_cache.go` | `entries`: address to domain and expiry | `Add`, `Lookup` (deletes what has expired) |
| window aggregator | `internal/aggregator/window_aggregator.go` | one open window per flow key | `PopExpired`, `Add`, `Reset` |
| baseline builder | `internal/aggregator/workload_baseline_builder.go` | per flow key: count, days, window samples | `Add`, `AppendWindowSample`, `ExportSnapshot` |
| snapshot holder | `internal/aggregator/baseline_snapshot_holder.go` | the published snapshot | `Replace`, `Get` |
| exporter | `cmd/agent/app.go` | none | `exportBaselineSnapshotOnce`, once |
| detector worker | `cmd/agent/detector_worker.go` | none | receives, filters, evaluates |
| anomaly detector | `internal/anomaly/*` | none: pure rules | `Evaluate` |
| lifecycle | `cmd/agent/app.go`, `main.go` | contexts, `detectCh` | `Run`, `Close` |

### How they interact

```
 eBPF ring --> collector --> Handle --> PopExpired, Add --> windowAgg <-- Reset --.
                               |                                                  |
                               |-- learning --> Add, AppendWindowSample --> builder
                               |                                               |  |
                               '-- detecting --> detectCh --> worker          exporter
                                                                |                 |
                                          Evaluate <-- Get -- snapshotHolder <-- Replace
```

Three goroutines meet here. The *handler* (the collector's read loop) runs
`Handle` for one event at a time. The *exporter* wakes when the learning period
ends and does three things under three different locks: copy the builder,
publish the copy, reset the windows. The *worker* takes closed windows from the
bounded channel and judges them by the published snapshot. The resolvers and
the DNS cache only decide which flow key an event gets.

### What is hard

* **Disorder.** An event carries the time its connect was *entered* and is
  queued when the connect *returns*; timestamps reach `Handle` out of order.
  Windows are opened, closed and discarded by those timestamps.
* **Two clocks.** `Handle` decides learning or detecting by the event's
  timestamp, the exporter by a timer. Events of the learning period are handled
  after the export, and later ones before it.
* **Four locks in one `Handle`.** Windows are popped, the event is counted in
  the aggregator, then in the builder, then samples are appended; the exporter
  can act between any two of them.
* **A bounded channel** between handler and worker that must not block.
* **Arithmetic of the rules**: integer averages, a nearest-rank percentile.
* **Nested probes.** `tcp_v6_connect` calls `tcp_v4_connect` for a mapped
  address; records and events are shared by the probes of both, each of which
  can be missing while the collector attaches or detaches.
* **Stale names.** A flow's key is made from three caches, each rebuilt or
  expired on its own clock while pods, addresses and namespace numbers change
  hands.
* **Two ring buffers** with nothing to order them: a DNS answer may be in the
  cache before or after the connect it led to is handled.
* **Messages from the network**: compressed names that point backwards, forwards
  or at themselves, and messages cut anywhere.
* **Lifecycle**: collectors are closed twice from two goroutines, one of them
  without a lock; the channel is closed while the handler may still send; a start
  may fail half way or be cancelled while it waits.

### What makes each component correct

* *aggregator*: counts are never lost or counted twice while events are in
  order, and disorder is the only reason they can be; each period of a key is
  closed once; windows left open are of the current period.
* *builder*: it accounts for exactly the connections the windows account for;
  samples always find their key; no sample reaches past the learning period; no
  flow keeps more of them than `maxWindowSamples`.
* *exporter and holder*: reports see one atomic handoff; the snapshot is
  published although no event comes, and nothing read of it ever changes.
* *handler*: always returns, whatever the worker does; only workloads' windows
  are sent.
* *worker and detector*: only detectable workloads are reported, "new" exactly
  for what the snapshot lacks; the rules compute what they are named for and are
  monotone in the count.
* *tracer*: one event per connect at most, with its own data, and no record left
  behind but for a return that ran no probe.
* *DNS capture and parser*: names are read as they were written, wherever their
  pointers lead; a cut message gives what the whole one says or nothing; what
  reaches the cache is the last answer captured.
* *DNS cache*: an answer is given while it is the newest and has not expired,
  and is not lost before, but for the race in `Lookup`.
* *resolvers*: an address or namespace number is attributed to who held it since
  the last refresh began; failed refreshes and missed events do not change that;
  what keeps running is resolved, and what is gone is forgotten. A map is
  replaced as a whole.
* *lifecycle*: until it is told to stop the agent does not panic; told to stop it
  ends, from wherever it is; when it ends in order nothing is left open.

## 2. The modules

| module | models | kind |
|---|---|---|
| `Flows` | keys and events, the tests the code makes on a key | constants |
| `WindowAggregator` | `WorkloadWindowAggregator` | component |
| `BaselineBuilder` | `BaselineBuilder`, `WorkloadFlowAggregate` | component |
| `AnomalyDetector` | `Detector.Evaluate`, the three rules and their arithmetic | pure operators |
| `FlowPipeline` | handler, exporter, worker, channel and holder over the above | composition |
| `FlowPipelineProperties` | what the pipeline promises | properties |
| `LearnThenDetect` | learn, publish once, report by what was published | abstract specification |
| `PipelineRefinement` | the refinement mapping between the two | refinement |
| `FlowPipelineInvariant` | the inductive invariant `IInv` | for the proofs |
| `Divergences` | what the documents say and the code does not | properties |
| `ConnectTracer` | the probes of `bpf/tcp_connect.c`, attached and read by `TCPConnectCollector` | component |
| `DnsTypes` | labels, addresses and TTLs, and what a domain is | constants |
| `DnsMessage` | `ParseResponse`, `readName` | pure operators |
| `DnsCapture` | `bpf/dns_capture.c` and its ring buffer | component |
| `DnsCache` | `dns.Cache` under its two users | component |
| `DnsPath` | `DnsCapture`, the collector's loop, `DnsMessage` and `DnsCache` | composition |
| `AgentLifecycle` | `Run`, `Close`, cancellation, both collectors' `Start` and `Close`, the goroutines | component |
| `RecentMap` | what a resolver promises: a map replaced as a whole by what held since a moment | abstract specification |
| `SrcResolver` | `SrcResolver`: informer handlers, process scan, map of namespaces; refines `RecentMap` | component |
| `DstResolver` | `DstResolver`: lists of services and pods, maps of addresses; refines `RecentMap` | component |
| `VolumeTester` | `test/volume/volume-anomaly-tester.go` driving the pipeline | environment |
| `MC*` | instances for TLC; `MCAnomalyDetector` grows baselines for the rules, `MCDnsMessage` messages for the parser, `MCAlgorithms` runs both | model checking |
| `FlowPipelineProofs` | theorems about `FlowPipeline` and `PipelineRefinement` | proofs |
| `ConnectTracerProofs`, `LifecycleProofs`, `SrcResolverProofs`, `DstResolverProofs` | theorems about the component of that name | proofs |
| `DnsMessageProofs` | theorems about the operators of `DnsMessage`, for any message | proofs |
| `DnsPathProofs` | theorems about `DnsCache`, `DnsPath`, and the first within the second | proofs |
| `AlgorithmsProofs` | theorems about `MCAnomalyDetector` and `MCDnsMessage`: the rules over all baselines, the parser over all messages written | proofs |

### State and actions against the code

A **step ends where a mutex is released or a channel operation is done**. What
lies between two such points is invisible to the other goroutines, so each
action stands for one of:

| action | code |
|---|---|
| `HandlerPop` | `Handle` up to and including `PopExpired(now)` |
| `HandlerAdd` | `windowAgg.Add`, then the test `now.Before(buildUntil)` |
| `HandlerLearn` | the namespace test and `builder.Add` |
| `HandlerSample(k)` | one turn of the loop over closed windows, `AppendWindowSample` |
| `HandlerSend(k)` | one turn of the other loop: the `select` with its `default` |
| `ExporterExport`, `ExporterReplace`, `ExporterReset` | the three calls of `exportBaselineSnapshotOnce` |
| `WorkerReceive` | the receive and the namespace filter |
| `WorkerJudge` | `holder.Get` and `Evaluate`; the log of each result |
| `Tick` | the kernel's monotonic clock (environment) |

`windowFlows`, `builderFlows`, `snapshotHolder`, `detectCh` are the variables of
the code. `hpc`, `ev`, `closed` are the handler's position and locals; `closed`
holds the popped windows not yet dealt with, in the order `IsNext` gives them,
which is `sortClosedWindows`. `epc`, `exported` and `wpc`, `cw` are the same for
the exporter and the worker. `newest`, `late`, `closedUpTo` and `sampled` are
history: nothing reads them but properties.

The other components follow the same rule:

| module | action | code |
|---|---|---|
| `ConnectTracer` | `Connect`, `NestedConnect`, `Return` | a call of the kernel function with the probe at its entry or return: a probe runs in its thread and touches that thread's record only |
| | `Attach`, `OpenReader` | `Start`, probe by probe |
| | `Read`, `CloseReader`, `Detach` | one turn of `readLoop`; `Close`, reader first, then probe by probe |
| `DnsPath` | `FrameCaptured` | `handle_dns_tc` for one frame: it runs to its end on one processor |
| | `ReadRecord` | one turn of `readLoop` with `ParseResponse` and `Handle`, up to the lock of `Add` |
| `DnsCache` | `AddBegin`, `AddStore` | `Add` up to the lock, with the expiry computed; under the lock |
| | `LookupRead`, `LookupHit`, `LookupExpired`, `LookupDelete` | the read lock, the test of the clock, the write lock |
| `SrcResolver` | `PodStored`, `PodDeleted`, `SetStored`, `SetDeleted` | the informers' handlers, one lock hold each |
| | `ScanBegin`, `ScanProcess`, `Build`, `Install` | `refreshNetnsCache`: `ReadDir`, one process, the read lock, the write lock |
| `DstResolver` | `LoadServices`, `LoadPods`, `LoadPodsFails`, `Install` | `refresh`: the two lists, which may fail, and the lock |
| `AgentLifecycle` | `SrcSynced` ... `Spawn`, `Wait` | `Run`, a step for each call that may wait or fail, one for each probe attached |
| | `DnsStart` | `StartOnInterface`: load, ring, link; a step that fails closes what those before it opened |
| | `DnsCloseEnter`, `DnsCloseNext`, `DnsCloseLeave` | `closeOnce.Do`, the closes inside it one by one |
| | `TcpTestRing` ... `TcpCloseObjects` | the TCP collector's `Close`, which has no lock: each load and store of `c.ring` and `c.links` is a step |
| | `WatchDns`, `WatchTcp`, `CloseDns`, `CloseCh`, `Exit` | the goroutines that wait for the context; `App.Close` |
| | `ReadNext` ... `HandleReturns`, `Worker`, `Exporter` | the read loop, the worker's and the exporter's `select` |

Threads, return probes and `kretprobe` instances, pods, processes, namespaces,
services and informers are outside the repository and marked external in
`PROJECT.json`. A return probe runs only if it was attached, and an instance
free, when its function was entered. Informers report a pod's stages in order,
may skip some, and may report a deletion as `DeletedFinalStateUnknown`, which
the handlers ignore. A pod that ended stays listed with the address it had, and
pods with `hostNetwork` are listed with that of their node, several at once. All
processes of a pod are taken to be in one namespace, and process numbers not to
be used again within one scan. Of several pods listed with one address any may be
the last in the list.

The two closers of the TCP collector and its read loop race. What a race can give
is a choice: `c.ring` tested and loaded again may be nil by then (`TcpCloseNil`),
the loop may load nil (`ReadNil`), and `range c.links` beside `c.links = nil` may
see a slice whose length and pointer do not fit (`TcpReadTorn`). Each is a panic,
and a panic ends the process.

A DNS message is a sequence of cells (labels, pointers, record headers, ...)
instead of bytes, each with its width; a cut inside a cell is a cut before it,
since the code's bounds test for the cell fails in both. Pointers lead to the
start of a cell of a name.

Abstractions, each for a reason:

* A `WorkloadFlowKey` is a model value. What the code asks of a key (is its
  source resolved, is its namespace detectable, is the event noise) are the sets
  `Resolved`, `Detectable` and the value `Noise`. Which key an event gets is the
  environment's choice, as the resolvers and the DNS cache are free to answer.
* A map without an entry binds the key to a zero record. Every entry the code
  creates is incremented under the same lock hold, so no real entry is zero.
* `FirstSeen`, `LastSeen`, success and fail counts and durations are copied and
  printed but decide nothing, and are left out.
* `ExportSnapshot` is a value, since the code's copy is deep
  (`cloneWorkloadFlowAggregate` copies `DaysSeen` and `WindowCounts`). `Known` is
  what a reader finds in the published one; were the copy shallow, it would be the
  builder's (`Known_SharedDays`), and `SnapshotNeverChanges` would not hold.
* Counters are naturals: a `uint64` count does not wrap in the agent's life.
* Multipliers are fractions: `float64(c) >= float64(avg) * 1.5` is
  `2*c >= 3*avg`.
* The rank of a percentile is an exact ceiling where the code has
  `math.Ceil((p / 100.0) * float64(n))`. For the 95th percentile, the only one
  asked for, the two agree for every `n` up to 2,000,000 (computed in IEEE
  doubles); a baseline has at most `maxWindowSamples` windows, 288 as shipped.
* `RecentMap` fixes when a map may change, at an install, and what may be in it,
  what held since the refresh began; so nothing of the former map remains that
  does not hold still. It leaves open *which* of those are entered, because the
  resolvers filter differently (node, phase, known owner) and of several holders
  the last listed wins. That nothing is left out that should be there is
  `SteadyPodsResolved` and `PodsResolved`.

## 3. The runs

| run | question | result |
|---|---|---|
| `pipeline` | do all safety properties hold in every interleaving, and do the three goroutines act like one atomic handoff? | pass |
| `liveness` | does `Handle` return whatever the worker does, is the snapshot published, are accepted windows received? | pass |
| `algorithms` | do the rules compute what they are named for, and does the parser read what was written? | pass |
| `tracer` | what does a connect yield and leave behind? | pass |
| `dns_path` | which answers on the bridge does a lookup find, lose or outlive? | pass |
| `src_resolver` | whom is a namespace attributed to, and is a running pod resolved in the end? | pass |
| `dst_resolver` | whom is an address resolved to, and for how long? | pass |
| `lifecycle` | how can the agent end? | pass |
| `volume_tester` | is the tester's burst reported by the volume rule under the shipped configuration? | violation |
| `new_destination` | is a destination called new only when the baseline lacks it? | violation |
| `host_network` | are flows identified by pod? | violation |
| `rollout` | is a workload one destination? | violation |

### Bounds, and why they are enough

`MCFlowPipeline.cfg`: keys `web` (a workload), `sys` (a workload of an excluded
namespace) and `pid` (a process without a pod), which are the classes the code's
filters tell apart, and noise. Windows of 2 ticks, learning until 4, time until
6: the second window ends exactly when learning does, the boundary that
`SamplesEndInLearning` is about, and the third is judged, after one more event has
closed it. (With learning that ends inside a window the theorems deal, as with
every other learning time.) Four events are enough for the
longest pattern a property speaks of (open, overtake, reopen, close again);
`MaxLag` 2 lets an event arrive a whole window late. `ChanCap` 1 makes the
channel full by the second window. `MaxSamples` 1, less than the
two windows of the learning period, and days of 3 ticks make trimming and a second
day happen, and the second day may be learned after the export. The thresholds are low enough for each rule to
fire and to stay quiet. `MaxTime`, `MaxEvents` and `MaxLag` bound the model only;
the theorems hold for all their values.

`MCLiveness.cfg`: the two resolved keys and three events, since
liveness checking is dearer and a key without a pod never reaches the channel.

`MCAlgorithms.cfg`: baselines of up to 21 windows, the first length at which
the 95th percentile is not the maximum, with at most two windows that differ from
the usual count in either direction, in any order. Then messages of up to two
questions and two answers and nine cells, with names that end in a pointer to any
cell of a name so far or to their own start: chains of pointers, loops, a
question answered through a pointer, and records of another type between
addresses all occur, and each message is also cut at every cell. The two grow
one at a time, so that the run is the sum of both.

`MCVolumeTester.cfg`: the values of `flowmancer-agent-config.yaml` and of the
tester, with one tick for a minute. It needs 151 events, so the traffic is fixed
to the tester's schedule and only the goroutines' order is free.

`MCConnectTracer.cfg`: two threads of two connects each, so that a second
connect can meet what the first left; `MapCap` and `RingCap` 1, so that each is
full while another thread connects; one skipped return. Threads are symmetric.

`MCDnsPath.cfg`: two addresses, answered together or alone, two domains, TTLs
of 0 (the default applies) and 1, five ticks: an answer expires, is answered
again and expires again during one lookup. Nine frames: answers with and without
IP options, one whose last answer is beyond the payload, one that goes on behind
its last answer there, a query, and frames that the filter passes by; three of
them captured, two at once in the ring.

`MCAgentLifecycle.cfg`: two probes, so that a `Close` can be between them, and a
channel of one; the two closers, the read loop, the worker and the exporter are
those of the code. The state space is finite without any other bound.

`MCSrcResolver.cfg`: two pods of one ReplicaSet, two namespace numbers and two
process starts: a number is used again by the other pod, a pod changes its
namespace during a scan, and both pods are in one map. There is no symmetry,
which liveness checking does not allow. `MCHostNetwork.cfg`: two pods with
`hostNetwork`.

`MCDstResolver.cfg`: two pods of one Deployment but two ReplicaSets on one
address, two with `hostNetwork` on their node's, two services sharing one address
in turn, four changes: enough for a pod that ended to be listed beside the one
that has its address, or for an address to change hands, while a refresh is under
way and another fails. `MCRollout.cfg`: the first two pods, each with an address.
Refreshes, failed ones too, are without bound.

The deadlock check is on in the pipeline's runs: `Quiescent` is the one state in
which nothing is left to do. It is off where the bounds end the behaviour: in
`algorithms` the baseline or the message stops growing, in `tracer` the threads
have connected and the collector is closed, in the others the clock or the
cluster stops changing; and in `lifecycle`, where the process ends. That nothing
waits for ever there is `CancelEnds`.

### Fairness

The `liveness` run assumes weak fairness of the handler's own steps only
(`HandlerFairSpec`): the Go scheduler runs a runnable goroutine, and `Handle` has
no step that waits. `HandlerReturns` needs no more. `SnapshotPublished` and
`WindowsReachWorker` name what else they need as an antecedent, weak fairness of
the exporter's and of the worker's steps: a timer that has fired and a receive
from a channel that is not empty are runnable too. `SnapshotPublished` speaks of
behaviours whose clock has reached the end of learning, so that the clock needs
no fairness. The `src_resolver` run assumes weak fairness of the refresh loop
(the ticker fires, a scan is finite) and of each informer's delivery of a pod it
has been told of. The `dst_resolver` run assumes that the ticker fires and, as
strong fairness of `LoadPods`, that of the lists asked for again and again one is
answered. The `dns_path` run assumes weak fairness of the read loop, the
`lifecycle` run of each goroutine's steps; `main`'s only once the context is
cancelled, since the API server need not answer. Nobody need cancel.

No fairness is put on `ReadEvent`: the code cannot make connections happen, so
nothing proved here relies on a next event. In particular it is *not* claimed
that an open window is closed eventually: without a further event it is not.

### What the runs showed

* The order of events matters to the aggregator and to nothing else. Samples
  land, samples end in the learning period, reports match the snapshot whatever
  the order; the balance, the single open period and the absence of double
  closings hold up to the first late event, and `OverwritesOnlyWhenOutOfOrder`
  says exactly which event loses counts.
* What is learned after the export does not show in the snapshot
  (`SnapshotNeverChanges`), and a period is opened again after its window was
  popped only by an event older than one already handled
  (`ReopensOnlyWhenOutOfOrder`), however late others were before it.
* With the shipped configuration the volume rule is mute (finding 4).
* The probes' order of delete and reserve matters: since the record goes even if
  the ring is full, `inflight` loses slots only to returns without a probe, and
  an overwritten record is always of the same connect. Records left behind are
  never reported: the next connect overwrites them, unless its entry probe is
  gone already, and by then nobody reads.
* `Lookup` can delete an answer that has just been stored. It is the only way to
  lose one, and it lasts until the address is answered again.
* A flow is keyed by address although its name was answered on the bridge only
  while the answer is in the ring or about to be stored, after it has expired,
  when `Lookup` deleted it in place of an expired one, or when the ring was full
  or the message longer than 512 bytes (`AnswersNameConnections`).
* The parser gives all of a message or nothing: one cut at 512 bytes inside its
  answers is not used at all.
* `TCPConnectCollector.Close` may panic when its two callers meet, its read loop
  may find `c.ring` nil, and `Handle` may send on the closed channel; all three
  only after the agent was told to stop, because before that `Close` has at most
  one caller, and only if no loop was started. When no panic happens, nothing is
  left open. The closed channel's panic is part of an agent's stopping: `CancelEnds`
  counts it as an end.
* A start that fails leaves nothing open of the collector that failed, at
  whichever of its steps; the DNS collector stays open when the TCP collector's
  start fails.
* An agent that is stopped while it starts ends through `log.Fatalf`, with the
  DNS collector as its goroutine leaves it: the kernel detaches it with the
  process.
* A start that takes longer than the learning time does not lose the snapshot:
  the exporter's timer fires at once, and the snapshot is then nearly empty.
* A deletion that the informer reports as `DeletedFinalStateUnknown` leaves the
  pod in `podsByUID`, but a pod without a process is not found by a scan, so its
  namespace number is not attributed to it again.

### Findings

1. `NewMeansNotInBaseline` (run `new_destination`). An event of the learning
   period handled after `ExportSnapshot` goes into the builder, never into the
   snapshot; a later window of the same key is reported as
   `NEW_DESTINATION`. README.md:32 calls a new destination one that was not in
   the baseline.
2. `IdentifiedByPod` (run `host_network`). Pods with `hostNetwork`, the agent
   itself among them, share one namespace, and `netnsToPod` has one pod for it:
   all their connections, and those of the node's own processes, are attributed
   to the pod whose process the listing has last. README.md:25 says flows are
   identified by pod, namespace and workload.
3. `DestinationIsWorkload` (run `rollout`). As a source a Deployment's pod is
   named by the Deployment, as a destination by its ReplicaSet, so that a
   rollout turns a destination into a new one. README.md:44 speaks of
   aggregation by Kubernetes workload.
4. `BurstReportedByVolumeRule` (run `volume_tester`).
   `test/volume/volume-anomaly-tester.go:37` announces ten minutes of "building
   volume baseline", as many windows as `minSampleWindows` asks for; but five
   minutes of learning leave four windows in the snapshot, and the burst, several
   times the usual count, is reported by the rare-destination rule alone, because
   the destination has few days and connections. `OnlyTheRareRuleReports` proves
   it of every configuration that learns so briefly.

## 4. The properties

Safety, in `FlowPipelineProperties`: `SamplesLand`, `SamplesEndInLearning`,
`LearningBalance`, `OneOpenPeriod`, `AlertsMatchSnapshot`,
and, in `TypeOK`, `SamplesTrimmed`; steps: `SnapshotNeverChanges`,
`OverwritesOnlyWhenOutOfOrder`, `ReopensOnlyWhenOutOfOrder`, `NoWindowClosedTwice`; liveness: `HandlerReturns`, `SnapshotPublished`,
`WindowsReachWorker`; refinement: `ImplementsLearnThenDetect`. For the rules, in
`MCAnomalyDetector`: `PercentileIsNearestRank`, `LargerWindowsStayAnomalous`,
`SteadyTrafficIsQuiet`; for the parser, in `MCDnsMessage`: `NamesReadBack`,
`ParsedAsWritten`, `CutsAllOrNothing`. For the tester: `BurstReportedByVolumeRule`,
which is refuted.
For the tracer: `OneEventPerConnect`, `EventsOfTheirConnect`,
`RecordsLeakOnlyBySkips`. For the DNS cache and its path: `LiveAnswersKept`,
`HitsAreCurrent`, `AnswersNameConnections`, `RecordsRead`, and in `PathTypeOK` that no
payload is longer than its record. For the resolvers:
`AttributionIsRecent`, `OneNamePerReplicaSet`, `PodsResolved`,
`NetnsMapIsRecent`; `DestinationIsRecent`, `SteadyPodsResolved`,
`StaleNamesForgotten`, `AddressMapsAreRecent`. For the lifecycle:
`PanicOnlyAfterCancel`, `CleanExit`, `CancelEnds`, `ExportsUnlessStopped`. Each
has a comment at its definition that states it and names the code it is about.

Every property is broken by a plausible change of the code it guards. The
changed operators are kept beside the real ones and named after them
(`Expired_KeepsEnd`, `ExporterReset_Builder`, ...).

## 5. What is proved

For every set of keys, window size, learning time, capacity, threshold and bound
that satisfies the modules' assumptions (`FlowsAssumption`, `WindowAssumption`,
`BuilderAssumption`, `DetectorAssumption`, `PipelineAssumption`,
`RefinementAssumption`, which only type the constants):

* `TypeCorrect`: `Spec => []TypeOK`;
* `Inductive`: `Spec => []IInv`;
* each safety invariant of the `pipeline` run and all four action properties;
* `PipelineImplementsPromise`: `Spec => Promise!LTDSpec`, the refinement;
* `BaselinesAlwaysShort`: `Spec => []LearnedWindowsInv`, and from it, under
  `ShortLearning`, that a sharp increase is reported by the rare rule and by no
  other, for *any* traffic that is not delayed (`OnlyTheRareRuleReports`), where the
  run has the tester's;
* for the tracer, under `TracerAssumption`: its types and capacities
  (`TracerInductive`) and the three invariants of the `tracer` run, for any
  number of threads, any capacities and any number of skipped returns;
* for the DNS path, under `TypesAssumption`, `CacheAssumption`,
  `CaptureAssumption`, `FailAssumption` and `PathAssumption`: the invariants of
  the cache alone and of the path (`CacheInductive`, `PathInductive`), that the
  path implements `DnsCache` (`PathImplementsCache`), and `PathTypeOK`,
  `LiveAnswersKept`, `HitsAreCurrent` and `AnswersNameConnections`, for any
  frames, addresses, names, TTLs, payload size, ring size and time;
* for the parser: every message that is cut is read as the whole or not at all
  (`ClippedAllOrNothing`) and every response has a name, an address and a
  lawful TTL (`ResponseTyped`), for *any* message; and, under `WriterAssumption`,
  `NamesReadBack`, `ParsedAsWritten` and `CutsAllOrNothing` for every message
  that a server can write, with any number of questions, answers and cells;
* for the rules, under `DetectorAssumption` and `BaselineAssumption`:
  `PercentileIsNearestRank` and `LargerWindowsStayAnomalous` for every baseline
  and configuration, and `SteadyTrafficIsQuiet` for those whose multipliers are
  all more than one. That hypothesis, `Multipliers`, is needed: with a multiplier
  of one a window as large as every other is reported. The shipped ones are 3.0,
  3.0 and 1.5;
* for the lifecycle, under `LifecycleAssumption`: its types, and
  `PanicOnlyAfterCancel` and `CleanExit`, for any set of probes and any capacity;
* for the resolvers, under `SrcAssumption` and `DstAssumption`: their types, each
  safety invariant of their runs, and that both implement `RecentMap`, for any
  cluster and any number of changes.

**The argument.** None of the safety properties is inductive. `IInv` adds what
they rest on:

* `WindowsInv`: open windows start at multiples of the window size and not after
  the newest event. With `TruncateIsUnique` (the only aligned window around a
  time is the one `Truncate` gives) an event in order always finds the window
  `Add` wants, which is why nothing is overwritten.
* `HandlerInv`: what `Handle` knows at each of its points: the popped windows
  ended by the event's time, those left open end after it, and the branch taken
  agrees with the event's time.
* `LearnedInv`: a window that ends in the learning period belongs to a key the
  builder knows, except between `windowAgg.Add` and `builder.Add` of its first
  event. This is what makes samples land even when events are out of order and
  the exporter resets in between.
* `ClosedInv`: what is open starts where the last closed window ended, or later.
  Two aligned starts are a window apart (`AlignedGap`). Only `Add` opens a window
  (`OnlyAddOpens`), at the aligned start before its event; so if the event is not
  older than the newest, the window is not one that was popped before.
* `ExporterInv`, `ChannelInv`: which snapshot exists at which exporter step; only
  resolved keys are in the channel.

`FlowPipelineProofs` proves the types and then the rest, with one lemma per action
and one step per conjunct it can disturb. Before them are the arithmetic of
`Truncate`, what `PopExpired` and `Add` do to one window, and what the builder's
operations do to one flow; behind them the refinement, which
maps `HandlerLearn` to `Learn`, `ExporterExport` to `Publish`, `WorkerJudge` to
`Report` or to nothing, and everything else to nothing.

**Short learning.** `LearnedWindowsInv` bounds a baseline: while events come in
order, the windows sampled of a key, with the one popped and about to be sampled,
end where its last one ended (`SampledUpTo`), one after the other, hence within the
learning time; and its days are among those that the learning time touches. Under
`ShortLearning` (the learning time is shorter than the windows the volume rule
asks for and touches no more days than a rare destination may have, and the rare
rule asks for no larger counts than the volume rule) every key in the snapshot is
thus too young for the volume rule and rare. The shipped values satisfy it: five
windows of ten, one day of two, 10 connections to 20, both multipliers 3.

**The tracer.** `TracerInv` adds to its properties: until `Close`, a function
whose return is probed has its entry probed (`AttachInv`), hence the record that
an armed return finds is of the connect in progress (`ArmedInv`) and so is what
the ring holds (`RingInv`); and once an event was submitted, the thread has no
record and no inner call to come (`ReportInv`), which is why the outer return of
a nested connect submits nothing. `ConnectTracerProofs` has one lemma for the
two ways to enter a function, one for the return, one for the collector's steps.

**The DNS cache.** `CacheInv` relates the map to the newest answers: an address
has its newest answer or none, and none only if that answer has expired or was
lost (`StoredInv`); and the entry `Lookup` holds between its two locks is the
one in the map unless it was overtaken, and has expired if it is about to be
deleted (`LookupInv`). `LookupDelete` is the step that needs both: what it
removes is either the expired newest answer, or lost.

**The DNS path.** What a lookup finds of the last answer captured cannot be told
from the cache alone, nor from the ring: `PathInv` says for each address where
that answer is (`LastAnswer`). If records about the address are in the ring, it
is the last of these; if none is, but `Add` is about to store one, it is that; if
neither, it is the newest in the cache. `ReadRecord` and `AddStore` move it along,
`FrameCaptured` puts the next one behind. The frame's answer (`Answer`) is what
the message says as a whole, and the record in the ring has only its first bytes:
that both are the same is `ClippedAllOrNothing`. That the read loop gives `Add`
only what `DnsCache` lets it (`ResponseTyped`) makes every step of the path one of
the cache or none, so that what is proved of the cache holds in the path.

**The parser.** `readName` and the loops of `ParseResponse` are recursive
functions over finite domains. What they compute is proved by induction over
turns, set up as a set of naturals that is closed under successor
(`NatSetInduction`). A cut message agrees with the whole as long as its own
bounds tests hold: by induction over the turns left of `readName` (`TurnCut`),
then of each loop (`ToldCut`). The turn limit depends on the message's length, so
the induction shows too that a name that ends needs no more turns in the longer
message. For the messages of `MCDnsMessage` the inductive invariant is
`MessageInv`: at each position where a name or its rest starts stands what
`means` says of it, and a measure (`Depths`) falls along every label and pointer of
a name that ends, so that it takes at most as many turns as there are cells and
the limit never refuses it; a name without an end has a pointer to itself or
leads to one, and the limit does refuse it (`EndlessNames`). The two loops have
read what was `written`, up to the end of the message, or are `Stuck` at a name
that cannot be read (`WrittenOK`); a question or answer appended is one more turn.

**The rules.** `FoldSeq` is between the least and the greatest sample times their
number (`AverageBounds`). The k-th of the sorted samples exists, by induction over
k (`NthLeast` is a choice from the samples), and has the nearest rank. The rest
is arithmetic of products.

The inductive invariants, and the types of the tracer, the resolvers and the
lifecycle, were checked by TLC before they were proved; since the proofs cover
every instance the runs do not repeat them.

**The lifecycle.** `LInv` adds to its properties: `Control`, which goroutine can
be where (the read loop runs only once all was started; `c.ring` is cleared after
the start only when the context is done; the channel is closed by the last step),
so that every step that panics is one after cancellation; and `DnsHeld` and
`TcpHeld`, what each point of a `Close` has already closed. The links still open
are among those each closer has yet to close, for both closers at once: this is
why neither makes the other skip one.

**The resolvers.** What the map in use says is recent because what was built but
not installed was: `Observed` says so of the scanned processes and the next map of
`SrcResolver`, `Listed` of the two lists of `DstResolver`, relative to what has
held since the refresh began. `NamedAlike` holds of the next map because `Build`
is one lock hold. For `SteadyPodsResolved`, `Steady` says that the pods alone on
their address since the refresh began are in the list that is about to be
installed. For the refinement, the start of a refresh maps to `Begin`, the install
to `Install`, a change of the cluster to `Change`, everything else to nothing.

## 6. What is only model-checked, and what is not modelled

Only model-checked: liveness, and with it `ENABLED`, for which TLAPS has no
support here; and the four findings, which are counterexamples. Every safety
property and every refinement that a run checks is also a theorem, with one
difference: for `SteadyTrafficIsQuiet` the theorem has a hypothesis on the
constants, which its run satisfies (section 5).

Not modelled: see `components` in `PROJECT.json`. Outside for good: decoding of
fixed-layout records, the clock converter (adds a constant), interface
detection, the Kubernetes client, logging and the generated bindings.
`bpf/headers/vmlinux.h`, by far the longest file, is the kernel's types as
`bpftool` prints them and has no behaviour to model. The NetworkPolicy generator
is named in the repository's README and does not exist. Success and fail counts
and the order in which equal windows of two address families are sorted are
abstracted away. Of the parser, pointers into the middle of a label or a record
are left out. Of the lifecycle, the resolvers' refresh loops and the baseline
dump, which end with the context and which nobody waits for.

## 7. What could come next

1. `FlowNaming`: the composition of the DNS cache and the resolvers into the
   choice of a key, with the two collectors' order, and of the tracer with
   `ReadEvent`. *Which refreshes and answers can change the key of a flow.* The
   parts are there: `DnsPath`, `SrcResolver`, `DstResolver`; `FlowPipeline` lets
   them answer anything.
2. With it, the promise of `LearnThenDetect` carried over to connections instead
   of keys, and its proof.

## 8. Running it

```
tlc -workers 2 -config MCFlowPipeline.cfg MCFlowPipeline
tlapm FlowPipelineProofs.tla
```

Each run is one `module`/`cfg` pair of `PROJECT.json`. All passing runs end
within seconds to a few minutes.
