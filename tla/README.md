# udev-manager: a verification development

udev-manager is a Kubernetes device plugin: it watches udev for disk partitions and network
interfaces and offers them to the kubelet as allocatable resources. This directory holds a TLA+
model of its concurrent core, the TLC runs that check it on small instances, and TLAPS proofs for
every value of the constants. Paths are relative to the repository.

## 1. The system

A device event travels through a pipeline of goroutines:

    kernel -> discovery monitor -> discovery mux -> scatter -> resource -> resource mux
           -> ListAndWatch stream -> kubelet

while the kubelet's restarts travel the other way, through the directory watcher and the registry.

| component | state | operations | interaction |
|---|---|---|---|
| `mux.Mux` (`internal/mux/mux.go`) | the input channel, the sinks, `done`, `submitMu`, the place of `run` | `Make`, `Submit`, `Subscribe`, the `CancelFunc`, `Close`, the loop of `run` and its deferred drain, flush and close | unbuffered request channels to `run`; calls of the sinks' `Submit` and `Close` |
| `resource` (`internal/plugin/resource.go`) | `instances`, `mu`, `broadcast` (a Mux), `done` | `Submit`, `ListAndWatch`, `Close` | called by its scatter; one goroutine per stream waits to cancel |
| `plugin` server (`internal/plugin/plugin.go`) | context, listener, `stopped`, the socket file | `newPlugin`, `stop`, the gRPC handlers `ListAndWatch`, `Allocate`, `probe` | serves the kubelet; one goroutine waits for the context |
| `Registry` (`internal/plugin/registry.go`) | the `sync.Map` of plugins, the watcher | `Add`, `hup`, `register`, `Healthz` | `Add` called by scatters; `hup` by the registry's goroutine on a creation of the kubelet's socket |
| discovery (`internal/udev/udev.go`) | `state`, the monitor's socket, its Mux | `Subscribe`, `State`, `DeviceById`, `Close`, the monitor's loop with enumeration and reconnection | request channel to the monitor |
| `Slice` (`internal/udev/udev.go`) | a filtered device set, a Mux | `Subscribe`, `Close`, its goroutine | a sink of the discovery; replays snapshots through a goroutine of the moment |
| `Scatter` (`internal/plugin/scatter.go`) | `routes` from template to resource | `added`, `removed` on `Init`, `Added`, `Removed` | reads a channel of capacity 1; calls `Add` and `Submit` |
| batch pool (`internal/plugin/batch_partition.go`) | `parts`, `labels` | add, remove, allocate | one resource with a fixed number of seats |
| mappers (`partition.go`, `net_bw.go`, `net_rdma.go`, `batch_partition.go`) | none | matchers, templaters, `Health`, `Allocate` of the instances | called by the scatters, the streams and `plugin.Allocate` |
| `plugin.Allocate`, `mergeResponses` (`plugin.go`) | none | one answer of the kubelet's call, merged id by id | reads the resource's instances once |
| configuration, `main` (`cmd/udev-manager/main.go`) | none | `validate`, the wiring of `startApp`, the order of shutdown | makes the consumers of the discovery |

What is hard about it:

* **Interleaving.** Every component has a goroutine of its own, calls that wait for it, and calls
  that give up (`Submit` after one second, `register` after ten). `Close` may come at any moment.
* **Snapshot and subscribe.** Three places hand a subscriber a snapshot and then the updates
  (resource, discovery, slice), each with its own way to make the two atomic.
* **Back-pressure.** A sink is an unbuffered or a short channel: one slow reader stops the whole
  fan-out, and a reader that stops for good must be unsubscribed through the goroutine that is
  waiting for it.
* **Restarts.** The kubelet wipes the socket directory and comes back while plugins are added.
  Closing a Unix listener removes the file at its path, whoever made that file.
* **Partial failure.** `register`, `net.Listen` and `Submit` fail and are logged; nothing retries.

What makes each component correct, in one line: the Mux loses, reorders and repeats nothing that it
accepted, and closes each sink once and last; a stream of a resource ends up on the newest state;
the registry's map, the sockets and what the kubelet knows agree after every restart; the
subscriber of the discovery holds the device set of `d.state`; a scatter offers each matching device
and withdraws each removed one; a slice's subscriber
hears the set at its subscription and each later one once; an answer to the kubelet holds every
device it was asked for. PROJECT.json lists the hazards behind these, line by line.

## 2. Plan

In order of importance; all but step 15 are done.

1. `Mux`, its abstraction `Broadcast`, and `MuxProofs`.
2. `Resource`, composed of the streams and an instance of `Mux`.
3. `Registry`, with the plugins' servers and the kubelet.
4. `Discovery`: the monitor over the socket's queue and an instance of `Mux`, and its subscribers;
   `DiscoveryProofs`.
5. `Scatter` with the batch pool, over `Feed` (what the discovery promises) and abstractions of
   `Registry` and `Resource`, and `ScatterProofs`.
6. `Slice`, a sink of the discovery with a Mux of its own, and `SliceProofs`.
7. `Allocation`: what an entry of the configuration makes of the devices, and what the kubelet is
   answered; `AllocationProofs`.
8. `ResourceProofs`: the safety of `Resource`, and that it drives its broadcast by steps of `Mux`.
9. `RegistryProofs`: the safety of `Registry`, for any names, Adds and kubelet starts.
10. `Registry` again: two names whose `socketPath` (`plugin.go:185`) is one, since `sanitize.BaseName`
   folds characters together, so that the `os.Remove` of one `Add` takes the other's socket.
11. `SliceProofs` and `DiscoveryProofs`: what reaches the subscribers (`ReplayThenUpdates`,
    `ViewTracksState`).
12. `ScatterProofs` and `AllocationProofs`: what the kubelet is told and given (`OfferIsTrue`,
    `SeatsFollowPool`, `AnswerIsWhole`).
13. The composition: `Discovery` implements `Feed`, and what is proved of every `Mux` holds of the
    discovery's and the resource's.
14. The same of the slice's `Mux`, whose sinks a refused `Subscribe` closes without it; and the
    safety cores of the liveness properties (who is waited for, and that he can go on).
15. What `Scatter` assumes of `Registry` and `Resource` (`owner`, `known`, `due`; `snap`, `told`,
    `missed`) stated as specifications of their own that the two implement, as `Feed` is for
    `Discovery`.

## 3. The modules

### Mux

One action per branch of each `select`. Each `Submitters` member is a goroutine that calls `Submit`
again and again, each `Sinks` member one registration: `Subscribe`, then at most one `CancelFunc`.
Values are pairs of a submitter and a number, so every accepted value is distinct.

| model | code |
|---|---|
| `input`, `inBufSize`, `outputs`, `done` | the fields of those names; `inBufSize = 0` is the unbuffered channel |
| `runPc`, `pending`, `buffered` | the place of `run`, the sinks the present fan-out has still to serve, the local of the deferred drain |
| `submitPc[p]` | a caller of `Submit`; one that is past the check of `done` holds `submitMu` for reading |
| `subPc[s]` | the caller of `Subscribe` and later of the `CancelFunc` |
| `closes[s]` | how often the sink's `Close` has run |
| `sent`, `dispatched`, `base`, `recv` | history: accepted by `Submit`, taken for a fan-out, accepted before the sink's registration, given to the sink |

`SubmitCall`, `SubmitProceed`, `SubmitClosed`, `SubmitTimeout`, `SubmitBuffered` and
`SubmitHandoff` are `Submit`; `RunRecv`, `Deliver`, `RunRegister`, `AckRegister`, `RunUnregister`,
`AckUnregister` and `RunDone` are the loop; `RunDrain`, `FlushNext`, `FlushDone`, `CloseSink` and
`RunExit` are the deferred function. A rendezvous on an unbuffered channel is one step of both
sides. `Deliver(s)` is one call of a sink's `Submit` and may be taken in any order of the sinks (the
code ranges over a Go map); that it may never be taken is a sink that blocks.

`Broadcast` is what the package documentation promises: values are accepted, accepted values are
handed round in order, a listener hears everything accepted from its joining to its leaving, and at
the end everything accepted has been heard. `ImplementsBroadcast` is that specification under the
refinement mapping in `Mux`.

### Resource

An instance of `Mux` (one submitter, the unbuffered input, the streams' channels as sinks) with the
resource's lock, its version of the instance map, and per stream the handler, its channel of two
places, its context and the goroutine that cancels. `queued` counts what the channel holds; `told`
records what was put into it. `WatchPanic` is the send on a closed channel; nothing runs after it.
The content of a snapshot is abstracted to the number of health events applied.

### Registry

`plugins` is every plugin ever made, `entry` the map `r.plugins`, `file` what is at each socket
path. `Add` is five steps (`os.Remove`, `net.Listen`, `LoadOrStore`, `register`), `hup` the same
with `stop` before and `Store` after, visiting the keys as a `Range` of `sync.Map` may: those stored
when it began, perhaps those stored meanwhile. `PluginStops` is the plugin's goroutine: the listener
is closed, the path unlinked whoever made it, `stopped` closed. The kubelet (external) wipes the
directory when it starts and then creates its socket, which queues an event; both may happen between
any two steps of the program. `register` may fail at any time and succeeds only with a kubelet that
is up. Either half of `newPlugin` may fail at any time and for any reason, a missing directory or a
want of descriptors as well as a file at the path (`AddPluginFails`, `HupPluginFails`). In `hup` that
leaves the stopped plugin in the map, and the name without a server until the next kubelet start;
`denied` records the names to which the system has done this since the last round of `hup` began, and
leaves out those of which another Add took the path, which the properties know by `Sole`. That the
unlink at the close of a listener succeeds is assumed. `Healthz` changes nothing and is left out. `Path` gives each name its socket path. It need not be
injective, since `socketPath` (`plugin.go:185`) takes what `sanitize.BaseName` makes of the name, and
that folds characters together: the `os.Remove` of one `Add` may take the socket of another name. So
`Sole`, the condition under which a name can count on its socket, is about paths.

### Discovery

An instance of `Mux` (the monitor as its one submitter, an unbuffered input, the subscribers'
channels as sinks) with the monitor, the socket it reads and the callers.

| model | code |
|---|---|
| `present`, `devQ`, `link` | external: the devices there are, the changes queued on the socket, the socket's condition (`"down"` is an error waiting on `errChan`) |
| `state`, `monPc`, `left`, `found` | `d.state`, the place of `monitor`, and the enumeration: the devices it has still to look at and those it has found |
| `log` | the events given to `d.mux.Submit`; the mux's value number n is `log[n]` |
| `reqPc[s]`, `closer`, `ddone` | the callers of `Subscribe` and of `Close`, and the channel `d.done` |
| `chan[s]`, `view[s]` | the subscriber's channel of one place, and the devices it has read to be there |
| `unseen`, `lost`, `settled` | history: devices that changed while the socket was down, devices whose event timed out, and `d.state` as of the last `Submit` to return |

A device is a model value; an event is its type (`Init`, `Added`, `Removed`) and its devices.
`After(ds, q)` is what a reader of the events `q` believes who began with `ds`: about each device the
last event decides. It serves for the kernel's queue before the monitor and for the channel after
it. `OpenSocket`, `Scan`, `ScanDone` are the start, `OnAdd`, `OnRemove`, `OnRemoveUnknown` and
`SubmitStep` the device case of the select, `Serve` and `Served` the `newSub` request, `Stop` the
`stopRequest`, `OnError` and `Reopen` the error case, `CloseDone` and `CloseMux` the deferred
functions. The write of `d.state` and the beginning of `Submit` are one step: between them only
`DeviceById` could look, and only the monitor itself closes `d.mux`. `State` and `DeviceById` read
and change nothing. Actions other than add, remove, online and offline are ignored by the code and
left out.

### Feed

What the discovery promises whoever reads its events, without monitor, socket, mux or enumeration: a
set of devices, the readers that have joined, and what each has still to read. A reader joins with
the devices that are there (`Join`); a device appears or vanishes together with an event for every
reader (`Tell`) or for none (`Drop`), and no event is told while a reader is `Ahead` events behind
(`Free`). `ImplementsFeed` is this specification under the refinement mapping at the end of
`Discovery`: the devices are `settled`, so that a change happens when its `Submit` returns, not when
`d.state` is written; a reader's queue is its channel and the value `run` is handing it (`Unread`),
hence the two events of `Ahead`; and a reader has joined from the request the monitor has begun to
serve to the `Close` of its channel (`Joined`). `Scatter` is built on the same module: the discovery its
consumers read is the one `Discovery` implements.

### Scatter

The consumers of the discovery as `startApp` wires them: any set of scatters and batch scatters over
one discovery and one registry. What the other modules show in detail is abstracted to what a
consumer sees of it, the discovery to the `Feed` it is shown to be:

| model | stands for |
|---|---|
| `present`, `subscribed`, `chan[c]`, `Backlog` | the discovery, by way of `Feed`: its device set, the consumers that have joined, and what each has still to read, in its channel of one place and in the hands of the mux behind it. A change that is told to nobody (`lost`) is one whose `Submit` finds the mux busy for a second; one that waits and is taken in time is a change that comes later |
| `owner`, `Hup`, `known`, `due` | the registry's map, which nothing leaves, the names `hup` has still to come to, and what the kubelet has accepted |
| `inst`, `snap`, `told`, `missed` | a resource's marks by instance id (its own health, or overridden Unhealthy), the newest snapshot in its stream's channel, what the kubelet was last told, and whether the last `Submit` timed out |
| `pc`, `cur`, `todo`, `routes`, `pool` | a consumer: where it is, the device at hand, what is left of `Init`, `s.routes`, `pool.parts` |

`ScatterAdded` and `ScatterRemoved` are `added` and `removed`; `AddStore`, `AddFails`, `RegisterOk`
and `RegisterFails` are the ways through `registry.Add`, between which the kubelet may start, `hup`
may run and events may pile up. `RegisterFails` may leave the kubelet with the name all the same: an
answer later than the deadline. `BatchAdded`, `BatchRemoved` and `BatchInit` are the cases of
`runBatchPartitionScatter`, `BatchSubmit` its health event. A seat asks the pool for its health when
the stream handles the snapshot (`Shown`), not when it was sent; and the instances in `Links`, those
of NICs, look then at the operstate (`net_bw.go:25-30`, `net_rdma.go:28-33`), which may be anything
each time and is recorded in `down`. Other instances are Healthy of their own. An override keeps an
instance Unhealthy and never makes it Healthy (`resource.go:77-91`).

Abstracted away: templates and instances are functions of the device (the mappers), so a NIC whose
speed changes between two events is not seen here; which sockets a second `Add` of a name takes belongs to
`Registry`; a stream that ends on an older snapshot belongs to `Resource` (`resource_replay`). The
configuration's entries start in any order, `startApp` in one.

### Slice

An instance of `Mux` (the slice's goroutine as its one submitter, an unbuffered input, the
subscribers' unbuffered channels as sinks) with that goroutine, the source and the callers.

| model | code |
|---|---|
| `present`, `evCh`, `open`, `fits`, `once`, `lost` | external: the devices of the source, the event its mux is sending (at most one, the channel is unbuffered), whether it has closed the channel; history: the devices there that matched the filter when they were last added, those that did then or at an addition before, and those whose last event was dropped |
| `state`, `slicePc`, `sdone` | `slice.state`, the place of the goroutine, and the channel `slice.done` |
| `newcomer` | the subscriber whose request is served, until the replay to it is received |
| `log`, `dropped` | the snapshots given to `slice.mux.Submit`, number n in its n-th call, and those that timed out |
| `reqPc[s]`, `got[s]` | the caller of `Subscribe`, and the numbers of the snapshots it has received |

`OnInit`, `OnAdded` and `OnRemoved` are the cases of an event, each with its `Publish`; `SubmitStep`
is `slice.mux.Submit` going on. `Serve` is the request case with the call of `slice.mux.Subscribe`,
`Reply` its return with the CancelFunc handed out, `Replay` the send of the goroutine started for
the newcomer, which the slice's goroutine waits for, and `ReplayPanics` that send on a channel closed
meanwhile. `EndOfEvents`, `CloseMux` and `CloseDone` are the end and the deferred functions,
`SubscribeRefused` the `done` case of `Subscribe`, which closes the sink itself. A device added again
while it is there may match or not; the code ignores one that does not, and so it stays in the set,
though the documents speak of the "current matching device set" (`udev.go:287-290`) and a "filtered,
live view" (`discovery.go:59-60`). `SliceTracksSource` does not decide between them: it asks that
the set hold all of `fits` and nothing outside `once`, which the code and a code that drops such a
device both satisfy, and no other staleness does.
The model assumes that the source has accepted the slice; a discovery that is closed first leaves
`makeSlice` waiting for its `Init`.

### Allocation

One entry of the configuration, the consumer `startApp` makes of it, and the kubelet's list and
`Allocate`. Here the mappers are modelled which `Scatter` takes as functions of a device; the
schedule `Scatter` explores (events that pile up, `Add` and its failures) is left to it, and an event
is one step.

| model | code |
|---|---|
| `entry` | one of `partitions`, `networkBandwidth`, `networkRdma`, `batchPartitions`: `match` gives for each matching name what `FindStringSubmatch` returns, `num` is `mbpsPerShare`, `resourceCount` or `count`; `Valid` and `Validated` are `validate` |
| `held` | the devices of the discovery with the attributes the mappers read: the name (PARTNAME or INTERFACE), the speed, the operstate, and whether `rdmamap` finds character devices |
| `routes` | per suffix of the resource's name the instances by id: the device, the object it was when it was mapped, the health override |
| `labels` | `pool.parts`: the devices in a batch pool and their labels |
| `pc`, `name`, `offered`, `request`, `todo`, `instances`, `response` | the kubelet's call: the Healthy ids of its list, the ids asked for by each container, those not yet served, the instances `Allocate` has read, the answers so far |
| `orphans`, `stayed` | history: ids (or pool members) that the last event of their device no longer mapped to; devices in the pool from the list to the answer |

`PartitionLabel`, `BatchLabel`, `ShareIds`, `RdmaIds`, `Shares` are the mappers, with Go's truncating
division and `int` of `Width` bits; `MapperPanics` says when they panic. `Fold` is what
`sanitize.EnvVarName` makes of a label. `ServeId` merges the answer of one id into its container's,
devices appended, variables overwritten; `NotFound` fails the whole call. Three facts about libraries
are assumed: libudev keeps an attribute it has once read (so a NIC's speed at its removal is the one
it was mapped with), `rdmamap` looks anew each time (so a removed NIC's character devices may be found
or not), and no two interfaces have one name. A name that matches is a model value, and so is what
the expression finds in it. Topology hints are left out, and mounts and annotations, which no
mapper sets.

## 4. The runs

| run | bounds | shows |
|---|---|---|
| `mux` | 2 submitters of 1 value each, 2 sinks, buffers of 0 and 2 | types, `InOrder`, `ExitDeliversAll`, `SinkClosedOnce`, `Synchronous`, `NoSubmitAfterClose`, `ImplementsBroadcast`; `SubmitReturns`; `ShutdownCompletes` and `SubscriberReturns` when the sinks take what they are given |
| `mux_cancel` | 1 submitter, 1 value, 1 sink | violation: `CancelSilences` |
| `resource_safety` | 2 streams, 2 health events | `NoMissedUpdate`, `ReplayAtMostOneLate`, `LiveStreamsStayOpen`, types |
| `resource_replay`, `resource_context` | 1 stream, at most 2 health events | violations: `ReplayFirst`, `ContextEndsSubscription` |
| `registry` | 1 name, 2 Adds, 2 kubelet starts | `SocketServed`, `OneServer`, `RestartAnswered`, `NameKeepsResource`, types; `RestartIsAnswered`, `ShutdownCompletes` |
| `registry_restart` | 1 name, 1 Add, 1 start | violation: `RestartRenewsAll` |
| `discovery` | 1 subscriber, 2 devices, 2 changes, 1 failure of the socket | `StateTracksDevices`, `ViewTracksState`, `ImplementsFeed`, types; `RequestsReturn` when the socket can be opened again, `EndReachesSubscribers` |
| `scatter_safety` | 2 scatters with one name, or a batch; 2 devices, 2 changes, 1 kubelet start | `RouteIsServed`, `OfferIsTrue`, `SeatsFollowPool`, types |
| `scatter_template` | 1 scatter, 2 devices, 1 change, 1 kubelet start | violation: `TemplateGetsResource` |
| `slice` | 2 subscribers, 1 device, 2 changes | `SliceTracksSource`, `ReplayThenUpdates`, `PanicNeedsCancel`, types; `NobodyStuck` and `EndClosesSinks` when the subscribers receive |
| `allocation` | 2 devices, 3 events, 12 entries of the four kinds, integers of 3 bits | `OffersFollowDevices`, `AnswerIsWhole`, types |

Why the bounds are enough: two submitters and two sinks give every pairwise race, a buffer of two
and two values a full, a part-full and an empty buffer at `Close`; more sinks only lengthen the
fan-out, whose members do not interact, and the proofs hold for any number of values. Two health events and a replay fill a stream's channel of
two and make a third wait. Two Adds meet
on one name, and the second kubelet start may fall inside the `hup` of the first; Adds of two names
share the map, the order of `hup` and perhaps a path, and the proofs hold for any number of names and
Adds and for any `Path`. Any set of the devices may be there at first, and
the two changes may be of one device or of two, before, during or after the enumeration, and put one
event into the fan-out and another into `Submit`; what several subscribers do to each other they do
in the mux, which its own run and proofs cover for two and for any number (that an event is for all
or for none, of which one subscriber shows little, is `DiscoveryIsAFeed`, proved for any number), and in the run of
`Slice`, whose second subscriber arrives, cancels or stops reading while the first is replayed to
or served. Its one device comes, or comes again, matching or not, and goes. In the
runs of `Scatter` two changes and the devices there at first make `Init` of up to two devices, a
removal and a return, and an event dropped while a consumer is in `Add`; the second scatter matches
one device only, under the name of the first, so each order of their Adds occurs. A batch shares
nothing with a scatter but the discovery's two events, and has the run to itself. Three events bring
two devices and let one come again with other attributes or go, before the kubelet's list, between
it and the call, or between two ids of it; entries with a group, without one, and with two names of
one label meet the cases of the labels, and integers of three bits the shares that overflow or
truncate. (Outside the runs, these larger instances passed as well: four events here; the safety of
`Registry` with two names, two Adds and two starts, and all its properties with two names of one path
and one start; that of `Discovery` with two subscribers, two
devices, two changes and one failure.) Symmetry is used in safety runs only. Deadlock is
checked in the runs of `Mux`, and not in the others: a resource is stopped for good by a stream that
nobody reads (`resource_context`), the registry comes to rest after a shutdown, the monitor waits at its select, and
the devices may stop changing.

Fairness. `Mux!Fairness` is weak fairness of `run`, of every `Submit` in progress (its timer fires)
and of the `done` branches: goroutines the Go scheduler runs. Nothing obliges a sink to take a value;
the two liveness properties that need it say so with `SinksTake`, weak fairness of `Deliver`, as
their hypothesis. `Resource!Fairness` adds the handlers, which read while their stream lives.
`Registry!Fairness` is weak fairness of the registry's goroutine, of Adds in progress and of each
plugin's goroutine; no kubelet must start, and nobody must call `Add` or shut down.
`Discovery!Fairness` is weak fairness of the monitor, of `d.mux` and of the callers' `done` cases,
and of the subscribers' reads: a Scatter's handlers all end (`register` gives up after ten seconds,
`Submit` after one). That a broken socket can be opened again is not assumed but a hypothesis of
`RequestsReturn`, `SocketReopens`: the retry loop answers no request, so while it fails `Subscribe`
and `Close` do wait. `Slice!Fairness` is weak fairness of the slice's goroutine, of `slice.mux` and of
the callers' `done` cases. That a subscriber receives until its channel is closed is the hypothesis
`SubscribersReceive` of both liveness properties: without it the slice does hang, since its
goroutine waits for the replay.

### Findings

* `mux_cancel`: the documented silence of a sink after its `CancelFunc` does not hold when the
  `CancelFunc` returns because `done` is closed: `run` may be in a fan-out or in its final flush.
* `resource_replay`: the replay snapshot is sent after `r.mu` is released, so a newer update can
  enter the stream's channel first and the stream ends on the older state. `ReplayAtMostOneLate`
  says how bad it gets: one update; with two, the handler blocks before it starts to read.
* `resource_context`: a stream whose context ends with its channel full is never unsubscribed,
  `run` waits for it for ever, and the resource stops.
* `registry_restart`: a plugin between `newPlugin` and `LoadOrStore` when the kubelet wipes its
  directory is missed by `hup`; `Add` then returns nil for a plugin nobody can reach.
* `scatter_template`: an `Add` whose `register` fails closes the resource and leaves its plugin in
  the registry. The kubelet can still learn of the name, by a late answer or the next `hup`; its
  stream ends at once, and the scatter can never add a resource of that name again.

Also met, with no run of its own: a `ListAndWatch` that overtakes `Close` gets a channel that is
never closed, and one between its subscription and its replay panics (`WatchPanic`); the resource is
closed while it is served only when a `register` has failed.

Three limits of the discovery are written into its properties rather than into runs of their own. An
event whose `Submit` times out is gone: `ViewTracksState` shows that a subscriber is wrong at most
about the devices of such events (`lost`), until their next change. A device that changes while the
socket is down is not looked at again: `StateTracksDevices` shows that `d.state` is wrong at most
about those (`unseen`). And a `Subscribe` that finds `d.done` closed leaves its sink open, so
`EndReachesSubscribers` speaks of the accepted ones.

Met in `Slice` and in `Allocation`, where the properties say how far each goes:

* A subscriber of a slice that calls its CancelFunc before it has read the replay can make the
  program panic (`ReplayPanics`). `PanicNeedsCancel` shows that nothing else can.
* A NIC whose character devices are gone when it is removed keeps its RDMA instances Healthy, since
  the ids to withdraw are looked up again; so do the shares beyond a lower speed of a NIC added
  again, and the label before a new one. `orphans` counts exactly these.
* A device added again that no longer matches a slice's filter stays in its set, with its old object:
  the filter is asked of additions only. `SliceTracksSource` names this one exception, as the
  difference of `fits` and `once`.
* A partition added again under a name that does not match stays in the batch pool for good, though the
  pool is "the current set of partition devices matching" (`batch_partition.go:16`). `PoolFollows`
  allows it, by bounds, and does not demand it.
* A `newPlugin` that fails in `hup` leaves its name without a server until the next kubelet start.
  `RestartAnswered` exempts such names (`denied`) and no others, and `RestartIsAnswered` shows that the
  next start tries them again.
* Labels that fold to one variable overwrite each other; `AnswerIsWhole` excludes them. A batch whose
  expression has no group is prone to it: it labels a device with the part of the PARTNAME that
  matched (`batch_partition.go:111`), not with "the full PARTNAME" of the comment in line 92.
* `mbpsPerShare` of 0 divides by zero, and numbers beyond an `int` make a negative capacity:
  `OrdinaryEntriesNeverPanic` states the entries for which no mapper panics.
* `hostdevs` are parsed and validated, and nothing uses them.

`OfferIsTrue` says of an instance that it is offered if its device is there and its NIC, where it has
one, was up when it was asked; a link that changes later is not told before the next health event.
It names what it excludes: devices whose event was dropped, devices whose `Add`
failed, ids that several devices share, and streams whose last health event timed out.

## 5. The proofs

`MuxProofs` proves, for any sets of submitters and sinks, any buffer sizes and any bound on the
calls, that `Spec` implies `[]TypeOK` (`TypeCorrect`), `[]InOrder` (`NothingLost`), `[]ExitDeliversAll` (`ShutdownLosesNothing`), `[]SinkClosedOnce`
(`ClosedAtMostOnce`), `[]Synchronous`, `[]NoSubmitAfterClose` (`ClosedSinksAreQuiet`), and that
`Mux` implements `Broadcast` (`MuxIsBroadcast`). The only assumption is `MuxAssumption`, on the
types of the constants.

The inductive invariant is `IInv`: the properties above, with the two parts of `InOrder` by name
(`AcceptedLog`, what has been accepted and where it is; `FanOut`, what each sink has of it), and two facts about where the goroutines
are. `RunShape` ties the place of `run` to its data (`pending` is a subset of the registered sinks,
`buffered` is empty outside the flush, the loop is left only when `done` is closed), and `SinkShape`
ties the caller of `Subscribe` to the registration (the sink of a caller that has been heard
is registered, or `run` has come to its end and closed it with everything delivered; a sink whose
caller has not subscribed is unknown to `run` and has not been closed).
Without `SinkShape`, `SinkClosedOnce` is not inductive: `CloseSink` could meet a sink already closed
by `RunUnregister`. One lemma per group of actions shows that a step preserves `IInv`; lemmas on
sequences (appending to, and taking a prefix of, the log) carry the arithmetic. The refinement is
proved from `IInv` at both ends of a step: each action is a step of `Broadcast` or leaves its
variables alone, and `ExitDeliversAll` gives the guard of the abstract end.

What the liveness properties come to without fairness is proved too. `NobodyIsLeftWaiting` says of
each place where a goroutine waits that the one it waits for can go on (`Attended`): `run` answers a
request whose caller is there to take the reply, a caller in the rendezvous is the one `run` answers,
`run` takes `submitMu` only when `done` is closed, which lets the Submits that hold it go, and in a
fan-out it waits for a sink that has not had the value. It rests on `Replying`: at most one caller has
been heard and not been answered. `ExitClosesEverySink` says that at the return of `run` every sink it
had registered has been closed, once, and no other has. With the fairness that makes the goroutines
take the steps they can, these are what `SubmitReturns`, `SubscriberReturns` and `ShutdownCompletes`
rest on.

`DiscoveryProofs` proves `StateTracksDevices` (`StateFollowsDevices`) for any devices, any number of
changes and failures of the socket. As it stands the property says nothing before the loop, so the
invariant `TInv` extends it over the enumeration: `Base` is what the monitor will start from, found
so far plus, of the devices not yet looked at, those that are there. `LinkOK` adds that a socket
that is not up queues nothing. Three lemmas on `After` carry it: an appended event decides for the
device it names and for no other (`AfterAppend`, for the kernel's steps), the first event of a queue
can be applied before the rest (`AfterHead`, for the monitor's), and what is believed of a device
depends on that device alone (`AfterLocal`). The mux plays no part: its steps leave these variables
alone. The assumption is `DiscoveryAssumption`, on the bounds.

The same module proves `ViewTracksState` (`ViewsFollowState`) and `TypeOK` (`DiscoveryTypes`), for any
number of subscribers, where the run has one. Here the mux does play its part: `Unqueued` says that
nothing is ever left in its unbuffered input, so that an event is either offered by the monitor, on
its way round, in a channel or read; `Says` that the event offered is what was just done to
`d.state`; `Places` that a subscriber whose channel is open is a sink from its reply on, and that the
monitor submits nothing between the snapshot and `d.mux.Subscribe`. `Follows` is then the property
itself, kept by each kind of step: a new event is appended to what the subscriber is to read
(`AfterAppend`), a delivery moves it, a read takes the first (`AfterHead`), and a timeout exempts its
device.

It proves, third, that the discovery implements `Feed` (`DiscoveryIsAFeed`). Each step of the monitor,
of `d.mux`, of the kernel and of the callers is a step of `Feed` or leaves its variables alone: the
hand-off of an event to `run` is `Tell`, a timeout `Drop`, the call of `d.mux.Subscribe` is `Join`, the
`Close` of a sink `Leave`, a read `Take`, and the end of the enumeration `Unheard`. `Free` holds at a
hand-off because `run` is then at its select, with nothing left of the last fan-out. Besides the
invariants above it needs the relation of `settled` to `d.state`: they differ by the event being
submitted and by nothing else, and a removal is submitted only of a device that was there.

`DiscoveryIsOnAMux` shows that every behaviour of `Discovery` is one of its `d.mux`, for the module
`Mux` itself, so that the theorems of `MuxProofs`, instantiated with the discovery's constants and
variables, hold of it: `DiscoveryKeepsMux` states them. An instantiated theorem speaks of the
operators as `MuxProofs` has them; `SameMux` and `SameSpec` say that they are those of the instance
in `Discovery`, and `MuxAssumption` is proved, not assumed, of these constants. With them
`NobodyIsLeftBehind` proves the safety cores of `RequestsReturn` and `EndReachesSubscribers`: while the
monitor waits in `d.mux.Subscribe`, `d.mux` is in its loop with the request before it or is answering
it (`MonitorIsHeard`; only the monitor closes `d.mux`, at its own end), and when `d.mux` has ended,
nobody the monitor has accepted holds an open channel (`EndClosesChannels`).

`ScatterProofs` proves `TypeOK` (`ScatterTypes`) and `RouteIsServed` (`RoutesAreServed`) of
`Scatter`, for any consumers, configurations, devices, templates and bounds. `RouteIsServed` is not
inductive: nothing in it says that the resource a failed `register` closes is nobody's route, nor
that the one `register` ends well for is open. `AddShape` says both: a scatter in `Add` has no
route to the name it adds, and a consumer in `register` owns an open resource. `ClosedIsStored` says
that a name not yet stored is not closed. The steps outside of `Add` leave routes and resources in
place (`Frame`), and each step of `Add` has a lemma of its own. The assumption is
`ScatterAssumption`, on the types of the constants, and that a consumer is a scatter or a batch.

The same module proves `OfferIsTrue` (`OffersAreTrue`) and `SeatsFollowPool` (`SeatsFollowThePool`).
Both speak of consumers at rest, so `OfferInv` says what holds between the steps. `Tracked` follows
each device from the last word the queue has of it (`LastIsTrue`; `Silent` when it has none) to what
the consumer has of it (`Has`, `Lacks`). `Queued` is what a consumer may find in its queue: an `Init`
comes first or not at all, and everything else is of one device. `Unmarked` says that a resource in
`register` is as `Add` made it, `Owned` that nobody else has it, `Pooled` that a batch past its `Add`
owns its resource and that its seats are healthy while the pool is not empty, and `Streamed` that a
stream which missed nothing has the healths the resource had before its next update, or has told
them. `OthersUntouched` is why consumers can be taken one at a time: a step of one leaves the others,
and their resources, alone.

`ResourceProofs` proves every safety property of the resource's run, for any streams and any number
of health events: `TypeOK` (`TypeCorrect`), `LiveStreamsStayOpen` (`StreamsStayOpen`),
`NoMissedUpdate` (`NothingMissed`), `ReplayAtMostOneLate` (`ReplayInPlace`); and that every behaviour
of the resource is one of its broadcast (`BroadcastIsAMux`). From the last it follows, as for the discovery, that what
`MuxProofs` proves of every `Mux` is so of the broadcast (`BroadcastKeepsMux`). The invariant `Shape` holds the types of
the broadcast as the resource uses it (nothing is ever left in an unbuffered input), the place of
`run` and of the owner, and what a stream's place says of its subscription: a `CancelFunc` is called
only when the context is done, and `run` leaves its loop only when `r.done` is closed, which together
are `LiveStreamsStayOpen`. Two invariants stand on it. `Updates`: what was dispatched before the sink
was registered is not newer than the snapshot (`Covered`, established by `WatchSnapshot`, as nothing
dispatched is newer than the instances), and what was dispatched since is in the channel (`Handed`).
`Order`: until its replay a stream has been told what its sink received, which is at most one update,
as the replay still finds room in two places; from then on the two logs grow alike. A lemma on
sequences (`Inserted`) turns the element-wise form into that of the property. The assumption is
`ResourceAssumption`, that the bound is a natural number.

`RegistryProofs` proves every safety property of the registry's run, for any finite sets of names and
of calls of `Add`, any `Path`, injective or not, and any number of kubelet starts, which the run's one name and two Adds are not
enough to suggest: `TypeOK` (`TypeCorrect`), `SocketServed` (`SocketsAreServed`), `OneServer`
(`OneServerEach`), `RestartAnswered` (`RestartsAnswered`) and `NameKeepsResource`
(`NamesKeepResources`). What every step keeps is proved first (`Kept`, `EntryKept`, `CallsKept`:
plugins only go from serving to stopped, a stored name stays stored). `Places` says where each Add
and `hup` are and what they hold. On it stand four invariants. `LivePlace`: a server that has not
ended is of the plugin in the map, of the one `hup` is about to store, or of a resource that has had
one plugin only (the one a refused Add leaves behind); so a resource has at most one live server
(`OneLive`), and none while `hup` has its stopped plugin in hand. `SocketOf` follows from it for
every serving plugin, stored or not: each step that removes or makes the file at a path, be it of another name, belongs to
an Add of another resource, which `Sole` excludes, or to a resource without a live server.
`Answering` extends `RestartAnswered` over the time `hup` is at work: a name the kubelet waits for is
renewed, or in an event not yet received, or still to be visited in the present round, or in hand
with its new plugin fresh, or denied one in this round. `Counted` bounds the plugins by the Adds and the visits of each round. The
assumption is `RegistryAssumption`: the bound is a natural number, the sets are finite, `NoName`
is no name, and every name has a path. `NobodyIsLeftBehind` is the safety core of `ShutdownCompletes`,
and of `hup`'s wait in `stop`: the plugin waited for has been cancelled (`HupIsHeard`), and the file
at a path is always of a plugin of that path that has not ended (`SocketsLive`, which no end of
another plugin breaks, as a plugin's end removes whatever is at its own path, `OwnEnd`): when every
plugin has ended, there is no file.

`SliceProofs` proves every safety property of the slice's run, for any devices, subscribers and
number of changes: `TypeOK` (`SliceTypeCorrect`), `SliceTracksSource` (`SliceFollowsSource`),
`ReplayThenUpdates` (`ReplayComesFirst`) and `PanicNeedsCancel` (`ReplayPanicNeedsCancel`).
`SliceTracksSource` needs that the channel holds at most one event, of one device, and that `Init`
comes first (`EvShape`); the event on its way then accounts for the difference between the set and
the source. The invariant is `TracksOnce`, what the code does exactly: but for lost devices the set
is `once`, the upper bound, and `fits` is within it. `PanicNeedsCancel` needs that a newcomer's sink is known to `run` while the goroutine
waits for its replay (`Serving`), that `run` closes sinks at its end only after `slice.mux.Close`
(`ClosedLast`), which the goroutine calls when it is not waiting, and that a sink closed before that
has a subscriber who has called its CancelFunc (`ClosedForCancel`). `ReplayThenUpdates` stands on
three more: slice.mux never has anything in its input (`Quiet`); every snapshot newer than the last
one handed out was dropped or is being submitted, which the goroutine never does while it serves a
newcomer (`Numbers`); and a subscriber whose channel is open is a sink from its reply on (`Places`).
`Heard` then says of each subscriber what it has been sent, and adds that what is on its way is newer
than its replay: that is why a delivery keeps the order (`Growing`). `Counted` bounds the snapshots
by the events. The assumption is `SliceAssumption`: the bound is a natural number and `None` no
subscriber.

`SliceIsOnAMux` shows that every behaviour of the slice is one of `slice.mux`. Here the refinement
mapping is not the identity: a `Subscribe` that finds the slice closed closes its channel itself, which no
step of a Mux does. `ByMux` is `closes` without those, and the channel so closed was never a sink. What
`MuxProofs` proves then holds of `slice.mux`, and, with `RefusedOnce` (a refused channel is closed
once), of both closers together (`SliceKeepsMux`). `NobodyIsLeftBehind` proves the safety cores of
`NobodyStuck` and `EndClosesSinks`: the goroutine of the slice waits in `slice.mux.Subscribe` only
with a `run` in its loop (`SlicerIsHeard`), and at the end of `slice.mux` every channel of a caller
whose `Subscribe` has returned has been closed exactly once (`EndClosesChannels`).

`AllocationProofs` proves `OffersFollowDevices` (`OffersFollow`) for any devices, entries, width and
number of events, with `BatchShape` (a batch has one route, with all its seats, and only members
that no longer match are orphans) for the pool's half; and `OrdinaryEntriesNeverPanic`: if every
`mbpsPerShare` is at least 2, every number fits an `int` and a speed is -1 or more, no mapper
panics. The lemma `Dividing` carries it: a truncating division by 2 or more takes -1 to 0.

It also proves `TypeOK` (`AllocationTypes`) and `AnswerIsWhole` (`AnswersAreWhole`). `Allocate`
answers one id after the other while devices come and go, so `AnswerInv` says what the ids it is done
with have been given (`Given`), that the answer of each container is `Coherent` (each variable names
a device of the answer, with the label it is folded from), and that an instance of the list is one of
a device or none (`Placed`). `MergeCoherent` is the lemma for `mergeResponses`: of two
variables of one name the later replaces the earlier, but the devices of both stay. The assumption is
`AllocationAssumption`: the types of the entries, that a match has one string more than the
expression has groups (`FindStringSubmatch`), and that no label is the id of a device.

Checked by TLC only: the liveness properties (fairness is out of the prover's reach; what
`NobodyIsLeftWaiting` and the three `NobodyIsLeftBehind` prove of them needs none) and the violations.

## 6. Not modelled

Reading the configuration (its sources, its syntax, defaults other than those of `validate`), the
names of domains and resources beyond their suffix, `/healthz`, and the logging are plain I/O. Device
attributes are modelled as far as the mappers read them; topology hints, `GetDevicePluginOptions`,
`GetPreferredAllocation` and `PreStartContainer` answer from constants or from one attribute, and
nothing depends on their order. The order of shutdown in `main` is modelled by its parts only (`Mux`,
`Registry`, `Discovery`). The wrappers `ThenSink`, `FilterSink` and the filter combinators keep no
state. The fake discovery and the fake kubelet are test doubles. gRPC, fsnotify, udev, `rdmamap` and
the kubelet are environment, modelled from how the code uses them where a module needs them.
