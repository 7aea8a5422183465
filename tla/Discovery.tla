----------------------------- MODULE Discovery ------------------------------
(***************************************************************************)
(* The device discovery of internal/udev/udev.go: the goroutine monitor,   *)
(* which alone writes d.state, the callers of Subscribe and Close, and the *)
(* subscribers, each of which reads a channel of its own (as a Scatter     *)
(* does) and keeps the set of devices it has been told of.                 *)
(*                                                                         *)
(* d.mux is an instance of Mux with an unbuffered input, the monitor as    *)
(* its only submitter and the subscribers' channels as its sinks.  The     *)
(* value of the monitor's n-th call of Submit is the event log[n].         *)
(*                                                                         *)
(* libudev and the kernel are external: devices come and go, and while the *)
(* monitor's socket is open each change is queued on devChan.  Only the    *)
(* actions "add" and "remove" are kept apart ("online" and "offline" are   *)
(* handled with them, any other is ignored).                               *)
(*                                                                         *)
(* State and DeviceById only read d.state and are left out.                *)
(***************************************************************************)
EXTENDS Integers, Sequences, FiniteSets

CONSTANTS
    Monitor,        \* the goroutine monitor
    Subs,           \* the subscribers, each subscribed at most once
    Devices,        \* the devices that may ever be present
    MaxChanges,     \* bound on the changes of the set of present devices
    MaxBreaks       \* bound on the failures of the monitor's socket

ASSUME DiscoveryAssumption == MaxChanges \in Nat /\ MaxBreaks \in Nat

(* make(chan udev.Event, 1) of NewScatter.                                 *)
ChanCap == 1

VARIABLES
    inBufSize, input, outputs, done, runPc, pending, buffered, submitPc, calls,
    subPc, closes, sent, dispatched, base, recv     \* d.mux

VARIABLES
    present,        \* the devices that are there
    devQ,           \* changes queued on the socket and on devChan
    link,           \* the monitor's socket: "closed", "up", or "down" (errChan)
    changes,        \* number of changes so far
    breaks,         \* number of failures of the socket so far
    state,          \* keys of d.state
    monPc,          \* where monitor is
    left,           \* devices the enumeration has still to look at
    found,          \* devices the enumeration has found (devs)
    ddone,          \* TRUE when the channel d.done is closed
    log,            \* the events given to d.mux.Submit
    reqPc,          \* where each caller of Subscribe is
    chan,           \* content of each subscriber's channel
    view,           \* the devices each subscriber has read to be there
    closer,         \* where the caller of Close is
    \* History: what the properties below need to exempt.
    unseen,         \* devices whose last change happened on no socket
    lost,           \* devices whose last event timed out since the snapshot
    settled         \* d.state as of the last Submit to return

M == INSTANCE Mux WITH
         Submitters <- {Monitor},
         Sinks      <- Subs,
         BufSizes   <- {0},
         MaxSubmits <- MaxChanges

muxVars    == <<inBufSize, input, outputs, done, runPc, pending, buffered, submitPc,
                calls, subPc, closes, sent, dispatched, base, recv>>
kernelVars == <<present, devQ, link, changes, breaks, unseen>>
monVars    == <<state, monPc, left, found, ddone, log>>
subVars    == <<reqPc, chan, view, lost, settled>>
vars       == <<muxVars, kernelVars, monVars, subVars, closer>>

LinkStates == {"closed", "up", "down"}
MonPcs     == {"open", "enum", "select", "subscribe", "reopen",
               "closeDone", "closeMux", "exited"}
ReqPcs     == {"idle", "asking", "served", "subscribed", "refused"}
CloserPcs  == {"idle", "asking", "returned"}

(* Added and Removed name one device, Init all those of its snapshot.      *)
Event        == [kind : {"Init", "Added", "Removed"}, devs : SUBSET Devices]
Added(d)     == [kind |-> "Added", devs |-> {d}]
Removed(d)   == [kind |-> "Removed", devs |-> {d}]
Snapshot(ds) == [kind |-> "Init", devs |-> ds]

(* The devices an event says are there, and those it says are gone.        *)
Adds(e) == IF e.kind = "Removed" THEN {} ELSE e.devs
Dels(e) == IF e.kind = "Removed" THEN e.devs ELSE {}

(* The devices somebody believes in who began with ds and read the events  *)
(* q: of each device the last event decides.                               *)
After(ds, q) ==
    {d \in Devices :
        \/ d \in ds /\ \A i \in DOMAIN q : d \notin Dels(q[i])
        \/ \E i \in DOMAIN q : /\ d \in Adds(q[i])
                               /\ \A j \in i + 1 .. Len(q) : d \notin Dels(q[j])}

(* NewDiscovery has started monitor; some devices are there.               *)
Init ==
    /\ M!Init
    /\ present \in SUBSET Devices
    /\ devQ = <<>>
    /\ link = "closed"
    /\ changes = 0
    /\ breaks = 0
    /\ state = {}
    /\ monPc = "open"
    /\ left = {}
    /\ found = {}
    /\ ddone = FALSE
    /\ log = <<>>
    /\ reqPc = [s \in Subs |-> "idle"]
    /\ chan = [s \in Subs |-> <<>>]
    /\ view = [s \in Subs |-> {}]
    /\ closer = "idle"
    /\ unseen = {}
    /\ lost = [s \in Subs |-> {}]
    /\ settled = {}

(* monitor is at its select.                                               *)
Selecting == monPc = "select" /\ submitPc[Monitor] = "idle"

-----------------------------------------------------------------------------
(* Slips: what the code might say instead, one for each property.          *)

(* A subscriber's channel with one place more than it has.                 *)
HasRoomForTwo(s) == Len(chan[s]) <= ChanCap

HasRoom(s) == Len(chan[s]) < ChanCap

(* The socket is opened after the enumeration: what was queued meanwhile   *)
(* would not have been.                                                    *)
ScanDoneThenListen ==
    /\ monPc = "enum"
    /\ left = {}
    /\ state' = found
    /\ settled' = found
    /\ found' = {}
    /\ devQ' = <<>>
    /\ monPc' = "select"
    /\ UNCHANGED <<muxVars, present, link, changes, breaks, unseen,
                   left, ddone, log, reqPc, chan, view, lost, closer>>

(* monitor leaves the subscription to another goroutine.                   *)
ServeUnwaited(s) ==
    /\ Selecting
    /\ reqPc[s] = "asking"
    /\ HasRoom(s)
    /\ chan' = [chan EXCEPT ![s] = Append(@, Snapshot(state))]
    /\ M!SubscribeCall(s)
    /\ reqPc' = [reqPc EXCEPT ![s] = "served"]
    /\ lost' = [lost EXCEPT ![s] = {}]
    /\ UNCHANGED <<kernelVars, monVars, view, settled, closer>>

(* A deferred function is missing.                                         *)
CloseDoneForgotten ==
    /\ monPc = "closeDone"
    /\ monPc' = "closeMux"
    /\ UNCHANGED <<muxVars, kernelVars, state, left, found, ddone, log,
                   subVars, closer>>
CloseMuxForgotten ==
    /\ monPc = "closeMux"
    /\ monPc' = "exited"
    /\ UNCHANGED <<muxVars, kernelVars, state, left, found, ddone, log,
                   subVars, closer>>

-----------------------------------------------------------------------------
(* The kernel and libudev.                                                 *)

(* A change is queued for the monitor if its socket is up.                 *)
Change(d, e) ==
    /\ changes < MaxChanges
    /\ changes' = changes + 1
    /\ devQ' = IF link = "up" THEN Append(devQ, e) ELSE devQ
    /\ unseen' = IF link = "down" THEN unseen \union {d} ELSE unseen \ {d}
    /\ UNCHANGED <<muxVars, link, breaks, monVars, subVars, closer>>

Appear(d) ==
    /\ d \notin present
    /\ present' = present \union {d}
    /\ Change(d, Added(d))

Vanish(d) ==
    /\ d \in present
    /\ present' = present \ {d}
    /\ Change(d, Removed(d))

(* Receiving fails: what was queued is gone, and errChan has an error.     *)
Break ==
    /\ link = "up"
    /\ breaks < MaxBreaks
    /\ breaks' = breaks + 1
    /\ link' = "down"
    /\ devQ' = <<>>
    /\ unseen' = unseen \union
                     {d \in Devices : \E i \in DOMAIN devQ : d \in devQ[i].devs}
    /\ UNCHANGED <<muxVars, present, changes, monVars, subVars, closer>>

-----------------------------------------------------------------------------
(* monitor: the socket first, then the enumeration, then the loop.         *)

OpenSocket ==
    /\ monPc = "open"
    /\ link' = "up"
    /\ left' = Devices
    /\ monPc' = "enum"
    /\ UNCHANGED <<muxVars, present, devQ, changes, breaks, unseen,
                   state, found, ddone, log, subVars, closer>>

(* The enumeration looks at one device after the other, and each is there  *)
(* or not when it is looked at.                                            *)
Scan(d) ==
    /\ monPc = "enum"
    /\ d \in left
    /\ left' = left \ {d}
    /\ found' = IF d \in present THEN found \union {d} ELSE found
    /\ UNCHANGED <<muxVars, kernelVars, state, monPc, ddone, log, subVars, closer>>

ScanDone ==
    /\ monPc = "enum"
    /\ left = {}
    /\ state' = found
    /\ settled' = found
    /\ found' = {}
    /\ monPc' = "select"
    /\ UNCHANGED <<muxVars, kernelVars, left, ddone, log, reqPc, chan, view, lost, closer>>

(* DeviceChan or Devices returns an error: monitor returns.                *)
StartFails ==
    /\ monPc \in {"open", "enum"}
    /\ left' = {}
    /\ found' = {}
    /\ monPc' = "closeDone"
    /\ UNCHANGED <<muxVars, kernelVars, state, ddone, log, subVars, closer>>

(* The devChan case.  d.state is written under d.mu and the event then     *)
(* submitted; nobody but monitor closes d.mux, so the call does begin.     *)
OnAdd(d) ==
    /\ Selecting
    /\ devQ # <<>>
    /\ Head(devQ) = Added(d)
    /\ devQ' = Tail(devQ)
    /\ state' = state \union {d}
    /\ log' = Append(log, Added(d))
    /\ M!SubmitCall(Monitor)
    /\ UNCHANGED <<present, link, changes, breaks, unseen, monPc, left, found, ddone,
                   subVars, closer>>

(* Slip: nobody asks whether the device is in d.state.                     *)
OnRemoveAny(d) ==
    /\ Selecting
    /\ devQ # <<>>
    /\ Head(devQ) = Removed(d)
    /\ devQ' = Tail(devQ)
    /\ state' = state \ {d}
    /\ log' = Append(log, Removed(d))
    /\ M!SubmitCall(Monitor)
    /\ UNCHANGED <<present, link, changes, breaks, unseen, monPc, left, found, ddone,
                   subVars, closer>>

OnRemove(d) ==
    /\ Selecting
    /\ devQ # <<>>
    /\ Head(devQ) = Removed(d)
    /\ d \in state
    /\ devQ' = Tail(devQ)
    /\ state' = state \ {d}
    /\ log' = Append(log, Removed(d))
    /\ M!SubmitCall(Monitor)
    /\ UNCHANGED <<present, link, changes, breaks, unseen, monPc, left, found, ddone,
                   subVars, closer>>

(* A removal of a device that is not in d.state is ignored.                *)
OnRemoveUnknown(d) ==
    /\ Selecting
    /\ devQ # <<>>
    /\ Head(devQ) = Removed(d)
    /\ d \notin state
    /\ devQ' = Tail(devQ)
    /\ UNCHANGED <<muxVars, present, link, changes, breaks, unseen, monVars,
                   subVars, closer>>

(* The devices of the event monitor is submitting.                         *)
Submitted == log[Len(log)].devs

SubmitStep ==
    /\ \/ M!SubmitProceed(Monitor) /\ UNCHANGED <<lost, settled>>
       \/ /\ M!SubmitHandoff(Monitor)
          /\ settled' = state
          /\ lost' = [s \in Subs |-> lost[s] \ Submitted]
       \/ /\ M!SubmitTimeout(Monitor)
          /\ settled' = state
          /\ lost' = [s \in Subs |-> IF reqPc[s] = "subscribed"
                                     THEN lost[s] \union Submitted ELSE lost[s]]
    /\ UNCHANGED <<kernelVars, monVars, reqPc, chan, view, closer>>

(* The newSub request: the snapshot of d.state goes to the sink, a channel *)
(* nothing has been put into, and monitor waits in d.mux.Subscribe.        *)
Serve(s) ==
    /\ Selecting
    /\ reqPc[s] = "asking"
    /\ HasRoom(s)
    /\ chan' = [chan EXCEPT ![s] = Append(@, Snapshot(state))]
    /\ M!SubscribeCall(s)
    /\ reqPc' = [reqPc EXCEPT ![s] = "served"]
    /\ lost' = [lost EXCEPT ![s] = {}]
    /\ monPc' = "subscribe"
    /\ UNCHANGED <<kernelVars, state, left, found, ddone, log, view, settled, closer>>

(* d.mux.Subscribe has returned, and the CancelFunc is the reply.          *)
Served(s) ==
    /\ monPc = "subscribe"
    /\ reqPc[s] = "served"
    /\ subPc[s] = "subscribed"
    /\ reqPc' = [reqPc EXCEPT ![s] = "subscribed"]
    /\ monPc' = "select"
    /\ UNCHANGED <<muxVars, kernelVars, state, left, found, ddone, log,
                   chan, view, lost, settled, closer>>

(* The stopRequest is answered, and monitor returns.                       *)
Stop ==
    /\ Selecting
    /\ closer = "asking"
    /\ closer' = "returned"
    /\ monPc' = "closeDone"
    /\ UNCHANGED <<muxVars, kernelVars, state, left, found, ddone, log, subVars>>

(* The errChan case, and the loop of retries at its end: only a retry that *)
(* succeeds changes anything.  The devices are not enumerated again.       *)
OnError ==
    /\ Selecting
    /\ link = "down"
    /\ monPc' = "reopen"
    /\ UNCHANGED <<muxVars, kernelVars, state, left, found, ddone, log, subVars, closer>>

Reopen ==
    /\ monPc = "reopen"
    /\ link' = "up"
    /\ monPc' = "select"
    /\ UNCHANGED <<muxVars, present, devQ, changes, breaks, unseen,
                   state, left, found, ddone, log, subVars, closer>>

(* The deferred functions, the last one first.                             *)
CloseDone ==
    /\ monPc = "closeDone"
    /\ ddone' = TRUE
    /\ monPc' = "closeMux"
    /\ UNCHANGED <<muxVars, kernelVars, state, left, found, log, subVars, closer>>

CloseMux ==
    /\ monPc = "closeMux"
    /\ M!Close
    /\ monPc' = "exited"
    /\ UNCHANGED <<kernelVars, state, left, found, ddone, log, subVars, closer>>

-----------------------------------------------------------------------------
(* The callers.                                                            *)

Subscribe(s) ==
    /\ reqPc[s] = "idle"
    /\ reqPc' = [reqPc EXCEPT ![s] = "asking"]
    /\ UNCHANGED <<muxVars, kernelVars, monVars, chan, view, lost, settled, closer>>

(* The done case: a CancelFunc of no effect, and the sink is left open.    *)
SubscribeRefused(s) ==
    /\ reqPc[s] = "asking"
    /\ ddone
    /\ reqPc' = [reqPc EXCEPT ![s] = "refused"]
    /\ UNCHANGED <<muxVars, kernelVars, monVars, chan, view, lost, settled, closer>>

(* The CancelFunc of d.mux, which Subscribe handed on.                     *)
Cancel(s) ==
    /\ reqPc[s] = "subscribed"
    /\ M!CancelCall(s)
    /\ UNCHANGED <<kernelVars, monVars, subVars, closer>>

CancelReturns(s) ==
    /\ M!CancelClosed(s)
    /\ UNCHANGED <<kernelVars, monVars, subVars, closer>>

Close ==
    /\ closer = "idle"
    /\ closer' = "asking"
    /\ UNCHANGED <<muxVars, kernelVars, monVars, subVars>>

CloseReturns ==
    /\ closer = "asking"
    /\ ddone
    /\ closer' = "returned"
    /\ UNCHANGED <<muxVars, kernelVars, monVars, subVars>>

-----------------------------------------------------------------------------
(* The goroutine of d.mux, and the subscribers that read.                  *)

(* chanSink.Submit: run waits for room in the channel.                     *)
Deliver(s) ==
    /\ HasRoom(s)
    /\ M!Deliver(s)
    /\ chan' = [chan EXCEPT ![s] = Append(@, log[M!Current[2]])]
    /\ UNCHANGED <<kernelVars, monVars, reqPc, view, lost, settled, closer>>

RunStep ==
    /\ M!Run
    /\ UNCHANGED <<kernelVars, monVars, subVars, closer>>

Read(s) ==
    /\ chan[s] # <<>>
    /\ view' = [view EXCEPT ![s] = After(@, <<Head(chan[s])>>)]
    /\ chan' = [chan EXCEPT ![s] = Tail(@)]
    /\ UNCHANGED <<muxVars, kernelVars, monVars, reqPc, lost, settled, closer>>

-----------------------------------------------------------------------------
Kernel == Break \/ \E d \in Devices : Appear(d) \/ Vanish(d)

(* What monitor does when it can.                                          *)
MonitorRuns ==
    \/ OpenSocket \/ ScanDone \/ StartFails
    \/ SubmitStep
    \/ OnError \/ Stop \/ CloseDone \/ CloseMux
    \/ \E d \in Devices : Scan(d) \/ OnAdd(d) \/ OnRemove(d) \/ OnRemoveUnknown(d)
    \/ \E s \in Subs : Serve(s) \/ Served(s)

Next ==
    \/ Kernel
    \/ MonitorRuns
    \/ Reopen
    \/ RunStep
    \/ Close \/ CloseReturns
    \/ \E s \in Subs : \/ Subscribe(s) \/ SubscribeRefused(s)
                       \/ Cancel(s) \/ CancelReturns(s)
                       \/ Deliver(s) \/ Read(s)

Spec == Init /\ [][Next]_vars

(* A goroutine that can run does, and a subscriber reads: the handlers of  *)
(* a Scatter all come to an end.  No device must change and nobody must    *)
(* subscribe, cancel or close.                                             *)
Fairness ==
    /\ WF_vars(MonitorRuns)
    /\ WF_vars(RunStep)
    /\ WF_vars(CloseReturns)
    /\ \A s \in Subs : /\ WF_vars(SubscribeRefused(s))
                       /\ WF_vars(CancelReturns(s))
                       /\ WF_vars(Deliver(s))
                       /\ WF_vars(Read(s))

FairSpec == Spec /\ Fairness

(* A retry succeeds in the end.                                            *)
SocketReopens == WF_vars(Reopen)

-----------------------------------------------------------------------------
(* Properties.                                                             *)

(* Type correctness of the discovery's, the kernel's and the callers'      *)
(* state.                                                                  *)
TypeOK ==
    /\ present \subseteq Devices
    /\ devQ \in Seq(Event)
    /\ link \in LinkStates
    /\ changes \in 0 .. MaxChanges
    /\ breaks \in 0 .. MaxBreaks
    /\ state \subseteq Devices
    /\ monPc \in MonPcs
    /\ left \subseteq Devices
    /\ found \subseteq Devices
    /\ ddone \in BOOLEAN
    /\ log \in Seq(Event)
    /\ reqPc \in [Subs -> ReqPcs]
    /\ chan \in [Subs -> Seq(Event)]
    /\ \A s \in Subs : Len(chan[s]) <= ChanCap
    /\ view \in [Subs -> SUBSET Devices]
    /\ closer \in CloserPcs
    /\ unseen \subseteq Devices
    /\ lost \in [Subs -> SUBSET Devices]
    /\ settled \subseteq Devices

(* "The socket is opened before enumeration so the kernel buffers events   *)
(* during the scan, eliminating the TOCTOU window": d.state and the events *)
(* still queued tell of each device whether it is there, however changes   *)
(* and scan interleave, but for a device that changed while the socket was *)
(* down and has not changed since.                                         *)
StateTracksDevices ==
    monPc \in {"select", "subscribe", "reopen"} =>
        After(state, devQ) \ unseen = present \ unseen

(* What a subscriber is still to read of what was handed to d.mux: its     *)
(* channel, and the value run is handing round.                            *)
Unread(s) == chan[s] \o (IF s \in pending THEN <<log[M!Current[2]]>> ELSE <<>>)

(* And with it the event monitor is submitting.                            *)
InFlight(s) ==
    Unread(s) \o (IF submitPc[Monitor] # "idle" THEN <<log[Len(log)]>> ELSE <<>>)

(* Those whose subscription monitor has begun to serve, until it ends.     *)
Joined == {s \in Subs : reqPc[s] \in {"served", "subscribed"} /\ closes[s] = 0}

(* The Init event is "consistent": it and the events that follow it amount *)
(* to d.state, with no event missed or read twice between snapshot and     *)
(* subscription, but for a device whose last event timed out in Submit.    *)
ViewTracksState ==
    \A s \in Joined : After(view[s], InFlight(s)) \ lost[s] = state \ lost[s]

(* Nobody waits for ever on the monitor or on d.mux: Subscribe, the        *)
(* CancelFunc and Close return, if a broken socket can be opened again.    *)
RequestsReturn ==
    SocketReopens =>
        /\ closer = "asking" ~> closer = "returned"
        /\ \A s \in Subs :
               /\ reqPc[s] = "asking" ~> reqPc[s] \in {"subscribed", "refused"}
               /\ subPc[s] = "cancelling" ~> subPc[s] \in M!Returned

(* However monitor ends, every subscriber it accepted is told: its channel *)
(* is closed once, and read to the end.                                    *)
EndReachesSubscribers ==
    monPc = "exited" ~>
        \A s \in Subs : reqPc[s] = "subscribed" => closes[s] = 1 /\ chan[s] = <<>>

-----------------------------------------------------------------------------
(* A change is taken to happen when the Submit of its event returns: not   *)
(* before, since it is told to nobody yet, and nobody joins in between.    *)
F == INSTANCE Feed WITH
         Readers <- Subs,
         Ahead   <- ChanCap + 1,
         devs    <- settled,
         joined  <- Joined,
         queue   <- [s \in Subs |-> Unread(s)]

(* Behind monitor, its socket, its enumeration and d.mux the discovery is  *)
(* a Feed: whatever times out, breaks or ends, a subscriber begins with    *)
(* the devices that are there, an event is for all subscribers or for      *)
(* none, and nobody is told of a removal of what was not there.            *)
ImplementsFeed == F!Spec
=============================================================================
