------------------------------- MODULE Slice -------------------------------
(***************************************************************************)
(* A slice of internal/udev/udev.go: a filtered view of the device set,    *)
(* kept by a goroutine that reads the events of a source (the discovery)   *)
(* and publishes the matching set to subscribers of its own.               *)
(*                                                                         *)
(* slice.mux is an instance of Mux with an unbuffered input, the slice's   *)
(* goroutine as its only submitter and the subscribers' channels, also     *)
(* unbuffered, as its sinks.  The snapshot the goroutine submits in its    *)
(* n-th call is log[n].  To a newcomer it has a goroutine of the moment    *)
(* replay the present snapshot, past the mux, and waits for that.          *)
(*                                                                         *)
(* The source is external: what it has given to its mux is at most one     *)
(* event in the hands of the mux's run, which blocks on evCh; an event     *)
(* that finds run busy for a second is dropped (Discovery).  A device may  *)
(* be added again while it is there ("add" or "online" once more), and     *)
(* then match the filter or not.                                           *)
(***************************************************************************)
EXTENDS Integers, Sequences, FiniteSets

CONSTANTS
    Slicer,         \* the goroutine of the slice
    Subs,           \* the subscribers, each subscribed at most once
    Devices,        \* the devices of the source
    None,           \* no subscriber
    MaxChanges      \* bound on the changes of the devices

ASSUME SliceAssumption == MaxChanges \in Nat /\ None \notin Subs

VARIABLES
    inBufSize, input, outputs, done, runPc, pending, buffered, submitPc, calls,
    subPc, closes, sent, dispatched, base, recv     \* slice.mux

VARIABLES
    present,        \* the devices the source holds
    changes,        \* number of changes so far
    evCh,           \* the event the source's mux is sending to evCh, if any
    open,           \* TRUE until the source's mux closes evCh
    state,          \* keys of slice.state
    slicePc,        \* where the slice's goroutine is
    newcomer,       \* the subscriber it is serving
    sdone,          \* TRUE when the channel slice.done is closed
    log,            \* the snapshots given to slice.mux.Submit
    reqPc,          \* where each caller of Subscribe is
    crashed,        \* TRUE when a send on a closed channel has panicked
    \* History: what the properties below compare.
    got,            \* the snapshots each subscriber was sent, by number
    dropped,        \* the snapshots whose Submit timed out, by number
    lost,           \* devices whose last event the source dropped
    fits,           \* devices that matched when they were last added
    once            \* devices that matched then or at an addition before

M == INSTANCE Mux WITH
         Submitters <- {Slicer},
         Sinks      <- Subs,
         BufSizes   <- {0},
         MaxSubmits <- MaxChanges + 1

muxVars    == <<inBufSize, input, outputs, done, runPc, pending, buffered, submitPc,
                calls, subPc, closes, sent, dispatched, base, recv>>
sourceVars == <<present, changes, evCh, open, lost, fits, once>>
sliceVars  == <<state, slicePc, newcomer, sdone, log, crashed, dropped>>
subVars    == <<reqPc, got>>
vars       == <<muxVars, sourceVars, sliceVars, subVars>>

SlicePcs  == {"select", "subscribe", "replay", "closeMux", "closeDone", "exited"}
ReqPcs    == {"idle", "asking", "served", "subscribed", "refused"}

(* An event; fit says of an added device that it passes the filter.  Init  *)
(* comes first and is made of the devices that do.                         *)
Event == [kind : {"Init", "Added", "Removed"}, devs : SUBSET Devices, fit : BOOLEAN]

(* makeSlice has subscribed to the source, which is sending Init.          *)
Init ==
    /\ M!Init
    /\ present \in SUBSET Devices
    /\ once \in SUBSET present
    /\ fits = once
    /\ changes = 0
    /\ evCh = <<[kind |-> "Init", devs |-> once, fit |-> TRUE]>>
    /\ open = TRUE
    /\ state = {}
    /\ slicePc = "select"
    /\ newcomer = None
    /\ sdone = FALSE
    /\ log = <<>>
    /\ reqPc = [s \in Subs |-> "idle"]
    /\ crashed = FALSE
    /\ got = [s \in Subs |-> <<>>]
    /\ dropped = {}
    /\ lost = {}

(* A panic ends the program: no goroutine takes a step after it.           *)
Running == ~crashed

(* makeSlice has returned: the goroutine has received Init.                *)
Made == log # <<>>

(* The goroutine is at its select.                                         *)
Selecting == slicePc = "select" /\ submitPc[Slicer] = "idle"

-----------------------------------------------------------------------------
(* Slips: what the code might say instead, one for each property.          *)

(* evCh has a place: the source's mux goes on to the next event.           *)
EmitAhead(d, e) ==
    /\ Running /\ Made
    /\ changes < MaxChanges
    /\ changes' = changes + 1
    /\ open
    /\ evCh' = Append(evCh, e)
    /\ UNCHANGED <<lost, muxVars, open, sliceVars, subVars>>

(* A removed device stays in the map.                                      *)
OnRemovedUndeleted(e) ==
    /\ e.kind = "Removed"
    /\ IF e.devs \subseteq state
       THEN state' = state /\ log' = Append(log, state) /\ M!SubmitCall(Slicer)
       ELSE UNCHANGED <<state, log, muxVars>>

(* The goroutine does not wait for replayDone.                             *)
ReplyUnwaited ==
    /\ Running
    /\ slicePc = "subscribe"
    /\ subPc[newcomer] = "subscribed"
    /\ reqPc' = [reqPc EXCEPT ![newcomer] = "subscribed"]
    /\ slicePc' = "select"
    /\ UNCHANGED <<muxVars, sourceVars, state, newcomer, sdone, log, crashed, dropped, got>>

(* replayDone is not closed.                                               *)
ReplayUndone ==
    /\ Running
    /\ slicePc = "replay"
    /\ newcomer # None
    /\ closes[newcomer] = 0
    /\ got' = [got EXCEPT ![newcomer] = Append(@, Len(log))]
    /\ newcomer' = None
    /\ UNCHANGED <<muxVars, sourceVars, state, slicePc, sdone, log, crashed, dropped, reqPc>>

(* The deferred slice.mux.Close() is missing.                              *)
CloseMuxForgotten ==
    /\ Running
    /\ slicePc = "closeMux"
    /\ slicePc' = "closeDone"
    /\ UNCHANGED <<muxVars, sourceVars, state, newcomer, sdone, log, crashed, dropped, subVars>>

-----------------------------------------------------------------------------
(* The source.                                                             *)

(* The event reaches the slice unless the source's mux is busy with the    *)
(* one before.  An addition the slice will ignore makes up for nothing     *)
(* that was dropped.                                                       *)
Emit(d, e) ==
    /\ Running /\ Made
    /\ changes < MaxChanges
    /\ changes' = changes + 1
    /\ IF open /\ evCh = <<>>
       THEN /\ evCh' = <<e>>
            /\ lost' = IF e.kind = "Added" /\ ~e.fit THEN lost ELSE lost \ {d}
       ELSE /\ evCh' = evCh
            /\ lost' = lost \union {d}
    /\ UNCHANGED <<muxVars, open, sliceVars, subVars>>

(* A device comes, or is added once more.                                  *)
Appear(d, fit) ==
    /\ present' = present \union {d}
    /\ fits' = IF fit THEN fits \union {d} ELSE fits \ {d}
    /\ once' = IF fit THEN once \union {d} ELSE once
    /\ Emit(d, [kind |-> "Added", devs |-> {d}, fit |-> fit])

Vanish(d) ==
    /\ d \in present
    /\ present' = present \ {d}
    /\ fits' = fits \ {d}
    /\ once' = once \ {d}
    /\ Emit(d, [kind |-> "Removed", devs |-> {d}, fit |-> FALSE])

(* The source's mux closes evCh, for its own end or for the CancelFunc     *)
(* slice.stop, which the slice's Close calls and which waits until run is  *)
(* not sending.                                                            *)
SourceCloses ==
    /\ Running
    /\ open
    /\ evCh = <<>>
    /\ open' = FALSE
    /\ UNCHANGED <<muxVars, present, changes, evCh, lost, fits, once, sliceVars, subVars>>

-----------------------------------------------------------------------------
(* The goroutine of the slice: the case of evCh.                           *)

(* The set is changed and a snapshot of it submitted; nobody else closes   *)
(* slice.mux, so the call does begin.                                      *)
Publish(ds) ==
    /\ state' = ds
    /\ log' = Append(log, ds)
    /\ M!SubmitCall(Slicer)

Ignore == UNCHANGED <<state, log, muxVars>>

(* Init: the devices that match are added to the set, which is published   *)
(* even when there are none.                                               *)
OnInit(e) == e.kind = "Init" /\ Publish(state \union e.devs)

(* Added: a device that does not match is ignored, in the set or not.      *)
OnAdded(e) ==
    /\ e.kind = "Added"
    /\ IF e.fit THEN Publish(state \union e.devs) ELSE Ignore

(* Removed: a device counts if it is in the set; the filter is not asked.  *)
OnRemoved(e) ==
    /\ e.kind = "Removed"
    /\ IF e.devs \subseteq state THEN Publish(state \ e.devs) ELSE Ignore

OnEvent ==
    /\ Running
    /\ Selecting
    /\ evCh # <<>>
    /\ evCh' = <<>>
    /\ \E e \in {Head(evCh)} : OnInit(e) \/ OnAdded(e) \/ OnRemoved(e)
    /\ UNCHANGED <<present, changes, open, lost, fits, once,
                   slicePc, newcomer, sdone, crashed, dropped, subVars>>

(* The goroutine in slice.mux.Submit.                                      *)
SubmitStep ==
    /\ Running
    /\ \/ /\ M!SubmitProceed(Slicer) \/ M!SubmitHandoff(Slicer)
          /\ UNCHANGED dropped
       \/ /\ M!SubmitTimeout(Slicer)
          /\ dropped' = dropped \union {Len(log)}
    /\ UNCHANGED <<sourceVars, state, slicePc, newcomer, sdone, log, crashed, subVars>>

-----------------------------------------------------------------------------
(* The goroutine of the slice: the case of subscribeC.                     *)

(* The request is taken, and slice.mux.Subscribe called.                   *)
Serve(s) ==
    /\ Running
    /\ Selecting
    /\ reqPc[s] = "asking"
    /\ reqPc' = [reqPc EXCEPT ![s] = "served"]
    /\ newcomer' = s
    /\ slicePc' = "subscribe"
    /\ M!SubscribeCall(s)
    /\ UNCHANGED <<sourceVars, state, sdone, log, crashed, dropped, got>>

(* The goroutine that replays is started, and the CancelFunc is the reply. *)
Reply ==
    /\ Running
    /\ slicePc = "subscribe"
    /\ subPc[newcomer] = "subscribed"
    /\ reqPc' = [reqPc EXCEPT ![newcomer] = "subscribed"]
    /\ slicePc' = "replay"
    /\ UNCHANGED <<muxVars, sourceVars, state, newcomer, sdone, log, crashed, dropped, got>>

(* The goroutine that replays is at its send.                              *)
Replaying == Running /\ newcomer # None /\ reqPc[newcomer] = "subscribed"

(* The newcomer receives the snapshot; replayDone is closed, for which the *)
(* slice's goroutine has waited.                                           *)
Replay ==
    /\ Replaying
    /\ closes[newcomer] = 0
    /\ got' = [got EXCEPT ![newcomer] = Append(@, Len(log))]
    /\ newcomer' = None
    /\ slicePc' = IF slicePc = "replay" THEN "select" ELSE slicePc
    /\ UNCHANGED <<muxVars, sourceVars, state, sdone, log, crashed, dropped, reqPc>>

(* Its channel has been closed before it received: the send panics.        *)
ReplayPanics ==
    /\ Replaying
    /\ closes[newcomer] > 0
    /\ crashed' = TRUE
    /\ UNCHANGED <<muxVars, sourceVars, state, slicePc, newcomer, sdone, log, dropped,
                   subVars>>

-----------------------------------------------------------------------------
(* The goroutine of the slice: evCh is closed, and the deferred functions. *)

EndOfEvents ==
    /\ Running
    /\ Selecting
    /\ evCh = <<>>
    /\ ~open
    /\ slicePc' = "closeMux"
    /\ UNCHANGED <<muxVars, sourceVars, state, newcomer, sdone, log, crashed, dropped, subVars>>

CloseMux ==
    /\ Running
    /\ slicePc = "closeMux"
    /\ M!Close
    /\ slicePc' = "closeDone"
    /\ UNCHANGED <<sourceVars, state, newcomer, sdone, log, crashed, dropped, subVars>>

CloseDone ==
    /\ Running
    /\ slicePc = "closeDone"
    /\ sdone' = TRUE
    /\ slicePc' = "exited"
    /\ UNCHANGED <<muxVars, sourceVars, state, newcomer, log, crashed, dropped, subVars>>

-----------------------------------------------------------------------------
(* The subscribers, and the goroutine of slice.mux.                        *)

Subscribe(s) ==
    /\ Running /\ Made
    /\ reqPc[s] = "idle"
    /\ reqPc' = [reqPc EXCEPT ![s] = "asking"]
    /\ UNCHANGED <<muxVars, sourceVars, sliceVars, got>>

(* The done case: Subscribe itself closes the sink.                        *)
SubscribeRefused(s) ==
    /\ Running
    /\ reqPc[s] = "asking"
    /\ sdone
    /\ reqPc' = [reqPc EXCEPT ![s] = "refused"]
    /\ closes' = [closes EXCEPT ![s] = @ + 1]
    /\ UNCHANGED <<inBufSize, input, outputs, done, runPc, pending, buffered, submitPc,
                   calls, subPc, sent, dispatched, base, recv,
                   sourceVars, sliceVars, got>>

Cancel(s) ==
    /\ Running
    /\ reqPc[s] = "subscribed"
    /\ M!CancelCall(s)
    /\ UNCHANGED <<sourceVars, sliceVars, subVars>>

CancelReturns(s) ==
    /\ Running
    /\ M!CancelClosed(s)
    /\ UNCHANGED <<sourceVars, sliceVars, subVars>>

(* run sends a snapshot to a subscriber, which receives it.                *)
Deliver(s) ==
    /\ Running
    /\ M!Deliver(s)
    /\ got' = [got EXCEPT ![s] = Append(@, M!Current[2])]
    /\ UNCHANGED <<sourceVars, sliceVars, reqPc>>

RunStep ==
    /\ Running
    /\ M!Run
    /\ UNCHANGED <<sourceVars, sliceVars, subVars>>

-----------------------------------------------------------------------------
Source ==
    \/ \E d \in Devices : Vanish(d) \/ \E fit \in BOOLEAN : Appear(d, fit)
    \/ SourceCloses

(* What the slice's goroutine does without a subscriber's help.            *)
Slicing ==
    \/ OnEvent \/ SubmitStep
    \/ Reply \/ ReplayPanics
    \/ EndOfEvents \/ CloseMux \/ CloseDone
    \/ \E s \in Subs : Serve(s)

Next ==
    \/ Source
    \/ Slicing \/ Replay
    \/ RunStep
    \/ \E s \in Subs : \/ Subscribe(s) \/ SubscribeRefused(s)
                       \/ Cancel(s) \/ CancelReturns(s)
                       \/ Deliver(s)

Spec == Init /\ [][Next]_vars

(* A goroutine that can run does.  The source need not change or end,      *)
(* nobody need subscribe or cancel, and no subscriber need receive.        *)
Fairness ==
    /\ WF_vars(Slicing)
    /\ WF_vars(RunStep)
    /\ \A s \in Subs : WF_vars(SubscribeRefused(s) \/ CancelReturns(s))

FairSpec == Spec /\ Fairness

(* Every subscriber receives until its channel is closed.                  *)
SubscribersReceive == WF_vars(Replay) /\ \A s \in Subs : WF_vars(Deliver(s))

-----------------------------------------------------------------------------
(* Properties.                                                             *)

(* Type correctness of the slice's, the source's and the callers' state.   *)
TypeOK ==
    /\ present \subseteq Devices /\ fits \subseteq once /\ once \subseteq present
    /\ lost \subseteq Devices
    /\ changes \in 0 .. MaxChanges
    /\ evCh \in Seq(Event) /\ Len(evCh) <= 1
    /\ open \in BOOLEAN /\ sdone \in BOOLEAN /\ crashed \in BOOLEAN
    /\ state \subseteq Devices
    /\ slicePc \in SlicePcs
    /\ newcomer \in Subs \union {None}
    /\ log \in Seq(SUBSET Devices) /\ Len(log) <= MaxChanges + 1
    /\ dropped \subseteq 1 .. MaxChanges + 1
    /\ reqPc \in [Subs -> ReqPcs]
    /\ got \in [Subs -> Seq(1 .. MaxChanges + 1)]

(* The set once the event on its way has been handled.                     *)
Upcoming ==
    IF evCh = <<>> THEN state
    ELSE LET e == Head(evCh) IN
         IF e.kind = "Removed" THEN state \ e.devs
         ELSE IF e.fit THEN state \union e.devs ELSE state

(* The slice's set follows the source's, but for devices whose event was   *)
(* dropped: a device that matches is in it, and one that is gone, or has   *)
(* never matched since it came, is not.  The two bounds part on a device   *)
(* that is added again and matches no more.  The documents want it out     *)
(* ("current matching device set", udev.go:287-290; "filtered, live view", *)
(* discovery.go:59-60); the code, which only ignores such an addition      *)
(* (udev.go:324-330), keeps it.  Both are within the bounds.               *)
SliceTracksSource == fits \ lost \subseteq Upcoming /\ Upcoming \ lost \subseteq once

(* The snapshots that are on their way to a subscriber.                    *)
InFlight(s) ==
    (IF s \in pending THEN {M!Current[2]} ELSE {})
        \union (IF submitPc[Slicer] # "idle" THEN {Len(log)} ELSE {})

Ascending(q) == \A i, j \in DOMAIN q : i < j => q[i] < q[j]

(* "There is no window where an update could be missed or delivered twice":*)
(* a subscriber receives the snapshot of its subscription first and then,  *)
(* in order and once each, all later ones but those whose Submit timed out *)
(* (udev.go:210-216 and 340-360).                                          *)
ReplayThenUpdates ==
    \A s \in Subs :
        /\ Ascending(got[s])
        /\ reqPc[s] = "subscribed" /\ s # newcomer /\ closes[s] = 0 =>
               LET n == got[s][1] IN
               got[s] # <<>> /\ {got[s][i] : i \in DOMAIN got[s]} =
                   {n} \union ((n + 1 .. Len(log)) \ (dropped \union InFlight(s)))

(* The send of the replay meets a closed channel only if the subscriber    *)
(* cancels before it has received it; that the slice ends never causes it  *)
(* ("After Close, Submit must not be called again", mux.go:104).           *)
PanicNeedsCancel == crashed => subPc[newcomer] \in {"unregWait", "cancelled"}

Asking == {s \in Subs : reqPc[s] = "asking"}

(* If subscribers receive what they are sent, nobody waits for ever: the   *)
(* callers of Subscribe return, and the source's mux, which serves others  *)
(* besides, is rid of each event (udev.go:340-360).                        *)
NobodyStuck ==
    SubscribersReceive =>
        /\ evCh # <<>> ~> evCh = <<>> \/ crashed
        /\ Asking # {} ~> Asking = {} \/ crashed

(* When evCh is closed the slice ends, and every channel it was given is   *)
(* closed once: by slice.mux, or by Subscribe (udev.go:217-226, 305-313).  *)
EndClosesSinks ==
    SubscribersReceive =>
        (~open ~> \/ crashed
                  \/ /\ slicePc = "exited"
                     /\ \A s \in Subs : reqPc[s] \in {"subscribed", "refused"} => closes[s] = 1)
=============================================================================
