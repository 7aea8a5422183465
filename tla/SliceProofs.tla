----------------------------- MODULE SliceProofs -----------------------------
(***************************************************************************)
(* Proofs about Slice, for any devices, subscribers and number of changes. *)
(***************************************************************************)
EXTENDS Slice, TLAPS

(* At most one event is on its way: Init, whose devices all match, or one  *)
(* about one device.                                                       *)
EventShape(e) ==
    /\ e.kind \in {"Init", "Added", "Removed"}
    /\ e.fit \in BOOLEAN
    /\ e.kind = "Init" => e.fit
    /\ e.kind = "Removed" => \E d : e.devs = {d}

EvShape == evCh = <<>> \/ \E e : evCh = <<e>> /\ EventShape(e)

(* What the code makes of it exactly: the slice keeps what it has once     *)
(* taken for a match until it is removed.  That is the upper of the two    *)
(* bounds of SliceTracksSource, and the lower is below it.                 *)
TracksOnce == fits \subseteq once /\ Upcoming \ lost = once \ lost

SInv == EvShape /\ TracksOnce

LEMMA Initially == Init => SInv
<1> SUFFICES ASSUME Init PROVE SInv
  OBVIOUS
<1> DEFINE e == [kind |-> "Init", devs |-> once, fit |-> TRUE]
<1>1. evCh = <<e>> /\ state = {} /\ lost = {} /\ fits = once
  BY DEF Init
<1>2. EventShape(e)
  BY DEF EventShape
<1>3. evCh # <<>> /\ Head(evCh) = e
  BY <1>1
<1>4. Upcoming = once
  BY <1>1, <1>3 DEF Upcoming
<1> QED
  BY <1>1, <1>2, <1>4 DEF SInv, EvShape, TracksOnce

(* A change of a device: what the slice will hold and what it should hold  *)
(* change alike, or the device is counted as lost.                         *)
LEMMA Changing ==
    ASSUME SInv, NEW d, NEW e, EventShape(e), e.devs = {d}, e.kind # "Init", Emit(d, e),
           once' = IF e.kind = "Removed" THEN once \ {d} ELSE IF e.fit THEN once \union {d} ELSE once,
           fits' = IF e.kind # "Removed" /\ e.fit THEN fits \union {d} ELSE fits \ {d}
    PROVE  SInv'
<1>1. state' = state
  BY DEF Emit, sliceVars
<1>2. Upcoming \ lost = once \ lost /\ fits \subseteq once
  BY DEF SInv, TracksOnce
<1>3. fits' \subseteq once'
  BY <1>2
<1>4. CASE open /\ evCh = <<>>
  <2>1. evCh' = <<e>> /\ lost' = IF e.kind = "Added" /\ ~e.fit THEN lost ELSE lost \ {d}
    BY <1>4 DEF Emit
  <2>2. Upcoming = state
    BY <1>4 DEF Upcoming
  <2>3. evCh' # <<>> /\ Head(evCh') = e
    BY <2>1
  <2>4. Upcoming' = IF e.kind = "Removed" THEN state \ {d}
                    ELSE IF e.fit THEN state \union {d} ELSE state
    BY <1>1, <2>3 DEF Upcoming
  <2>5. Upcoming' \ lost' = once' \ lost'
    BY <1>2, <2>1, <2>2, <2>4 DEF EventShape
  <2> QED
    BY <1>3, <2>1, <2>5 DEF SInv, EvShape, TracksOnce
<1>5. CASE ~(open /\ evCh = <<>>)
  <2>1. evCh' = evCh /\ lost' = lost \union {d}
    BY <1>5 DEF Emit
  <2>2. Upcoming' = Upcoming
    BY <1>1, <2>1 DEF Upcoming
  <2>3. Upcoming' \ lost' = once' \ lost'
    BY <1>2, <2>1, <2>2
  <2> QED
    BY <1>3, <2>1, <2>3 DEF SInv, EvShape, TracksOnce
<1> QED
  BY <1>4, <1>5

(* The goroutine does with the event what Upcoming says.                   *)
LEMMA Handling == SInv /\ OnEvent => SInv'
<1> SUFFICES ASSUME SInv, OnEvent PROVE SInv'
  OBVIOUS
<1>1. /\ evCh # <<>> /\ evCh' = <<>> /\ lost' = lost /\ once' = once /\ fits' = fits
  BY DEF OnEvent
<1>2. PICK e : evCh = <<e>> /\ EventShape(e)
  BY <1>1 DEF SInv, EvShape
<1>3. Head(evCh) = e
  BY <1>2
<1>4. OnInit(e) \/ OnAdded(e) \/ OnRemoved(e)
  BY <1>3 DEF OnEvent
<1>5. state' = Upcoming
  <2>1. CASE OnInit(e)
    BY <1>1, <1>2, <1>3, <2>1 DEF OnInit, Publish, Upcoming, EventShape
  <2>2. CASE OnAdded(e)
    BY <1>1, <1>3, <2>2 DEF OnAdded, Publish, Ignore, Upcoming
  <2>3. CASE OnRemoved(e)
    <3>1. Upcoming = state \ e.devs
      BY <1>1, <1>3, <2>3 DEF OnRemoved, Upcoming
    <3>2. CASE e.devs \subseteq state
      BY <2>3, <3>1, <3>2 DEF OnRemoved, Publish
    <3>3. CASE ~(e.devs \subseteq state)
      <4>1. state' = state
        BY <2>3, <3>3 DEF OnRemoved, Ignore
      <4>2. PICK d : e.devs = {d}
        BY <1>2, <2>3 DEF OnRemoved, EventShape
      <4> QED
        BY <3>1, <3>3, <4>1, <4>2
    <3> QED
      BY <3>2, <3>3
  <2> QED
    BY <1>4, <2>1, <2>2, <2>3
<1>6. Upcoming' = state'
  BY <1>1 DEF Upcoming
<1> QED
  BY <1>1, <1>5, <1>6 DEF SInv, EvShape, TracksOnce

(* No other step touches the set or the source's view of it.               *)
LEMMA Unmoved ==
    ASSUME SInv, UNCHANGED <<evCh, state, lost, fits, once>>
    PROVE  SInv'
BY DEF SInv, EvShape, TracksOnce, Upcoming

LEMMA Stepwise == SInv /\ [Next]_vars => SInv'
<1> SUFFICES ASSUME SInv, [Next]_vars PROVE SInv'
  OBVIOUS
<1> USE DEF sourceVars, sliceVars
<1>1. ASSUME NEW d \in Devices, Vanish(d)
      PROVE  SInv'
  <2> DEFINE e == [kind |-> "Removed", devs |-> {d}, fit |-> FALSE]
  <2>1. EventShape(e) /\ e.devs = {d} /\ e.kind = "Removed"
    BY DEF EventShape
  <2>2. Emit(d, e) /\ once' = once \ {d} /\ fits' = fits \ {d}
    BY <1>1 DEF Vanish
  <2> HIDE DEF e
  <2> QED
    BY <2>1, <2>2, Changing
<1>2. ASSUME NEW d \in Devices, NEW fit \in BOOLEAN, Appear(d, fit)
      PROVE  SInv'
  <2> DEFINE e == [kind |-> "Added", devs |-> {d}, fit |-> fit]
  <2>1. EventShape(e) /\ e.devs = {d} /\ e.kind = "Added" /\ e.fit = fit
    BY DEF EventShape
  <2>2. /\ Emit(d, e)
        /\ once' = IF fit THEN once \union {d} ELSE once
        /\ fits' = IF fit THEN fits \union {d} ELSE fits \ {d}
    BY <1>2 DEF Appear
  <2> HIDE DEF e
  <2> QED
    BY <2>1, <2>2, Changing
<1>3. CASE SourceCloses
  BY <1>3, Unmoved DEF SourceCloses
<1>4. CASE Slicing
  BY <1>4, Handling, Unmoved
     DEF Slicing, SubmitStep, Reply, ReplayPanics, EndOfEvents, CloseMux, CloseDone, Serve
<1>5. CASE Replay \/ RunStep \/ UNCHANGED vars
  BY <1>5, Unmoved DEF Replay, RunStep, vars
<1>6. ASSUME NEW s \in Subs,
             \/ Subscribe(s) \/ SubscribeRefused(s)
             \/ Cancel(s) \/ CancelReturns(s) \/ Deliver(s)
      PROVE  SInv'
  BY <1>6, Unmoved DEF Subscribe, SubscribeRefused, Cancel, CancelReturns, Deliver
<1> QED
  BY <1>1, <1>2, <1>3, <1>4, <1>5, <1>6 DEF Next, Source

(* The slice's set follows the source's (udev.go:315-338): it has all that *)
(* match and none that are gone, whatever the subscribers, the mux and the *)
(* source's end do meanwhile.                                              *)
THEOREM SliceFollowsSource == Spec => []SliceTracksSource
<1>1. SInv => SliceTracksSource
  BY DEF SInv, TracksOnce, SliceTracksSource
<1> QED
  BY <1>1, Initially, Stepwise, PTL DEF Spec

-----------------------------------------------------------------------------
(* The replay.                                                             *)

RunPhases == {"lock", "flush", "closing", "exited"}

CallTypes ==
    /\ subPc \in [Subs -> M!SubPcs]
    /\ closes \in [Subs -> Nat]
    /\ reqPc \in [Subs -> ReqPcs]

(* run has left its loop only when slice.mux is closed, which is when the  *)
(* slice's goroutine has left its own and serves no newcomer.              *)
ClosedLast ==
    /\ runPc \in RunPhases => done
    /\ done => slicePc \in {"closeDone", "exited"}
    /\ newcomer # None => slicePc \in {"subscribe", "replay"}

(* Where the goroutine is with its newcomer.                               *)
Serving ==
    /\ slicePc = "subscribe" => newcomer \in Subs /\ reqPc[newcomer] = "served"
    /\ slicePc = "replay" => newcomer \in Subs /\ reqPc[newcomer] = "subscribed"

(* As long as slice.mux is not closed, a channel is closed for a caller    *)
(* that was refused, or for a CancelFunc.                                  *)
ClosedForCancel ==
    \A s \in Subs :
        closes[s] > 0 /\ ~done =>
            reqPc[s] = "refused" \/ subPc[s] \in {"unregWait", "cancelled"}

PInv == CallTypes /\ ClosedLast /\ Serving /\ ClosedForCancel /\ PanicNeedsCancel

LEMMA PInitially == Init => PInv
BY SliceAssumption
   DEF Init, M!Init, PInv, CallTypes, M!SubPcs, ReqPcs, ClosedLast, RunPhases, Serving,
       ClosedForCancel, PanicNeedsCancel

(* A step of slice.mux that closes a channel does so for a CancelFunc, or  *)
(* when it is closed itself.                                               *)
LEMMA RunSteps ==
    ASSUME PInv, RunStep
    PROVE  PInv'
<1> USE DEF PInv, CallTypes, ClosedLast, RunPhases, Serving, ClosedForCancel, PanicNeedsCancel,
            RunStep, Running, sourceVars, sliceVars, subVars, M!SubPcs
<1>1. CASE M!RunRecv \/ M!RunDone \/ M!RunDrain \/ M!FlushNext \/ M!FlushDone \/ M!RunExit
  BY <1>1 DEF M!RunRecv, M!RunDone, M!RunDrain, M!FlushNext, M!FlushDone, M!RunExit, M!Dispatch,
              M!callVars, M!sinkVars, M!chanVars
<1>2. ASSUME NEW s \in Subs, M!RunRegister(s)
      PROVE  PInv'
  BY <1>2 DEF M!RunRegister, M!chanVars
<1>3. ASSUME NEW s \in Subs, M!AckRegister(s)
      PROVE  PInv'
  BY <1>3 DEF M!AckRegister, M!chanVars
<1>4. ASSUME NEW s \in Subs, M!RunUnregister(s)
      PROVE  PInv'
  BY <1>4 DEF M!RunUnregister, M!chanVars
<1>5. ASSUME NEW s \in Subs, M!AckUnregister(s)
      PROVE  PInv'
  BY <1>5 DEF M!AckUnregister, M!chanVars
<1>6. ASSUME NEW s \in Subs, M!CloseSink(s)
      PROVE  PInv'
  BY <1>6 DEF M!CloseSink, M!chanVars, M!runVars
<1> QED
  BY <1>1, <1>2, <1>3, <1>4, <1>5, <1>6 DEF M!Run

(* The goroutine takes up a newcomer, and is done with it, while slice.mux *)
(* is open.                                                                *)
LEMMA ServingSteps ==
    ASSUME PInv, \/ Reply \/ Replay \/ ReplayPanics
                 \/ \E s \in Subs : Serve(s) \/ Subscribe(s) \/ SubscribeRefused(s)
    PROVE  PInv'
<1> USE SliceAssumption
    DEF PInv, CallTypes, ClosedLast, RunPhases, Serving, ClosedForCancel, PanicNeedsCancel,
        Running, muxVars, sliceVars, M!SubPcs, ReqPcs
<1>1. CASE Reply
  BY <1>1 DEF Reply
<1>2. CASE Replay
  BY <1>2 DEF Replay, Replaying
<1>3. CASE ReplayPanics
  <2>1. newcomer # None /\ reqPc[newcomer] = "subscribed" /\ closes[newcomer] > 0
    BY <1>3 DEF ReplayPanics, Replaying
  <2>2. newcomer \in Subs /\ ~done
    BY <2>1
  <2>3. subPc[newcomer] \in {"unregWait", "cancelled"}
    BY <2>1, <2>2
  <2> QED
    BY <1>3, <2>3 DEF ReplayPanics, subVars
<1>4. ASSUME NEW s \in Subs, Serve(s)
      PROVE  PInv'
  BY <1>4 DEF Serve, Selecting, M!SubscribeCall, M!runVars, M!chanVars
<1>5. ASSUME NEW s \in Subs, Subscribe(s)
      PROVE  PInv'
  BY <1>5 DEF Subscribe
<1>6. ASSUME NEW s \in Subs, SubscribeRefused(s)
      PROVE  PInv'
  BY <1>6 DEF SubscribeRefused
<1> QED
  BY <1>1, <1>2, <1>3, <1>4, <1>5, <1>6

(* The end: slice.mux is closed by the goroutine that has left its loop.   *)
LEMMA EndingSteps ==
    ASSUME PInv, EndOfEvents \/ CloseMux \/ CloseDone
    PROVE  PInv'
<1> USE DEF PInv, CallTypes, ClosedLast, RunPhases, Serving, ClosedForCancel, PanicNeedsCancel,
            Running, muxVars, sliceVars, subVars
<1>1. CASE EndOfEvents
  BY <1>1 DEF EndOfEvents, Selecting
<1>2. CASE CloseMux
  BY <1>2 DEF CloseMux, M!Close, M!runVars, M!sinkVars
<1>3. CASE CloseDone
  BY <1>3 DEF CloseDone
<1> QED
  BY <1>1, <1>2, <1>3

(* The steps that change none of this but where a CancelFunc is.           *)
LEMMA OtherSteps ==
    ASSUME PInv, \/ Source \/ OnEvent \/ SubmitStep \/ UNCHANGED vars
                 \/ \E s \in Subs : Cancel(s) \/ CancelReturns(s) \/ Deliver(s)
    PROVE  PInv'
<1> USE DEF PInv, CallTypes, ClosedLast, RunPhases, Serving, ClosedForCancel, PanicNeedsCancel,
            Running, muxVars, sliceVars, subVars, M!SubPcs
<1>1. CASE Source
  BY <1>1 DEF Source, Vanish, Appear, Emit, SourceCloses
<1>2. CASE OnEvent
  BY <1>2 DEF OnEvent, OnInit, OnAdded, OnRemoved, Publish, Ignore, M!SubmitCall,
              M!runVars, M!chanVars, M!sinkVars
<1>3. CASE SubmitStep
  BY <1>3 DEF SubmitStep, M!SubmitProceed, M!SubmitHandoff, M!SubmitTimeout,
              M!runVars, M!chanVars, M!sinkVars
<1>4. CASE UNCHANGED vars
  BY <1>4 DEF vars
<1>5. ASSUME NEW s \in Subs, Cancel(s)
      PROVE  PInv'
  BY <1>5 DEF Cancel, M!CancelCall, M!runVars, M!chanVars
<1>6. ASSUME NEW s \in Subs, CancelReturns(s)
      PROVE  PInv'
  BY <1>6 DEF CancelReturns, M!CancelClosed, M!runVars, M!chanVars
<1>7. ASSUME NEW s \in Subs, Deliver(s)
      PROVE  PInv'
  BY <1>7 DEF Deliver, M!Deliver, M!chanVars, M!sinkVars
<1> QED
  BY <1>1, <1>2, <1>3, <1>4, <1>5, <1>6, <1>7

LEMMA PStepwise == PInv /\ [Next]_vars => PInv'
BY RunSteps, ServingSteps, EndingSteps, OtherSteps DEF Next, Slicing

(* The send of the replay (udev.go:353-358) panics only when the           *)
(* subscriber has called the CancelFunc it was just given (udev.go:359):   *)
(* that the source closes, that the slice ends or that another subscriber  *)
(* comes, goes or is refused never makes it.                               *)
THEOREM ReplayPanicNeedsCancel == Spec => []PanicNeedsCancel
<1>1. PInv => PanicNeedsCancel
  BY DEF PInv
<1> QED
  BY <1>1, PInitially, PStepwise, PTL DEF Spec

-----------------------------------------------------------------------------
(* The snapshots, which are known by their numbers.                        *)

(* The newest snapshot that run has handed out, and that the goroutine is  *)
(* in Submit.                                                              *)
Handed     == IF dispatched = <<>> THEN 0 ELSE M!Current[2]
Submitting == submitPc[Slicer] # "idle"

(* The state of the slice and the source, but for the numbers.             *)
Types ==
    /\ present \subseteq Devices /\ fits \subseteq once /\ once \subseteq present
    /\ lost \subseteq Devices
    /\ changes \in 0 .. MaxChanges
    /\ evCh \in Seq(Event) /\ Len(evCh) <= 1
    /\ open \in BOOLEAN /\ sdone \in BOOLEAN /\ crashed \in BOOLEAN
    /\ state \subseteq Devices
    /\ slicePc \in SlicePcs
    /\ newcomer \in Subs \union {None}
    /\ log \in Seq(SUBSET Devices)
    /\ reqPc \in [Subs -> ReqPcs]

LEMMA TypesInitially == Init => Types
<1> SUFFICES ASSUME Init PROVE Types
  OBVIOUS
<1>1. [kind |-> "Init", devs |-> once, fit |-> TRUE] \in Event
  BY DEF Init, Event
<1>2. evCh \in Seq(Event) /\ Len(evCh) <= 1
  BY <1>1 DEF Init
<1>3. reqPc \in [Subs -> ReqPcs]
  BY DEF Init, ReqPcs
<1>4. changes \in 0 .. MaxChanges /\ log \in Seq(SUBSET Devices)
  BY SliceAssumption DEF Init
<1> QED
  BY <1>2, <1>3, <1>4 DEF Init, Types, SlicePcs

LEMMA TypesEmit ==
    ASSUME Types, NEW d \in Devices, NEW e \in Event, Emit(d, e),
           present' \subseteq Devices, fits' \subseteq once', once' \subseteq present'
    PROVE  Types'
<1>1. changes' \in 0 .. MaxChanges /\ lost' \subseteq Devices
  BY SliceAssumption DEF Types, Emit
<1>2. evCh' = evCh \/ evCh' = <<e>>
  BY DEF Emit
<1>3. evCh' \in Seq(Event) /\ Len(evCh') <= 1
  <2>1. CASE evCh' = evCh
    BY <2>1 DEF Types
  <2>2. CASE evCh' = <<e>>
    BY <2>2
  <2> QED
    BY <1>2, <2>1, <2>2
<1> QED
  BY <1>1, <1>3 DEF Types, Emit, sliceVars, subVars

LEMMA TypesOnEvent ==
    ASSUME Types, OnEvent
    PROVE  Types'
<1>1. evCh' = <<>> /\ evCh # <<>> /\ evCh \in Seq(Event)
  BY DEF OnEvent, Types
<1>2. Head(evCh) \in Event
  BY <1>1
<1>3. PICK e \in Event : e = Head(evCh)
  BY <1>2
<1>4. e.devs \subseteq Devices
  BY DEF Event
<1>5. OnInit(e) \/ OnAdded(e) \/ OnRemoved(e)
  BY <1>3 DEF OnEvent
<1>6. state' \subseteq Devices /\ log' \in Seq(SUBSET Devices)
  <2>1. \/ UNCHANGED <<state, log>>
        \/ \E ds \in SUBSET Devices : Publish(ds)
    <3>1. CASE OnInit(e)
      BY <1>4, <3>1 DEF OnInit, Types
    <3>2. CASE OnAdded(e)
      BY <1>4, <3>2 DEF OnAdded, Types, Ignore
    <3>3. CASE OnRemoved(e)
      BY <1>4, <3>3 DEF OnRemoved, Types, Ignore
    <3> QED
      BY <1>5, <3>1, <3>2, <3>3
  <2>2. CASE UNCHANGED <<state, log>>
    BY <2>2 DEF Types
  <2>3. ASSUME NEW ds \in SUBSET Devices, Publish(ds)
        PROVE  state' \subseteq Devices /\ log' \in Seq(SUBSET Devices)
    <3>1. log \in Seq(SUBSET Devices) /\ state' = ds /\ log' = Append(log, ds)
      BY <2>3 DEF Publish, Types
    <3> QED
      BY <3>1
  <2> QED
    BY <2>1, <2>2, <2>3
<1>7. evCh' \in Seq(Event) /\ Len(evCh') <= 1
  BY <1>1
<1> QED
  BY <1>6, <1>7 DEF Types, OnEvent, subVars

LEMMA TypesStepwise == Types /\ [Next]_vars => Types'
<1> SUFFICES ASSUME Types, [Next]_vars PROVE Types'
  OBVIOUS
<1>1. ASSUME NEW d \in Devices, Vanish(d)
      PROVE  Types'
  <2> DEFINE e == [kind |-> "Removed", devs |-> {d}, fit |-> FALSE]
  <2>1. e \in Event
    BY DEF Event
  <2>2. Emit(d, e) /\ present' \subseteq Devices /\ fits' \subseteq once' /\ once' \subseteq present'
    BY <1>1 DEF Vanish, Types
  <2> HIDE DEF e
  <2> QED
    BY <2>1, <2>2, TypesEmit
<1>2. ASSUME NEW d \in Devices, NEW fit \in BOOLEAN, Appear(d, fit)
      PROVE  Types'
  <2> DEFINE e == [kind |-> "Added", devs |-> {d}, fit |-> fit]
  <2>1. e \in Event
    BY DEF Event
  <2>2. Emit(d, e) /\ present' \subseteq Devices /\ fits' \subseteq once' /\ once' \subseteq present'
    BY <1>2 DEF Appear, Types
  <2> HIDE DEF e
  <2> QED
    BY <2>1, <2>2, TypesEmit
<1>3. CASE SourceCloses \/ SubmitStep \/ RunStep \/ UNCHANGED vars
  BY <1>3 DEF SourceCloses, SubmitStep, RunStep, vars, Types, sourceVars, sliceVars, subVars
<1>4. CASE OnEvent
  BY <1>4, TypesOnEvent
<1>5. CASE Reply \/ Replay \/ ReplayPanics \/ EndOfEvents \/ CloseMux \/ CloseDone
  BY <1>5 DEF Reply, Replay, Replaying, ReplayPanics, EndOfEvents, CloseMux, CloseDone, Types,
              sourceVars, sliceVars, subVars, SlicePcs, ReqPcs
<1>6. ASSUME NEW s \in Subs, \/ Serve(s) \/ Subscribe(s) \/ SubscribeRefused(s)
                             \/ Cancel(s) \/ CancelReturns(s) \/ Deliver(s)
      PROVE  Types'
  BY <1>6 DEF Serve, Subscribe, SubscribeRefused, Cancel, CancelReturns, Deliver, Types,
              sourceVars, sliceVars, subVars, SlicePcs, ReqPcs
<1> QED
  BY <1>1, <1>2, <1>3, <1>4, <1>5, <1>6 DEF Next, Source, Slicing

(* slice.mux has no buffer and one submitter, so that no event is taken    *)
(* off input but in a Handoff, and run's deferred function finds nothing   *)
(* to flush.  Every snapshot past the last one handed out was dropped or   *)
(* is being submitted; and the goroutine submits nothing while it serves a *)
(* newcomer.                                                               *)
Quiet ==
    /\ inBufSize = 0 /\ input = <<>> /\ buffered = <<>>
    /\ submitPc \in [{Slicer} -> M!SubmitPcs]
    /\ calls \in [{Slicer} -> Nat]
    /\ calls[Slicer] = Len(log)
    /\ runPc # "fanout" => pending = {}

Numbers ==
    /\ dispatched \in Seq({Slicer} \X Nat)
    /\ dropped \subseteq 1 .. Len(log)
    /\ Handed \in 0 .. Len(log)
    /\ Submitting => slicePc = "select" /\ Handed < Len(log) /\ Len(log) \notin dropped
    /\ pending # {} => Handed # 0 /\ Handed \notin dropped
    /\ \A k \in Handed + 1 .. Len(log) : k \in dropped \/ (k = Len(log) /\ Submitting)

(* Which of the subscribers are sinks of slice.mux.                        *)
Places ==
    /\ outputs \subseteq Subs /\ pending \subseteq outputs
    /\ \A s \in Subs :
        /\ reqPc[s] # "idle" => log # <<>>
        /\ reqPc[s] \in {"idle", "asking", "refused"} => subPc[s] = "new"
        /\ reqPc[s] = "served" => newcomer = s /\ slicePc = "subscribe"
        /\ reqPc[s] = "subscribed" => subPc[s] \notin {"new", "registering"}
        /\ reqPc[s] \in {"idle", "asking"} \/ subPc[s] = "registering" => closes[s] = 0
        /\ s \in outputs => subPc[s] \notin {"new", "registering"} /\ closes[s] = 0
        /\ subPc[s] \notin {"new", "registering"} /\ closes[s] = 0 => s \in outputs

QInv == Types /\ PInv /\ Quiet /\ Numbers /\ Places

LEMMA QInitially == Init => QInv
<1> SUFFICES ASSUME Init PROVE QInv
  OBVIOUS
<1> USE DEF Init, M!Init
<1>1. Types /\ PInv
  BY TypesInitially, PInitially
<1>2. Quiet
  <2>1. inBufSize = 0 /\ input = <<>> /\ buffered = <<>> /\ pending = {}
    OBVIOUS
  <2>2. submitPc \in [{Slicer} -> M!SubmitPcs] /\ calls \in [{Slicer} -> Nat]
    BY DEF M!SubmitPcs
  <2>3. calls[Slicer] = 0 /\ Len(log) = 0
    OBVIOUS
  <2> QED
    BY <2>1, <2>2, <2>3 DEF Quiet
<1>3. Numbers
  <2>1. Handed = 0 /\ ~Submitting /\ Len(log) = 0
    BY DEF Handed, Submitting
  <2>2. dispatched \in Seq({Slicer} \X Nat) /\ dropped = {} /\ pending = {}
    OBVIOUS
  <2> QED
    BY <2>1, <2>2 DEF Numbers
<1>4. Places
  BY DEF Places
<1> QED
  BY <1>1, <1>2, <1>3, <1>4 DEF QInv

(* A number that run hands out becomes the newest.                         *)
LEMMA HandedNext ==
    ASSUME dispatched \in Seq({Slicer} \X Nat), NEW n \in Nat,
           dispatched' = Append(dispatched, <<Slicer, n>>)
    PROVE  dispatched' \in Seq({Slicer} \X Nat) /\ Handed' = n
<1>1. <<Slicer, n>> \in {Slicer} \X Nat
  OBVIOUS
<1>2. /\ dispatched' \in Seq({Slicer} \X Nat) /\ dispatched' # <<>>
      /\ Len(dispatched') = Len(dispatched) + 1
      /\ dispatched'[Len(dispatched) + 1] = <<Slicer, n>>
  BY <1>1
<1> QED
  BY <1>2 DEF Handed, M!Current

LEMMA Publishing ==
    ASSUME QInv, OnEvent
    PROVE  /\ Quiet' /\ Numbers' /\ Places'
           /\ UNCHANGED <<pending, closes, dropped, reqPc, newcomer, got, Handed>>
           /\ \/ UNCHANGED <<log, Submitting>>
              \/ Len(log') = Len(log) + 1 /\ ~Submitting /\ Submitting'
<1>1. \/ UNCHANGED <<log, muxVars>>
      \/ \E ds : Publish(ds)
  BY DEF OnEvent, OnInit, OnAdded, OnRemoved, Ignore
<1>2. UNCHANGED <<slicePc, newcomer, dropped, reqPc, got>> /\ Selecting
  BY DEF OnEvent, subVars
<1>3. log \in Seq(SUBSET Devices) /\ log' \in Seq(SUBSET Devices)
  BY TypesOnEvent DEF QInv, Types
<1>4. CASE UNCHANGED <<log, muxVars>>
  BY <1>2, <1>4 DEF QInv, Quiet, Numbers, Places, Handed, M!Current, Submitting, muxVars
<1>5. ASSUME NEW ds, Publish(ds)
      PROVE  /\ Quiet' /\ Numbers' /\ Places'
             /\ UNCHANGED <<pending, closes, Handed>>
             /\ Len(log') = Len(log) + 1 /\ ~Submitting /\ Submitting'
  <2>1. log' = Append(log, ds) /\ M!SubmitCall(Slicer)
    BY <1>5 DEF Publish
  <2>2. Len(log') = Len(log) + 1 /\ Len(log) \in Nat /\ log' # <<>>
    BY <1>3, <2>1
  <2>3. /\ submitPc' = [submitPc EXCEPT ![Slicer] = "check"]
        /\ calls' = [calls EXCEPT ![Slicer] = @ + 1]
        /\ UNCHANGED <<runPc, pending, buffered, inBufSize, input, done, outputs, subPc, closes,
                       dispatched>>
    BY <2>1 DEF M!SubmitCall, M!runVars, M!chanVars, M!sinkVars
  <2>4. Quiet'
    BY <2>2, <2>3 DEF QInv, Quiet, M!SubmitPcs
  <2>5. ~Submitting /\ Submitting' /\ Handed' = Handed
    BY <1>2, <2>3 DEF QInv, Quiet, Submitting, Selecting, Handed, M!Current
  <2>6. Numbers'
    <3>1. Handed \in 0 .. Len(log) /\ dropped \subseteq 1 .. Len(log)
      BY DEF QInv, Numbers
    <3>2. \A k \in Handed + 1 .. Len(log) : k \in dropped
      BY <2>5 DEF QInv, Numbers
    <3>3. slicePc' = "select"
      BY <1>2 DEF Selecting
    <3>4. Len(log') \notin dropped'
      BY <1>2, <2>2, <3>1
    <3> QED
      BY <1>2, <2>2, <2>3, <2>5, <3>1, <3>2, <3>3, <3>4 DEF QInv, Numbers
  <2>7. Places'
    BY <1>2, <2>2, <2>3 DEF QInv, Places
  <2> QED
    BY <2>2, <2>3, <2>4, <2>5, <2>6, <2>7
<1> QED
  BY <1>1, <1>2, <1>4, <1>5

(* The goroutine in Submit: the snapshot is dropped, or becomes the newest *)
(* handed out, on its way to every sink.                                   *)
LEMMA Submits ==
    ASSUME QInv, SubmitStep
    PROVE  /\ Quiet' /\ Numbers' /\ Places'
           /\ UNCHANGED <<log, closes, reqPc, newcomer, got>>
           /\ Submitting
           /\ \/ UNCHANGED <<pending, Handed, dropped, Submitting>>
              \/ /\ UNCHANGED <<pending, Handed>> /\ ~Submitting'
                 /\ dropped' = dropped \union {Len(log)}
              \/ /\ UNCHANGED dropped /\ ~Submitting'
                 /\ Handed' = Len(log) /\ pending = {} /\ pending' = outputs
<1>1. UNCHANGED <<log, slicePc, newcomer, reqPc, got>>
  BY DEF SubmitStep, subVars
<1>2. Len(log) \in Nat
  BY DEF QInv, Types
<1>3. CASE M!SubmitProceed(Slicer) /\ UNCHANGED dropped
  <2>1. /\ submitPc[Slicer] = "check"
        /\ submitPc' = [submitPc EXCEPT ![Slicer] = "select"]
        /\ UNCHANGED <<calls, runPc, pending, buffered, inBufSize, input, done, outputs, subPc,
                       closes, dispatched>>
    BY <1>3 DEF M!SubmitProceed, M!runVars, M!chanVars, M!sinkVars
  <2>2. Submitting /\ Submitting' /\ Handed' = Handed
    BY <2>1 DEF QInv, Quiet, Submitting, Handed, M!Current
  <2>3. Quiet' /\ Numbers' /\ Places'
    BY <1>1, <1>3, <2>1, <2>2 DEF QInv, Quiet, Numbers, Places, M!SubmitPcs
  <2> QED
    BY <1>1, <1>3, <2>1, <2>2, <2>3
<1>4. CASE M!SubmitTimeout(Slicer) /\ dropped' = dropped \union {Len(log)}
  <2>1. /\ submitPc[Slicer] = "select"
        /\ submitPc' = [submitPc EXCEPT ![Slicer] = "idle"]
        /\ UNCHANGED <<calls, runPc, pending, buffered, inBufSize, input, done, outputs, subPc,
                       closes, dispatched>>
    BY <1>4 DEF M!SubmitTimeout, M!runVars, M!chanVars, M!sinkVars
  <2>2. Submitting /\ ~Submitting' /\ Handed' = Handed
    BY <2>1 DEF QInv, Quiet, Submitting, Handed, M!Current
  <2>3. Quiet' /\ Places'
    BY <1>1, <2>1 DEF QInv, Quiet, Places, M!SubmitPcs
  <2>4. Handed \in 0 .. Len(log) /\ Handed < Len(log) /\ dropped \subseteq 1 .. Len(log)
    BY <2>2 DEF QInv, Numbers
  <2>5. Numbers'
    <3>1. dropped' \subseteq 1 .. Len(log)
      <4>1. Len(log) \in 1 .. Len(log)
        BY <1>2, <2>4
      <4> QED
        BY <1>4, <2>4, <4>1
    <3>2. \A k \in Handed + 1 .. Len(log) : k \in dropped'
      BY <1>4 DEF QInv, Numbers
    <3>3. Handed \notin dropped' \/ pending = {}
      BY <1>4, <2>4 DEF QInv, Numbers
    <3> QED
      BY <1>1, <2>1, <2>2, <2>4, <3>1, <3>2, <3>3 DEF QInv, Numbers
  <2> QED
    BY <1>1, <1>4, <2>1, <2>2, <2>3, <2>5
<1>5. CASE M!SubmitHandoff(Slicer) /\ UNCHANGED dropped
  <2>1. /\ submitPc[Slicer] = "select" /\ runPc = "select"
        /\ submitPc' = [submitPc EXCEPT ![Slicer] = "idle"]
        /\ dispatched' = Append(dispatched, <<Slicer, calls[Slicer]>>)
        /\ pending' = outputs
        /\ runPc' = IF outputs = {} THEN "select" ELSE "fanout"
        /\ UNCHANGED <<calls, buffered, inBufSize, input, done, outputs, subPc, closes>>
    BY <1>5 DEF M!SubmitHandoff, M!Dispatch, M!Value, M!chanVars, M!sinkVars
  <2>2. Submitting /\ ~Submitting' /\ pending = {}
    BY <2>1 DEF QInv, Quiet, Submitting
  <2>3. calls[Slicer] = Len(log)
    BY DEF QInv, Quiet
  <2>4. dispatched' \in Seq({Slicer} \X Nat) /\ Handed' = Len(log)
    BY <1>2, <2>1, <2>3, HandedNext DEF QInv, Numbers
  <2>5. Quiet' /\ Places'
    BY <1>1, <2>1 DEF QInv, Quiet, Places, M!SubmitPcs
  <2>6. Handed \in 0 .. Len(log) /\ Handed < Len(log) /\ Len(log) \notin dropped
    BY <2>2 DEF QInv, Numbers
  <2>7. Numbers'
    BY <1>1, <1>2, <1>5, <2>1, <2>2, <2>4, <2>6 DEF QInv, Numbers
  <2> QED
    BY <1>1, <1>5, <2>1, <2>2, <2>4, <2>5, <2>7
<1> QED
  BY <1>3, <1>4, <1>5 DEF SubmitStep

(* A sink is given the newest snapshot handed out.                         *)
LEMMA Delivers ==
    ASSUME QInv, NEW s \in Subs, Deliver(s)
    PROVE  /\ Quiet' /\ Numbers' /\ Places'
           /\ UNCHANGED <<log, closes, reqPc, newcomer, Handed, dropped, Submitting>>
           /\ s \in pending /\ closes[s] = 0 /\ pending' = pending \ {s}
           /\ got' = [got EXCEPT ![s] = Append(@, Handed)]
<1>1. /\ UNCHANGED <<log, slicePc, newcomer, dropped, reqPc>>
      /\ got' = [got EXCEPT ![s] = Append(@, M!Current[2])]
  BY DEF Deliver, sliceVars
<1>2. /\ s \in pending /\ pending' = pending \ {s}
      /\ runPc' = IF runPc = "fanout" /\ pending = {s} THEN "select" ELSE runPc
      /\ UNCHANGED <<buffered, inBufSize, input, done, submitPc, calls, outputs, subPc, closes,
                     dispatched>>
  BY DEF Deliver, M!Deliver, M!chanVars, M!callVars, M!sinkVars
<1>3. Handed' = Handed /\ Submitting' = Submitting
  BY <1>2 DEF Handed, M!Current, Submitting
<1>4. Handed # 0
  BY <1>2 DEF QInv, Numbers
<1>5. got' = [got EXCEPT ![s] = Append(@, Handed)]
  BY <1>1, <1>4 DEF Handed
<1>6. Quiet' /\ Places' /\ closes[s] = 0
  BY <1>1, <1>2 DEF QInv, Quiet, Places
<1>7. Numbers'
  BY <1>1, <1>2, <1>3 DEF QInv, Numbers
<1> QED
  BY <1>1, <1>2, <1>3, <1>5, <1>6, <1>7

(* run takes on and lets go of sinks, and ends; it finds nothing in input. *)
LEMMA Runs ==
    ASSUME QInv, RunStep
    PROVE  /\ Quiet' /\ Numbers' /\ Places'
           /\ UNCHANGED <<log, reqPc, newcomer, got, pending, Handed, dropped, Submitting>>
           /\ \A s \in Subs : closes'[s] = closes[s] \/ (closes'[s] > 0 /\ s \notin pending)
<1>1. UNCHANGED <<log, slicePc, newcomer, dropped, reqPc, got>> /\ M!Run
  BY DEF RunStep, sliceVars, subVars
<1>2. ~M!RunRecv /\ ~M!FlushNext
  BY DEF QInv, Quiet, M!RunRecv, M!FlushNext
<1>3. /\ UNCHANGED <<pending, inBufSize, submitPc, calls, dispatched>>
      /\ input' = <<>> /\ buffered' = <<>>
      /\ runPc' # "fanout"
      /\ pending = {}
  BY <1>1, <1>2
     DEF M!Run, M!RunDone, M!RunDrain, M!FlushDone, M!RunExit, M!RunRegister, M!AckRegister,
         M!RunUnregister, M!AckUnregister, M!CloseSink, M!chanVars, M!callVars, M!runVars,
         QInv, Quiet
<1>4. Handed' = Handed /\ Submitting' = Submitting
  BY <1>3 DEF Handed, M!Current, Submitting
<1>5. Quiet' /\ Numbers'
  BY <1>1, <1>3, <1>4 DEF QInv, Quiet, Numbers
<1>6. Places' /\ \A s \in Subs : closes'[s] = closes[s] \/ closes'[s] > 0
  <2> USE DEF QInv, PInv, CallTypes, M!SubPcs
  <2>1. CASE M!RunDone \/ M!RunDrain \/ M!FlushDone \/ M!RunExit
    BY <1>1, <1>3, <2>1 DEF M!RunDone, M!RunDrain, M!FlushDone, M!RunExit, M!sinkVars, Places
  <2>2. ASSUME NEW s \in Subs, M!RunRegister(s)
        PROVE  Places' /\ closes' = closes
    BY <1>1, <1>3, <2>2 DEF M!RunRegister, Places, ReqPcs
  <2>3. ASSUME NEW s \in Subs, M!AckRegister(s)
        PROVE  Places' /\ closes' = closes
    BY <1>1, <1>3, <2>3 DEF M!AckRegister, Places
  <2>4. ASSUME NEW s \in Subs, M!RunUnregister(s)
        PROVE  Places' /\ \A t \in Subs : closes'[t] = closes[t] \/ closes'[t] > 0
    BY <1>1, <1>3, <2>4 DEF M!RunUnregister, Places
  <2>5. ASSUME NEW s \in Subs, M!AckUnregister(s)
        PROVE  Places' /\ closes' = closes
    BY <1>1, <1>3, <2>5 DEF M!AckUnregister, Places
  <2>6. ASSUME NEW s \in Subs, M!CloseSink(s)
        PROVE  Places' /\ \A t \in Subs : closes'[t] = closes[t] \/ closes'[t] > 0
    BY <1>1, <1>3, <2>6 DEF M!CloseSink, Places
  <2> QED
    BY <1>1, <1>2, <2>1, <2>2, <2>3, <2>4, <2>5, <2>6 DEF M!Run, M!sinkVars,
       M!RunDone, M!RunDrain, M!FlushDone, M!RunExit
<1> QED
  BY <1>1, <1>3, <1>4, <1>5, <1>6

(* Every other step leaves slice.mux's values alone.                       *)
LEMMA Rests ==
    ASSUME QInv, \/ Source \/ Reply \/ Replay \/ ReplayPanics
                 \/ EndOfEvents \/ CloseMux \/ CloseDone \/ UNCHANGED vars
                 \/ \E s \in Subs : \/ Serve(s) \/ Subscribe(s) \/ SubscribeRefused(s)
                                    \/ Cancel(s) \/ CancelReturns(s)
    PROVE  /\ Quiet' /\ Numbers'
           /\ UNCHANGED <<log, outputs, pending, Handed, dropped, Submitting>>
<1>1. /\ UNCHANGED <<log, dropped, pending, inBufSize, input, buffered, submitPc, calls, runPc,
                     outputs, dispatched>>
      /\ slicePc' = slicePc \/ ~Submitting
  BY DEF Source, Vanish, Appear, Emit, SourceCloses, Reply, Replay, ReplayPanics, EndOfEvents,
         CloseMux, CloseDone, Serve, Selecting, Subscribe, SubscribeRefused, Cancel, CancelReturns,
         M!Close, M!SubscribeCall, M!CancelCall, M!CancelClosed, M!runVars, M!chanVars,
         M!callVars, M!sinkVars, muxVars, sliceVars, vars, QInv, Numbers, Submitting
<1>2. Handed' = Handed /\ Submitting' = Submitting
  BY <1>1 DEF Handed, M!Current, Submitting
<1> QED
  BY <1>1, <1>2 DEF QInv, Quiet, Numbers

(* The callers of Subscribe: a sink is a caller that has been served.      *)
LEMMA PlacesKept ==
    ASSUME QInv, \/ Source \/ Reply \/ Replay \/ ReplayPanics
                 \/ EndOfEvents \/ CloseMux \/ CloseDone \/ UNCHANGED vars
                 \/ \E s \in Subs : \/ Serve(s) \/ Subscribe(s) \/ SubscribeRefused(s)
                                    \/ Cancel(s) \/ CancelReturns(s)
    PROVE  Places'
<1> USE DEF QInv, Types, PInv, CallTypes, ClosedLast, Serving, ReqPcs, M!SubPcs
<1>1. UNCHANGED <<log, outputs, pending>>
  BY Rests
<1>2. CASE \/ Source \/ ReplayPanics \/ EndOfEvents \/ CloseMux \/ CloseDone \/ UNCHANGED vars
  <2>1. UNCHANGED <<reqPc, subPc, closes, newcomer>> /\ (slicePc' = slicePc \/ slicePc # "subscribe")
    BY <1>2 DEF Source, Vanish, Appear, Emit, SourceCloses, ReplayPanics, EndOfEvents, Selecting,
                CloseMux, CloseDone, M!Close, M!sinkVars, muxVars, sliceVars, subVars, vars
  <2> QED
    BY <1>1, <2>1 DEF Places
<1>3. CASE Reply
  BY <1>1, <1>3 DEF Reply, muxVars, Places
<1>4. CASE Replay
  BY <1>1, <1>4 DEF Replay, Replaying, muxVars, Places
<1>5. ASSUME NEW s \in Subs, Serve(s)
      PROVE  Places'
  BY <1>1, <1>5 DEF Serve, Selecting, M!SubscribeCall, Places
<1>6. ASSUME NEW s \in Subs, Subscribe(s)
      PROVE  Places'
  BY <1>1, <1>6 DEF Subscribe, Made, muxVars, sliceVars, Places
<1>7. ASSUME NEW s \in Subs, SubscribeRefused(s)
      PROVE  Places'
  BY <1>1, <1>7 DEF SubscribeRefused, sliceVars, Places
<1>8. ASSUME NEW s \in Subs, Cancel(s) \/ CancelReturns(s)
      PROVE  Places'
  <2>1. CASE Cancel(s)
    BY <1>1, <2>1 DEF Cancel, M!CancelCall, sliceVars, subVars, Places
  <2>2. CASE CancelReturns(s)
    BY <1>1, <2>2 DEF CancelReturns, M!CancelClosed, sliceVars, subVars, Places
  <2> QED
    BY <1>8, <2>1, <2>2
<1> QED
  BY <1>2, <1>3, <1>4, <1>5, <1>6, <1>7, <1>8

LEMMA QStepwise == QInv /\ [Next]_vars => QInv'
<1> SUFFICES ASSUME QInv, [Next]_vars PROVE QInv'
  OBVIOUS
<1>1. Types' /\ PInv'
  BY TypesStepwise, PStepwise DEF QInv
<1>2. Quiet' /\ Numbers' /\ Places'
  <2>1. CASE OnEvent
    BY <2>1, Publishing
  <2>2. CASE SubmitStep
    BY <2>2, Submits
  <2>3. CASE RunStep
    BY <2>3, Runs
  <2>4. CASE \E s \in Subs : Deliver(s)
    BY <2>4, Delivers
  <2>5. CASE \/ Source \/ Reply \/ Replay \/ ReplayPanics
             \/ EndOfEvents \/ CloseMux \/ CloseDone \/ UNCHANGED vars
             \/ \E s \in Subs : \/ Serve(s) \/ Subscribe(s) \/ SubscribeRefused(s)
                                \/ Cancel(s) \/ CancelReturns(s)
    BY <2>5, Rests, PlacesKept
  <2> QED
    BY <2>1, <2>2, <2>3, <2>4, <2>5 DEF Next, Slicing
<1> QED
  BY <1>1, <1>2 DEF QInv

(* What a subscriber that has had its replay, and whose channel is open,   *)
(* has been sent; what is on its way is newer than the replay.             *)
Listens(s) == reqPc[s] = "subscribed" /\ s # newcomer

Coming(s) ==
    (IF s \in pending THEN {Handed} ELSE {}) \union (IF Submitting THEN {Len(log)} ELSE {})

Has(q) == {q[i] : i \in DOMAIN q}

InTurn(s) ==
    LET n == got[s][1] IN
    /\ got[s] # <<>>
    /\ s \in pending => n < Handed
    /\ Submitting => n < Len(log)
    /\ Has(got[s]) = {n} \union ((n + 1 .. Len(log)) \ (dropped \union Coming(s)))

Heard(s) ==
    /\ got[s] \in Seq(1 .. Len(log)) /\ Ascending(got[s])
    /\ s \in pending => Listens(s)
    /\ ~Listens(s) => got[s] = <<>>
    /\ Listens(s) /\ closes[s] = 0 => InTurn(s)

HInv == QInv /\ got \in [Subs -> Seq(Nat)] /\ \A s \in Subs : Heard(s)

LEMMA HeardKept ==
    ASSUME NEW s \in Subs, Heard(s),
           got'[s] = got[s], UNCHANGED <<log, Handed, dropped, Submitting>>,
           s \in pending' <=> s \in pending, Listens(s)' <=> Listens(s),
           closes'[s] = 0 => closes[s] = 0
    PROVE  Heard(s)'
<1>1. Coming(s)' = Coming(s)
  BY DEF Coming
<1> QED
  BY <1>1 DEF Heard, InTurn

(* A sequence that grows by a number larger than all it has.               *)
LEMMA Growing ==
    ASSUME NEW N \in Nat, NEW q \in Seq(1 .. N), Ascending(q), NEW k \in 1 .. N,
           \A x \in Has(q) : x < k
    PROVE  /\ Append(q, k) \in Seq(1 .. N)
           /\ Ascending(Append(q, k))
           /\ Has(Append(q, k)) = Has(q) \union {k}
           /\ q # <<>> => Append(q, k)[1] = q[1]
<1> DEFINE r == Append(q, k)
<1>1. /\ r \in Seq(1 .. N)
      /\ Len(q) \in Nat /\ DOMAIN q = 1 .. Len(q) /\ DOMAIN r = 1 .. Len(q) + 1
      /\ \A i \in 1 .. Len(q) : r[i] = q[i]
      /\ r[Len(q) + 1] = k
  OBVIOUS
<1>2. \A i \in DOMAIN q : q[i] < k
  BY DEF Has
<1> HIDE DEF r
<1>3. Ascending(r)
  <2> SUFFICES ASSUME NEW i \in 1 .. Len(q) + 1, NEW j \in 1 .. Len(q) + 1, i < j
               PROVE  r[i] < r[j]
    BY <1>1 DEF Ascending
  <2>1. i \in 1 .. Len(q) /\ r[i] = q[i]
    BY <1>1
  <2>2. CASE j = Len(q) + 1
    BY <1>1, <1>2, <2>1, <2>2
  <2>3. CASE j # Len(q) + 1
    <3>1. j \in 1 .. Len(q)
      BY <1>1, <2>3
    <3>2. r[j] = q[j]
      BY <1>1, <3>1
    <3> QED
      BY <1>1, <2>1, <3>1, <3>2 DEF Ascending
  <2> QED
    BY <2>2, <2>3
<1>4. Has(r) = Has(q) \union {k}
  <2>1. \A x \in Has(r) : x \in Has(q) \union {k}
    <3> SUFFICES ASSUME NEW i \in 1 .. Len(q) + 1
                 PROVE  r[i] \in Has(q) \union {k}
      BY <1>1 DEF Has
    <3>1. CASE i = Len(q) + 1
      BY <1>1, <3>1
    <3>2. CASE i # Len(q) + 1
      <4>1. i \in 1 .. Len(q) /\ r[i] = q[i]
        BY <1>1, <3>2
      <4> QED
        BY <1>1, <4>1 DEF Has
    <3> QED
      BY <3>1, <3>2
  <2>2. \A x \in Has(q) : x \in Has(r)
    <3> SUFFICES ASSUME NEW i \in 1 .. Len(q)
                 PROVE  q[i] \in Has(r)
      BY <1>1 DEF Has
    <3>1. i \in 1 .. Len(q) + 1 /\ r[i] = q[i]
      BY <1>1
    <3> QED
      BY <1>1, <3>1 DEF Has
  <2>3. k \in Has(r)
    <3>1. Len(q) + 1 \in 1 .. Len(q) + 1
      BY <1>1
    <3> QED
      BY <1>1, <3>1 DEF Has
  <2> QED
    BY <2>1, <2>2, <2>3
<1>5. q # <<>> => 1 \in 1 .. Len(q)
  BY <1>1
<1> QED
  BY <1>1, <1>3, <1>4, <1>5 DEF r

LEMMA HeardPublishing ==
    ASSUME HInv, QInv', OnEvent, NEW s \in Subs
    PROVE  Heard(s)'
<1>1. UNCHANGED <<pending, closes, dropped, reqPc, newcomer, got, Handed>>
  BY Publishing DEF HInv
<1>2. CASE UNCHANGED <<log, Submitting>>
  BY <1>1, <1>2, HeardKept DEF HInv, Listens
<1>3. CASE Len(log') = Len(log) + 1 /\ ~Submitting /\ Submitting'
  <2> DEFINE N == Len(log)
             n == got[s][1]
  <2>1. N \in Nat /\ Len(log') = N + 1 /\ dropped \subseteq 1 .. N
    BY <1>3 DEF HInv, QInv, Types, Numbers
  <2>2. got[s] \in Seq(1 .. N) /\ got'[s] = got[s]
    BY <1>1 DEF HInv, Heard
  <2>3. got'[s] \in Seq(1 .. N + 1)
    BY <2>1, <2>2
  <2>4. ASSUME InTurn(s) PROVE InTurn(s)'
    <3>1. n \in 1 .. N
      BY <2>2, <2>4 DEF InTurn
    <3>2. (n + 1 .. N + 1) \ (dropped \union Coming(s)') = (n + 1 .. N) \ (dropped \union Coming(s))
      BY <1>1, <1>3, <2>1, <3>1 DEF Coming
    <3> QED
      BY <1>1, <1>3, <2>1, <2>4, <3>1, <3>2 DEF InTurn
  <2> QED
    BY <1>1, <2>1, <2>3, <2>4 DEF HInv, Heard, Listens
<1> QED
  BY <1>2, <1>3, Publishing DEF HInv

LEMMA HeardSubmits ==
    ASSUME HInv, QInv', SubmitStep, NEW s \in Subs
    PROVE  Heard(s)'
<1>1. UNCHANGED <<log, closes, reqPc, newcomer, got>> /\ Submitting
  BY Submits DEF HInv
<1>2. /\ Len(log) \in Nat /\ Handed \in 0 .. Len(log) /\ Handed < Len(log)
      /\ newcomer = None
  BY <1>1 DEF HInv, QInv, Types, Numbers, PInv, ClosedLast
<1>3. CASE UNCHANGED <<pending, Handed, dropped, Submitting>>
  BY <1>1, <1>3, HeardKept DEF HInv, Listens
<1>4. CASE UNCHANGED <<pending, Handed>> /\ ~Submitting' /\ dropped' = dropped \union {Len(log)}
  <2>1. dropped' \union Coming(s)' = dropped \union Coming(s)
    BY <1>1, <1>4 DEF Coming
  <2> QED
    BY <1>1, <1>4, <2>1 DEF HInv, Heard, InTurn, Listens
<1>5. CASE /\ UNCHANGED dropped /\ ~Submitting'
           /\ Handed' = Len(log) /\ pending = {} /\ pending' = outputs
  <2>1. s \in outputs => Listens(s) /\ closes[s] = 0
    <3>1. s # None /\ newcomer = None
      BY <1>2, SliceAssumption
    <3>2. reqPc[s] \in ReqPcs
      BY DEF HInv, QInv, Types
    <3>3. Places
      BY DEF HInv, QInv
    <3> QED
      BY <3>1, <3>2, <3>3 DEF Places, ReqPcs, Listens
  <2>2. Listens(s) /\ closes[s] = 0 => s \in outputs
    BY DEF HInv, QInv, Places, Listens
  <2>3. ASSUME InTurn(s), s \in outputs PROVE InTurn(s)'
    <3>1. Coming(s)' = Coming(s)
      BY <1>1, <1>5, <2>3 DEF Coming
    <3> QED
      BY <1>1, <1>5, <2>3, <3>1 DEF InTurn
  <2> QED
    BY <1>1, <1>5, <2>1, <2>2, <2>3 DEF HInv, Heard, Listens
<1> QED
  BY <1>3, <1>4, <1>5, Submits DEF HInv

(* What has been handed out is newer than all that the sink has had.       *)
LEMMA HeardDelivers ==
    ASSUME HInv, QInv', NEW t \in Subs, Deliver(t), NEW s \in Subs
    PROVE  Heard(s)'
<1> DEFINE N == Len(log)
           n == got[s][1]
<1>1. /\ UNCHANGED <<log, closes, reqPc, newcomer, Handed, dropped, Submitting>>
      /\ t \in pending /\ closes[t] = 0 /\ pending' = pending \ {t}
      /\ got' = [got EXCEPT ![t] = Append(@, Handed)]
  BY Delivers DEF HInv
<1>2. got \in [Subs -> Seq(Nat)] /\ Heard(s)
  BY DEF HInv
<1>3. CASE s # t
  BY <1>1, <1>2, <1>3, HeardKept DEF Listens
<1>4. CASE s = t
  <2>1. /\ N \in Nat /\ Handed \in 1 .. N /\ Handed \notin dropped
        /\ Submitting => Handed < N
        /\ \A k \in Handed + 1 .. N : k \in dropped \/ (k = N /\ Submitting)
    BY <1>1 DEF HInv, QInv, Types, Numbers
  <2>2. Listens(s) /\ InTurn(s) /\ got[s] \in Seq(1 .. N) /\ Ascending(got[s])
    BY <1>1, <1>2, <1>4 DEF Heard
  <2>3. n \in 1 .. N /\ n < Handed /\ got[s] # <<>>
    BY <1>1, <1>4, <2>2 DEF InTurn
  <2>4. Has(got[s]) = {n} \union ((n + 1 .. N) \ (dropped \union Coming(s)))
    BY <2>2 DEF InTurn
  <2>5. Coming(s) = {Handed} \union (IF Submitting THEN {N} ELSE {})
    BY <1>1, <1>4 DEF Coming
  <2>6. \A x \in Has(got[s]) : x < Handed
    <3> SUFFICES ASSUME NEW x \in Has(got[s]), x # n PROVE x < Handed
      BY <2>3
    <3>1. x \in n + 1 .. N /\ x \notin dropped /\ x # Handed /\ (Submitting => x # N)
      BY <2>4, <2>5
    <3>2. x \notin Handed + 1 .. N
      BY <2>1, <3>1
    <3> QED
      BY <2>1, <2>3, <3>1, <3>2
  <2>7. got'[s] = Append(got[s], Handed)
    BY <1>1, <1>2, <1>4
  <2>8. /\ got'[s] \in Seq(1 .. N) /\ Ascending(got'[s])
        /\ Has(got'[s]) = Has(got[s]) \union {Handed}
        /\ got'[s][1] = n
    BY <2>1, <2>2, <2>3, <2>6, <2>7, Growing
  <2>9. Coming(s)' = (IF Submitting THEN {N} ELSE {})
    BY <1>1, <1>4 DEF Coming
  <2>10. Has(got'[s]) = {n} \union ((n + 1 .. N) \ (dropped \union Coming(s)'))
    BY <2>1, <2>3, <2>4, <2>5, <2>8, <2>9
  <2>11. got'[s] # <<>>
    BY <2>2, <2>7
  <2>12. InTurn(s)'
    BY <1>1, <1>4, <2>2, <2>8, <2>10, <2>11 DEF InTurn
  <2> QED
    BY <1>1, <1>4, <2>2, <2>8, <2>12 DEF Heard, Listens
<1> QED
  BY <1>3, <1>4

(* The replay: the newest snapshot, while none is being submitted.         *)
LEMMA HeardReplay ==
    ASSUME HInv, QInv', Replay, NEW s \in Subs
    PROVE  Heard(s)'
<1> DEFINE N == Len(log)
<1>1. /\ newcomer # None /\ reqPc[newcomer] = "subscribed" /\ newcomer' = None
      /\ got' = [got EXCEPT ![newcomer] = Append(@, N)]
      /\ UNCHANGED <<closes, reqPc>>
  BY DEF Replay, Replaying, muxVars
<1>2. UNCHANGED <<log, pending, Handed, dropped, Submitting>>
  BY Rests DEF HInv
<1>3. got \in [Subs -> Seq(Nat)] /\ Heard(s) /\ newcomer \in Subs /\ None \notin Subs
  BY <1>1, SliceAssumption DEF HInv, QInv, Types
<1>4. CASE s # newcomer
  BY <1>1, <1>2, <1>3, <1>4, HeardKept DEF Listens
<1>5. CASE s = newcomer
  <2>1. ~Submitting
    BY <1>1 DEF HInv, QInv, Numbers, PInv, ClosedLast
  <2>2. N \in Nat /\ N # 0
    BY <1>1, <1>3 DEF HInv, QInv, Types, Places
  <2>3. got[s] = <<>> /\ s \notin pending
    BY <1>3, <1>5 DEF Heard, Listens
  <2>4. got'[s] = <<N>>
    BY <1>1, <1>3, <1>5, <2>3
  <2>5. got'[s] \in Seq(1 .. N) /\ Ascending(got'[s]) /\ Has(got'[s]) = {N}
    BY <2>2, <2>4 DEF Ascending, Has
  <2>6. InTurn(s)'
    <3>1. got'[s][1] = N /\ got'[s] # <<>>
      BY <2>4
    <3>2. (N + 1 .. N) \ (dropped' \union Coming(s)') = {}
      BY <2>2
    <3> QED
      BY <1>2, <2>1, <2>3, <2>5, <3>1, <3>2 DEF InTurn
  <2>7. Listens(s)'
    BY <1>1, <1>3, <1>5 DEF Listens
  <2> QED
    BY <1>2, <2>5, <2>6, <2>7 DEF Heard
<1> QED
  BY <1>4, <1>5

(* The other steps send nothing to anybody.                                *)
LEMMA HeardOther ==
    ASSUME HInv, NEW s \in Subs,
           \/ Source \/ RunStep \/ Reply \/ ReplayPanics
           \/ EndOfEvents \/ CloseMux \/ CloseDone \/ UNCHANGED vars
           \/ \E t \in Subs : \/ Serve(t) \/ Subscribe(t) \/ SubscribeRefused(t)
                              \/ Cancel(t) \/ CancelReturns(t)
    PROVE  Heard(s)'
<1>1. CASE RunStep
  <2>1. /\ UNCHANGED <<log, reqPc, newcomer, got, pending, Handed, dropped, Submitting>>
        /\ closes'[s] = closes[s] \/ closes'[s] > 0
    BY <1>1, Runs DEF HInv
  <2> QED
    BY <2>1, HeardKept DEF HInv, Listens
<1>2. CASE \/ Source \/ Reply \/ ReplayPanics
           \/ EndOfEvents \/ CloseMux \/ CloseDone \/ UNCHANGED vars
           \/ \E t \in Subs : \/ Serve(t) \/ Subscribe(t) \/ SubscribeRefused(t)
                              \/ Cancel(t) \/ CancelReturns(t)
  <2>1. UNCHANGED <<log, pending, Handed, dropped, Submitting>>
    BY <1>2, Rests DEF HInv
  <2>2. got' = got /\ (closes'[s] = 0 => closes[s] = 0)
    BY <1>2
       DEF Source, Vanish, Appear, Emit, SourceCloses, Reply, ReplayPanics, EndOfEvents, CloseMux,
           CloseDone, Serve, Subscribe, SubscribeRefused, Cancel, CancelReturns, M!Close,
           M!SubscribeCall, M!CancelCall, M!CancelClosed, M!sinkVars, muxVars, subVars, vars,
           HInv, QInv, PInv, CallTypes
  <2>3. Listens(s)' <=> Listens(s)
    <3> USE SliceAssumption DEF Listens, HInv, QInv, Types, PInv, ClosedLast, Serving
    <3>1. CASE \/ Source \/ ReplayPanics \/ EndOfEvents \/ CloseMux \/ CloseDone \/ UNCHANGED vars
      BY <3>1 DEF Source, Vanish, Appear, Emit, SourceCloses, ReplayPanics, EndOfEvents, CloseMux,
                  CloseDone, sliceVars, subVars, vars
    <3>2. CASE Reply
      BY <3>2 DEF Reply
    <3>3. ASSUME NEW t \in Subs, Serve(t)
          PROVE  Listens(s)' <=> Listens(s)
      <4>1. newcomer = None /\ newcomer' = t /\ reqPc[t] = "asking"
            /\ reqPc' = [reqPc EXCEPT ![t] = "served"]
        BY <3>3 DEF Serve, Selecting
      <4> QED
        BY <4>1
    <3>4. ASSUME NEW t \in Subs, \/ Subscribe(t) \/ SubscribeRefused(t)
                                 \/ Cancel(t) \/ CancelReturns(t)
          PROVE  Listens(s)' <=> Listens(s)
      BY <3>4 DEF Subscribe, SubscribeRefused, Cancel, CancelReturns, sliceVars, subVars
    <3> QED
      BY <1>2, <3>1, <3>2, <3>3, <3>4
  <2> QED
    BY <2>1, <2>2, <2>3, HeardKept DEF HInv
<1> QED
  BY <1>1, <1>2

(* got is changed for one subscriber at a time.                            *)
LEMMA SentTo ==
    ASSUME HInv, [Next]_vars
    PROVE  DOMAIN got' = Subs /\ got' = [s \in DOMAIN got' |-> got'[s]]
<1>1. \/ got' = got
      \/ \E t, n : got' = [got EXCEPT ![t] = Append(@, n)]
  BY DEF Next, Source, Slicing, Vanish, Appear, Emit, SourceCloses, OnEvent, SubmitStep, RunStep,
         Reply, Replay, ReplayPanics, EndOfEvents, CloseMux, CloseDone, Serve, Subscribe,
         SubscribeRefused, Cancel, CancelReturns, Deliver, subVars, vars
<1> QED
  BY <1>1 DEF HInv

LEMMA HInitially == Init => HInv
<1> SUFFICES ASSUME Init PROVE HInv
  OBVIOUS
<1>1. QInv
  BY QInitially
<1>2. got = [s \in Subs |-> <<>>] /\ pending = {} /\ \A s \in Subs : ~Listens(s)
  BY DEF Init, M!Init, Listens
<1>3. ASSUME NEW s \in Subs PROVE Heard(s)
  <2>1. got[s] = <<>> /\ s \notin pending /\ ~Listens(s)
    BY <1>2
  <2>2. got[s] \in Seq(1 .. Len(log)) /\ Ascending(got[s])
    BY <2>1 DEF Ascending
  <2> QED
    BY <2>1, <2>2 DEF Heard
<1> QED
  BY <1>1, <1>2, <1>3 DEF HInv

LEMMA HStepwise == HInv /\ [Next]_vars => HInv'
<1> SUFFICES ASSUME HInv, [Next]_vars PROVE HInv'
  OBVIOUS
<1>1. QInv'
  BY QStepwise DEF HInv
<1>2. \A s \in Subs : Heard(s)'
  <2>1. CASE OnEvent
    BY <1>1, <2>1, HeardPublishing
  <2>2. CASE SubmitStep
    BY <1>1, <2>2, HeardSubmits
  <2>3. CASE \E t \in Subs : Deliver(t)
    BY <1>1, <2>3, HeardDelivers
  <2>4. CASE Replay
    BY <1>1, <2>4, HeardReplay
  <2>5. CASE \/ Source \/ RunStep \/ Reply \/ ReplayPanics
             \/ EndOfEvents \/ CloseMux \/ CloseDone \/ UNCHANGED vars
             \/ \E t \in Subs : \/ Serve(t) \/ Subscribe(t) \/ SubscribeRefused(t)
                                \/ Cancel(t) \/ CancelReturns(t)
    BY <2>5, HeardOther
  <2> QED
    BY <2>1, <2>2, <2>3, <2>4, <2>5 DEF Next, Slicing
<1>3. got' \in [Subs -> Seq(Nat)]
  <2>1. DOMAIN got' = Subs /\ got' = [t \in DOMAIN got' |-> got'[t]]
    BY SentTo DEF HInv
  <2>2. \A s \in Subs : got'[s] \in Seq(Nat)
    BY <1>1, <1>2 DEF Heard, QInv, Types
  <2> QED
    BY <2>1, <2>2
<1> QED
  BY <1>1, <1>2, <1>3 DEF HInv

(* A newcomer has the present snapshot first, and then every later one in  *)
(* order and once, but for those whose Submit timed out (udev.go:340-360): *)
(* the goroutine waits for the replay before it submits again.             *)
THEOREM ReplayComesFirst == Spec => []ReplayThenUpdates
<1>1. HInv => ReplayThenUpdates
  <2> SUFFICES ASSUME HInv, NEW s \in Subs
               PROVE  /\ Ascending(got[s])
                      /\ reqPc[s] = "subscribed" /\ s # newcomer /\ closes[s] = 0 =>
                             LET n == got[s][1] IN
                             got[s] # <<>> /\ {got[s][i] : i \in DOMAIN got[s]} =
                                 {n} \union ((n + 1 .. Len(log)) \ (dropped \union InFlight(s)))
    BY DEF ReplayThenUpdates
  <2>1. Heard(s)
    BY DEF HInv
  <2>2. InFlight(s) = Coming(s)
    BY DEF InFlight, Coming, Submitting, Handed, HInv, QInv, Numbers
  <2> QED
    BY <2>1, <2>2 DEF Heard, Listens, InTurn, Has
<1> QED
  BY <1>1, HInitially, HStepwise, PTL DEF Spec

(* The goroutine submits at most one snapshot for each event.              *)
Counted == Len(log) + Len(evCh) <= changes + 1

LEMMA CountedInitially == Init => Counted
BY DEF Init, Counted

LEMMA CountedStepwise ==
    ASSUME Types, Types', Counted, [Next]_vars
    PROVE  Counted'
<1> USE DEF Types, Counted
<1>1. CASE OnEvent
  <2>1. evCh # <<>> /\ evCh' = <<>> /\ changes' = changes
    BY <1>1 DEF OnEvent
  <2>2. log' = log \/ \E ds : log' = Append(log, ds)
    BY <1>1 DEF OnEvent, OnInit, OnAdded, OnRemoved, Publish, Ignore
  <2>3. Len(log') <= Len(log) + 1
    BY <2>2
  <2>4. Len(evCh) \in Nat /\ Len(evCh) # 0 /\ Len(evCh') = 0
    BY <2>1
  <2> QED
    BY <2>1, <2>3, <2>4
<1>2. ASSUME NEW d \in Devices, NEW e, Emit(d, e)
      PROVE  Counted'
  <2>1. log' = log /\ changes' = changes + 1
    BY <1>2 DEF Emit, sliceVars
  <2>2. evCh' = evCh \/ (Len(evCh) = 0 /\ Len(evCh') <= 1)
    BY <1>2 DEF Emit
  <2> QED
    BY <2>1, <2>2
<1>3. CASE UNCHANGED <<log, evCh, changes>>
  BY <1>3
<1>4. CASE SourceCloses \/ SubmitStep \/ RunStep \/ Reply \/ Replay \/ ReplayPanics \/ EndOfEvents
           \/ CloseMux \/ CloseDone \/ UNCHANGED vars
           \/ \E s \in Subs : \/ Serve(s) \/ Subscribe(s) \/ SubscribeRefused(s)
                              \/ Cancel(s) \/ CancelReturns(s) \/ Deliver(s)
  <2>1. UNCHANGED <<log, evCh, changes>>
    BY <1>4 DEF SourceCloses, SubmitStep, RunStep, Reply, Replay, ReplayPanics, EndOfEvents,
                CloseMux, CloseDone, Serve, Subscribe, SubscribeRefused, Cancel, CancelReturns,
                Deliver, sourceVars, sliceVars, vars
  <2> QED
    BY <1>3, <2>1
<1> QED
  BY <1>1, <1>2, <1>4 DEF Next, Source, Slicing, Vanish, Appear

(* The slice keeps to its types: its set and its snapshots are of devices  *)
(* of the source, and there are no more snapshots than events, so that the *)
(* bound on the changes of the source is the only one.                     *)
THEOREM SliceTypeCorrect == Spec => []TypeOK
<1>1. HInv /\ Counted => TypeOK
  <2> SUFFICES ASSUME HInv, Counted PROVE TypeOK
    OBVIOUS
  <2>1. Types
    BY DEF HInv, QInv
  <2>2. Len(log) \in Nat /\ Len(log) <= MaxChanges + 1
    BY <2>1, SliceAssumption DEF Types, Counted
  <2>3. dropped \subseteq 1 .. MaxChanges + 1
    BY <2>2, SliceAssumption DEF HInv, QInv, Numbers
  <2>4. ASSUME NEW s \in Subs PROVE got[s] \in Seq(1 .. MaxChanges + 1)
    <3>1. got[s] \in Seq(1 .. Len(log))
      BY DEF HInv, Heard
    <3> QED
      BY <2>2, <3>1, SliceAssumption
  <2>5. got \in [Subs -> Seq(1 .. MaxChanges + 1)]
    BY <2>4 DEF HInv
  <2> QED
    BY <2>1, <2>2, <2>3, <2>5 DEF Types, TypeOK
<1>2. Init => HInv /\ Counted
  BY HInitially, CountedInitially
<1>3. HInv /\ Counted /\ [Next]_vars => (HInv /\ Counted)'
  BY HStepwise, CountedStepwise, TypesStepwise DEF HInv, QInv
<1> QED
  BY <1>1, <1>2, <1>3, PTL DEF Spec

-----------------------------------------------------------------------------
(* slice.mux is a Mux, whose sinks a refused Subscribe closes behind its   *)
(* back: what it has closed itself leaves those out.                       *)
ByMux == [s \in Subs |-> IF reqPc[s] = "refused" THEN 0 ELSE closes[s]]

MP == INSTANCE MuxProofs WITH
         Submitters <- {Slicer},
         Sinks      <- Subs,
         BufSizes   <- {0},
         MaxSubmits <- MaxChanges + 1,
         closes     <- ByMux

(* The goroutine of slice.mux closes what it was asked to, or what is left *)
(* in outputs, and neither is a channel of a refused caller.               *)
LEMMA ByMuxCloses ==
    ASSUME QInv, NEW s \in Subs, M!RunUnregister(s) \/ M!CloseSink(s), reqPc' = reqPc
    PROVE  ByMux' = [ByMux EXCEPT ![s] = @ + 1]
<1>1. reqPc[s] # "refused"
  BY DEF QInv, Places, M!RunUnregister, M!CloseSink
<1>2. closes' = [closes EXCEPT ![s] = @ + 1] /\ closes \in [Subs -> Nat]
  BY DEF QInv, PInv, CallTypes, M!RunUnregister, M!CloseSink
<1> QED
  BY <1>1, <1>2 DEF ByMux

(* The calls of Mux, and the steps of run that close nothing.              *)
LEMMA ByMuxCalls ==
    ASSUME ByMux' = ByMux,
           \/ M!Close
           \/ M!SubmitCall(Slicer) \/ M!SubmitProceed(Slicer) \/ M!SubmitTimeout(Slicer)
           \/ M!SubmitHandoff(Slicer)
           \/ \E s \in Subs : \/ M!SubscribeCall(s) \/ M!CancelCall(s) \/ M!CancelClosed(s)
                              \/ M!Deliver(s)
    PROVE  MP!Next
<1> USE Zenon DEF M!runVars, M!chanVars, M!callVars, M!sinkVars,
                  MP!runVars, MP!chanVars, MP!callVars, MP!sinkVars
<1>1. M!Close => MP!Close
  BY DEF M!Close, MP!Close
<1>2. M!SubmitCall(Slicer) => MP!SubmitCall(Slicer)
  BY DEF M!SubmitCall, MP!SubmitCall
<1>3. \/ M!SubmitProceed(Slicer) \/ M!SubmitTimeout(Slicer) \/ M!SubmitHandoff(Slicer)
      => MP!Submit(Slicer)
  BY DEF M!SubmitProceed, M!SubmitTimeout, M!SubmitHandoff, M!Dispatch, M!Value, MP!Submit,
         MP!SubmitProceed, MP!SubmitTimeout, MP!SubmitHandoff, MP!Dispatch, MP!Value
<1>4. ASSUME NEW s \in Subs, M!SubscribeCall(s) \/ M!CancelCall(s) \/ M!CancelClosed(s)
      PROVE  MP!Subscriber(s)
  BY <1>4 DEF M!SubscribeCall, M!CancelCall, M!CancelClosed, MP!Subscriber,
              MP!SubscribeCall, MP!CancelCall, MP!CancelClosed
<1>5. ASSUME NEW s \in Subs, M!Deliver(s) PROVE MP!Deliver(s)
  BY <1>5 DEF M!Deliver, M!Current, MP!Deliver, MP!Current
<1> QED
  BY <1>1, <1>2, <1>3, <1>4, <1>5 DEF MP!Next

LEMMA ByMuxRuns ==
    ASSUME QInv, M!Run, reqPc' = reqPc
    PROVE  MP!Run
<1>1. CASE \/ M!RunRecv \/ M!RunDone \/ M!RunDrain \/ M!FlushNext \/ M!FlushDone \/ M!RunExit
           \/ \E s \in Subs : M!RunRegister(s) \/ M!AckRegister(s) \/ M!AckUnregister(s)
  <2>1. closes' = closes
    BY <1>1 DEF M!RunRecv, M!RunDone, M!RunDrain, M!FlushNext, M!FlushDone, M!RunExit,
                M!RunRegister, M!AckRegister, M!AckUnregister, M!sinkVars
  <2>2. ByMux' = ByMux
    BY <2>1 DEF ByMux
  <2>3. ASSUME M!RunRecv \/ M!RunDone \/ M!RunDrain
        PROVE  MP!RunRecv \/ MP!RunDone \/ MP!RunDrain
    BY <2>2, <2>3, Zenon
       DEF M!RunRecv, M!RunDone, M!RunDrain, M!Dispatch,
           M!runVars, M!chanVars, M!callVars, M!sinkVars,
           MP!RunRecv, MP!RunDone, MP!RunDrain, MP!Dispatch,
           MP!runVars, MP!chanVars, MP!callVars, MP!sinkVars
  <2>4. ASSUME M!FlushNext \/ M!FlushDone \/ M!RunExit
        PROVE  MP!FlushNext \/ MP!FlushDone \/ MP!RunExit
    BY <2>2, <2>4, Zenon
       DEF M!FlushNext, M!FlushDone, M!RunExit, M!Dispatch,
           M!runVars, M!chanVars, M!callVars, M!sinkVars,
           MP!FlushNext, MP!FlushDone, MP!RunExit, MP!Dispatch,
           MP!runVars, MP!chanVars, MP!callVars, MP!sinkVars
  <2>5. ASSUME NEW s \in Subs, M!RunRegister(s) \/ M!AckRegister(s) \/ M!AckUnregister(s)
        PROVE  MP!RunRegister(s) \/ MP!AckRegister(s) \/ MP!AckUnregister(s)
    BY <2>2, <2>5, Zenon
       DEF M!RunRegister, M!AckRegister, M!AckUnregister,
           M!runVars, M!chanVars, M!callVars,
           MP!RunRegister, MP!AckRegister, MP!AckUnregister,
           MP!runVars, MP!chanVars, MP!callVars
  <2> QED
    BY <1>1, <2>3, <2>4, <2>5, Zenon DEF MP!Run
<1>2. ASSUME NEW s \in Subs, M!RunUnregister(s) \/ M!CloseSink(s)
      PROVE  MP!RunUnregister(s) \/ MP!CloseSink(s)
  <2>1. ByMux' = [ByMux EXCEPT ![s] = @ + 1]
    BY <1>2, ByMuxCloses
  <2> QED
    BY <1>2, <2>1, Zenon
       DEF M!RunUnregister, M!CloseSink, M!runVars, M!chanVars, M!callVars,
           MP!RunUnregister, MP!CloseSink, MP!runVars, MP!chanVars, MP!callVars
<1> QED
  BY <1>1, <1>2, Zenon DEF M!Run, MP!Run

(* slice.mux takes steps of Mux only, whatever Subscribe closes beside it  *)
(* (udev.go:293-378).                                                      *)
THEOREM SliceIsOnAMux == Spec => MP!Spec
<1>1. Init => MP!Init
  <2> SUFFICES ASSUME Init PROVE MP!Init
    OBVIOUS
  <2>1. ByMux = [s \in Subs |-> 0]
    BY DEF Init, M!Init, ByMux
  <2> QED
    BY <2>1, Zenon DEF Init, M!Init, MP!Init
<1>2. QInv /\ [Next]_vars => [MP!Next]_MP!vars
  <2> SUFFICES ASSUME QInv, [Next]_vars PROVE MP!Next \/ UNCHANGED MP!vars
    BY Zenon
  <2>1. CASE RunStep
    <3>1. M!Run /\ reqPc' = reqPc
      BY <2>1 DEF RunStep, subVars
    <3> QED
      BY <3>1, ByMuxRuns, Zenon DEF MP!Next
  <2>2. CASE \/ OnEvent \/ SubmitStep \/ CloseMux
             \/ \E s \in Subs : Serve(s) \/ Cancel(s) \/ CancelReturns(s) \/ Deliver(s)
    <3>1. closes' = closes
      BY <2>2 DEF OnEvent, OnInit, OnAdded, OnRemoved, Publish, Ignore, SubmitStep, CloseMux,
                  Serve, Cancel, CancelReturns, Deliver, muxVars, M!Close, M!SubmitCall,
                  M!SubmitProceed, M!SubmitTimeout, M!SubmitHandoff, M!SubscribeCall,
                  M!CancelCall, M!CancelClosed, M!Deliver, M!sinkVars
    <3>2. \A s \in Subs : reqPc'[s] = "refused" <=> reqPc[s] = "refused"
      BY <2>2 DEF OnEvent, SubmitStep, CloseMux, Serve, Cancel, CancelReturns, Deliver, subVars,
                  QInv, PInv, CallTypes
    <3>3. ByMux' = ByMux
      BY <3>1, <3>2 DEF ByMux
    <3>4. CASE OnEvent
      <4>1. M!SubmitCall(Slicer) \/ UNCHANGED muxVars
        BY <3>4 DEF OnEvent, OnInit, OnAdded, OnRemoved, Publish, Ignore
      <4>2. CASE UNCHANGED muxVars
        BY <3>3, <4>2 DEF muxVars, MP!vars, MP!runVars, MP!chanVars, MP!callVars, MP!sinkVars
      <4> QED
        BY <3>3, <4>1, <4>2, ByMuxCalls, Zenon
    <3>5. CASE SubmitStep \/ CloseMux
      <4>1. \/ M!Close \/ M!SubmitProceed(Slicer) \/ M!SubmitTimeout(Slicer)
            \/ M!SubmitHandoff(Slicer)
        BY <3>5, Zenon DEF SubmitStep, CloseMux
      <4> QED
        BY <3>3, <4>1, ByMuxCalls, Zenon
    <3>6. ASSUME NEW s \in Subs, Serve(s) \/ Cancel(s) \/ CancelReturns(s) \/ Deliver(s)
          PROVE  MP!Next
      <4>1. M!SubscribeCall(s) \/ M!CancelCall(s) \/ M!CancelClosed(s) \/ M!Deliver(s)
        BY <3>6, Zenon DEF Serve, Cancel, CancelReturns, Deliver
      <4> QED
        BY <3>3, <4>1, ByMuxCalls, Zenon
    <3> QED
      BY <2>2, <3>4, <3>5, <3>6
  <2>3. ASSUME NEW s \in Subs, SubscribeRefused(s)
        PROVE  UNCHANGED MP!vars
    <3>1. reqPc[s] = "asking" /\ closes[s] = 0
      BY <2>3 DEF SubscribeRefused, QInv, Places
    <3>2. ByMux' = ByMux
      BY <2>3, <3>1 DEF SubscribeRefused, ByMux, QInv, PInv, CallTypes
    <3> QED
      BY <2>3, <3>2 DEF SubscribeRefused, MP!vars, MP!runVars, MP!chanVars, MP!callVars,
                        MP!sinkVars
  <2>4. CASE \/ Source \/ Reply \/ Replay \/ ReplayPanics \/ EndOfEvents \/ CloseDone
             \/ UNCHANGED vars \/ \E s \in Subs : Subscribe(s)
    <3>1. UNCHANGED muxVars
      BY <2>4 DEF Source, Vanish, Appear, Emit, SourceCloses, Reply, Replay, ReplayPanics,
                  EndOfEvents, CloseDone, Subscribe, vars
    <3>2. \A s \in Subs : reqPc'[s] = "refused" <=> reqPc[s] = "refused"
      BY <2>4 DEF Source, Vanish, Appear, Emit, SourceCloses, Reply, Replay, ReplayPanics,
                  EndOfEvents, CloseDone, Subscribe, vars, subVars, QInv, PInv, CallTypes, Serving
    <3>3. ByMux' = ByMux
      BY <3>1, <3>2 DEF muxVars, ByMux
    <3> QED
      BY <3>1, <3>3 DEF muxVars, MP!vars, MP!runVars, MP!chanVars, MP!callVars, MP!sinkVars
  <2> QED
    BY <2>1, <2>2, <2>3, <2>4 DEF Next, Slicing
<1> QED
  BY <1>1, <1>2, QInitially, QStepwise, PTL DEF Spec, MP!Spec

(* A channel that Subscribe has closed is never closed by slice.mux.       *)
RefusedOnce == \A s \in Subs : reqPc[s] = "refused" => closes[s] = 1

LEMMA RefusedStepwise == QInv /\ RefusedOnce /\ [Next]_vars => RefusedOnce'
<1> SUFFICES ASSUME QInv, RefusedOnce, [Next]_vars, NEW s \in Subs, reqPc'[s] = "refused"
    PROVE  closes'[s] = 1
  BY DEF RefusedOnce
<1>1. ASSUME NEW t \in Subs, SubscribeRefused(t)
      PROVE  closes'[s] = 1
  BY <1>1 DEF SubscribeRefused, RefusedOnce, QInv, PInv, CallTypes, Places
<1>2. CASE \A t \in Subs : ~SubscribeRefused(t)
  <2>1. reqPc[s] = "refused"
    BY <1>2 DEF Next, Slicing, Source, Vanish, Appear, Emit, SourceCloses, Reply, Replay,
                ReplayPanics, EndOfEvents, CloseMux, CloseDone, OnEvent, SubmitStep, RunStep,
                Serve, Subscribe, Cancel, CancelReturns, Deliver, vars, subVars,
                QInv, PInv, CallTypes, Serving
  <2>2. s \notin outputs /\ subPc[s] = "new"
    BY <2>1 DEF QInv, Places
  <2>3. closes'[s] = closes[s]
    <3>1. CASE RunStep
      BY <2>2, <3>1
         DEF RunStep, M!Run, M!RunRecv, M!RunDone, M!RunDrain, M!FlushNext, M!FlushDone,
             M!RunExit, M!RunRegister, M!AckRegister, M!RunUnregister, M!AckUnregister,
             M!CloseSink, M!sinkVars, QInv, PInv, CallTypes
    <3>2. CASE ~RunStep
      BY <1>2, <3>2
         DEF Next, Slicing, Source, Vanish, Appear, Emit, SourceCloses, Reply, Replay,
             ReplayPanics, EndOfEvents, CloseMux, CloseDone, OnEvent, OnInit, OnAdded, OnRemoved,
             Publish, Ignore, SubmitStep, Serve, Subscribe, Cancel, CancelReturns, Deliver,
             M!Close, M!SubmitCall, M!SubmitProceed, M!SubmitTimeout, M!SubmitHandoff,
             M!SubscribeCall, M!CancelCall, M!CancelClosed, M!Deliver, M!sinkVars, vars, muxVars
    <3> QED
      BY <3>1, <3>2
  <2> QED
    BY <2>1, <2>3 DEF RefusedOnce
<1> QED
  BY <1>1, <1>2

(* What Mux promises holds of slice.mux, and of the two who close channels *)
(* together: no subscriber's channel is closed twice, by slice.mux or by a *)
(* Subscribe that comes too late, and none is sent a snapshot by slice.mux *)
(* after that (udev.go:293-378 and mux.go:263-337).                        *)
THEOREM SliceKeepsMux ==
    Spec => /\ [](MP!InOrder /\ MP!ExitDeliversAll /\ M!SinkClosedOnce)
            /\ M!NoSubmitAfterClose
<1>1. {0} \subseteq Nat /\ MaxChanges + 1 \in Nat
  BY SliceAssumption
<1>2. /\ MP!Spec => []MP!InOrder
      /\ MP!Spec => []MP!ExitDeliversAll
      /\ MP!Spec => []MP!SinkClosedOnce
  BY <1>1, MP!NothingLost, MP!ShutdownLosesNothing, MP!ClosedAtMostOnce
<1>3. QInv /\ RefusedOnce /\ MP!SinkClosedOnce => M!SinkClosedOnce
  BY DEF MP!SinkClosedOnce, M!SinkClosedOnce, ByMux, RefusedOnce, QInv, Places
<1>4. QInv /\ [Next]_vars => [\A s \in Subs : closes[s] > 0 => recv'[s] = recv[s]]_M!vars
  <2> SUFFICES ASSUME QInv, [Next]_vars, NEW s \in Subs, closes[s] > 0
      PROVE  recv'[s] = recv[s]
    OBVIOUS
  <2>1. s \notin pending
    BY DEF QInv, Places, PInv, CallTypes
  <2>2. ASSUME NEW t \in Subs, Deliver(t) PROVE recv'[s] = recv[s]
    BY <2>1, <2>2 DEF Deliver, M!Deliver
  <2>3. CASE RunStep
    BY <2>3
       DEF RunStep, M!Run, M!RunRecv, M!RunDone, M!RunDrain, M!FlushNext, M!FlushDone,
           M!RunExit, M!RunRegister, M!AckRegister, M!RunUnregister, M!AckUnregister, M!CloseSink
  <2>4. CASE ~RunStep /\ \A t \in Subs : ~Deliver(t)
    BY <2>4
       DEF Next, Slicing, Source, Vanish, Appear, Emit, SourceCloses, Reply, Replay,
           ReplayPanics, EndOfEvents, CloseMux, CloseDone, OnEvent, OnInit, OnAdded, OnRemoved,
           Publish, Ignore, SubmitStep, Serve, Subscribe, SubscribeRefused, Cancel,
           CancelReturns, M!Close, M!SubmitCall, M!SubmitProceed, M!SubmitTimeout,
           M!SubmitHandoff, M!SubscribeCall, M!CancelCall, M!CancelClosed, vars, muxVars
  <2> QED
    BY <2>2, <2>3, <2>4
<1>5. Init => RefusedOnce
  BY DEF Init, M!Init, RefusedOnce
<1> QED
  BY <1>2, <1>3, <1>4, <1>5, SliceIsOnAMux, QInitially, QStepwise, RefusedStepwise, PTL
     DEF Spec, M!NoSubmitAfterClose

-----------------------------------------------------------------------------
(* What the liveness properties rest on.                                   *)

(* The newcomer that is served has called slice.mux.Subscribe and has not  *)
(* been turned away.                                                       *)
Attends == slicePc = "subscribe" => subPc[newcomer] \in {"registering", "regWait", "subscribed"}

LEMMA AttendsStep == QInv /\ Attends /\ [Next]_vars => Attends'
<1> SUFFICES ASSUME QInv, Attends, [Next]_vars, slicePc' = "subscribe"
    PROVE  subPc'[newcomer'] \in {"registering", "regWait", "subscribed"}
  BY DEF Attends
<1> USE DEF QInv, PInv, CallTypes
<1>1. ASSUME NEW s \in Subs, Serve(s)
      PROVE  subPc'[newcomer'] = "registering"
  BY <1>1 DEF Serve, M!SubscribeCall
<1>2. CASE \A s \in Subs : ~Serve(s)
  <2>1. slicePc = "subscribe" /\ newcomer' = newcomer
    <3>1. ~Replay
      BY DEF Replay, Replaying, Serving
    <3>2. CASE Source \/ OnEvent \/ SubmitStep \/ RunStep \/ UNCHANGED vars
      BY <3>2 DEF Source, Vanish, Appear, Emit, SourceCloses, OnEvent, SubmitStep, RunStep, vars,
                  sliceVars
    <3>3. CASE Reply \/ ReplayPanics \/ EndOfEvents \/ CloseMux \/ CloseDone
      BY <3>3 DEF Reply, ReplayPanics, EndOfEvents, CloseMux, CloseDone
    <3>4. CASE \E s \in Subs : \/ Subscribe(s) \/ SubscribeRefused(s) \/ Cancel(s)
                              \/ CancelReturns(s) \/ Deliver(s)
      BY <3>4 DEF Subscribe, SubscribeRefused, Cancel, CancelReturns, Deliver, sliceVars
    <3> QED
      BY <1>2, <3>1, <3>2, <3>3, <3>4 DEF Next, Slicing
  <2>2. newcomer \in Subs /\ reqPc[newcomer] = "served"
    BY <2>1 DEF Serving
  <2>3. subPc[newcomer] \in {"registering", "regWait", "subscribed"}
    BY <2>1 DEF Attends
  <2>4. CASE RunStep
    BY <2>1, <2>2, <2>3, <2>4
       DEF RunStep, M!Run, M!RunRecv, M!RunDone, M!RunDrain, M!FlushNext, M!FlushDone, M!RunExit,
           M!RunRegister, M!AckRegister, M!RunUnregister, M!AckUnregister, M!CloseSink, M!sinkVars
  <2>5. ASSUME NEW s \in Subs, Cancel(s) \/ CancelReturns(s)
        PROVE  subPc'[newcomer] = subPc[newcomer]
    BY <2>2, <2>3, <2>5 DEF Cancel, CancelReturns, M!CancelCall, M!CancelClosed
  <2>6. CASE ~RunStep /\ \A s \in Subs : ~Cancel(s) /\ ~CancelReturns(s)
    <3>1. subPc' = subPc
      BY <1>2, <2>6
         DEF Next, Slicing, Source, Vanish, Appear, Emit, SourceCloses, OnEvent, OnInit, OnAdded,
             OnRemoved, Publish, Ignore, SubmitStep, Reply, Replay, ReplayPanics, EndOfEvents,
             CloseMux, CloseDone, Subscribe, SubscribeRefused, Deliver, M!Close, M!SubmitCall,
             M!SubmitProceed, M!SubmitTimeout, M!SubmitHandoff, M!Deliver, M!sinkVars, vars,
             muxVars
    <3> QED
      BY <2>1, <2>3, <3>1
  <2> QED
    BY <2>1, <2>3, <2>4, <2>5, <2>6
<1> QED
  BY <1>1, <1>2

(* While the slice's goroutine waits in slice.mux.Subscribe, the goroutine *)
(* of slice.mux is in its loop and has the request before it, is answering *)
(* it, or has answered.                                                    *)
SlicerIsHeard ==
    slicePc = "subscribe" =>
        \/ subPc[newcomer] = "subscribed"
        \/ subPc[newcomer] = "regWait" /\ runPc = "ackRegister"
        \/ /\ subPc[newcomer] = "registering"
           /\ runPc \in {"select", "fanout", "ackRegister", "ackUnregister"}

(* When slice.mux has come to its end, no caller whose Subscribe returned  *)
(* is left with an open channel, accepted or refused.                      *)
EndClosesChannels ==
    runPc = "exited" =>
        \A s \in Subs : reqPc[s] \in {"subscribed", "refused"} => closes[s] = 1

(* The slice never waits on a slice.mux that is gone, and when that has    *)
(* ended the channel of every caller whose Subscribe has returned has been *)
(* closed, exactly once, by slice.mux or by Subscribe: what NobodyStuck    *)
(* and EndClosesSinks come to without fairness (udev.go:293-378).          *)
THEOREM NobodyIsLeftBehind == Spec => [](SlicerIsHeard /\ EndClosesChannels)
<1>1. {0} \subseteq Nat /\ MaxChanges + 1 \in Nat
  BY SliceAssumption
<1>2. MP!Spec => [](MP!Attended /\ MP!IInv /\ MP!SinkClosedOnce)
  <2>1. MP!Spec => []MP!Attended
    BY <1>1, MP!NobodyIsLeftWaiting
  <2>2. MP!Spec => []MP!IInv
    BY <1>1, MP!Invariance
  <2>3. MP!Spec => []MP!SinkClosedOnce
    BY <1>1, MP!ClosedAtMostOnce
  <2> QED
    BY <2>1, <2>2, <2>3, PTL
<1>3. QInv /\ Attends /\ MP!Attended => SlicerIsHeard
  <2> SUFFICES ASSUME QInv, Attends, MP!Attended, slicePc = "subscribe" PROVE SlicerIsHeard
    BY DEF SlicerIsHeard
  <2>1. newcomer \in Subs /\ ~done
    BY DEF QInv, PInv, Serving, ClosedLast
  <2> QED
    BY <2>1 DEF Attends, MP!Attended, SlicerIsHeard
<1>4. QInv /\ RefusedOnce /\ MP!IInv /\ MP!SinkClosedOnce => EndClosesChannels
  <2> SUFFICES ASSUME QInv, RefusedOnce, MP!IInv, MP!SinkClosedOnce, runPc = "exited",
                      NEW s \in Subs, reqPc[s] \in {"subscribed", "refused"}
      PROVE  closes[s] = 1
    BY DEF EndClosesChannels
  <2>1. CASE reqPc[s] = "refused"
    BY <2>1 DEF RefusedOnce
  <2>2. CASE reqPc[s] = "subscribed"
    <3>1. outputs = {}
      BY DEF MP!IInv, MP!RunShape
    <3>2. closes[s] # 0 /\ closes[s] \in Nat
      BY <2>2, <3>1 DEF QInv, PInv, CallTypes, Places
    <3>3. closes[s] <= 1
      BY <2>2, <3>1 DEF MP!SinkClosedOnce, ByMux
    <3> QED
      BY <3>2, <3>3
  <2> QED
    BY <2>1, <2>2
<1>5. Init => RefusedOnce /\ Attends
  BY DEF Init, M!Init, RefusedOnce, Attends
<1> QED
  BY <1>2, <1>3, <1>4, <1>5, AttendsStep, RefusedStepwise, QInitially, QStepwise, SliceIsOnAMux,
     PTL DEF Spec
=============================================================================
