------------------------------ MODULE Resource ------------------------------
(***************************************************************************)
(* A device-plugin resource of internal/plugin/resource.go and the gRPC    *)
(* handlers that read it (plugin.go, ListAndWatch).                        *)
(*                                                                         *)
(* The owner is the one goroutine that made the resource (a scatter): it   *)
(* calls Submit for every health event, and may end with Close (a scatter  *)
(* does when the registry refuses the resource; the tests do at any time). *)
(* Each watcher is one ListAndWatch stream: the handler, the channel it    *)
(* reads, the context of the stream and the goroutine that waits to cancel *)
(* its subscription.                                                       *)
(*                                                                         *)
(* r.broadcast is an instance of Mux with an unbuffered input, the owner   *)
(* as its only submitter and the watchers' channels as its sinks.  The     *)
(* content of r.instances is abstracted to a version, the number of events *)
(* applied; a snapshot is the version it was taken at, and the value of    *)
(* the owner's n-th call of broadcast.Submit is the snapshot of version n. *)
(***************************************************************************)
EXTENDS Integers, Sequences, FiniteSets

CONSTANTS
    Owner,          \* the goroutine that submits health events
    Watchers,       \* the ListAndWatch streams, each opened at most once
    MaxSubmits      \* bound on the health events

ASSUME ResourceAssumption == MaxSubmits \in Nat

(* make(chan []Instance, 2)                                                *)
ChanCap == 2

VARIABLES
    inBufSize, input, outputs, done, runPc, pending, buffered, submitPc, calls,
    subPc, closes, sent, dispatched, base, recv     \* r.broadcast

VARIABLES
    version,        \* number of health events applied to r.instances
    ownerPc,        \* where the owner is
    rdone,          \* TRUE when the channel r.done is closed
    lwPc,           \* where each stream's handler is
    snap,           \* the snapshot ListAndWatch takes for its replay
    queued,         \* number of snapshots unread in the stream's channel
    ctxDone,        \* TRUE when the stream's context is done
    canceller,      \* where the goroutine of resource.ListAndWatch is
    crashed,        \* TRUE after a send on a closed channel
    told            \* history: every version put into the stream's channel

M == INSTANCE Mux WITH Submitters <- {Owner}, Sinks <- Watchers, BufSizes <- {0}

muxVars  == <<inBufSize, input, outputs, done, runPc, pending, buffered, submitPc,
              calls, subPc, closes, sent, dispatched, base, recv>>
lwVars   == <<lwPc, snap, ctxDone, canceller>>
chanVars == <<queued, told>>
vars     == <<muxVars, version, ownerPc, rdone, lwVars, chanVars, crashed>>

OwnerPcs   == {"idle", "lock", "unlocked", "submit", "close", "closed"}
LwPcs      == {"idle", "rlock", "subscribe", "replay", "watching", "gone", "refused"}
Cancellers == {"none", "waiting", "called", "ended"}

Init ==
    /\ M!Init
    /\ version = 0
    /\ ownerPc = "idle"
    /\ rdone = FALSE
    /\ lwPc = [w \in Watchers |-> "idle"]
    /\ snap = [w \in Watchers |-> 0]
    /\ queued = [w \in Watchers |-> 0]
    /\ ctxDone = [w \in Watchers |-> FALSE]
    /\ canceller = [w \in Watchers |-> "none"]
    /\ crashed = FALSE
    /\ told = [w \in Watchers |-> <<>>]

(* A watcher holds r.mu for reading while it subscribes.                   *)
Readers == {w \in Watchers : lwPc[w] = "subscribe"}

(* A panic ends the program: no goroutine takes a step after it.           *)
Running == ~crashed /\ UNCHANGED crashed

Put(w, v) ==
    /\ queued' = [queued EXCEPT ![w] = @ + 1]
    /\ told' = [told EXCEPT ![w] = Append(@, v)]

-----------------------------------------------------------------------------
(* Slips: what the code might say instead, one for each property.          *)

(* A channel with one place more than is counted on.                       *)
HasRoomForThird(w) == queued[w] <= ChanCap

(* A chanSink that drops a value instead of waiting for room.              *)
DeliverOrDrop(w) ==
    /\ Running
    /\ M!Deliver(w)
    /\ IF queued[w] < ChanCap THEN Put(w, M!Current[2]) ELSE UNCHANGED chanVars
    /\ UNCHANGED <<version, ownerPc, rdone, lwVars>>

(* The replay is left to a goroutine and the channel returned before it.   *)
ReceiveEarly(w) ==
    /\ Running
    /\ lwPc[w] \in {"replay", "watching"}
    /\ queued[w] > 0
    /\ queued' = [queued EXCEPT ![w] = @ - 1]
    /\ UNCHANGED <<muxVars, version, ownerPc, rdone, lwVars, told>>

(* A goroutine that does not wait for the context.                         *)
CancelAtOnce(w) ==
    /\ Running
    /\ canceller[w] = "waiting"
    /\ M!CancelCall(w)
    /\ canceller' = [canceller EXCEPT ![w] = "called"]
    /\ UNCHANGED <<version, ownerPc, rdone, lwPc, snap, ctxDone, chanVars>>

-----------------------------------------------------------------------------
(* The channel of a stream: closed by its sink's Close.                    *)
HasRoom(w) == queued[w] < ChanCap
ChClosed(w) == closes[w] > 0

-----------------------------------------------------------------------------
(* Submit: the owner waits for r.mu, applies the event and takes the       *)
(* snapshot in one critical section, and submits it with r.mu released.    *)

SubmitLock ==
    /\ Running
    /\ ownerPc = "idle"
    /\ version < MaxSubmits
    /\ ownerPc' = "lock"
    /\ UNCHANGED <<muxVars, version, rdone, lwVars, chanVars>>

SubmitApply ==
    /\ Running
    /\ ownerPc = "lock"
    /\ Readers = {}
    /\ version' = version + 1
    /\ ownerPc' = "unlocked"
    /\ UNCHANGED <<muxVars, rdone, lwVars, chanVars>>

SubmitBroadcast ==
    /\ Running
    /\ ownerPc = "unlocked"
    /\ M!SubmitCall(Owner)
    /\ ownerPc' = "submit"
    /\ UNCHANGED <<version, rdone, lwVars, chanVars>>

(* broadcast.Submit goes on, and Submit returns with it.                   *)
SubmitStep ==
    /\ Running
    /\ ownerPc = "submit"
    /\ M!Submit(Owner)
    /\ ownerPc' = IF submitPc'[Owner] = "idle" THEN "idle" ELSE "submit"
    /\ UNCHANGED <<version, rdone, lwVars, chanVars>>

-----------------------------------------------------------------------------
(* Close.                                                                  *)

CloseDone ==
    /\ Running
    /\ ownerPc = "idle"
    /\ rdone' = TRUE
    /\ ownerPc' = "close"
    /\ UNCHANGED <<muxVars, version, lwVars, chanVars>>

CloseBroadcast ==
    /\ Running
    /\ ownerPc = "close"
    /\ M!Close
    /\ ownerPc' = "closed"
    /\ UNCHANGED <<version, rdone, lwVars, chanVars>>

-----------------------------------------------------------------------------
(* resource.ListAndWatch.                                                  *)

(* The check of r.done: a closed channel is returned, or r.mu is asked for.*)
Watch(w) ==
    /\ Running
    /\ lwPc[w] = "idle"
    /\ lwPc' = [lwPc EXCEPT ![w] = IF rdone THEN "refused" ELSE "rlock"]
    /\ UNCHANGED <<muxVars, version, ownerPc, rdone, snap, ctxDone, canceller,
                   chanVars>>

(* RLock, which a waiting writer holds back, and the call of Subscribe.    *)
WatchSubscribe(w) ==
    /\ Running
    /\ lwPc[w] = "rlock"
    /\ ownerPc # "lock"
    /\ M!SubscribeCall(w)
    /\ lwPc' = [lwPc EXCEPT ![w] = "subscribe"]
    /\ UNCHANGED <<version, ownerPc, rdone, snap, ctxDone, canceller, chanVars>>

(* Subscribe has returned: the snapshot is taken and r.mu released.        *)
WatchSnapshot(w) ==
    /\ Running
    /\ lwPc[w] = "subscribe"
    /\ subPc[w] \in {"subscribed", "unheard"}
    /\ snap' = [snap EXCEPT ![w] = version]
    /\ lwPc' = [lwPc EXCEPT ![w] = "replay"]
    /\ UNCHANGED <<muxVars, version, ownerPc, rdone, ctxDone, canceller, chanVars>>

(* ch <- snapshot; the canceller is started and the handler starts to read.*)
WatchReplay(w) ==
    /\ Running
    /\ lwPc[w] = "replay"
    /\ HasRoom(w)
    /\ ~ChClosed(w)
    /\ Put(w, snap[w])
    /\ lwPc' = [lwPc EXCEPT ![w] = "watching"]
    /\ canceller' = [canceller EXCEPT ![w] = "waiting"]
    /\ UNCHANGED <<muxVars, version, ownerPc, rdone, snap, ctxDone>>

(* run has closed the channel meanwhile: the send panics.                  *)
WatchPanic(w) ==
    /\ ~crashed
    /\ lwPc[w] = "replay"
    /\ ChClosed(w)
    /\ crashed' = TRUE
    /\ UNCHANGED <<muxVars, version, ownerPc, rdone, lwVars, chanVars>>

(* The goroutine's select: the context, which calls the CancelFunc (of no  *)
(* effect if Subscribe found the mux closed), or r.done.                   *)
CancelOnContext(w) ==
    /\ Running
    /\ canceller[w] = "waiting"
    /\ ctxDone[w]
    /\ M!CancelCall(w)
    /\ canceller' = [canceller EXCEPT ![w] = "called"]
    /\ UNCHANGED <<version, ownerPc, rdone, lwPc, snap, ctxDone, chanVars>>

CancellerEnds(w) ==
    /\ Running
    /\ canceller[w] = "waiting"
    /\ rdone \/ (ctxDone[w] /\ subPc[w] = "unheard")
    /\ canceller' = [canceller EXCEPT ![w] = "ended"]
    /\ UNCHANGED <<muxVars, version, ownerPc, rdone, lwPc, snap, ctxDone, chanVars>>

-----------------------------------------------------------------------------
(* The handler, plugin.ListAndWatch, and its stream.                       *)

(* The client goes away, or a Send fails.                                  *)
StreamEnds(w) ==
    /\ Running
    /\ lwPc[w] \notin {"idle", "gone", "refused"}
    /\ ~ctxDone[w]
    /\ ctxDone' = [ctxDone EXCEPT ![w] = TRUE]
    /\ UNCHANGED <<muxVars, version, ownerPc, rdone, lwPc, snap, canceller, chanVars>>

Receive(w) ==
    /\ Running
    /\ lwPc[w] = "watching"
    /\ queued[w] > 0
    /\ queued' = [queued EXCEPT ![w] = @ - 1]
    /\ UNCHANGED <<muxVars, version, ownerPc, rdone, lwVars, told>>

(* The channel is closed and empty, or the context is done: the handler    *)
(* returns, which ends the context if nothing else has.                    *)
HandlerReturns(w) ==
    /\ Running
    /\ lwPc[w] = "watching"
    /\ ctxDone[w] \/ (ChClosed(w) /\ queued[w] = 0)
    /\ lwPc' = [lwPc EXCEPT ![w] = "gone"]
    /\ ctxDone' = [ctxDone EXCEPT ![w] = TRUE]
    /\ UNCHANGED <<muxVars, version, ownerPc, rdone, snap, canceller, chanVars>>

-----------------------------------------------------------------------------
(* The goroutine of r.broadcast, and the calls that wait for it.           *)

(* chanSink.Submit: run waits for room in the channel.                     *)
Deliver(w) ==
    /\ Running
    /\ HasRoom(w)
    /\ M!Deliver(w)
    /\ Put(w, M!Current[2])
    /\ UNCHANGED <<version, ownerPc, rdone, lwVars>>

RunStep ==
    /\ Running
    /\ M!Run
    /\ UNCHANGED <<version, ownerPc, rdone, lwVars, chanVars>>

CallReturns(w) ==
    /\ Running
    /\ M!SubscribeClosed(w) \/ M!CancelClosed(w)
    /\ UNCHANGED <<version, ownerPc, rdone, lwVars, chanVars>>

-----------------------------------------------------------------------------
OwnerNext == SubmitLock \/ SubmitApply \/ SubmitBroadcast \/ SubmitStep
                 \/ CloseDone \/ CloseBroadcast

WatcherNext(w) ==
    \/ Watch(w) \/ WatchSubscribe(w) \/ WatchSnapshot(w) \/ WatchReplay(w) \/ WatchPanic(w)
    \/ CancelOnContext(w) \/ CancellerEnds(w)
    \/ StreamEnds(w) \/ Receive(w) \/ HandlerReturns(w)

Next ==
    \/ OwnerNext
    \/ RunStep
    \/ \E w \in Watchers : WatcherNext(w) \/ Deliver(w) \/ CallReturns(w)

Spec == Init /\ [][Next]_vars

(* Every goroutine that can take a step does, the handler that reads       *)
(* included; nobody must open a stream, end one, submit or close.          *)
Fairness ==
    /\ WF_vars(RunStep)
    /\ WF_vars(SubmitApply \/ SubmitBroadcast \/ SubmitStep \/ CloseBroadcast)
    /\ \A w \in Watchers :
           /\ WF_vars(WatchSubscribe(w) \/ WatchSnapshot(w) \/ WatchReplay(w) \/ WatchPanic(w))
           /\ WF_vars(CancelOnContext(w) \/ CancellerEnds(w))
           /\ WF_vars(Receive(w) \/ HandlerReturns(w))
           /\ WF_vars(Deliver(w))
           /\ WF_vars(CallReturns(w))

FairSpec == Spec /\ Fairness

-----------------------------------------------------------------------------
(* Properties.                                                             *)

(* Type correctness of the resource's own state.                           *)
TypeOK ==
    /\ version \in 0 .. MaxSubmits
    /\ ownerPc \in OwnerPcs
    /\ rdone \in BOOLEAN
    /\ lwPc \in [Watchers -> LwPcs]
    /\ snap \in [Watchers -> 0 .. MaxSubmits]
    /\ queued \in [Watchers -> 0 .. ChanCap]
    /\ ctxDone \in [Watchers -> BOOLEAN]
    /\ canceller \in [Watchers -> Cancellers]
    /\ crashed \in BOOLEAN
    /\ told \in [Watchers -> Seq(0 .. MaxSubmits)]

(* No update falls between the snapshot a stream starts from and its       *)
(* subscription: whatever the broadcast has handed round that is newer     *)
(* than the snapshot has been put into the stream's channel.               *)
NoMissedUpdate ==
    \A w \in outputs : lwPc[w] \in {"replay", "watching"} =>
        \A i \in 1 .. M!Served(w) :
            dispatched[i][2] > snap[w] =>
                \E j \in DOMAIN told[w] : told[w][j] = dispatched[i][2]

(* A stream is told the broadcast's updates in their order, with the       *)
(* replay of the snapshot first or second: one update may slip in between  *)
(* RUnlock and the send, and if two do the handler never starts to read.   *)
ReplayAtMostOneLate ==
    \A w \in Watchers : lwPc[w] \in {"watching", "gone"} =>
        LET updates == [i \in DOMAIN recv[w] |-> recv[w][i][2]]
        IN  \E k \in 0 .. ChanCap - 1 :
                told[w] = SubSeq(updates, 1, k) \o <<snap[w]>>
                              \o SubSeq(updates, k + 1, Len(updates))

(* A stream's channel is closed only when its context is done or the       *)
(* resource is closed.                                                     *)
LiveStreamsStayOpen ==
    \A w \in Watchers : ChClosed(w) => ctxDone[w] \/ rdone

(* "The subscriber receives the replay snapshot before any future update": *)
(* nothing newer than the snapshot is in the channel before it.            *)
ReplayFirst ==
    \A w \in Watchers : lwPc[w] = "replay" =>
        \A j \in DOMAIN told[w] : told[w][j] <= snap[w]

(* "The subscription is cancelled when ctx is done."                       *)
ContextEndsSubscription ==
    \A w \in Watchers :
        ctxDone[w] /\ lwPc[w] \in {"watching", "gone"} ~> w \notin outputs
=============================================================================
