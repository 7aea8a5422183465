---------------------------- MODULE ResourceProofs ----------------------------
(***************************************************************************)
(* Proofs about Resource, for any streams and number of health events.     *)
(***************************************************************************)
EXTENDS Resource, SequenceTheorems, TLAPS

(* Versions that an update may carry.                                      *)
Versions == 1 .. MaxSubmits

(* What the broadcast holds: the input has no buffer, so nothing is ever   *)
(* left in it, or to be drained from it.                                   *)
BroadcastTypes ==
    /\ inBufSize = 0 /\ input = <<>> /\ buffered = <<>>
    /\ runPc \in M!RunPcs
    /\ outputs \subseteq Watchers
    /\ pending \subseteq outputs
    /\ submitPc \in [{Owner} -> M!SubmitPcs]
    /\ calls \in [{Owner} -> 0 .. MaxSubmits]
    /\ subPc \in [Watchers -> M!SubPcs]
    /\ closes \in [Watchers -> Nat]
    /\ dispatched \in Seq({Owner} \X Versions)
    /\ base \in [Watchers -> Nat]
    /\ recv \in [Watchers -> Seq({Owner} \X Versions)]

(* The place of run, and the owner's calls.                                *)
RunPlace ==
    /\ runPc # "fanout" => pending = {}
    /\ pending # {} => dispatched # <<>>
    /\ runPc \in {"lock", "flush", "closing", "exited"} => done
    /\ done => rdone

OwnerPlace ==
    /\ submitPc[Owner] # "idle" => calls[Owner] > 0
    /\ calls[Owner] <= version
    /\ ownerPc = "unlocked" => calls[Owner] < version
    /\ ownerPc = "lock" => version < MaxSubmits
    /\ ownerPc \in {"close", "closed"} => rdone

(* The place of a stream and of its subscription.                          *)
WatcherPlace ==
    \A w \in Watchers :
        /\ lwPc[w] \in {"replay", "watching", "gone"} =>
               subPc[w] \notin {"new", "registering", "regWait"}
        /\ subPc[w] \in {"cancelling", "unregWait", "cancelled", "released"} => ctxDone[w]
        /\ lwPc[w] \notin {"watching", "gone"} => queued[w] = Len(told[w])

Shape == BroadcastTypes /\ TypeOK /\ RunPlace /\ OwnerPlace /\ WatcherPlace
             /\ LiveStreamsStayOpen

LEMMA InitShape == Init => Shape
<1> SUFFICES ASSUME Init PROVE Shape
  OBVIOUS
<1> USE ResourceAssumption DEF Init, M!Init
<1>1. BroadcastTypes
  BY EmptySeq DEF BroadcastTypes, M!RunPcs, M!SubmitPcs, M!SubPcs
<1>2. TypeOK
  <2>1. told \in [Watchers -> Seq(0 .. MaxSubmits)]
    BY EmptySeq
  <2>2. rdone \in BOOLEAN /\ crashed \in BOOLEAN
    OBVIOUS
  <2>3. ctxDone \in [Watchers -> BOOLEAN]
    OBVIOUS
  <2>4. snap \in [Watchers -> 0 .. MaxSubmits] /\ version \in 0 .. MaxSubmits
    OBVIOUS
  <2>5. queued \in [Watchers -> 0 .. ChanCap]
    BY DEF ChanCap
  <2>6. ownerPc \in OwnerPcs /\ lwPc \in [Watchers -> LwPcs] /\ canceller \in [Watchers -> Cancellers]
    BY DEF OwnerPcs, LwPcs, Cancellers
  <2> QED
    BY <2>1, <2>2, <2>3, <2>4, <2>5, <2>6 DEF TypeOK
<1>3. RunPlace /\ OwnerPlace
  BY DEF RunPlace, OwnerPlace
<1>4. WatcherPlace /\ LiveStreamsStayOpen
  BY EmptySeq DEF WatcherPlace, LiveStreamsStayOpen, ChClosed
<1> QED
  BY <1>1, <1>2, <1>3, <1>4 DEF Shape

(* The update in run's hands.                                              *)
LEMMA CurrentVersion ==
    ASSUME Shape, pending # {}
    PROVE  /\ Len(dispatched) \in Nat \ {0}
           /\ M!Current \in {Owner} \X Versions
           /\ M!Current[2] \in Versions
<1>1. dispatched \in Seq({Owner} \X Versions) /\ dispatched # <<>>
  BY DEF Shape, BroadcastTypes, RunPlace
<1>2. Len(dispatched) \in Nat \ {0}
  BY <1>1, EmptySeq, LenProperties
<1>3. M!Current \in {Owner} \X Versions
  BY <1>1, <1>2, ElementOfSeq DEF M!Current
<1> QED
  BY <1>2, <1>3

(* A step of the program that leaves the broadcast alone.                  *)
LEMMA BroadcastRests ==
    ASSUME BroadcastTypes, UNCHANGED muxVars
    PROVE  BroadcastTypes'
BY DEF BroadcastTypes, muxVars

(* The owner's steps that leave the broadcast alone.                       *)
LEMMA OwnerSteps ==
    ASSUME Shape, SubmitLock \/ SubmitApply \/ CloseDone
    PROVE  Shape'
<1> USE DEF Shape, Running, SubmitLock, SubmitApply, CloseDone
<1>1. BroadcastTypes'
  BY BroadcastRests
<1>2. TypeOK'
  <2>1. version' \in 0 .. MaxSubmits /\ ownerPc' \in OwnerPcs
    BY ResourceAssumption DEF OwnerPlace, TypeOK, OwnerPcs
  <2>2. rdone' \in BOOLEAN /\ crashed' \in BOOLEAN
    BY DEF TypeOK
  <2>3. UNCHANGED <<lwVars, chanVars>>
    OBVIOUS
  <2> QED
    BY <2>1, <2>2, <2>3 DEF TypeOK, lwVars, chanVars
<1>3. RunPlace' /\ OwnerPlace'
  BY DEF RunPlace, OwnerPlace, muxVars, BroadcastTypes, TypeOK
<1>4. WatcherPlace' /\ LiveStreamsStayOpen'
  BY DEF WatcherPlace, LiveStreamsStayOpen, ChClosed, muxVars, lwVars, chanVars
<1> QED
  BY <1>1, <1>2, <1>3, <1>4

(* A stream's own steps.                                                   *)
LEMMA StreamSteps ==
    ASSUME Shape, NEW w \in Watchers,
           \/ Watch(w) \/ WatchSnapshot(w) \/ WatchReplay(w) \/ WatchPanic(w)
           \/ CancellerEnds(w) \/ StreamEnds(w) \/ Receive(w) \/ HandlerReturns(w)
    PROVE  Shape'
<1> USE DEF Shape, Running, HasRoom, Put
<1>1. UNCHANGED <<muxVars, version, ownerPc, rdone>>
  BY DEF Watch, WatchSnapshot, WatchReplay, WatchPanic, CancellerEnds, StreamEnds, Receive,
         HandlerReturns
<1>2. BroadcastTypes' /\ RunPlace' /\ OwnerPlace'
  BY <1>1, BroadcastRests DEF RunPlace, OwnerPlace, muxVars
<1>3. CASE Watch(w)
  <2>1. lwPc' \in [Watchers -> LwPcs] /\ UNCHANGED <<snap, ctxDone, canceller, chanVars, crashed>>
    BY <1>3 DEF Watch, TypeOK, LwPcs
  <2>2. TypeOK'
    BY <1>1, <2>1 DEF TypeOK, chanVars
  <2>3. WatcherPlace' /\ LiveStreamsStayOpen'
    BY <1>1, <1>3, <2>1
       DEF Watch, TypeOK, WatcherPlace, LiveStreamsStayOpen, ChClosed, muxVars, chanVars
  <2> QED
    BY <1>2, <2>2, <2>3
<1>4. CASE WatchSnapshot(w)
  <2>1. /\ lwPc' \in [Watchers -> LwPcs] /\ snap' \in [Watchers -> 0 .. MaxSubmits]
        /\ UNCHANGED <<ctxDone, canceller, chanVars, crashed>>
    BY <1>4 DEF WatchSnapshot, TypeOK, LwPcs
  <2>2. TypeOK'
    BY <1>1, <2>1 DEF TypeOK, chanVars
  <2>3. WatcherPlace' /\ LiveStreamsStayOpen'
    BY <1>1, <1>4, <2>1
       DEF WatchSnapshot, TypeOK, WatcherPlace, LiveStreamsStayOpen, ChClosed, muxVars, chanVars
  <2> QED
    BY <1>2, <2>2, <2>3
<1>5. CASE WatchReplay(w)
  <2>1. queued' \in [Watchers -> 0 .. ChanCap] /\ told' \in [Watchers -> Seq(0 .. MaxSubmits)]
    <3>1. Append(told[w], snap[w]) \in Seq(0 .. MaxSubmits)
      BY AppendProperties DEF TypeOK
    <3>2. queued' \in [Watchers -> 0 .. ChanCap]
      <4>1. queued \in [Watchers -> 0 .. ChanCap]
        BY DEF TypeOK
      <4>2. queued[w] < ChanCap /\ queued' = [queued EXCEPT ![w] = @ + 1]
        BY <1>5 DEF WatchReplay
      <4> HIDE DEF Shape, Running, HasRoom, Put
      <4> QED
        BY <4>1, <4>2 DEF ChanCap
    <3>3. told' \in [Watchers -> Seq(0 .. MaxSubmits)]
      BY <1>5, <3>1 DEF WatchReplay, TypeOK
    <3> QED
      BY <3>2, <3>3
  <2>2. /\ lwPc' \in [Watchers -> LwPcs] /\ canceller' \in [Watchers -> Cancellers]
        /\ UNCHANGED <<snap, ctxDone, crashed>>
    BY <1>5 DEF WatchReplay, TypeOK, LwPcs, Cancellers
  <2>3. TypeOK'
    BY <1>1, <2>1, <2>2 DEF TypeOK
  <2>4. WatcherPlace' /\ LiveStreamsStayOpen'
    BY <1>1, <1>5, <2>2
       DEF WatchReplay, TypeOK, WatcherPlace, LiveStreamsStayOpen, ChClosed, muxVars
  <2> QED
    BY <1>2, <2>3, <2>4
<1>6. CASE WatchPanic(w)
  <2>1. crashed' \in BOOLEAN /\ UNCHANGED <<lwVars, chanVars>>
    BY <1>6 DEF WatchPanic
  <2>2. TypeOK'
    BY <1>1, <2>1 DEF TypeOK, lwVars, chanVars
  <2>3. WatcherPlace' /\ LiveStreamsStayOpen'
    BY <1>1, <2>1 DEF WatcherPlace, LiveStreamsStayOpen, ChClosed, muxVars, lwVars, chanVars
  <2> QED
    BY <1>2, <2>2, <2>3
<1>7. CASE CancellerEnds(w)
  <2>1. canceller' \in [Watchers -> Cancellers] /\ UNCHANGED <<lwPc, snap, ctxDone, chanVars, crashed>>
    BY <1>7 DEF CancellerEnds, TypeOK, Cancellers
  <2>2. TypeOK'
    BY <1>1, <2>1 DEF TypeOK, chanVars
  <2>3. WatcherPlace' /\ LiveStreamsStayOpen'
    BY <1>1, <2>1 DEF WatcherPlace, LiveStreamsStayOpen, ChClosed, muxVars, chanVars
  <2> QED
    BY <1>2, <2>2, <2>3
<1>8. CASE StreamEnds(w) \/ HandlerReturns(w)
  <2>1. /\ lwPc' \in [Watchers -> LwPcs] /\ ctxDone' \in [Watchers -> BOOLEAN]
        /\ UNCHANGED <<snap, canceller, chanVars, crashed>>
    BY <1>8 DEF StreamEnds, HandlerReturns, TypeOK, LwPcs
  <2>2. TypeOK'
    BY <1>1, <2>1 DEF TypeOK, chanVars
  <2>3. WatcherPlace' /\ LiveStreamsStayOpen'
    BY <1>1, <1>8, <2>1
       DEF StreamEnds, HandlerReturns, TypeOK, WatcherPlace, LiveStreamsStayOpen, ChClosed,
           muxVars, chanVars
  <2> QED
    BY <1>2, <2>2, <2>3
<1>9. CASE Receive(w)
  <2>1. /\ queued' \in [Watchers -> 0 .. ChanCap]
        /\ UNCHANGED <<lwVars, told, crashed>>
    BY <1>9 DEF Receive, TypeOK, ChanCap
  <2>2. TypeOK'
    BY <1>1, <2>1 DEF TypeOK, lwVars
  <2>3. WatcherPlace' /\ LiveStreamsStayOpen'
    BY <1>1, <1>9, <2>1
       DEF Receive, TypeOK, WatcherPlace, LiveStreamsStayOpen, ChClosed, muxVars, lwVars
  <2> QED
    BY <1>2, <2>2, <2>3
<1> QED
  BY <1>3, <1>4, <1>5, <1>6, <1>7, <1>8, <1>9

(* The calls of the broadcast.                                             *)
LEMMA CallSteps ==
    ASSUME Shape,
           \/ SubmitBroadcast \/ CloseBroadcast
           \/ \E w \in Watchers : WatchSubscribe(w) \/ CancelOnContext(w) \/ CallReturns(w)
    PROVE  Shape'
<1> USE DEF Shape, Running, M!runVars, M!chanVars, M!callVars, M!sinkVars
<1>1. CASE SubmitBroadcast
  <2>1. /\ submitPc' \in [{Owner} -> M!SubmitPcs] /\ calls' \in [{Owner} -> 0 .. MaxSubmits]
        /\ ownerPc' \in OwnerPcs /\ calls'[Owner] = calls[Owner] + 1
    BY <1>1, ResourceAssumption
       DEF SubmitBroadcast, M!SubmitCall, BroadcastTypes, M!SubmitPcs, OwnerPcs
  <2>2. UNCHANGED <<inBufSize, input, buffered, runPc, outputs, pending, done, subPc, closes,
                    dispatched, base, recv, version, rdone, lwVars, chanVars, crashed>>
    BY <1>1 DEF SubmitBroadcast, M!SubmitCall
  <2>3. BroadcastTypes' /\ RunPlace'
    BY <2>1, <2>2 DEF BroadcastTypes, RunPlace
  <2>4. TypeOK'
    BY <2>1, <2>2 DEF TypeOK, lwVars, chanVars
  <2>5. OwnerPlace'
    BY <1>1, <2>1, <2>2 DEF SubmitBroadcast, OwnerPlace, BroadcastTypes, TypeOK
  <2>6. WatcherPlace' /\ LiveStreamsStayOpen'
    BY <2>2 DEF WatcherPlace, LiveStreamsStayOpen, ChClosed, lwVars, chanVars
  <2> QED
    BY <2>3, <2>4, <2>5, <2>6
<1>2. CASE CloseBroadcast
  <2>1. ownerPc' \in OwnerPcs /\ ownerPc' = "closed" /\ rdone /\ done' = TRUE
    BY <1>2 DEF CloseBroadcast, M!Close, OwnerPcs, OwnerPlace
  <2>2. UNCHANGED <<inBufSize, input, buffered, runPc, outputs, pending, submitPc, calls, subPc,
                    closes, dispatched, base, recv, version, rdone, lwVars, chanVars, crashed>>
    BY <1>2 DEF CloseBroadcast, M!Close
  <2>3. BroadcastTypes' /\ RunPlace' /\ OwnerPlace'
    BY <2>1, <2>2 DEF BroadcastTypes, RunPlace, OwnerPlace
  <2>4. TypeOK'
    BY <2>1, <2>2 DEF TypeOK, lwVars, chanVars
  <2>5. WatcherPlace' /\ LiveStreamsStayOpen'
    BY <2>2 DEF WatcherPlace, LiveStreamsStayOpen, ChClosed, lwVars, chanVars
  <2> QED
    BY <2>3, <2>4, <2>5
<1>3. ASSUME NEW w \in Watchers, WatchSubscribe(w) \/ CancelOnContext(w) \/ CallReturns(w)
      PROVE  Shape'
  <2>1. UNCHANGED <<inBufSize, input, buffered, runPc, outputs, pending, done, submitPc, calls,
                    closes, dispatched, base, recv, version, ownerPc, rdone, snap, ctxDone,
                    chanVars, crashed>>
    BY <1>3 DEF WatchSubscribe, CancelOnContext, CallReturns, M!SubscribeCall, M!CancelCall,
                M!SubscribeClosed, M!CancelClosed, lwVars
  <2>2. /\ subPc' \in [Watchers -> M!SubPcs] /\ lwPc' \in [Watchers -> LwPcs]
        /\ canceller' \in [Watchers -> Cancellers]
    BY <1>3 DEF WatchSubscribe, CancelOnContext, CallReturns, M!SubscribeCall, M!CancelCall,
                M!SubscribeClosed, M!CancelClosed, lwVars, TypeOK, BroadcastTypes, M!SubPcs,
                LwPcs, Cancellers
  <2>3. BroadcastTypes' /\ RunPlace' /\ OwnerPlace'
    BY <2>1, <2>2 DEF BroadcastTypes, RunPlace, OwnerPlace
  <2>4. TypeOK'
    BY <2>1, <2>2 DEF TypeOK, chanVars
  <2>5. WatcherPlace'
    <3>1. CASE WatchSubscribe(w)
      BY <2>1, <3>1
         DEF WatchSubscribe, M!SubscribeCall, chanVars, TypeOK, BroadcastTypes, WatcherPlace
    <3>2. CASE CancelOnContext(w)
      BY <2>1, <3>2
         DEF CancelOnContext, M!CancelCall, chanVars, TypeOK, BroadcastTypes, WatcherPlace
    <3>3. CASE CallReturns(w)
      BY <2>1, <3>3
         DEF CallReturns, M!SubscribeClosed, M!CancelClosed, lwVars, chanVars, TypeOK,
             BroadcastTypes, WatcherPlace
    <3> QED
      BY <1>3, <3>1, <3>2, <3>3
  <2>6. LiveStreamsStayOpen'
    BY <2>1 DEF LiveStreamsStayOpen, ChClosed
  <2> QED
    BY <2>3, <2>4, <2>5, <2>6
<1> QED
  BY <1>1, <1>2, <1>3

(* broadcast.Submit goes on: only the handoff to run dispatches.           *)
LEMMA OwnerGoesOn ==
    ASSUME Shape, SubmitStep
    PROVE  Shape'
<1> USE DEF Shape, M!runVars, M!chanVars, M!callVars, M!sinkVars
<1>1. /\ UNCHANGED <<version, rdone, lwVars, chanVars, crashed>>
      /\ UNCHANGED <<inBufSize, input, buffered, outputs, done, calls, subPc, closes, base, recv>>
  BY DEF SubmitStep, Running, M!Submit, M!SubmitProceed, M!SubmitClosed, M!SubmitTimeout,
         M!SubmitBuffered, M!SubmitHandoff, BroadcastTypes
<1>2. /\ ownerPc' \in {"idle", "submit"} /\ ownerPc' \in OwnerPcs
      /\ submitPc' \in [{Owner} -> M!SubmitPcs] /\ calls[Owner] > 0
  <2>1. ownerPc' \in {"idle", "submit"}
    BY DEF SubmitStep
  <2>2. submitPc' \in [{Owner} -> M!SubmitPcs]
    BY DEF SubmitStep, M!Submit, M!SubmitProceed, M!SubmitClosed, M!SubmitTimeout,
           M!SubmitBuffered, M!SubmitHandoff, BroadcastTypes, M!SubmitPcs
  <2>3. submitPc[Owner] # "idle"
    BY DEF SubmitStep, M!Submit, M!SubmitProceed, M!SubmitClosed, M!SubmitTimeout,
           M!SubmitBuffered, M!SubmitHandoff
  <2> QED
    BY <2>1, <2>2, <2>3 DEF OwnerPcs, OwnerPlace
<1>3. TypeOK'
  BY <1>1, <1>2 DEF TypeOK, lwVars, chanVars
<1>4. OwnerPlace'
  BY <1>1, <1>2 DEF OwnerPlace
<1>5. WatcherPlace' /\ LiveStreamsStayOpen'
  BY <1>1 DEF WatcherPlace, LiveStreamsStayOpen, ChClosed, lwVars, chanVars
<1>6. CASE UNCHANGED <<runPc, pending, dispatched>>
  BY <1>1, <1>2, <1>3, <1>4, <1>5, <1>6 DEF BroadcastTypes, RunPlace
<1>7. CASE M!SubmitHandoff(Owner)
  <2>1. M!Value(Owner) \in {Owner} \X Versions
    BY <1>2 DEF M!Value, OwnerPlace, BroadcastTypes, TypeOK, Versions
  <2>2. /\ dispatched' = Append(dispatched, M!Value(Owner)) /\ pending' = outputs
        /\ runPc' = IF outputs = {} THEN "select" ELSE "fanout"
    BY <1>7 DEF M!SubmitHandoff, M!Dispatch
  <2>3. dispatched' \in Seq({Owner} \X Versions) /\ dispatched' # <<>>
    <3>1. dispatched \in Seq({Owner} \X Versions)
      BY DEF BroadcastTypes
    <3> QED
      BY <2>1, <2>2, <3>1, AppendProperties, EmptySeq
  <2>4. BroadcastTypes'
    BY <1>1, <1>2, <2>2, <2>3 DEF BroadcastTypes, M!RunPcs
  <2>5. RunPlace'
    BY <1>1, <2>2, <2>3 DEF RunPlace, BroadcastTypes
  <2> QED
    BY <1>3, <1>4, <1>5, <2>4, <2>5
<1> QED
  BY <1>6, <1>7
     DEF SubmitStep, M!Submit, M!SubmitProceed, M!SubmitClosed, M!SubmitTimeout,
         M!SubmitBuffered, BroadcastTypes

(* run hands the update round.                                             *)
LEMMA Delivers ==
    ASSUME Shape, NEW w \in Watchers, Deliver(w)
    PROVE  Shape'
<1>1. /\ w \in pending /\ pending' = pending \ {w}
      /\ runPc' = IF runPc = "fanout" /\ pending = {w} THEN "select" ELSE runPc
      /\ recv' = [recv EXCEPT ![w] = Append(@, M!Current)]
      /\ queued[w] < ChanCap /\ queued' = [queued EXCEPT ![w] = @ + 1]
      /\ told' = [told EXCEPT ![w] = Append(@, M!Current[2])]
  BY DEF Deliver, M!Deliver, HasRoom, Put
<1>2. UNCHANGED <<inBufSize, input, buffered, outputs, done, submitPc, calls, subPc, closes,
                  base, dispatched, version, ownerPc, rdone, lwVars, crashed>>
  BY DEF Deliver, M!Deliver, Running, M!chanVars, M!callVars, M!sinkVars
<1>3. M!Current \in {Owner} \X Versions /\ M!Current[2] \in 0 .. MaxSubmits
  BY <1>1, CurrentVersion DEF Versions
<1>4. recv' \in [Watchers -> Seq({Owner} \X Versions)]
  <2>1. recv \in [Watchers -> Seq({Owner} \X Versions)]
    BY DEF Shape, BroadcastTypes
  <2> QED
    BY <1>1, <1>3, <2>1, AppendProperties
<1>5. /\ told' \in [Watchers -> Seq(0 .. MaxSubmits)]
      /\ Len(told'[w]) = Len(told[w]) + 1
      /\ \A x \in Watchers \ {w} : told'[x] = told[x]
  <2>1. told \in [Watchers -> Seq(0 .. MaxSubmits)]
    BY DEF Shape, TypeOK
  <2> QED
    BY <1>1, <1>3, <2>1, AppendProperties
<1>6. /\ queued' \in [Watchers -> 0 .. ChanCap]
      /\ queued'[w] = queued[w] + 1
      /\ \A x \in Watchers \ {w} : queued'[x] = queued[x]
  <2>1. queued \in [Watchers -> 0 .. ChanCap]
    BY DEF Shape, TypeOK
  <2> QED
    BY <1>1, <2>1 DEF ChanCap
<1>7. BroadcastTypes'
  BY <1>1, <1>2, <1>4 DEF Shape, BroadcastTypes, M!RunPcs
<1>8. TypeOK'
  BY <1>2, <1>5, <1>6 DEF Shape, TypeOK, lwVars
<1>9. RunPlace' /\ OwnerPlace'
  BY <1>1, <1>2 DEF Shape, RunPlace, OwnerPlace
<1>10. WatcherPlace' /\ LiveStreamsStayOpen'
  BY <1>2, <1>5, <1>6 DEF Shape, WatcherPlace, LiveStreamsStayOpen, ChClosed, lwVars
<1> QED
  BY <1>7, <1>8, <1>9, <1>10 DEF Shape

(* The loop of run, and its end.                                           *)
LEMMA RunSteps ==
    ASSUME Shape, RunStep
    PROVE  Shape'
<1>1. /\ UNCHANGED <<version, ownerPc, rdone, lwVars, chanVars, crashed>>
      /\ UNCHANGED <<inBufSize, input, buffered, pending, done, submitPc, calls, dispatched, recv>>
  BY DEF Shape, BroadcastTypes, RunStep, Running, M!Run, M!RunRecv, M!RunDone, M!RunDrain,
         M!FlushNext, M!FlushDone, M!RunExit, M!RunRegister, M!AckRegister, M!RunUnregister,
         M!AckUnregister, M!CloseSink, M!runVars, M!chanVars, M!callVars, M!sinkVars
<1>2. /\ runPc' \in M!RunPcs
      /\ runPc' # "fanout" => pending = {}
      /\ runPc' \in {"lock", "flush", "closing", "exited"} => done
  BY DEF Shape, BroadcastTypes, RunPlace, RunStep, M!Run, M!RunRecv, M!RunDone, M!RunDrain,
         M!FlushNext, M!FlushDone, M!RunExit, M!RunRegister, M!AckRegister, M!RunUnregister,
         M!AckUnregister, M!CloseSink, M!RunPcs, M!runVars
<1>3. RunPlace' /\ OwnerPlace' /\ TypeOK'
  <2>1. RunPlace' /\ OwnerPlace'
    BY <1>1, <1>2 DEF Shape, RunPlace, OwnerPlace
  <2>2. TypeOK'
    BY <1>1 DEF Shape, TypeOK, lwVars, chanVars
  <2> QED
    BY <2>1, <2>2
<1>4. CASE UNCHANGED <<outputs, subPc, closes, base>>
  BY <1>1, <1>2, <1>3, <1>4
     DEF Shape, BroadcastTypes, WatcherPlace, LiveStreamsStayOpen, ChClosed, lwVars, chanVars
<1>5. ASSUME NEW w \in Watchers, M!RunRegister(w) \/ M!AckRegister(w) \/ M!RunUnregister(w)
                 \/ M!AckUnregister(w) \/ M!CloseSink(w)
      PROVE  Shape'
  <2>1. /\ outputs' \subseteq Watchers /\ pending \subseteq outputs'
        /\ subPc' \in [Watchers -> M!SubPcs]
    <3>1. M!CloseSink(w) \/ (runPc = "select" /\ pending = {}) \/ outputs' = outputs
      BY <1>5 DEF Shape, RunPlace, M!RunRegister, M!AckRegister, M!RunUnregister,
                  M!AckUnregister, M!CloseSink
    <3>2. M!CloseSink(w) => pending = {}
      BY DEF Shape, RunPlace, M!CloseSink
    <3> QED
      BY <1>5, <3>1, <3>2
         DEF Shape, BroadcastTypes, M!RunRegister, M!AckRegister, M!RunUnregister,
             M!AckUnregister, M!CloseSink, M!SubPcs
  <2>2. /\ closes' \in [Watchers -> Nat] /\ base' \in [Watchers -> Nat]
        /\ \A x \in Watchers : closes'[x] > 0 => closes[x] > 0 \/ ctxDone[x] \/ rdone
    <3>1. Len(dispatched) \in Nat
      BY LenProperties DEF Shape, BroadcastTypes
    <3>2. base' \in [Watchers -> Nat]
      BY <1>5, <3>1 DEF Shape, BroadcastTypes, M!RunRegister, M!AckRegister, M!RunUnregister,
                        M!AckUnregister, M!CloseSink
    <3>3. closes' \in [Watchers -> Nat]
      BY <1>5 DEF Shape, BroadcastTypes, M!RunRegister, M!AckRegister, M!RunUnregister,
                  M!AckUnregister, M!CloseSink
    <3>4. M!RunUnregister(w) => ctxDone[w]
      BY DEF Shape, WatcherPlace, M!RunUnregister
    <3>5. M!CloseSink(w) => rdone
      BY DEF Shape, RunPlace, M!CloseSink
    <3> QED
      BY <1>5, <3>2, <3>3, <3>4, <3>5
         DEF Shape, BroadcastTypes, M!RunRegister, M!AckRegister, M!RunUnregister,
             M!AckUnregister, M!CloseSink
  <2>3. \A x \in Watchers :
           /\ subPc[x] \notin {"new", "registering", "regWait"} =>
                  subPc'[x] \notin {"new", "registering", "regWait"}
           /\ subPc'[x] \in {"cancelling", "unregWait", "cancelled", "released"} =>
                  subPc[x] \in {"cancelling", "unregWait", "cancelled", "released"}
    BY <1>5 DEF Shape, BroadcastTypes, M!RunRegister, M!AckRegister, M!RunUnregister,
                M!AckUnregister, M!CloseSink
  <2>4. BroadcastTypes'
    BY <1>1, <1>2, <2>1, <2>2 DEF Shape, BroadcastTypes
  <2>5. WatcherPlace'
    BY <1>1, <2>3 DEF Shape, WatcherPlace, lwVars, chanVars
  <2>6. LiveStreamsStayOpen'
    BY <1>1, <2>2 DEF Shape, LiveStreamsStayOpen, ChClosed, lwVars
  <2> QED
    BY <1>3, <2>4, <2>5, <2>6 DEF Shape
<1> QED
  BY <1>4, <1>5
     DEF Shape, BroadcastTypes, RunStep, M!Run, M!RunRecv, M!RunDone, M!RunDrain, M!FlushNext,
         M!FlushDone, M!RunExit, M!sinkVars

LEMMA ShapeKept == Shape /\ [Next]_vars => Shape'
<1> SUFFICES ASSUME Shape, [Next]_vars PROVE Shape'
  OBVIOUS
<1>1. CASE OwnerNext
  BY <1>1, OwnerSteps, CallSteps, OwnerGoesOn DEF OwnerNext
<1>2. CASE RunStep
  BY <1>2, RunSteps
<1>3. ASSUME NEW w \in Watchers, WatcherNext(w) \/ Deliver(w) \/ CallReturns(w)
      PROVE  Shape'
  BY <1>3, StreamSteps, CallSteps, Delivers DEF WatcherNext
<1>4. CASE UNCHANGED vars
  <2>1. UNCHANGED muxVars
    BY <1>4 DEF vars
  <2>2. BroadcastTypes'
    BY <2>1, BroadcastRests DEF Shape
  <2>3. TypeOK'
    BY <1>4 DEF Shape, TypeOK, vars, lwVars, chanVars
  <2>4. RunPlace' /\ OwnerPlace'
    BY <1>4 DEF Shape, RunPlace, OwnerPlace, vars, muxVars
  <2>5. WatcherPlace' /\ LiveStreamsStayOpen'
    BY <1>4 DEF Shape, WatcherPlace, LiveStreamsStayOpen, ChClosed, vars, muxVars, lwVars, chanVars
  <2> QED
    BY <2>2, <2>3, <2>4, <2>5 DEF Shape
<1> QED
  BY <1>1, <1>2, <1>3, <1>4 DEF Next

LEMMA ShapeHolds == Spec => []Shape
BY InitShape, ShapeKept, PTL DEF Spec

(* Every variable keeps its type, whatever the streams and the number of   *)
(* events (resource.go).                                                   *)
THEOREM TypeCorrect == Spec => []TypeOK
<1>1. Shape => TypeOK
  BY DEF Shape
<1> QED
  BY <1>1, ShapeHolds, PTL

(* The channel of a stream is closed for its own end or the resource's,    *)
(* never for another stream's (resource.go:180-197).                       *)
THEOREM StreamsStayOpen == Spec => []LiveStreamsStayOpen
<1>1. Shape => LiveStreamsStayOpen
  BY DEF Shape
<1> QED
  BY <1>1, ShapeHolds, PTL

-----------------------------------------------------------------------------
(* No update is missed: the snapshot covers what run handed round before   *)
(* it registered the stream, the stream's channel all that came after.     *)

Covered(w) == \A i \in 1 .. base[w] : dispatched[i][2] <= snap[w]

Handed(w) ==
    \A i \in base[w] + 1 .. M!Served(w) :
        \E j \in DOMAIN told[w] : told[w][j] = dispatched[i][2]

Updates ==
    /\ \A i \in DOMAIN dispatched : dispatched[i][2] <= version
    /\ \A w \in Watchers :
          /\ base[w] <= Len(dispatched)
          /\ lwPc[w] \in {"replay", "watching"} => Covered(w)
          /\ w \in outputs => Handed(w)

LEMMA InitUpdates == Init => Updates
BY DEF Init, M!Init, Updates, Covered, Handed, M!Served

LEMMA UpdatesEnough == Shape /\ Updates => NoMissedUpdate
<1> SUFFICES ASSUME Shape, Updates, NEW w \in outputs, lwPc[w] \in {"replay", "watching"},
                    NEW i \in 1 .. M!Served(w), dispatched[i][2] > snap[w]
             PROVE  \E j \in DOMAIN told[w] : told[w][j] = dispatched[i][2]
  BY DEF NoMissedUpdate
<1>1. w \in Watchers /\ base[w] \in Nat /\ M!Served(w) \in Int
  BY LenProperties DEF Shape, BroadcastTypes, M!Served
<1>2. Covered(w) /\ Handed(w)
  BY <1>1 DEF Updates
<1>3. dispatched[i][2] \in Versions /\ snap[w] \in Int
  <2>1. dispatched \in Seq({Owner} \X Versions) /\ i \in 1 .. Len(dispatched)
    BY LenProperties DEF Shape, BroadcastTypes, M!Served
  <2>2. dispatched[i] \in {Owner} \X Versions
    BY <2>1, ElementOfSeq
  <2> QED
    BY <1>1, <2>2 DEF Shape, TypeOK
<1>4. i \in base[w] + 1 .. M!Served(w)
  BY <1>1, <1>2, <1>3 DEF Covered, Versions
<1> QED
  BY <1>2, <1>4 DEF Handed

(* The steps that neither dispatch, deliver, register nor snapshot.        *)
LEMMA UpdatesRest ==
    ASSUME Shape, Updates, UNCHANGED <<dispatched, pending, base, told>>,
           outputs' \subseteq outputs, version' \in {version, version + 1},
           \A w \in Watchers :
               lwPc'[w] \in {"replay", "watching"} =>
                   lwPc[w] \in {"replay", "watching"} /\ snap'[w] = snap[w]
    PROVE  Updates'
<1>1. \A i \in DOMAIN dispatched : dispatched'[i][2] <= version'
  <2>1. dispatched \in Seq({Owner} \X Versions) /\ version \in Nat
    BY DEF Shape, BroadcastTypes, TypeOK
  <2> SUFFICES ASSUME NEW i \in DOMAIN dispatched PROVE dispatched[i][2] <= version'
    OBVIOUS
  <2>2. dispatched[i] \in {Owner} \X Versions /\ dispatched[i][2] <= version
    BY <2>1, ElementOfSeq, LenProperties DEF Updates
  <2> QED
    BY <2>1, <2>2 DEF Versions
<1>2. ASSUME NEW w \in Watchers, lwPc'[w] \in {"replay", "watching"}
      PROVE  Covered(w)'
  BY <1>2 DEF Updates, Covered
<1>3. ASSUME NEW w \in outputs
      PROVE  w \in Watchers => Handed(w)'
  BY DEF Updates, Handed, M!Served
<1> QED
  BY <1>1, <1>2, <1>3 DEF Updates

(* Nothing dispatched is newer than the instances now.                     *)
LEMMA SnapshotCovers ==
    ASSUME Shape, Updates, NEW w \in Watchers, WatchSnapshot(w)
    PROVE  Updates'
<1>1. /\ UNCHANGED <<dispatched, pending, base, told, outputs, version>>
      /\ snap' = [snap EXCEPT ![w] = version]
      /\ lwPc' = [lwPc EXCEPT ![w] = "replay"]
  BY DEF WatchSnapshot, muxVars, chanVars
<1>2. /\ snap \in [Watchers -> 0 .. MaxSubmits] /\ lwPc \in [Watchers -> LwPcs]
      /\ base[w] \in Nat /\ base[w] <= Len(dispatched)
  BY DEF Shape, BroadcastTypes, TypeOK, Updates
<1>3. Covered(w)'
  <2>1. \A i \in 1 .. base[w] : i \in DOMAIN dispatched
    BY <1>2, LenProperties DEF Shape, BroadcastTypes
  <2> QED
    BY <1>1, <1>2, <2>1 DEF Updates, Covered
<1>4. \A x \in Watchers \ {w} : lwPc'[x] \in {"replay", "watching"} => Covered(x)'
  BY <1>1, <1>2 DEF Updates, Covered
<1>5. \A x \in Watchers : x \in outputs' => Handed(x)'
  BY <1>1 DEF Updates, Handed, M!Served
<1> QED
  BY <1>1, <1>3, <1>4, <1>5 DEF Updates

(* More in a channel than before does no harm.                             *)
LEMMA ReplayKeeps ==
    ASSUME Shape, Updates, NEW w \in Watchers, WatchReplay(w)
    PROVE  Updates'
<1>1. /\ UNCHANGED <<dispatched, pending, base, outputs, version, snap>>
      /\ told' = [told EXCEPT ![w] = Append(@, snap[w])]
      /\ lwPc[w] = "replay" /\ lwPc' = [lwPc EXCEPT ![w] = "watching"]
  BY DEF WatchReplay, Put, muxVars
<1>2. told \in [Watchers -> Seq(0 .. MaxSubmits)] /\ lwPc \in [Watchers -> LwPcs]
      /\ snap[w] \in 0 .. MaxSubmits
  BY DEF Shape, TypeOK
<1>3. \A x \in Watchers : \A j \in DOMAIN told[x] :
         j \in DOMAIN told'[x] /\ told'[x][j] = told[x][j]
  BY <1>1, <1>2, AppendProperties, LenProperties
<1>4. \A x \in Watchers : lwPc'[x] \in {"replay", "watching"} => Covered(x)'
  BY <1>1, <1>2 DEF Updates, Covered
<1>5. ASSUME NEW x \in Watchers, x \in outputs'
      PROVE  Handed(x)'
  <2>1. Handed(x)
    BY <1>1, <1>5 DEF Updates
  <2> QED
    BY <1>1, <1>3, <2>1 DEF Handed, M!Served
<1> QED
  BY <1>1, <1>4, <1>5 DEF Updates

(* run takes the next update: nobody has been given it yet.                *)
LEMMA DispatchKeeps ==
    ASSUME Shape, Updates, SubmitStep, M!SubmitHandoff(Owner)
    PROVE  Updates'
<1>1. /\ UNCHANGED <<outputs, base, told, version, snap, lwPc>>
      /\ dispatched' = Append(dispatched, M!Value(Owner)) /\ pending' = outputs
      /\ pending = {} /\ submitPc[Owner] # "idle"
  BY DEF SubmitStep, M!SubmitHandoff, M!Dispatch, M!sinkVars, lwVars, chanVars, Shape, RunPlace
<1>2. dispatched \in Seq({Owner} \X Versions) /\ Len(dispatched) \in Nat
  BY LenProperties DEF Shape, BroadcastTypes
<1>3. M!Value(Owner) \in {Owner} \X Versions /\ M!Value(Owner)[2] <= version
  BY <1>1 DEF Shape, OwnerPlace, BroadcastTypes, TypeOK, Versions, M!Value
<1>4. /\ Len(dispatched') = Len(dispatched) + 1 /\ DOMAIN dispatched' = 1 .. Len(dispatched) + 1
      /\ \A i \in 1 .. Len(dispatched) : dispatched'[i] = dispatched[i]
      /\ dispatched'[Len(dispatched) + 1] = M!Value(Owner)
  BY <1>1, <1>2, <1>3, AppendProperties, LenProperties
<1>5. \A w \in Watchers : base[w] \in Nat /\ base[w] <= Len(dispatched)
  BY DEF Shape, BroadcastTypes, Updates
<1>6. \A i \in DOMAIN dispatched' : dispatched'[i][2] <= version'
  <2>1. \A i \in 1 .. Len(dispatched) : dispatched[i][2] <= version
    BY <1>2, LenProperties DEF Updates
  <2> QED
    BY <1>1, <1>2, <1>3, <1>4, <2>1
<1>7. \A w \in Watchers : lwPc'[w] \in {"replay", "watching"} => Covered(w)'
  BY <1>1, <1>2, <1>4, <1>5 DEF Updates, Covered
<1>8. ASSUME NEW w \in Watchers, w \in outputs'
      PROVE  Handed(w)'
  <2>1. Handed(w) /\ M!Served(w)' = Len(dispatched) /\ M!Served(w) = Len(dispatched)
    BY <1>1, <1>2, <1>4, <1>8 DEF Updates, M!Served
  <2> QED
    BY <1>1, <1>2, <1>4, <1>5, <2>1 DEF Handed
<1> QED
  BY <1>1, <1>2, <1>4, <1>5, <1>6, <1>7, <1>8 DEF Updates

(* The update in run's hands enters one channel.                           *)
LEMMA DeliverHands ==
    ASSUME Shape, Updates, NEW w \in Watchers, Deliver(w)
    PROVE  Updates'
<1>1. /\ UNCHANGED <<dispatched, base, outputs, version, snap, lwPc>>
      /\ w \in pending /\ pending' = pending \ {w}
      /\ told' = [told EXCEPT ![w] = Append(@, M!Current[2])]
  BY DEF Deliver, M!Deliver, Put, M!sinkVars, lwVars
<1>2. /\ told \in [Watchers -> Seq(0 .. MaxSubmits)]
      /\ M!Current[2] \in 0 .. MaxSubmits /\ Len(dispatched) \in Nat
  BY <1>1, CurrentVersion DEF Shape, TypeOK, Versions
<1>3. /\ \A x \in Watchers : \A j \in DOMAIN told[x] :
               j \in DOMAIN told'[x] /\ told'[x][j] = told[x][j]
      /\ \E j \in DOMAIN told'[w] : told'[w][j] = M!Current[2]
  <2>1. \A x \in Watchers : \A j \in DOMAIN told[x] :
               j \in DOMAIN told'[x] /\ told'[x][j] = told[x][j]
    BY <1>1, <1>2, AppendProperties, LenProperties
  <2>2. /\ Len(told[w]) + 1 \in DOMAIN told'[w]
        /\ told'[w][Len(told[w]) + 1] = M!Current[2]
    BY <1>1, <1>2, AppendProperties, LenProperties
  <2> QED
    BY <2>1, <2>2
<1>4. \A x \in Watchers : lwPc'[x] \in {"replay", "watching"} => Covered(x)'
  BY <1>1 DEF Updates, Covered
<1>5. ASSUME NEW x \in Watchers, x \in outputs'
      PROVE  Handed(x)'
  <2>1. Handed(x) /\ base[x] \in Nat
    BY <1>1, <1>5 DEF Updates, Shape, BroadcastTypes
  <2>2. CASE x # w
    BY <1>1, <1>3, <2>1, <2>2 DEF Handed, M!Served
  <2>3. CASE x = w
    <3>1. M!Served(x)' = Len(dispatched) /\ M!Served(x) = Len(dispatched) - 1
      BY <1>1, <1>2, <2>3 DEF M!Served
    <3>2. \A i \in base[x] + 1 .. M!Served(x)' : i \in base[x] + 1 .. M!Served(x) \/ i = Len(dispatched)
      BY <1>2, <2>1, <3>1
    <3>3. dispatched'[Len(dispatched)] = M!Current
      BY <1>1 DEF M!Current
    <3> QED
      BY <1>1, <1>3, <2>1, <2>3, <3>2, <3>3 DEF Handed
  <2> QED
    BY <2>2, <2>3
<1> QED
  BY <1>1, <1>4, <1>5 DEF Updates

(* A new sink has been handed everything since its registration: nothing.  *)
LEMMA RegisterKeeps ==
    ASSUME Shape, Updates, RunStep, NEW w \in Watchers, M!RunRegister(w)
    PROVE  Updates'
<1>1. /\ UNCHANGED <<dispatched, pending, told, version, snap, lwPc>>
      /\ outputs' = outputs \union {w} /\ base' = [base EXCEPT ![w] = Len(dispatched)]
      /\ pending = {} /\ subPc[w] = "registering"
  BY DEF RunStep, M!RunRegister, lwVars, chanVars, Shape, RunPlace
<1>2. /\ base \in [Watchers -> Nat] /\ Len(dispatched) \in Nat
      /\ lwPc[w] \notin {"replay", "watching"}
  BY <1>1, LenProperties DEF Shape, BroadcastTypes, WatcherPlace
<1>3. \A x \in Watchers : lwPc'[x] \in {"replay", "watching"} => Covered(x)'
  BY <1>1, <1>2 DEF Updates, Covered
<1>4. ASSUME NEW x \in Watchers, x \in outputs'
      PROVE  Handed(x)'
  <2>1. CASE x = w
    BY <1>1, <1>2, <2>1 DEF Handed, M!Served
  <2>2. CASE x # w
    BY <1>1, <1>2, <1>4, <2>2 DEF Updates, Handed, M!Served
  <2> QED
    BY <2>1, <2>2
<1> QED
  BY <1>1, <1>2, <1>3, <1>4 DEF Updates

LEMMA UpdatesKept == Shape /\ Updates /\ [Next]_vars => Updates'
<1> SUFFICES ASSUME Shape, Updates, [Next]_vars PROVE Updates'
  OBVIOUS
<1> USE DEF Running, M!runVars, M!chanVars, M!callVars, M!sinkVars
<1>1. CASE SubmitLock \/ SubmitApply \/ CloseDone
  <2>1. /\ UNCHANGED <<muxVars, lwVars, chanVars>>
        /\ version' \in {version, version + 1}
    BY <1>1 DEF SubmitLock, SubmitApply, CloseDone
  <2> QED
    BY <2>1, UpdatesRest DEF muxVars, lwVars, chanVars
<1>2. CASE SubmitBroadcast \/ CloseBroadcast
  <2>1. UNCHANGED <<dispatched, pending, base, told, outputs, version, lwPc, snap>>
    BY <1>2 DEF SubmitBroadcast, CloseBroadcast, M!SubmitCall, M!Close, lwVars, chanVars
  <2> QED
    BY <2>1, UpdatesRest
<1>3. CASE SubmitStep
  <2>1. CASE M!SubmitHandoff(Owner)
    BY <1>3, <2>1, DispatchKeeps
  <2>2. CASE ~M!SubmitHandoff(Owner)
    <3>1. UNCHANGED <<dispatched, pending, base, told, outputs, version, lwPc, snap>>
      BY <1>3, <2>2
         DEF SubmitStep, M!Submit, M!SubmitProceed, M!SubmitClosed, M!SubmitTimeout,
             M!SubmitBuffered, lwVars, chanVars, Shape, BroadcastTypes
    <3> QED
      BY <3>1, UpdatesRest
  <2> QED
    BY <2>1, <2>2
<1>4. CASE RunStep
  <2>1. ASSUME NEW w \in Watchers, M!RunRegister(w)
        PROVE  Updates'
    BY <1>4, <2>1, RegisterKeeps
  <2>2. CASE ~ \E w \in Watchers : M!RunRegister(w)
    <3>1. UNCHANGED <<dispatched, pending, base, told, version, lwPc, snap>>
      BY <1>4, <2>2
         DEF RunStep, M!Run, M!RunRecv, M!RunDone, M!RunDrain, M!FlushNext, M!FlushDone,
             M!RunExit, M!AckRegister, M!RunUnregister, M!AckUnregister, M!CloseSink,
             lwVars, chanVars, Shape, BroadcastTypes
    <3>2. outputs' \subseteq outputs
      BY <1>4, <2>2
         DEF RunStep, M!Run, M!RunRecv, M!RunDone, M!RunDrain, M!FlushNext, M!FlushDone,
             M!RunExit, M!AckRegister, M!RunUnregister, M!AckUnregister, M!CloseSink
    <3> QED
      BY <3>1, <3>2, UpdatesRest
  <2> QED
    BY <2>1, <2>2
<1>5. ASSUME NEW w \in Watchers, WatcherNext(w)
      PROVE  Updates'
  <2>1. CASE WatchSnapshot(w)
    BY <2>1, SnapshotCovers
  <2>2. CASE WatchReplay(w)
    BY <2>2, ReplayKeeps
  <2>3. CASE ~WatchSnapshot(w) /\ ~WatchReplay(w)
    <3>1. UNCHANGED <<dispatched, pending, base, told, outputs, version, snap>>
      BY <1>5, <2>3
         DEF WatcherNext, Watch, WatchSubscribe, WatchPanic, CancelOnContext, CancellerEnds,
             StreamEnds, Receive, HandlerReturns, M!SubscribeCall, M!CancelCall, muxVars,
             lwVars, chanVars
    <3>2. \A x \in Watchers : lwPc'[x] \in {"replay", "watching"} => lwPc'[x] = lwPc[x]
      <4>1. lwPc \in [Watchers -> LwPcs]
        BY DEF Shape, TypeOK
      <4>2. \/ UNCHANGED lwPc
            \/ \E v \in {"refused", "rlock", "subscribe", "gone"} : lwPc' = [lwPc EXCEPT ![w] = v]
        BY <1>5, <2>3
           DEF WatcherNext, Watch, WatchSubscribe, WatchPanic, CancelOnContext, CancellerEnds,
               StreamEnds, Receive, HandlerReturns, lwVars
      <4> QED
        BY <4>1, <4>2
    <3> QED
      BY <3>1, <3>2, UpdatesRest
  <2> QED
    BY <2>1, <2>2, <2>3
<1>6. ASSUME NEW w \in Watchers, Deliver(w)
      PROVE  Updates'
  BY <1>6, DeliverHands
<1>7. ASSUME NEW w \in Watchers, CallReturns(w)
      PROVE  Updates'
  <2>1. UNCHANGED <<dispatched, pending, base, told, outputs, version, lwPc, snap>>
    BY <1>7 DEF CallReturns, M!SubscribeClosed, M!CancelClosed, lwVars, chanVars
  <2> QED
    BY <2>1, UpdatesRest
<1>8. CASE UNCHANGED vars
  BY <1>8, UpdatesRest DEF vars, muxVars, lwVars, chanVars
<1> QED
  BY <1>1, <1>2, <1>3, <1>4, <1>5, <1>6, <1>7, <1>8 DEF Next, OwnerNext

(* Between the snapshot a stream starts from and the updates its channel   *)
(* is given, none is lost: the subscription is registered before the       *)
(* snapshot is taken, both under r.mu (resource.go:167-175).               *)
THEOREM NothingMissed == Spec => []NoMissedUpdate
<1>1. Spec => []Updates
  BY InitUpdates, UpdatesKept, ShapeHolds, PTL DEF Spec
<1> QED
  BY <1>1, UpdatesEnough, ShapeHolds, PTL

-----------------------------------------------------------------------------
(* The order of what a stream is told: the broadcast's updates as they     *)
(* were delivered, and the snapshot between them once it is sent.          *)

Replayed(w, k) ==
    /\ k <= Len(recv[w])
    /\ Len(told[w]) = Len(recv[w]) + 1
    /\ told[w][k + 1] = snap[w]
    /\ \A i \in 1 .. k : told[w][i] = recv[w][i][2]
    /\ \A i \in k + 1 .. Len(recv[w]) : told[w][i + 1] = recv[w][i][2]

Order ==
    \A w \in Watchers :
        IF lwPc[w] \in {"watching", "gone"}
        THEN \E k \in 0 .. ChanCap - 1 : Replayed(w, k)
        ELSE /\ Len(told[w]) = Len(recv[w])
             /\ \A i \in 1 .. Len(recv[w]) : told[w][i] = recv[w][i][2]

LEMMA InitOrder == Init => Order
BY EmptySeq DEF Init, M!Init, Order

(* t has x after k of the elements of u.                                   *)
HasAfter(t, u, x, k) ==
    /\ k \in 0 .. Len(u)
    /\ Len(t) = Len(u) + 1
    /\ t[k + 1] = x
    /\ \A i \in 1 .. k : t[i] = u[i]
    /\ \A i \in k + 1 .. Len(u) : t[i + 1] = u[i]

With(u, x, k) == SubSeq(u, 1, k) \o <<x>> \o SubSeq(u, k + 1, Len(u))

LEMMA Inserted ==
    ASSUME NEW S, NEW u \in Seq(S), NEW t \in Seq(S), NEW x \in S, NEW k, HasAfter(t, u, x, k)
    PROVE  t = With(u, x, k)
<1> DEFINE n == Len(u)
           early == SubSeq(u, 1, k)
           start == early \o <<x>>
           late == SubSeq(u, k + 1, n)
<1> USE DEF HasAfter
<1>1. n \in Nat /\ k \in Nat /\ k <= n /\ \A i \in 1 .. n : u[i] \in S
  BY LenProperties, ElementOfSeq
<1> HIDE DEF n
<1>2. early \in Seq(S) /\ Len(early) = k /\ \A i \in 1 .. k : early[i] = u[i]
  <2>1. \A i \in 1 .. k : u[i] \in S
    BY <1>1
  <2> QED
    BY <1>1, <2>1, SubSeqProperties
<1>3. /\ late \in Seq(S) /\ Len(late) = n - k
      /\ \A i \in 1 .. n - k : late[i] = u[k + i]
  <2>1. \A i \in k + 1 .. n : u[i] \in S
    BY <1>1
  <2>2. /\ late \in Seq(S) /\ Len(late) = IF k + 1 <= n THEN n - (k + 1) + 1 ELSE 0
        /\ \A i \in 1 .. n - (k + 1) + 1 : late[i] = u[(k + 1) + i - 1]
    <3>1. k + 1 \in Int /\ n \in Int
      BY <1>1
    <3> QED
      BY <2>1, <3>1, SubSeqProperties
  <2> HIDE DEF late
  <2>3. \A i \in 1 .. n - k : i \in 1 .. n - (k + 1) + 1 /\ (k + 1) + i - 1 = k + i
    BY <1>1
  <2>4. (IF k + 1 <= n THEN n - (k + 1) + 1 ELSE 0) = n - k
    BY <1>1
  <2>5. Len(late) = n - k
    BY <2>2, <2>4, Zenon
  <2>6. ASSUME NEW i \in 1 .. n - k PROVE late[i] = u[k + i]
    <3>1. late[i] = u[(k + 1) + i - 1] /\ (k + 1) + i - 1 = k + i
      BY <2>2, <2>3, Zenon
    <3> QED
      BY <3>1, Zenon
  <2> QED
    BY <2>2, <2>5, <2>6, Zenon
<1> HIDE DEF early, late
<1>4. /\ start \in Seq(S) /\ Len(start) = k + 1
      /\ \A i \in 1 .. k + 1 : start[i] = t[i]
  <2>1. <<x>> \in Seq(S) /\ Len(<<x>>) = 1 /\ <<x>>[1] = x
    OBVIOUS
  <2>2. /\ start \in Seq(S) /\ Len(start) = k + 1
        /\ \A i \in 1 .. k + 1 : start[i] = IF i <= k THEN early[i] ELSE <<x>>[i - k]
    BY <1>1, <1>2, <2>1, ConcatProperties
  <2> HIDE DEF start
  <2>3. ASSUME NEW i \in 1 .. k + 1 PROVE start[i] = t[i]
    <3>1. CASE i <= k
      <4>1. i \in 1 .. k
        BY <1>1, <3>1
      <4>2. early[i] = u[i] /\ t[i] = u[i]
        BY <1>2, <4>1
      <4> QED
        BY <2>2, <3>1, <4>2, Zenon
    <3>2. CASE ~(i <= k)
      <4>1. i = k + 1 /\ i - k = 1
        BY <1>1, <3>2
      <4> QED
        BY <2>1, <2>2, <3>2, <4>1, Zenon
    <3> QED
      BY <3>1, <3>2
  <2> QED
    BY <2>2, <2>3
<1> HIDE DEF start
<1>5. /\ start \o late \in Seq(S) /\ Len(start \o late) = n + 1
      /\ \A i \in 1 .. n + 1 :
            (start \o late)[i] = IF i <= k + 1 THEN start[i] ELSE late[i - (k + 1)]
  <2>1. (k + 1) + (n - k) = n + 1
    BY <1>1
  <2>2. /\ start \o late \in Seq(S) /\ Len(start \o late) = Len(start) + Len(late)
        /\ \A i \in 1 .. Len(start) + Len(late) :
              (start \o late)[i] = IF i <= Len(start) THEN start[i] ELSE late[i - Len(start)]
    BY <1>3, <1>4, ConcatProperties, Zenon
  <2> QED
    BY <1>3, <1>4, <2>1, <2>2, Zenon
<1>6. ASSUME NEW i \in 1 .. n + 1 PROVE t[i] = (start \o late)[i]
  <2>1. CASE i <= k + 1
    BY <1>1, <1>4, <1>5, <2>1
  <2>2. CASE i > k + 1
    <3>1. /\ i - 1 \in k + 1 .. n /\ (i - 1) + 1 = i /\ i - (k + 1) \in 1 .. n - k
          /\ k + (i - (k + 1)) = i - 1 /\ ~(i <= k + 1)
      BY <1>1, <2>2
    <3>2. t[(i - 1) + 1] = u[i - 1]
      BY <3>1 DEF n
    <3>3. late[i - (k + 1)] = u[i - 1]
      BY <1>3, <3>1
    <3> QED
      BY <1>5, <3>1, <3>2, <3>3
  <2>3. i <= k + 1 \/ i > k + 1
    BY <1>1
  <2> QED
    BY <2>1, <2>2, <2>3, Zenon
<1>7. t = start \o late
  <2>1. Len(t) = n + 1
    BY DEF n
  <2> QED
    BY <1>5, <1>6, <2>1, SeqEqual
<1> QED
  BY <1>7 DEF start, early, late, n, With

LEMMA OrderEnough == Shape /\ Order => ReplayAtMostOneLate
<1> SUFFICES ASSUME Shape, Order, NEW w \in Watchers, lwPc[w] \in {"watching", "gone"}
             PROVE  LET updates == [i \in DOMAIN recv[w] |-> recv[w][i][2]]
                    IN  \E k \in 0 .. ChanCap - 1 :
                            told[w] = SubSeq(updates, 1, k) \o <<snap[w]>>
                                          \o SubSeq(updates, k + 1, Len(updates))
  BY DEF ReplayAtMostOneLate
<1> DEFINE updates == [i \in DOMAIN recv[w] |-> recv[w][i][2]]
<1>1. PICK k \in 0 .. ChanCap - 1 : Replayed(w, k)
  BY DEF Order
<1>2. /\ recv[w] \in Seq({Owner} \X Versions) /\ told[w] \in Seq(0 .. MaxSubmits)
      /\ snap[w] \in 0 .. MaxSubmits /\ k \in Nat
  BY DEF Shape, BroadcastTypes, TypeOK, ChanCap
<1>3. /\ Len(recv[w]) \in Nat /\ DOMAIN recv[w] = 1 .. Len(recv[w])
      /\ \A i \in 1 .. Len(recv[w]) : recv[w][i][2] \in 0 .. MaxSubmits
  BY <1>2, ElementOfSeq, LenProperties DEF Versions
<1>4. /\ updates \in Seq(0 .. MaxSubmits) /\ Len(updates) = Len(recv[w])
      /\ \A i \in 1 .. Len(recv[w]) : updates[i] = recv[w][i][2]
  BY <1>3
<1> HIDE DEF updates
<1>5. HasAfter(told[w], updates, snap[w], k)
  <2>1. \A i \in 1 .. k : i \in 1 .. Len(recv[w])
    BY <1>1, <1>2, <1>3 DEF Replayed
  <2>2. \A i \in k + 1 .. Len(recv[w]) : i \in 1 .. Len(recv[w])
    BY <1>2, <1>3
  <2> QED
    BY <1>1, <1>2, <1>3, <1>4, <2>1, <2>2 DEF Replayed, HasAfter
<1>6. told[w] = With(updates, snap[w], k)
  <2>1. \A S : \A u, t \in Seq(S) : \A x \in S : \A i : HasAfter(t, u, x, i) => t = With(u, x, i)
    BY Inserted
  <2>2. updates \in Seq(0 .. MaxSubmits) /\ told[w] \in Seq(0 .. MaxSubmits)
        /\ snap[w] \in 0 .. MaxSubmits
    BY <1>2, <1>4
  <2>3. \A u, t \in Seq(0 .. MaxSubmits) : \A x \in 0 .. MaxSubmits :
           \A i : HasAfter(t, u, x, i) => t = With(u, x, i)
    BY <2>1
  <2> QED
    BY <1>5, <2>2, <2>3
<1> QED
  BY <1>6 DEF updates, With

Reading == {"watching", "gone"}

(* The steps that tell no stream anything.                                 *)
LEMMA OrderRests ==
    ASSUME Order, UNCHANGED <<told, recv>>,
           \A w \in Watchers :
               /\ lwPc'[w] \in Reading <=> lwPc[w] \in Reading
               /\ lwPc[w] \in Reading => snap'[w] = snap[w]
    PROVE  Order'
<1> SUFFICES ASSUME NEW w \in Watchers
             PROVE  IF lwPc'[w] \in {"watching", "gone"}
                    THEN \E k \in 0 .. ChanCap - 1 : Replayed(w, k)'
                    ELSE /\ Len(told'[w]) = Len(recv'[w])
                         /\ \A i \in 1 .. Len(recv'[w]) : told'[w][i] = recv'[w][i][2]
  BY DEF Order, ChanCap
<1>1. CASE lwPc[w] \in Reading
  <2>1. PICK k \in 0 .. ChanCap - 1 : Replayed(w, k)
    BY <1>1 DEF Order, Reading
  <2>2. Replayed(w, k)'
    BY <1>1, <2>1 DEF Replayed
  <2> QED
    BY <1>1, <2>2 DEF Reading
<1>2. CASE lwPc[w] \notin Reading
  BY <1>2 DEF Order, Reading
<1> QED
  BY <1>1, <1>2

(* The snapshot is sent after at most one update, as two fill the channel. *)
LEMMA ReplayOrders ==
    ASSUME Shape, Order, NEW w \in Watchers, WatchReplay(w)
    PROVE  Order'
<1>1. /\ UNCHANGED <<recv, snap>> /\ queued[w] < ChanCap
      /\ told' = [told EXCEPT ![w] = Append(@, snap[w])]
      /\ lwPc[w] = "replay" /\ lwPc' = [lwPc EXCEPT ![w] = "watching"]
  BY DEF WatchReplay, HasRoom, Put, muxVars
<1>2. told \in [Watchers -> Seq(0 .. MaxSubmits)] /\ lwPc \in [Watchers -> LwPcs]
      /\ snap[w] \in 0 .. MaxSubmits /\ queued[w] \in 0 .. ChanCap
  BY DEF Shape, TypeOK
<1>3. /\ queued[w] = Len(told[w]) /\ Len(told[w]) = Len(recv[w])
      /\ \A i \in 1 .. Len(recv[w]) : told[w][i] = recv[w][i][2]
  BY <1>1 DEF Shape, WatcherPlace, Order
<1>4. Len(recv[w]) \in 0 .. ChanCap - 1
  BY <1>1, <1>2, <1>3 DEF ChanCap
<1>5. /\ Len(told'[w]) = Len(told[w]) + 1 /\ told'[w][Len(told[w]) + 1] = snap[w]
      /\ \A i \in 1 .. Len(told[w]) : told'[w][i] = told[w][i]
  BY <1>1, <1>2, AppendProperties
<1>6. Replayed(w, Len(recv[w]))'
  BY <1>1, <1>3, <1>4, <1>5 DEF Replayed, ChanCap
<1>7. \A x \in Watchers \ {w} : told'[x] = told[x] /\ lwPc'[x] = lwPc[x]
  BY <1>1, <1>2
<1> SUFFICES ASSUME NEW x \in Watchers
             PROVE  IF lwPc'[x] \in {"watching", "gone"}
                    THEN \E k \in 0 .. ChanCap - 1 : Replayed(x, k)'
                    ELSE /\ Len(told'[x]) = Len(recv'[x])
                         /\ \A i \in 1 .. Len(recv'[x]) : told'[x][i] = recv'[x][i][2]
  BY DEF Order, ChanCap
<1>8. CASE x = w
  BY <1>1, <1>2, <1>4, <1>6, <1>8
<1>9. CASE x # w
  <2>1. told'[x] = told[x] /\ lwPc'[x] = lwPc[x] /\ recv'[x] = recv[x] /\ snap'[x] = snap[x]
    BY <1>1, <1>7, <1>9
  <2> QED
    BY <2>1 DEF Order, Replayed
<1> QED
  BY <1>8, <1>9

(* A delivery adds to what was told and to what was received alike.        *)
LEMMA DeliverOrders ==
    ASSUME Shape, Order, NEW w \in Watchers, Deliver(w)
    PROVE  Order'
<1>1. /\ UNCHANGED <<snap, lwPc>> /\ w \in pending
      /\ told' = [told EXCEPT ![w] = Append(@, M!Current[2])]
      /\ recv' = [recv EXCEPT ![w] = Append(@, M!Current)]
  BY DEF Deliver, M!Deliver, Put, lwVars
<1>2. /\ told \in [Watchers -> Seq(0 .. MaxSubmits)]
      /\ recv \in [Watchers -> Seq({Owner} \X Versions)]
  BY DEF Shape, TypeOK, BroadcastTypes
<1>3. M!Current \in {Owner} \X Versions /\ M!Current[2] \in 0 .. MaxSubmits
  BY <1>1, CurrentVersion DEF Versions
<1>4. /\ Len(told[w]) \in Nat /\ Len(told'[w]) = Len(told[w]) + 1
      /\ told'[w][Len(told[w]) + 1] = M!Current[2]
      /\ \A i \in 1 .. Len(told[w]) : told'[w][i] = told[w][i]
  BY <1>1, <1>2, <1>3, AppendProperties, LenProperties
<1>5. /\ Len(recv[w]) \in Nat /\ Len(recv'[w]) = Len(recv[w]) + 1
      /\ recv'[w][Len(recv[w]) + 1] = M!Current
      /\ \A i \in 1 .. Len(recv[w]) : recv'[w][i] = recv[w][i]
  BY <1>1, <1>2, <1>3, AppendProperties, LenProperties
<1>6. \A x \in Watchers \ {w} : told'[x] = told[x] /\ recv'[x] = recv[x]
  BY <1>1, <1>2
<1>7. ASSUME NEW k \in 0 .. ChanCap - 1, Replayed(w, k)
      PROVE  Replayed(w, k)'
  <2>1. k \in Nat /\ k <= Len(recv[w]) /\ k + 1 \in 1 .. Len(told[w])
        /\ Len(told[w]) = Len(recv[w]) + 1
    BY <1>5, <1>7 DEF Replayed, ChanCap
  <2>2. k <= Len(recv'[w]) /\ Len(told'[w]) = Len(recv'[w]) + 1 /\ told'[w][k + 1] = snap'[w]
    BY <1>1, <1>4, <1>5, <1>7, <2>1 DEF Replayed
  <2>3. ASSUME NEW i \in 1 .. k
        PROVE  told'[w][i] = recv'[w][i][2]
    <3>1. told[w][i] = recv[w][i][2]
      BY <1>7 DEF Replayed
    <3>2. i \in 1 .. Len(recv[w]) /\ i \in 1 .. Len(told[w])
      BY <1>5, <2>1
    <3> QED
      BY <1>4, <1>5, <3>1, <3>2
  <2>4. ASSUME NEW i \in k + 1 .. Len(recv'[w])
        PROVE  told'[w][i + 1] = recv'[w][i][2]
    <3>1. CASE i = Len(recv[w]) + 1
      BY <1>4, <1>5, <2>1, <3>1
    <3>2. CASE i # Len(recv[w]) + 1
      <4>1. i \in k + 1 .. Len(recv[w]) /\ i \in 1 .. Len(recv[w]) /\ i + 1 \in 1 .. Len(told[w])
        BY <1>5, <2>1, <3>2
      <4> QED
        BY <1>4, <1>5, <1>7, <4>1 DEF Replayed
    <3> QED
      BY <3>1, <3>2
  <2> QED
    BY <2>2, <2>3, <2>4 DEF Replayed
<1> SUFFICES ASSUME NEW x \in Watchers
             PROVE  IF lwPc'[x] \in {"watching", "gone"}
                    THEN \E k \in 0 .. ChanCap - 1 : Replayed(x, k)'
                    ELSE /\ Len(told'[x]) = Len(recv'[x])
                         /\ \A i \in 1 .. Len(recv'[x]) : told'[x][i] = recv'[x][i][2]
  BY DEF Order, ChanCap
<1>8. CASE x = w /\ lwPc[w] \in {"watching", "gone"}
  BY <1>1, <1>7, <1>8 DEF Order
<1>9. CASE x = w /\ lwPc[w] \notin {"watching", "gone"}
  BY <1>1, <1>4, <1>5, <1>9 DEF Order
<1>10. CASE x # w
  BY <1>1, <1>6, <1>10 DEF Order, Replayed
<1> QED
  BY <1>8, <1>9, <1>10

LEMMA OrderKept == Shape /\ Order /\ [Next]_vars => Order'
<1> SUFFICES ASSUME Shape, Order, [Next]_vars PROVE Order'
  OBVIOUS
<1> USE DEF Running, M!runVars, M!chanVars, M!callVars, M!sinkVars
<1>1. CASE OwnerNext
  <2>1. UNCHANGED <<told, recv, lwPc, snap>>
    BY <1>1 DEF OwnerNext, SubmitLock, SubmitApply, CloseDone, SubmitBroadcast, CloseBroadcast,
                SubmitStep, M!SubmitCall, M!Close, M!Submit, M!SubmitProceed, M!SubmitClosed,
                M!SubmitTimeout, M!SubmitBuffered, M!SubmitHandoff, muxVars, lwVars, chanVars
  <2> QED
    BY <2>1, OrderRests
<1>2. CASE RunStep
  <2>1. UNCHANGED <<told, recv, lwPc, snap>>
    BY <1>2 DEF RunStep, M!Run, M!RunRecv, M!RunDone, M!RunDrain, M!FlushNext, M!FlushDone,
                M!RunExit, M!RunRegister, M!AckRegister, M!RunUnregister, M!AckUnregister,
                M!CloseSink, lwVars, chanVars
  <2> QED
    BY <2>1, OrderRests
<1>3. ASSUME NEW w \in Watchers, WatcherNext(w)
      PROVE  Order'
  <2>1. CASE WatchReplay(w)
    BY <2>1, ReplayOrders
  <2>2. CASE ~WatchReplay(w)
    <3>1. UNCHANGED <<told, recv>>
      BY <1>3, <2>2
         DEF WatcherNext, Watch, WatchSubscribe, WatchSnapshot, WatchPanic, CancelOnContext,
             CancellerEnds, StreamEnds, Receive, HandlerReturns, M!SubscribeCall, M!CancelCall,
             muxVars, lwVars, chanVars
    <3>2. lwPc \in [Watchers -> LwPcs] /\ snap \in [Watchers -> 0 .. MaxSubmits]
      BY DEF Shape, TypeOK
    <3>3. CASE WatchSnapshot(w)
      BY <3>1, <3>2, <3>3, OrderRests DEF WatchSnapshot, Reading
    <3>4. CASE ~WatchSnapshot(w)
      <4>1. /\ UNCHANGED snap
            /\ \/ UNCHANGED lwPc
               \/ \E v \in {"refused", "rlock", "subscribe"} :
                      lwPc[w] \notin Reading /\ lwPc' = [lwPc EXCEPT ![w] = v]
               \/ lwPc[w] \in Reading /\ lwPc' = [lwPc EXCEPT ![w] = "gone"]
        BY <1>3, <2>2, <3>4
           DEF WatcherNext, Watch, WatchSubscribe, WatchPanic, CancelOnContext, CancellerEnds,
               StreamEnds, Receive, HandlerReturns, lwVars, Reading
      <4>2. \A x \in Watchers : lwPc'[x] \in Reading <=> lwPc[x] \in Reading
        BY <3>2, <4>1 DEF Reading
      <4> QED
        BY <3>1, <4>1, <4>2, OrderRests
    <3> QED
      BY <3>3, <3>4
  <2> QED
    BY <2>1, <2>2
<1>4. ASSUME NEW w \in Watchers, Deliver(w)
      PROVE  Order'
  BY <1>4, DeliverOrders
<1>5. ASSUME NEW w \in Watchers, CallReturns(w)
      PROVE  Order'
  <2>1. UNCHANGED <<told, recv, lwPc, snap>>
    BY <1>5 DEF CallReturns, M!SubscribeClosed, M!CancelClosed, lwVars, chanVars
  <2> QED
    BY <2>1, OrderRests
<1>6. CASE UNCHANGED vars
  BY <1>6, OrderRests DEF vars, muxVars, lwVars, chanVars
<1> QED
  BY <1>1, <1>2, <1>3, <1>4, <1>5, <1>6 DEF Next

(* A stream is told every update in the broadcast's order, and its replay  *)
(* first or second (resource.go:157-189, the channel of two places).       *)
THEOREM ReplayInPlace == Spec => []ReplayAtMostOneLate
<1>1. Spec => []Order
  BY InitOrder, OrderKept, ShapeHolds, PTL DEF Spec
<1> QED
  BY <1>1, OrderEnough, ShapeHolds, PTL

-----------------------------------------------------------------------------
(* r.broadcast is a Mux in every behaviour of the resource: what the       *)
(* resource and its streams do to it are calls of Mux and steps of its run *)
(* (resource.go:131-197), so whatever holds of Mux holds of it.            *)
THEOREM BroadcastIsAMux == Spec => M!Spec
<1>1. Init => M!Init
  BY DEF Init
<1>2. [Next]_vars => [M!Next]_M!vars
  <2> SUFFICES ASSUME [Next]_vars PROVE M!Next \/ UNCHANGED M!vars
    BY DEF M!vars
  <2> USE DEF M!vars, M!runVars, M!chanVars, M!callVars, M!sinkVars
  <2>1. CASE OwnerNext
    <3>1. CASE SubmitLock \/ SubmitApply \/ CloseDone
      BY <3>1 DEF SubmitLock, SubmitApply, CloseDone, muxVars
    <3>2. CASE SubmitBroadcast \/ CloseBroadcast \/ SubmitStep
      <4>1. M!SubmitCall(Owner) \/ M!Close \/ M!Submit(Owner)
        BY <3>2 DEF SubmitBroadcast, CloseBroadcast, SubmitStep
      <4> QED
        BY <4>1, Zenon DEF M!Next
    <3> QED
      BY <2>1, <3>1, <3>2 DEF OwnerNext
  <2>2. CASE RunStep
    <3>1. M!Run
      BY <2>2 DEF RunStep
    <3> QED
      BY <3>1, Zenon DEF M!Next
  <2>3. ASSUME NEW w \in Watchers, WatcherNext(w) \/ Deliver(w) \/ CallReturns(w)
        PROVE  M!Next \/ UNCHANGED M!vars
    <3>1. CASE WatchSubscribe(w) \/ CancelOnContext(w) \/ Deliver(w) \/ CallReturns(w)
      <4>1. M!Subscriber(w) \/ M!Deliver(w)
        BY <3>1, Zenon DEF WatchSubscribe, CancelOnContext, Deliver, CallReturns, M!Subscriber
      <4> QED
        BY <4>1, Zenon DEF M!Next
    <3>2. CASE ~(WatchSubscribe(w) \/ CancelOnContext(w) \/ Deliver(w) \/ CallReturns(w))
      <4>1. UNCHANGED muxVars
        BY <2>3, <3>2
           DEF WatcherNext, Watch, WatchSnapshot, WatchReplay, WatchPanic, CancellerEnds,
               StreamEnds, Receive, HandlerReturns
      <4> QED
        BY <4>1 DEF muxVars
    <3> QED
      BY <3>1, <3>2
  <2>4. CASE UNCHANGED vars
    BY <2>4 DEF vars, muxVars
  <2> QED
    BY <2>1, <2>2, <2>3, <2>4 DEF Next
<1> QED
  BY <1>1, <1>2, PTL DEF Spec, M!Spec

(* The theorems of MuxProofs are theorems about r.broadcast.               *)
MP == INSTANCE MuxProofs WITH Submitters <- {Owner}, Sinks <- Watchers, BufSizes <- {0}

(* M and MP are one Mux: the modules instantiate it under two names.       *)
LEMMA SameMux == M!Next => MP!Next
BY Zenon
   DEF M!Next, M!Close, M!Terminated, M!Returned, M!SubmitCall, M!Submit, M!SubmitProceed,
       M!SubmitClosed, M!SubmitTimeout, M!SubmitBuffered, M!SubmitHandoff, M!Value,
       M!Subscriber, M!SubscribeCall, M!SubscribeClosed, M!CancelCall, M!CancelClosed, M!Run,
       M!RunRecv, M!RunDone, M!RunDrain, M!FlushNext, M!FlushDone, M!RunExit, M!RunRegister,
       M!AckRegister, M!RunUnregister, M!AckUnregister, M!CloseSink, M!Deliver, M!Dispatch,
       M!Current, M!vars, M!runVars, M!chanVars, M!callVars, M!sinkVars,
       MP!Next, MP!Close, MP!Terminated, MP!Returned, MP!SubmitCall, MP!Submit,
       MP!SubmitProceed, MP!SubmitClosed, MP!SubmitTimeout, MP!SubmitBuffered,
       MP!SubmitHandoff, MP!Value, MP!Subscriber, MP!SubscribeCall, MP!SubscribeClosed,
       MP!CancelCall, MP!CancelClosed, MP!Run, MP!RunRecv, MP!RunDone, MP!RunDrain,
       MP!FlushNext, MP!FlushDone, MP!RunExit, MP!RunRegister, MP!AckRegister,
       MP!RunUnregister, MP!AckUnregister, MP!CloseSink, MP!Deliver, MP!Dispatch, MP!Current,
       MP!vars, MP!runVars, MP!chanVars, MP!callVars, MP!sinkVars

LEMMA SameSpec == M!Spec => MP!Spec
<1>1. M!Init => MP!Init
  BY Zenon DEF M!Init, MP!Init
<1>2. [M!Next]_M!vars => [MP!Next]_MP!vars
  BY SameMux, Zenon
     DEF M!vars, M!runVars, M!chanVars, M!callVars, M!sinkVars,
         MP!vars, MP!runVars, MP!chanVars, MP!callVars, MP!sinkVars
<1> QED
  BY <1>1, <1>2, PTL DEF M!Spec, MP!Spec

(* What Mux promises, r.broadcast keeps: an update that Submit got through *)
(* reaches the channels of all streams in one order, no channel is closed  *)
(* twice, and the mux writes to none after its Close, whenever the streams *)
(* come and go and the resource is closed (resource.go:131-197).           *)
THEOREM BroadcastKeepsMux ==
    Spec => /\ [](M!InOrder /\ M!ExitDeliversAll /\ M!SinkClosedOnce)
            /\ M!NoSubmitAfterClose
<1>1. {0} \subseteq Nat /\ MaxSubmits \in Nat
  BY ResourceAssumption
<1>2. /\ MP!Spec => []MP!InOrder
      /\ MP!Spec => []MP!ExitDeliversAll
      /\ MP!Spec => []MP!SinkClosedOnce
      /\ MP!Spec => MP!NoSubmitAfterClose
  BY <1>1, MP!NothingLost, MP!ShutdownLosesNothing, MP!ClosedAtMostOnce, MP!ClosedSinksAreQuiet
<1>3. MP!InOrder => M!InOrder
  BY Zenon DEF MP!InOrder, MP!AcceptedLog, MP!FanOut, MP!Served,
               M!InOrder, M!AcceptedLog, M!FanOut, M!Served
<1>4. MP!ExitDeliversAll => M!ExitDeliversAll
  BY Zenon DEF MP!ExitDeliversAll, MP!KeptToTheEnd, M!ExitDeliversAll, M!KeptToTheEnd
<1>5. MP!SinkClosedOnce => M!SinkClosedOnce
  BY Zenon DEF MP!SinkClosedOnce, M!SinkClosedOnce
<1>6. [\A s \in Watchers : closes[s] > 0 => recv'[s] = recv[s]]_MP!vars
          => [\A s \in Watchers : closes[s] > 0 => recv'[s] = recv[s]]_M!vars
  BY Zenon DEF MP!vars, MP!runVars, MP!chanVars, MP!callVars, MP!sinkVars,
               M!vars, M!runVars, M!chanVars, M!callVars, M!sinkVars
<1>7. MP!NoSubmitAfterClose => M!NoSubmitAfterClose
  BY <1>6, PTL DEF MP!NoSubmitAfterClose, M!NoSubmitAfterClose
<1> QED
  BY <1>2, <1>3, <1>4, <1>5, <1>7, BroadcastIsAMux, SameSpec, PTL
=============================================================================
