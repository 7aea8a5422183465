-------------------------------- MODULE Mux --------------------------------
(***************************************************************************)
(* The fan-out multiplexer of internal/mux/mux.go.                         *)
(*                                                                         *)
(* The actors are the goroutine run(), which alone owns the map outputs;   *)
(* the callers of Submit; one subscriber per sink, which calls Subscribe   *)
(* and may then call the CancelFunc it got, once; and the caller of Close. *)
(* A select statement is a choice between the actions of its cases.  The   *)
(* unbuffered channels register, unregister and reply are joint steps of   *)
(* the two goroutines that meet on them.                                   *)
(*                                                                         *)
(* The write half of submitMu is used only by the deferred function of     *)
(* run: run waits for it exactly while runPc = "lock".  The read half is   *)
(* held by a submitter exactly while its Submit call is in progress.       *)
(***************************************************************************)
EXTENDS Integers, Sequences, FiniteSets

CONSTANTS
    Submitters,     \* goroutines that call Submit, one call at a time
    Sinks,          \* sinks, each subscribed at most once
    MaxSubmits,     \* bound on the calls of each submitter
    BufSizes        \* the capacities given to Buffered() (0 is the default)

ASSUME MuxAssumption ==
    /\ MaxSubmits \in Nat
    /\ BufSizes \subseteq Nat

VARIABLES
    inBufSize,      \* Mux.inBufSize, the capacity of the channel input
    input,          \* content of the channel input
    outputs,        \* keys of the map outputs
    done,           \* TRUE when the channel done is closed
    runPc,          \* where run() is
    pending,        \* the sinks the current fan-out has still to serve
    buffered,       \* the local slice the deferred function drains input into
    submitPc,       \* where each submitter is
    calls,          \* number of Submit calls each submitter has begun
    subPc,          \* where each sink's subscriber is
    closes,         \* number of Close calls each sink has received
    \* History: what the properties below compare.
    sent,           \* values whose Submit returned nil, in that order
    dispatched,     \* values run() has taken off input, in order
    base,           \* Len(dispatched) when the sink was registered
    recv            \* values handed to the sink's Submit, in order

runVars  == <<runPc, pending, buffered>>
chanVars == <<inBufSize, input, done>>
callVars == <<submitPc, calls>>
sinkVars == <<outputs, subPc, closes, base>>
vars     == <<runVars, chanVars, callVars, sinkVars, sent, dispatched, recv>>

(* A value is named by the call that submits it.                           *)
Values == Submitters \X (1 .. MaxSubmits)
ValueOfLastCall(p) == <<p, calls[p] - 1>>
Value(p) == <<p, calls[p]>>

(* The v of the fan-out loop: the last value taken off input.              *)
Current == dispatched[Len(dispatched)]

RunPcs    == {"select", "fanout", "ackRegister", "ackUnregister",
              "lock", "flush", "closing", "exited"}
SubmitPcs == {"idle", "check", "select"}
SubPcs    == {"new", "registering", "regWait", "subscribed", "unheard",
              "cancelling", "unregWait", "cancelled", "released"}

(* The subscriber's calls that have returned: Subscribe with a CancelFunc  *)
(* that works ("subscribed") or does nothing ("unheard"), the CancelFunc   *)
(* after run's acknowledgement ("cancelled") or by its done case           *)
(* ("released").                                                           *)
Returned == {"subscribed", "unheard", "cancelled", "released"}

(* Make: run starts at its select.                                         *)
Init ==
    /\ inBufSize \in BufSizes
    /\ input = <<>>
    /\ outputs = {}
    /\ done = FALSE
    /\ runPc = "select"
    /\ pending = {}
    /\ buffered = <<>>
    /\ submitPc = [p \in Submitters |-> "idle"]
    /\ calls = [p \in Submitters |-> 0]
    /\ subPc = [s \in Sinks |-> "new"]
    /\ closes = [s \in Sinks |-> 0]
    /\ sent = <<>>
    /\ dispatched = <<>>
    /\ base = [s \in Sinks |-> 0]
    /\ recv = [s \in Sinks |-> <<>>]

-----------------------------------------------------------------------------
(* Slips: what the code might say instead.  None is part of Next; each     *)
(* stands in for the action it resembles, to show which property notices.  *)

(* A Submit with no time.After case.                                       *)
SubmitUntimed(p) == submitPc[p] = "unreachable" /\ UNCHANGED vars

(* A sink's error ends the loop over outputs instead of being logged.      *)
DeliverOrBreak(s) ==
    /\ runPc \in {"fanout", "flush"}
    /\ s \in pending
    /\ recv' = [recv EXCEPT ![s] = Append(@, Current)]
    /\ pending' \in {pending \ {s}, {}}
    /\ runPc' = IF runPc = "fanout" /\ pending' = {} THEN "select" ELSE runPc
    /\ UNCHANGED <<buffered, chanVars, callVars, sinkVars, sent, dispatched>>

(* The unregister case without its delete, its Close or its reply.         *)
UnregisterSlip(s, outs, n, pc) ==
    /\ runPc = "select"
    /\ subPc[s] = "cancelling"
    /\ outputs' = outs
    /\ closes' = [closes EXCEPT ![s] = @ + n]
    /\ runPc' = pc
    /\ subPc' = [subPc EXCEPT ![s] = "unregWait"]
    /\ UNCHANGED <<base, pending, buffered, chanVars, callVars,
                   sent, dispatched, recv>>
UnregisterUndeleted(s) == UnregisterSlip(s, outputs, 1, "ackUnregister")
UnregisterUnclosed(s)  == UnregisterSlip(s, outputs \ {s}, 0, "ackUnregister")
UnregisterUnreplied(s) == UnregisterSlip(s, outputs \ {s}, 1, "select")

(* The drain without submitMu.                                             *)
DrainUnlocked ==
    /\ runPc = "lock"
    /\ buffered' = input
    /\ input' = <<>>
    /\ runPc' = "flush"
    /\ UNCHANGED <<inBufSize, done, pending, callVars, sinkVars,
                   sent, dispatched, recv>>

(* The sinks are closed before the drained values are delivered.           *)
CloseBeforeFlush ==
    /\ runPc = "flush"
    /\ runPc' = "closing"
    /\ UNCHANGED <<pending, buffered, chanVars, callVars, sinkVars,
                   sent, dispatched, recv>>

(* The last loop deletes the sinks without closing them.                   *)
DeleteUnclosed(s) ==
    /\ runPc = "closing"
    /\ s \in outputs
    /\ outputs' = outputs \ {s}
    /\ UNCHANGED <<closes, subPc, base, runVars, chanVars, callVars,
                   sent, dispatched, recv>>

-----------------------------------------------------------------------------
(* Close.                                                                  *)

Close ==
    /\ ~done
    /\ done' = TRUE
    /\ UNCHANGED <<inBufSize, input, runVars, callVars, sinkVars,
                   sent, dispatched, recv>>

-----------------------------------------------------------------------------
(* Submit.                                                                 *)

(* RLock is refused while a writer waits for submitMu.                     *)
SubmitCall(p) ==
    /\ submitPc[p] = "idle"
    /\ calls[p] < MaxSubmits
    /\ runPc # "lock"
    /\ submitPc' = [submitPc EXCEPT ![p] = "check"]
    /\ calls' = [calls EXCEPT ![p] = @ + 1]
    /\ UNCHANGED <<runVars, chanVars, sinkVars, sent, dispatched, recv>>

(* The default case of the fast path.                                      *)
SubmitProceed(p) ==
    /\ submitPc[p] = "check"
    /\ ~done
    /\ submitPc' = [submitPc EXCEPT ![p] = "select"]
    /\ UNCHANGED <<calls, runVars, chanVars, sinkVars, sent, dispatched, recv>>

(* The done case of either select: an error is returned.                   *)
SubmitClosed(p) ==
    /\ submitPc[p] \in {"check", "select"}
    /\ done
    /\ submitPc' = [submitPc EXCEPT ![p] = "idle"]
    /\ UNCHANGED <<calls, runVars, chanVars, sinkVars, sent, dispatched, recv>>

(* The time.After case: the timer may fire whenever the call waits.        *)
SubmitTimeout(p) ==
    /\ submitPc[p] = "select"
    /\ submitPc' = [submitPc EXCEPT ![p] = "idle"]
    /\ UNCHANGED <<calls, runVars, chanVars, sinkVars, sent, dispatched, recv>>

(* The send case on a buffered channel with room.                          *)
SubmitBuffered(p) ==
    /\ submitPc[p] = "select"
    /\ Len(input) < inBufSize
    /\ input' = Append(input, Value(p))
    /\ sent' = Append(sent, Value(p))
    /\ submitPc' = [submitPc EXCEPT ![p] = "idle"]
    /\ UNCHANGED <<calls, inBufSize, done, runVars, sinkVars, dispatched, recv>>

(* run has received v: it starts the fan-out over outputs.                 *)
Dispatch(v) ==
    /\ dispatched' = Append(dispatched, v)
    /\ pending' = outputs

(* The send case on an unbuffered channel: it meets the receive of run.    *)
SubmitHandoff(p) ==
    /\ submitPc[p] = "select"
    /\ inBufSize = 0
    /\ runPc = "select"
    /\ Dispatch(Value(p))
    /\ runPc' = IF outputs = {} THEN "select" ELSE "fanout"
    /\ sent' = Append(sent, Value(p))
    /\ submitPc' = [submitPc EXCEPT ![p] = "idle"]
    /\ UNCHANGED <<calls, chanVars, buffered, sinkVars, recv>>

-----------------------------------------------------------------------------
(* Subscribe and the CancelFunc it returns.                                *)

SubscribeCall(s) ==
    /\ subPc[s] = "new"
    /\ subPc' = [subPc EXCEPT ![s] = "registering"]
    /\ UNCHANGED <<outputs, closes, base, runVars, chanVars, callVars,
                   sent, dispatched, recv>>

(* The done case of Subscribe: the sink is neither registered nor closed.  *)
SubscribeClosed(s) ==
    /\ subPc[s] = "registering"
    /\ done
    /\ subPc' = [subPc EXCEPT ![s] = "unheard"]
    /\ UNCHANGED <<outputs, closes, base, runVars, chanVars, callVars,
                   sent, dispatched, recv>>

CancelCall(s) ==
    /\ subPc[s] = "subscribed"
    /\ subPc' = [subPc EXCEPT ![s] = "cancelling"]
    /\ UNCHANGED <<outputs, closes, base, runVars, chanVars, callVars,
                   sent, dispatched, recv>>

(* The done case of the CancelFunc: it returns whatever run is doing.      *)
CancelClosed(s) ==
    /\ subPc[s] = "cancelling"
    /\ done
    /\ subPc' = [subPc EXCEPT ![s] = "released"]
    /\ UNCHANGED <<outputs, closes, base, runVars, chanVars, callVars,
                   sent, dispatched, recv>>

-----------------------------------------------------------------------------
(* The loop of run.                                                        *)

RunRecv ==
    /\ runPc = "select"
    /\ input # <<>>
    /\ input' = Tail(input)
    /\ Dispatch(Head(input))
    /\ runPc' = IF outputs = {} THEN "select" ELSE "fanout"
    /\ UNCHANGED <<inBufSize, done, buffered, callVars, sinkVars, sent, recv>>

(* out.Submit(v) returns, in the loop or in the deferred function; a sink  *)
(* that blocks delays this step.  The error it may return is only logged,  *)
(* so the outcome does not matter here.                                    *)
Deliver(s) ==
    /\ runPc \in {"fanout", "flush"}
    /\ s \in pending
    /\ recv' = [recv EXCEPT ![s] = Append(@, Current)]
    /\ pending' = pending \ {s}
    /\ runPc' = IF runPc = "fanout" /\ pending = {s} THEN "select" ELSE runPc
    /\ UNCHANGED <<buffered, chanVars, callVars, sinkVars, sent, dispatched>>

RunRegister(s) ==
    /\ runPc = "select"
    /\ subPc[s] = "registering"
    /\ outputs' = outputs \union {s}
    /\ base' = [base EXCEPT ![s] = Len(dispatched)]
    /\ runPc' = "ackRegister"
    /\ subPc' = [subPc EXCEPT ![s] = "regWait"]
    /\ UNCHANGED <<closes, pending, buffered, chanVars, callVars,
                   sent, dispatched, recv>>

AckRegister(s) ==
    /\ runPc = "ackRegister"
    /\ subPc[s] = "regWait"
    /\ runPc' = "select"
    /\ subPc' = [subPc EXCEPT ![s] = "subscribed"]
    /\ UNCHANGED <<outputs, closes, base, pending, buffered, chanVars, callVars,
                   sent, dispatched, recv>>

RunUnregister(s) ==
    /\ runPc = "select"
    /\ subPc[s] = "cancelling"
    /\ outputs' = outputs \ {s}
    /\ closes' = [closes EXCEPT ![s] = @ + 1]
    /\ runPc' = "ackUnregister"
    /\ subPc' = [subPc EXCEPT ![s] = "unregWait"]
    /\ UNCHANGED <<base, pending, buffered, chanVars, callVars,
                   sent, dispatched, recv>>

AckUnregister(s) ==
    /\ runPc = "ackUnregister"
    /\ subPc[s] = "unregWait"
    /\ runPc' = "select"
    /\ subPc' = [subPc EXCEPT ![s] = "cancelled"]
    /\ UNCHANGED <<outputs, closes, base, pending, buffered, chanVars, callVars,
                   sent, dispatched, recv>>

(* The done case: the deferred function calls submitMu.Lock.               *)
RunDone ==
    /\ runPc = "select"
    /\ done
    /\ runPc' = "lock"
    /\ UNCHANGED <<pending, buffered, chanVars, callVars, sinkVars,
                   sent, dispatched, recv>>

-----------------------------------------------------------------------------
(* The deferred function of run.                                           *)

(* The lock is granted when no Submit is in progress.  Nobody can observe  *)
(* input while it is held, so lock, drain and unlock are one step.         *)
RunDrain ==
    /\ runPc = "lock"
    /\ \A p \in Submitters : submitPc[p] = "idle"
    /\ buffered' = input
    /\ input' = <<>>
    /\ runPc' = "flush"
    /\ UNCHANGED <<inBufSize, done, pending, callVars, sinkVars,
                   sent, dispatched, recv>>

FlushNext ==
    /\ runPc = "flush"
    /\ pending = {}
    /\ buffered # <<>>
    /\ buffered' = Tail(buffered)
    /\ Dispatch(Head(buffered))
    /\ UNCHANGED <<runPc, chanVars, callVars, sinkVars, sent, recv>>

FlushDone ==
    /\ runPc = "flush"
    /\ pending = {}
    /\ buffered = <<>>
    /\ runPc' = "closing"
    /\ UNCHANGED <<pending, buffered, chanVars, callVars, sinkVars,
                   sent, dispatched, recv>>

CloseSink(s) ==
    /\ runPc = "closing"
    /\ s \in outputs
    /\ outputs' = outputs \ {s}
    /\ closes' = [closes EXCEPT ![s] = @ + 1]
    /\ UNCHANGED <<subPc, base, runVars, chanVars, callVars,
                   sent, dispatched, recv>>

RunExit ==
    /\ runPc = "closing"
    /\ outputs = {}
    /\ runPc' = "exited"
    /\ UNCHANGED <<pending, buffered, chanVars, callVars, sinkVars,
                   sent, dispatched, recv>>

-----------------------------------------------------------------------------
Submit(p) ==
    \/ SubmitProceed(p)
    \/ SubmitClosed(p)
    \/ SubmitTimeout(p)
    \/ SubmitBuffered(p)
    \/ SubmitHandoff(p)

Subscriber(s) ==
    \/ SubscribeCall(s)
    \/ SubscribeClosed(s)
    \/ CancelCall(s)
    \/ CancelClosed(s)

(* The steps of run that no sink can delay.                                *)
Run ==
    \/ RunRecv
    \/ RunDone
    \/ RunDrain
    \/ FlushNext
    \/ FlushDone
    \/ RunExit
    \/ \E s \in Sinks : \/ RunRegister(s)
                        \/ AckRegister(s)
                        \/ RunUnregister(s)
                        \/ AckUnregister(s)
                        \/ CloseSink(s)

(* The program's end: run has returned and every call has been made.       *)
Terminated ==
    /\ runPc = "exited"
    /\ \A p \in Submitters : submitPc[p] = "idle" /\ calls[p] = MaxSubmits
    /\ \A s \in Sinks : subPc[s] \in Returned \ {"subscribed"}
    /\ UNCHANGED vars

Next ==
    \/ Close
    \/ \E p \in Submitters : SubmitCall(p) \/ Submit(p)
    \/ \E s \in Sinks : Subscriber(s) \/ Deliver(s)
    \/ Run
    \/ Terminated

Spec == Init /\ [][Next]_vars

(* A goroutine that can run does: run, every Submit call in progress, and  *)
(* the done cases of Subscribe and of the CancelFunc.  Nobody is obliged   *)
(* to make a call, and a sink may block for ever.                          *)
Fairness ==
    /\ WF_vars(Run)
    /\ \A p \in Submitters : WF_vars(Submit(p))
    /\ \A s \in Sinks : WF_vars(SubscribeClosed(s) \/ CancelClosed(s))

FairSpec == Spec /\ Fairness

(* Every sink takes what it is given: its channel has a reader.            *)
SinksTake == \A s \in Sinks : WF_vars(Deliver(s))

-----------------------------------------------------------------------------
(* Properties.                                                             *)

(* Type correctness of the goroutine's and the callers' state.             *)
TypeOK ==
    /\ inBufSize \in Nat
    /\ input \in Seq(Values)
    /\ outputs \subseteq Sinks
    /\ done \in BOOLEAN
    /\ runPc \in RunPcs
    /\ pending \subseteq Sinks
    /\ buffered \in Seq(Values)
    /\ submitPc \in [Submitters -> SubmitPcs]
    /\ calls \in [Submitters -> 0 .. MaxSubmits]
    /\ subPc \in [Sinks -> SubPcs]
    /\ closes \in [Sinks -> Nat]
    /\ sent \in Seq(Values)
    /\ dispatched \in Seq(Values)
    /\ base \in [Sinks -> Nat]
    /\ recv \in [Sinks -> Seq(Values)]

(* What Submit accepted is what was taken off input, what is being flushed *)
(* and what is still queued.                                               *)
AcceptedLog == sent = dispatched \o buffered \o input

(* What a registered sink has been given: every value taken off input      *)
(* since its registration, but for the current one if it is still to be    *)
(* served.                                                                 *)
Served(s) == Len(dispatched) - (IF s \in pending THEN 1 ELSE 0)

FanOut ==
    \A s \in outputs : recv[s] = SubSeq(dispatched, base[s] + 1, Served(s))

(* No accepted value is lost, duplicated or overtaken on its way to the    *)
(* registered sinks, through the channel, the drain of the deferred        *)
(* function and the two fan-out loops (mux.go:271-319).                    *)
InOrder == AcceptedLog /\ FanOut

(* The sink was registered and run was never asked to unregister it.       *)
KeptToTheEnd(s) == closes[s] > 0 /\ subPc[s] \notin {"unregWait", "cancelled"}

(* Shutdown loses nothing: a sink that run closed on its way out has been  *)
(* given every value accepted since its registration, the ones that were   *)
(* in the buffer when Close was called included ("Wait for all in-flight   *)
(* Submits", "Deliver buffered values to sinks").                          *)
ExitDeliversAll ==
    runPc = "exited" =>
        /\ dispatched = sent
        /\ \A s \in Sinks :
               KeptToTheEnd(s) => recv[s] = SubSeq(sent, base[s] + 1, Len(sent))

(* The contract of Sink: Close is called once at most, even when a         *)
(* CancelFunc races the end of run, and never on a sink that is registered.*)
SinkClosedOnce ==
    \A s \in Sinks : closes[s] <= (IF s \in outputs THEN 0 ELSE 1)

(* Subscribe and the CancelFunc are synchronous: between the return of the *)
(* one and the call of the other the sink is registered until run closes   *)
(* all sinks, and after an acknowledged cancel it is closed.               *)
Synchronous ==
    \A s \in Sinks :
        /\ subPc[s] = "subscribed" => s \in outputs \/ runPc \in {"closing", "exited"}
        /\ subPc[s] = "cancelled" => s \notin outputs /\ closes[s] = 1

(* "After Close, Submit must not be called again": on a sink made of a     *)
(* channel it would panic.                                                 *)
NoSubmitAfterClose ==
    [][\A s \in Sinks : closes[s] > 0 => recv'[s] = recv[s]]_vars

(* What Subscribe's comment says of every CancelFunc that has returned:    *)
(* "no further calls to sink.Submit will be made".  The code keeps this    *)
(* promise only for the acknowledged case.                                 *)
CancelSilences ==
    [][\A s \in Sinks :
           subPc[s] \in {"cancelled", "released"} => recv'[s] = recv[s]]_vars

(* A sink that blocks for ever stalls no producer: every Submit returns,   *)
(* and run never keeps submitMu.                                           *)
SubmitReturns ==
    /\ \A p \in Submitters : submitPc[p] # "idle" ~> submitPc[p] = "idle"
    /\ runPc = "lock" ~> runPc # "lock"

(* After Close, if sinks do take what they are given, run comes to its end *)
(* and every sink it accepted is closed.                                   *)
ShutdownCompletes ==
    SinksTake =>
        (done ~> /\ runPc = "exited"
                 /\ \A s \in Sinks : subPc[s] \in {"new", "registering", "unheard"}
                                         \/ closes[s] = 1)

(* Subscribe and the CancelFunc return if sinks do take what they are      *)
(* given: neither waits for a reply that never comes, Close or no Close.   *)
SubscriberReturns ==
    SinksTake =>
        \A s \in Sinks :
            subPc[s] \notin Returned \union {"new"} ~> subPc[s] \in Returned

-----------------------------------------------------------------------------
(* The multiplexer implements the broadcast.                               *)

Closed  == {s \in Sinks : closes[s] > 0}
Stopped == runPc \in {"closing", "exited"}

B == INSTANCE Broadcast WITH
         accepted  <- sent,
         published <- Len(dispatched),
         attached  <- outputs,
         closed    <- Closed,
         from      <- base,
         got       <- recv,
         stopped   <- Stopped

(* Behind its channel, its lock and its deferred function the Mux is a     *)
(* Broadcast: sinks are served in lock step, each from its registration    *)
(* on, and run stops only when all that Submit accepted has been given.    *)
ImplementsBroadcast == B!Spec

-----------------------------------------------------------------------------
(* What every reachable state satisfies besides, and the theorems of       *)
(* MuxProofs need: the inductive invariant is IInv.                        *)

(* What the program counters of run and of the submitters say of the rest. *)
RunShape ==
    /\ Len(input) <= inBufSize
    /\ pending \subseteq outputs
    /\ pending # {} => dispatched # <<>>
    /\ runPc = "fanout" => pending # {}
    /\ runPc \notin {"fanout", "flush"} => pending = {}
    /\ runPc # "flush" => buffered = <<>>
    /\ runPc \in {"lock", "flush", "closing", "exited"} => done
    /\ runPc \in {"flush", "closing", "exited"} =>
           input = <<>> /\ \A p \in Submitters : submitPc[p] # "select"
    /\ runPc = "exited" => outputs = {}
    /\ \A p \in Submitters : submitPc[p] # "idle" => calls[p] > 0

(* Where a sink is, by the calls its subscriber has made.                  *)
Unregistered(s) == s \notin outputs /\ closes[s] = 0 /\ recv[s] = <<>>
Registered(s)   == s \in outputs /\ closes[s] = 0
Unsubscribed(s) == s \notin outputs /\ closes[s] = 1
Complete(s)     == /\ Unsubscribed(s)
                   /\ Stopped
                   /\ recv[s] = SubSeq(dispatched, base[s] + 1, Len(dispatched))

SinkShape ==
    \A s \in Sinks :
        /\ base[s] <= Len(dispatched)
        /\ s \in pending => base[s] < Len(dispatched)
        /\ subPc[s] \in {"new", "registering", "unheard"} => Unregistered(s)
        /\ subPc[s] \in {"regWait", "subscribed", "cancelling", "released"} =>
               Registered(s) \/ Complete(s)
        /\ subPc[s] \in {"unregWait", "cancelled"} => Unsubscribed(s)

IInv == TypeOK /\ AcceptedLog /\ FanOut /\ RunShape /\ SinkShape
=============================================================================
