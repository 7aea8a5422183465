----------------------------- MODULE MuxProofs -----------------------------
(***************************************************************************)
(* Theorems about Mux, for every set of submitters and sinks, every number *)
(* of calls and every capacity of the channel.  They rest on the           *)
(* invariant IInv, which is inductive.                                     *)
(***************************************************************************)
EXTENDS Mux, SequenceTheorems, TLAPS

-----------------------------------------------------------------------------
(* Sequences.                                                              *)

(* Appending does not change a part of what was there.                     *)
LEMMA SubSeqOfAppend ==
    ASSUME NEW S, NEW q \in Seq(S), NEW e \in S,
           NEW m \in Nat, NEW n \in Nat, n <= Len(q)
    PROVE  SubSeq(Append(q, e), m + 1, n) = SubSeq(q, m + 1, n)
<1>1. Append(q, e) \in Seq(S) /\ Len(Append(q, e)) = Len(q) + 1
      /\ \A i \in 1 .. Len(q) : Append(q, e)[i] = q[i]
      BY AppendProperties
<1>2. /\ SubSeq(Append(q, e), m + 1, n) \in Seq(S)
      /\ Len(SubSeq(Append(q, e), m + 1, n)) = IF m + 1 <= n THEN n - (m + 1) + 1 ELSE 0
      /\ \A i \in 1 .. n - (m + 1) + 1 :
             SubSeq(Append(q, e), m + 1, n)[i] = Append(q, e)[(m + 1) + i - 1]
  <2>1. \A i \in (m + 1) .. n : Append(q, e)[i] \in S
        BY <1>1, ElementOfSeq
  <2>2. QED BY <2>1, SubSeqProperties
<1>3. /\ SubSeq(q, m + 1, n) \in Seq(S)
      /\ Len(SubSeq(q, m + 1, n)) = IF m + 1 <= n THEN n - (m + 1) + 1 ELSE 0
      /\ \A i \in 1 .. n - (m + 1) + 1 : SubSeq(q, m + 1, n)[i] = q[(m + 1) + i - 1]
  <2>1. \A i \in (m + 1) .. n : q[i] \in S
        BY ElementOfSeq
  <2>2. QED BY <2>1, SubSeqProperties
<1>4. \A i \in 1 .. Len(SubSeq(q, m + 1, n)) :
          SubSeq(Append(q, e), m + 1, n)[i] = SubSeq(q, m + 1, n)[i]
      BY <1>1, <1>2, <1>3
<1>5. QED BY <1>2, <1>3, <1>4, SeqEqual

(* A part grows by the element that follows it.                            *)
LEMMA SubSeqGrows ==
    ASSUME NEW S, NEW q \in Seq(S), NEW m \in Nat, m < Len(q)
    PROVE  Append(SubSeq(q, m + 1, Len(q) - 1), q[Len(q)]) = SubSeq(q, m + 1, Len(q))
<1>1. Len(q) \in Nat /\ m + 1 \in 1 .. Len(q) /\ Len(q) \in (m + 1) .. Len(q)
      /\ q[Len(q)] \in S
      BY LenProperties, ElementOfSeq
<1>2. SubSeq(q, m + 1, Len(q)) = SubSeq(q, m + 1, Len(q) - 1) \o <<q[Len(q)]>>
      BY <1>1, SubSeqRecursiveSecond
<1>3. SubSeq(q, m + 1, Len(q) - 1) \in Seq(S)
  <2>1. \A i \in (m + 1) .. (Len(q) - 1) : q[i] \in S
        BY <1>1, ElementOfSeq
  <2>2. QED BY <1>1, <2>1, SubSeqProperties
<1>4. QED BY <1>1, <1>2, <1>3, AppendIsConcat

(* Concatenation is associative, for named sequences.                      *)
LEMMA Associative ==
    ASSUME NEW S, NEW f \in Seq(S), NEW g \in Seq(S), NEW h \in Seq(S)
    PROVE  (f \o g) \o h = f \o (g \o h)
BY ConcatAssociative, Z3

(* The queue from Submit to the fan-out, seen as one sequence.             *)
LEMMA QueueEnters ==
    ASSUME NEW S, NEW d \in Seq(S), NEW b \in Seq(S), NEW i \in Seq(S), NEW v \in S
    PROVE  d \o b \o Append(i, v) = Append(d \o b \o i, v)
<1>1. d \o b \in Seq(S) /\ <<v>> \in Seq(S) /\ (d \o b) \o i \in Seq(S)
      BY ConcatProperties
<1>2. Append(i, v) = i \o <<v>> /\ Append((d \o b) \o i, v) = ((d \o b) \o i) \o <<v>>
      BY <1>1, AppendIsConcat
<1>3. ((d \o b) \o i) \o <<v>> = (d \o b) \o (i \o <<v>>)
      BY <1>1, Associative, Z3
<1>4. QED BY <1>2, <1>3

LEMMA QueueMoves ==
    ASSUME NEW S, NEW d \in Seq(S), NEW q \in Seq(S), q # <<>>
    PROVE  Append(d, Head(q)) \o Tail(q) = d \o q
<1>1. /\ Head(q) \in S /\ Tail(q) \in Seq(S) /\ Len(Tail(q)) = Len(q) - 1
      /\ \A k \in 1 .. Len(Tail(q)) : Tail(q)[k] = q[k + 1]
      BY HeadTailProperties
<1>2. /\ Append(d, Head(q)) \in Seq(S) /\ Len(Append(d, Head(q))) = Len(d) + 1
      /\ \A k \in 1 .. Len(d) : Append(d, Head(q))[k] = d[k]
      /\ Append(d, Head(q))[Len(d) + 1] = Head(q)
      BY <1>1, AppendProperties
<1>3. Len(d) \in Nat /\ Len(q) \in Nat /\ Len(q) > 0 /\ Head(q) = q[1]
      BY LenProperties, EmptySeq
<1>4. /\ Append(d, Head(q)) \o Tail(q) \in Seq(S)
      /\ Len(Append(d, Head(q)) \o Tail(q)) = Len(d) + 1 + (Len(q) - 1)
      /\ \A k \in 1 .. (Len(d) + 1) + (Len(q) - 1) :
             (Append(d, Head(q)) \o Tail(q))[k] =
                 IF k <= Len(d) + 1 THEN Append(d, Head(q))[k] ELSE Tail(q)[k - (Len(d) + 1)]
      BY <1>1, <1>2, ConcatProperties
<1>5. /\ d \o q \in Seq(S) /\ Len(d \o q) = Len(d) + Len(q)
      /\ \A k \in 1 .. Len(d) + Len(q) :
             (d \o q)[k] = IF k <= Len(d) THEN d[k] ELSE q[k - Len(d)]
      BY ConcatProperties
<1>6. \A k \in 1 .. Len(d) + Len(q) : (Append(d, Head(q)) \o Tail(q))[k] = (d \o q)[k]
  <2>1. TAKE k \in 1 .. Len(d) + Len(q)
  <2>2. CASE k <= Len(d)
        BY <2>2, <1>2, <1>3, <1>4, <1>5
  <2>3. CASE k = Len(d) + 1
        BY <2>3, <1>2, <1>3, <1>4, <1>5
  <2>4. CASE k > Len(d) + 1
    <3>1. k - (Len(d) + 1) \in 1 .. Len(Tail(q))
          BY <2>4, <1>1, <1>3
    <3>2. Tail(q)[k - (Len(d) + 1)] = q[k - Len(d)]
          BY <3>1, <1>1, <1>3
    <3>3. QED BY <2>4, <3>2, <1>3, <1>4, <1>5
  <2>5. QED BY <2>2, <2>3, <2>4, <1>3
<1>7. QED BY <1>3, <1>4, <1>5, <1>6, SeqEqual

-----------------------------------------------------------------------------
(* The steps of Next.                                                      *)

USE DEF runVars, chanVars, callVars, sinkVars

(* v is taken off what was queued: the new Current, and a value.           *)
LEMMA DispatchType ==
    ASSUME TypeOK, NEW v \in Values, Dispatch(v)
    PROVE  /\ dispatched' \in Seq(Values)
           /\ Len(dispatched') = Len(dispatched) + 1
           /\ pending' \subseteq Sinks
BY AppendProperties DEF TypeOK, Dispatch

LEMMA ValueType ==
    ASSUME TypeOK, RunShape, NEW p \in Submitters, submitPc[p] = "select"
    PROVE  Value(p) \in Values
<1>1. calls[p] \in 0 .. MaxSubmits
      BY DEF TypeOK
<1>2. calls[p] > 0
      BY DEF RunShape
<1>3. QED BY <1>1, <1>2, MuxAssumption DEF Value, Values

(* The initial states satisfy the invariant.                               *)
LEMMA InitIInv == Init => IInv
<1> SUFFICES ASSUME Init PROVE IInv
    OBVIOUS
<1> <<>> \in Seq(Values) /\ Len(<<>>) = 0
    BY EmptySeq
<1>1. TypeOK
  <2>1. inBufSize \in Nat /\ outputs \subseteq Sinks /\ pending \subseteq Sinks
        /\ done \in BOOLEAN /\ runPc \in RunPcs
        BY MuxAssumption DEF Init, RunPcs
  <2>2. submitPc \in [Submitters -> SubmitPcs] /\ calls \in [Submitters -> 0 .. MaxSubmits]
        BY MuxAssumption DEF Init, SubmitPcs
  <2>3. subPc \in [Sinks -> SubPcs] /\ closes \in [Sinks -> Nat]
        /\ base \in [Sinks -> Nat] /\ recv \in [Sinks -> Seq(Values)]
        BY DEF Init, SubPcs
  <2>4. QED BY <2>1, <2>2, <2>3 DEF Init, TypeOK
<1>2. AcceptedLog
      BY EmptySeq, ConcatEmptySeq DEF Init, AcceptedLog
<1>3. inBufSize \in Nat
      BY MuxAssumption DEF Init
<1>4. FanOut /\ RunShape /\ SinkShape
      BY <1>3 DEF Init, FanOut, RunShape, SinkShape, Unregistered
<1>5. QED BY <1>1, <1>2, <1>4 DEF IInv

(* Every step keeps the types.                                             *)
LEMMA TypeStep == IInv /\ [Next]_vars => TypeOK'
<1> SUFFICES ASSUME IInv, [Next]_vars PROVE TypeOK'
    OBVIOUS
<1> TypeOK /\ RunShape
    BY DEF IInv
<1> USE DEF TypeOK
<1>1. CASE Close
      BY <1>1 DEF Close
<1>2. ASSUME NEW p \in Submitters, SubmitCall(p) PROVE TypeOK'
  <2>1. calls'[p] \in 0 .. MaxSubmits
        BY <1>2, MuxAssumption DEF SubmitCall
  <2>2. QED BY <1>2, <2>1 DEF SubmitCall, SubmitPcs
<1>3. ASSUME NEW p \in Submitters, SubmitProceed(p) PROVE TypeOK'
      BY <1>3 DEF SubmitProceed, SubmitPcs
<1>4. ASSUME NEW p \in Submitters, SubmitClosed(p) PROVE TypeOK'
      BY <1>4 DEF SubmitClosed, SubmitPcs
<1>5. ASSUME NEW p \in Submitters, SubmitTimeout(p) PROVE TypeOK'
      BY <1>5 DEF SubmitTimeout, SubmitPcs
<1>6. ASSUME NEW p \in Submitters, SubmitBuffered(p) PROVE TypeOK'
  <2>1. Value(p) \in Values
        BY <1>6, ValueType DEF SubmitBuffered
  <2>2. input' \in Seq(Values) /\ sent' \in Seq(Values)
        BY <1>6, <2>1, AppendProperties DEF SubmitBuffered
  <2>3. QED BY <1>6, <2>2 DEF SubmitBuffered, SubmitPcs
<1>7. ASSUME NEW p \in Submitters, SubmitHandoff(p) PROVE TypeOK'
  <2>1. Value(p) \in Values
        BY <1>7, ValueType DEF SubmitHandoff
  <2>2. dispatched' \in Seq(Values) /\ pending' \subseteq Sinks
        BY <1>7, <2>1, DispatchType DEF SubmitHandoff
  <2>3. sent' \in Seq(Values)
        BY <1>7, <2>1, AppendProperties DEF SubmitHandoff
  <2>4. QED BY <1>7, <2>2, <2>3 DEF SubmitHandoff, SubmitPcs, RunPcs
<1>8. ASSUME NEW s \in Sinks, Subscriber(s) PROVE TypeOK'
      BY <1>8 DEF Subscriber, SubscribeCall, SubscribeClosed, CancelCall, CancelClosed, SubPcs
<1>9. ASSUME NEW s \in Sinks, Deliver(s) PROVE TypeOK'
  <2>1. Current \in Values
        BY <1>9, ElementOfSeq, LenProperties, EmptySeq DEF Deliver, Current, RunShape
  <2>2. recv' \in [Sinks -> Seq(Values)]
        BY <1>9, <2>1, AppendProperties DEF Deliver
  <2>3. QED BY <1>9, <2>2 DEF Deliver, RunPcs
<1>10. CASE RunRecv
  <2>1. Head(input) \in Values /\ Tail(input) \in Seq(Values)
        BY <1>10, HeadTailProperties DEF RunRecv
  <2>2. dispatched' \in Seq(Values) /\ pending' \subseteq Sinks
        BY <1>10, <2>1, DispatchType DEF RunRecv
  <2>3. QED BY <1>10, <2>1, <2>2 DEF RunRecv, RunPcs
<1>11. CASE RunDone \/ RunDrain \/ FlushDone \/ RunExit
       BY <1>11, EmptySeq DEF RunDone, RunDrain, FlushDone, RunExit, RunPcs
<1>12. CASE FlushNext
  <2>1. Head(buffered) \in Values /\ Tail(buffered) \in Seq(Values)
        BY <1>12, HeadTailProperties DEF FlushNext
  <2>2. dispatched' \in Seq(Values) /\ pending' \subseteq Sinks
        BY <1>12, <2>1, DispatchType DEF FlushNext
  <2>3. QED BY <1>12, <2>1, <2>2 DEF FlushNext
<1>13. ASSUME NEW s \in Sinks, RunRegister(s) PROVE TypeOK'
  <2>1. base' \in [Sinks -> Nat]
        BY <1>13, LenProperties DEF RunRegister
  <2>2. QED BY <1>13, <2>1 DEF RunRegister, RunPcs, SubPcs
<1>14. ASSUME NEW s \in Sinks, AckRegister(s) \/ AckUnregister(s) PROVE TypeOK'
       BY <1>14 DEF AckRegister, AckUnregister, RunPcs, SubPcs
<1>15. ASSUME NEW s \in Sinks, RunUnregister(s) PROVE TypeOK'
       BY <1>15 DEF RunUnregister, RunPcs, SubPcs
<1>16. ASSUME NEW s \in Sinks, CloseSink(s) PROVE TypeOK'
       BY <1>16 DEF CloseSink
<1>17. CASE Terminated \/ UNCHANGED vars
       BY <1>17 DEF Terminated, vars
<1>18. QED
       BY <1>1, <1>2, <1>3, <1>4, <1>5, <1>6, <1>7, <1>8, <1>9, <1>10, <1>11, <1>12,
          <1>13, <1>14, <1>15, <1>16, <1>17 DEF Next, Submit, Run

(* Every step keeps the queue from Submit to the fan-out whole.            *)
LEMMA LogStep == IInv /\ [Next]_vars => AcceptedLog'
<1> SUFFICES ASSUME IInv, [Next]_vars PROVE AcceptedLog'
    OBVIOUS
<1> TypeOK /\ RunShape /\ AcceptedLog
    BY DEF IInv
<1> /\ input \in Seq(Values) /\ buffered \in Seq(Values) /\ dispatched \in Seq(Values)
    /\ sent \in Seq(Values) /\ <<>> \in Seq(Values)
    BY EmptySeq DEF TypeOK
<1>1. ASSUME NEW p \in Submitters, SubmitBuffered(p) PROVE AcceptedLog'
  <2>1. Value(p) \in Values
        BY <1>1, ValueType DEF SubmitBuffered
  <2>2. dispatched \o buffered \o Append(input, Value(p))
            = Append(dispatched \o buffered \o input, Value(p))
        BY <2>1, QueueEnters, SMTT(20)
  <2>3. QED BY <1>1, <2>2 DEF SubmitBuffered, AcceptedLog
<1>2. ASSUME NEW p \in Submitters, SubmitHandoff(p) PROVE AcceptedLog'
  <2>1. Value(p) \in Values
        BY <1>2, ValueType DEF SubmitHandoff
  <2>2. buffered = <<>> /\ input = <<>>
        BY <1>2, EmptySeq DEF SubmitHandoff, RunShape
  <2>3. sent = dispatched
        BY <2>2, ConcatEmptySeq DEF AcceptedLog
  <2>4. Append(dispatched, Value(p)) \in Seq(Values)
        BY <2>1, AppendProperties
  <2>5. Append(dispatched, Value(p)) \o <<>> \o <<>> = Append(dispatched, Value(p))
        BY <2>4, ConcatEmptySeq
  <2>6. QED BY <1>2, <2>2, <2>3, <2>5 DEF SubmitHandoff, Dispatch, AcceptedLog
<1>3. CASE RunRecv
  <2>1. buffered = <<>> /\ input # <<>>
        BY <1>3 DEF RunRecv, RunShape
  <2>2. Head(input) \in Values /\ Append(dispatched, Head(input)) \in Seq(Values)
        BY <2>1, HeadTailProperties, AppendProperties
  <2>3. Append(dispatched, Head(input)) \o Tail(input) = dispatched \o input
        BY <2>1, QueueMoves
  <2>4. QED BY <1>3, <2>1, <2>2, <2>3, ConcatEmptySeq DEF RunRecv, Dispatch, AcceptedLog
<1>4. CASE RunDrain
  <2>1. buffered = <<>>
        BY <1>4 DEF RunDrain, RunShape
  <2>2. dispatched \o <<>> \o input = dispatched \o input
        BY ConcatEmptySeq
  <2>3. dispatched \o input \o <<>> = dispatched \o input
        BY ConcatEmptySeq, ConcatProperties
  <2>4. QED BY <1>4, <2>1, <2>2, <2>3 DEF RunDrain, AcceptedLog
<1>5. CASE FlushNext
  <2>1. input = <<>> /\ buffered # <<>>
        BY <1>5 DEF FlushNext, RunShape
  <2>2. Append(dispatched, Head(buffered)) \o Tail(buffered) = dispatched \o buffered
        BY <2>1, QueueMoves
  <2>3. QED BY <1>5, <2>1, <2>2 DEF FlushNext, Dispatch, AcceptedLog
<1>6. CASE UNCHANGED <<sent, dispatched, buffered, input>>
      BY <1>6 DEF AcceptedLog
<1>7. ASSUME NEW p \in Submitters, SubmitCall(p) \/ SubmitProceed(p) \/ SubmitClosed(p)
                                       \/ SubmitTimeout(p)
      PROVE  AcceptedLog'
      BY <1>6, <1>7 DEF SubmitCall, SubmitProceed, SubmitClosed, SubmitTimeout
<1>8. ASSUME NEW s \in Sinks,
             Subscriber(s) \/ Deliver(s) \/ RunRegister(s) \/ AckRegister(s)
                 \/ RunUnregister(s) \/ AckUnregister(s) \/ CloseSink(s)
      PROVE  AcceptedLog'
      BY <1>6, <1>8 DEF Subscriber, SubscribeCall, SubscribeClosed, CancelCall,
         CancelClosed, Deliver, RunRegister, AckRegister, RunUnregister, AckUnregister,
         CloseSink
<1>9. CASE Close \/ RunDone \/ FlushDone \/ RunExit \/ Terminated \/ UNCHANGED vars
      BY <1>6, <1>9 DEF Close, RunDone, FlushDone, RunExit, Terminated, vars
<1>10. QED
      BY <1>1, <1>2, <1>3, <1>4, <1>5, <1>7, <1>8, <1>9 DEF Next, Submit, Run

(* Every step keeps run's program counter in agreement with its locals and *)
(* the channel.                                                            *)
LEMMA RunShapeStep == IInv /\ [Next]_vars => RunShape'
<1> SUFFICES ASSUME IInv, [Next]_vars PROVE RunShape'
    OBVIOUS
<1> TypeOK /\ RunShape
    BY DEF IInv
<1> runPc \in RunPcs /\ pending \subseteq Sinks /\ outputs \subseteq Sinks
    /\ submitPc \in [Submitters -> SubmitPcs]
    /\ calls \in [Submitters -> 0 .. MaxSubmits]
    BY DEF TypeOK
<1> ASSUME NEW v PROVE Append(dispatched, v) # <<>>
  <2>1. dispatched \in Seq(Values \union {v})
        BY SeqMonotonic DEF TypeOK
  <2>2. QED BY <2>1, AppendProperties
<1> input \in Seq(Values) /\ inBufSize \in Nat /\ Len(input) \in Nat
    BY LenProperties DEF TypeOK
<1> USE DEF RunShape
<1>1. ASSUME NEW p \in Submitters, SubmitCall(p) PROVE RunShape'
      BY <1>1, MuxAssumption DEF SubmitCall
<1>2. ASSUME NEW p \in Submitters, Submit(p) PROVE RunShape'
  <2>1. CASE SubmitProceed(p) \/ SubmitClosed(p) \/ SubmitTimeout(p) \/ SubmitHandoff(p)
        BY <2>1 DEF SubmitProceed, SubmitClosed, SubmitTimeout, SubmitHandoff, Dispatch
  <2>2. CASE SubmitBuffered(p)
    <3>1. Len(input') = Len(input) + 1
          BY <2>2, ValueType, AppendProperties DEF SubmitBuffered
    <3>2. QED BY <2>2, <3>1 DEF SubmitBuffered
  <2>3. QED BY <1>2, <2>1, <2>2 DEF Submit
<1>3. ASSUME NEW s \in Sinks, Deliver(s) PROVE RunShape'
      BY <1>3 DEF Deliver
<1>4. ASSUME NEW s \in Sinks, Subscriber(s) PROVE RunShape'
      BY <1>4 DEF Subscriber, SubscribeCall, SubscribeClosed, CancelCall, CancelClosed
<1>5. ASSUME NEW s \in Sinks, RunRegister(s) \/ AckRegister(s) \/ RunUnregister(s)
                                  \/ AckUnregister(s) \/ CloseSink(s)
      PROVE  RunShape'
      BY <1>5 DEF RunRegister, AckRegister, RunUnregister, AckUnregister, CloseSink
<1>6. CASE RunRecv
  <2>1. Len(input') = Len(input) - 1
        BY <1>6, HeadTailProperties DEF RunRecv
  <2>2. QED BY <1>6, <2>1 DEF RunRecv, Dispatch
<1>7. CASE RunDrain
      BY <1>7, EmptySeq DEF RunDrain, SubmitPcs
<1>8. CASE FlushNext
      BY <1>8 DEF FlushNext, Dispatch
<1>9. CASE Close \/ RunDone \/ FlushDone \/ RunExit \/ Terminated \/ UNCHANGED vars
      BY <1>9 DEF Close, RunDone, FlushDone, RunExit, Terminated, vars
<1>10. QED
      BY <1>1, <1>2, <1>3, <1>4, <1>5, <1>6, <1>7, <1>8, <1>9 DEF Next, Run

(* The types the next lemmas need, without the rest of TypeOK.             *)
SinkTypes ==
    /\ outputs \subseteq Sinks
    /\ dispatched \in Seq(Values) /\ Len(dispatched) \in Nat
    /\ recv \in [Sinks -> Seq(Values)]
    /\ base \in [Sinks -> Nat]
    /\ closes \in [Sinks -> Nat]
    /\ subPc \in [Sinks -> SubPcs]
    /\ runPc \in RunPcs

LEMMA SinkTyped == TypeOK => SinkTypes
BY LenProperties DEF TypeOK, SinkTypes

(* A value that is taken off leaves what was served as it is.              *)
LEMMA DispatchKeeps ==
    ASSUME IInv, NEW v \in Values, Dispatch(v), pending = {}, ~Stopped, ~Stopped',
           UNCHANGED <<outputs, recv, base, closes, subPc>>
    PROVE  FanOut' /\ SinkShape'
<1> SinkTypes /\ FanOut /\ SinkShape /\ TypeOK
    BY SinkTyped DEF IInv
<1>1. dispatched' = Append(dispatched, v) /\ Len(dispatched') = Len(dispatched) + 1
      /\ pending' = outputs
      BY DispatchType DEF Dispatch
<1>2. ASSUME NEW s \in outputs'
      PROVE  recv'[s] = SubSeq(dispatched', base'[s] + 1, Served(s)')
  <2>1. s \in Sinks /\ s \in outputs /\ base[s] \in Nat
        BY <1>2 DEF SinkTypes
  <2>2. Served(s) = Len(dispatched) /\ Served(s)' = Len(dispatched)
        BY <1>1, <2>1 DEF Served, SinkTypes
  <2>3. SubSeq(dispatched', base[s] + 1, Len(dispatched))
            = SubSeq(dispatched, base[s] + 1, Len(dispatched))
    <3>1. dispatched \in Seq(Values) /\ Len(dispatched) \in Nat /\ Len(dispatched) <= Len(dispatched)
          BY DEF SinkTypes
    <3>2. QED BY <1>1, <2>1, <3>1, SubSeqOfAppend
  <2>4. QED BY <2>1, <2>2, <2>3 DEF FanOut
<1>3. SinkShape'
      BY <1>1 DEF SinkShape, SinkTypes, Unregistered, Registered, Unsubscribed, Complete
<1>4. QED BY <1>2, <1>3 DEF FanOut

(* What the fan-out hands over is what the sink lacked.                    *)
LEMMA DeliverKeeps ==
    ASSUME IInv, NEW s \in Sinks, Deliver(s)
    PROVE  FanOut' /\ SinkShape'
<1> SinkTypes /\ FanOut /\ SinkShape /\ TypeOK /\ RunShape
    BY SinkTyped DEF IInv
<1>1. s \in outputs /\ s \in pending /\ base[s] \in Nat /\ base[s] < Len(dispatched)
      BY DEF Deliver, SinkShape, RunShape, SinkTypes
<1>2. recv'[s] = SubSeq(dispatched, base[s] + 1, Len(dispatched))
  <2>1. recv[s] = SubSeq(dispatched, base[s] + 1, Len(dispatched) - 1)
        BY <1>1 DEF FanOut, Served
  <2>2. QED BY <1>1, <2>1, SubSeqGrows DEF Deliver, Current, SinkTypes
<1>3. \A t \in outputs : t # s => recv'[t] = recv[t] /\ Served(t)' = Served(t)
      BY DEF Deliver, Served, SinkTypes
<1>4. Served(s)' = Len(dispatched)
      BY DEF Deliver, Served, SinkTypes
<1>5. FanOut'
      BY <1>2, <1>3, <1>4 DEF Deliver, FanOut
<1>6. SinkShape'
      BY <1>1 DEF Deliver, SinkShape, SinkTypes, Unregistered, Registered, Unsubscribed,
         Complete, Stopped
<1>7. QED BY <1>5, <1>6

(* A sink is registered with nothing to be given yet.                      *)
LEMMA RegisterKeeps ==
    ASSUME IInv, NEW s \in Sinks, RunRegister(s)
    PROVE  FanOut' /\ SinkShape'
<1> SinkTypes /\ FanOut /\ SinkShape /\ RunShape
    BY SinkTyped DEF IInv
<1>1. Unregistered(s) /\ pending = {} /\ pending' = {}
      BY DEF RunRegister, SinkShape, RunShape
<1>2. SubSeq(dispatched, Len(dispatched) + 1, Len(dispatched)) = <<>>
      BY SubSeqEmpty DEF SinkTypes
<1>3. recv'[s] = SubSeq(dispatched', base'[s] + 1, Served(s)')
      BY <1>1, <1>2 DEF RunRegister, Unregistered, Served, SinkTypes
<1>4. FanOut'
      BY <1>1, <1>3 DEF RunRegister, FanOut, Served, SinkTypes
<1>5. SinkShape'
      BY <1>1 DEF RunRegister, SinkShape, SinkTypes, Unregistered, Registered, Unsubscribed,
         Complete, Stopped
<1>6. QED BY <1>4, <1>5

(* Every step keeps what the sinks have been given right.                  *)
LEMMA SinkStep == IInv /\ [Next]_vars => FanOut' /\ SinkShape'
<1> SUFFICES ASSUME IInv, [Next]_vars PROVE FanOut' /\ SinkShape'
    OBVIOUS
<1> SinkTypes /\ FanOut /\ SinkShape /\ RunShape /\ TypeOK
    BY SinkTyped DEF IInv
<1> USE DEF Stopped
<1>1. ASSUME NEW p \in Submitters, SubmitHandoff(p) PROVE FanOut' /\ SinkShape'
  <2>1. Value(p) \in Values
        BY <1>1, ValueType DEF SubmitHandoff
  <2>2. QED BY <1>1, <2>1, DispatchKeeps DEF SubmitHandoff, RunShape
<1>2. CASE RunRecv
  <2>1. Head(input) \in Values
        BY <1>2, HeadTailProperties DEF RunRecv, TypeOK
  <2>2. QED BY <1>2, <2>1, DispatchKeeps DEF RunRecv, RunShape
<1>3. CASE FlushNext
  <2>1. Head(buffered) \in Values
        BY <1>3, HeadTailProperties DEF FlushNext, TypeOK
  <2>2. QED BY <1>3, <2>1, DispatchKeeps DEF FlushNext
<1>4. CASE UNCHANGED <<outputs, recv, base, closes, subPc, dispatched, pending>>
           /\ (Stopped => Stopped')
      BY <1>4 DEF FanOut, Served, SinkShape, Unregistered, Registered, Unsubscribed, Complete
<1>5. ASSUME NEW p \in Submitters, SubmitCall(p) \/ SubmitProceed(p) \/ SubmitClosed(p)
                                       \/ SubmitTimeout(p) \/ SubmitBuffered(p)
      PROVE  FanOut' /\ SinkShape'
      BY <1>4, <1>5 DEF SubmitCall, SubmitProceed, SubmitClosed, SubmitTimeout, SubmitBuffered
<1>6. CASE Close \/ RunDone \/ RunDrain \/ FlushDone \/ RunExit \/ Terminated
               \/ UNCHANGED vars
      BY <1>4, <1>6 DEF Close, RunDone, RunDrain, FlushDone, RunExit, Terminated, vars
<1>7. ASSUME NEW s \in Sinks, Subscriber(s) \/ AckRegister(s) \/ AckUnregister(s)
      PROVE  FanOut' /\ SinkShape'
  <2>1. FanOut'
        BY <1>7 DEF FanOut, Served, Subscriber, SubscribeCall, SubscribeClosed, CancelCall,
           CancelClosed, AckRegister, AckUnregister
  <2> USE DEF SinkShape, SinkTypes, Unregistered, Registered, Unsubscribed, Complete
  <2>2. CASE SubscribeCall(s)
        BY <2>1, <2>2 DEF SubscribeCall
  <2>3. CASE SubscribeClosed(s)
        BY <2>1, <2>3 DEF SubscribeClosed
  <2>4. CASE CancelCall(s)
        BY <2>1, <2>4 DEF CancelCall
  <2>5. CASE CancelClosed(s)
        BY <2>1, <2>5 DEF CancelClosed
  <2>6. CASE AckRegister(s)
        BY <2>1, <2>6 DEF AckRegister
  <2>7. CASE AckUnregister(s)
        BY <2>1, <2>7 DEF AckUnregister
  <2>8. QED BY <1>7, <2>2, <2>3, <2>4, <2>5, <2>6, <2>7 DEF Subscriber
<1>8. ASSUME NEW s \in Sinks, RunUnregister(s) PROVE FanOut' /\ SinkShape'
  <2>1. Registered(s) /\ pending = {}
        BY <1>8 DEF RunUnregister, SinkShape, RunShape, Complete
  <2>2. FanOut'
        BY <1>8, <2>1 DEF RunUnregister, FanOut, Served
  <2>3. SinkShape'
        BY <1>8, <2>1 DEF RunUnregister, SinkShape, SinkTypes, Unregistered, Registered,
           Unsubscribed, Complete
  <2>4. QED BY <2>2, <2>3
<1>9. ASSUME NEW s \in Sinks, CloseSink(s) PROVE FanOut' /\ SinkShape'
  <2>1. pending = {}
        BY <1>9 DEF CloseSink, RunShape
  <2>2. Registered(s) /\ subPc[s] \in {"regWait", "subscribed", "cancelling", "released"}
        BY <1>9 DEF CloseSink, SinkShape, SinkTypes, SubPcs, Unregistered, Unsubscribed, Complete
  <2>3. recv[s] = SubSeq(dispatched, base[s] + 1, Len(dispatched))
        BY <1>9, <2>1 DEF CloseSink, FanOut, Served, SinkTypes
  <2>4. FanOut'
        BY <1>9, <2>1 DEF CloseSink, FanOut, Served
  <2>5. SinkShape'
    <3>1. Complete(s)'
          BY <1>9, <2>2, <2>3 DEF CloseSink, SinkTypes, Registered, Unsubscribed, Complete
    <3>2. QED BY <1>9, <2>1, <2>2, <3>1 DEF CloseSink, SinkShape, SinkTypes, Unregistered,
              Registered, Unsubscribed, Complete
  <2>6. QED BY <2>4, <2>5
<1>10. ASSUME NEW s \in Sinks, Deliver(s) \/ RunRegister(s) PROVE FanOut' /\ SinkShape'
       BY <1>10, DeliverKeeps, RegisterKeeps
<1>11. QED
       BY <1>1, <1>2, <1>3, <1>5, <1>6, <1>7, <1>8, <1>9, <1>10 DEF Next, Submit, Run

-----------------------------------------------------------------------------
(* What holds in every reachable state.                                    *)

LEMMA Invariance == Spec => []IInv
<1>1. IInv /\ [Next]_vars => IInv'
      BY TypeStep, LogStep, RunShapeStep, SinkStep DEF IInv
<1>2. QED BY InitIInv, <1>1, PTL DEF Spec

(* Types: the program counters, the queue and the logs stay in their sets. *)
THEOREM TypeCorrect == Spec => []TypeOK
<1>1. IInv => TypeOK
      BY DEF IInv
<1>2. QED BY Invariance, <1>1, PTL

(* No value that Submit accepted is lost, doubled or overtaken in the      *)
(* channel, the drain or the fan-out, and a registered sink has every      *)
(* value since its registration, but perhaps the one being handed round.   *)
THEOREM NothingLost == Spec => []InOrder
<1>1. IInv => InOrder
      BY DEF IInv, InOrder
<1>2. QED BY Invariance, <1>1, PTL

(* The deferred function of run gives every remaining sink everything that *)
(* was accepted before it closes it.                                       *)
THEOREM ShutdownLosesNothing == Spec => []ExitDeliversAll
<1>1. IInv => ExitDeliversAll
  <2> SUFFICES ASSUME IInv, runPc = "exited"
               PROVE  /\ dispatched = sent
                      /\ \A s \in Sinks : KeptToTheEnd(s) =>
                             recv[s] = SubSeq(sent, base[s] + 1, Len(sent))
      BY DEF ExitDeliversAll
  <2>1. SinkTypes /\ SinkShape /\ RunShape /\ AcceptedLog
        BY SinkTyped DEF IInv
  <2>2. buffered = <<>> /\ input = <<>> /\ outputs = {}
        BY <2>1 DEF RunShape
  <2>3. dispatched = sent
        BY <2>1, <2>2, ConcatEmptySeq DEF AcceptedLog, SinkTypes
  <2>4. ASSUME NEW s \in Sinks, KeptToTheEnd(s) PROVE Complete(s)
    <3>1. subPc[s] \in {"regWait", "subscribed", "cancelling", "released"}
          BY <2>1, <2>4 DEF KeptToTheEnd, SinkShape, SinkTypes, SubPcs, Unregistered
    <3>2. QED BY <2>1, <2>2, <3>1 DEF SinkShape, Registered
  <2>5. QED BY <2>3, <2>4 DEF Complete
<1>2. QED BY Invariance, <1>1, PTL

(* A sink is closed once at most, and is registered no more when it is.    *)
LEMMA ClosedOnce == IInv => SinkClosedOnce
<1> SUFFICES ASSUME IInv, NEW s \in Sinks
             PROVE  closes[s] <= (IF s \in outputs THEN 0 ELSE 1)
    BY DEF SinkClosedOnce
<1>1. SinkTypes /\ SinkShape
      BY SinkTyped DEF IInv
<1>2. Unregistered(s) \/ Registered(s) \/ Unsubscribed(s)
      BY <1>1 DEF SinkTypes, SubPcs, SinkShape, Complete
<1>3. QED BY <1>2 DEF Unregistered, Registered, Unsubscribed

THEOREM ClosedAtMostOnce == Spec => []SinkClosedOnce
BY Invariance, ClosedOnce, PTL

(* Subscribe and an acknowledged CancelFunc have done what they say when   *)
(* they return.                                                            *)
THEOREM SubscriptionsAreSynchronous == Spec => []Synchronous
<1>1. IInv => Synchronous
      BY DEF IInv, Synchronous, SinkShape, Registered, Unsubscribed, Complete, Stopped
<1>2. QED BY Invariance, <1>1, PTL

(* No sink is given a value after its Close.                               *)
THEOREM ClosedSinksAreQuiet == Spec => NoSubmitAfterClose
<1>1. IInv /\ [Next]_vars =>
          [\A s \in Sinks : closes[s] > 0 => recv'[s] = recv[s]]_vars
  <2> SUFFICES ASSUME IInv, [Next]_vars, NEW s \in Sinks, closes[s] > 0
               PROVE  recv'[s] = recv[s]
      OBVIOUS
  <2>1. SinkTypes /\ RunShape /\ SinkClosedOnce
        BY SinkTyped, ClosedOnce DEF IInv
  <2>2. s \notin pending
        BY <2>1 DEF RunShape, SinkClosedOnce, SinkTypes
  <2>3. ASSUME NEW t \in Sinks, Deliver(t) PROVE recv'[s] = recv[s]
        BY <2>1, <2>2, <2>3 DEF Deliver, SinkTypes
  <2>4. CASE UNCHANGED recv
        BY <2>4
  <2>5. QED
        BY <2>3, <2>4 DEF Next, Close, SubmitCall, Submit, SubmitProceed, SubmitClosed,
           SubmitTimeout, SubmitBuffered, SubmitHandoff, Subscriber, SubscribeCall,
           SubscribeClosed, CancelCall, CancelClosed, Run, RunRecv, RunDone, RunDrain,
           FlushNext, FlushDone, RunExit, RunRegister, AckRegister, RunUnregister,
           AckUnregister, CloseSink, Terminated, vars
<1>2. QED BY Invariance, <1>1, PTL DEF Spec, NoSubmitAfterClose

-----------------------------------------------------------------------------
(* Nobody waits for one who is gone: what the liveness properties rest on. *)

(* A caller that has been registered, or unregistered, and waits for the   *)
(* reply is the one whose request run is answering.                        *)
Replying ==
    /\ \A s, t \in Sinks :
           subPc[s] \in {"regWait", "unregWait"} /\ subPc[t] \in {"regWait", "unregWait"}
               => s = t
    /\ \A s \in Sinks : /\ subPc[s] = "regWait" => runPc = "ackRegister"
                        /\ subPc[s] = "unregWait" => runPc = "ackUnregister"
    /\ runPc = "ackRegister" => \E s \in Sinks : subPc[s] = "regWait"
    /\ runPc = "ackUnregister" => \E s \in Sinks : subPc[s] = "unregWait"

(* Every step of a caller or of run leaves a reply with somebody to take   *)
(* it, and whoever waits for one with run about to give it.                *)
LEMMA ReplyingStep == IInv /\ Replying /\ [Next]_vars => Replying'
<1> SUFFICES ASSUME IInv, Replying, [Next]_vars PROVE Replying'
    OBVIOUS
<1> subPc \in [Sinks -> SubPcs]
    BY DEF IInv, TypeOK
<1> USE DEF Replying, SubPcs
<1>1. CASE \/ Close \/ Terminated \/ UNCHANGED vars
           \/ \E p \in Submitters : SubmitCall(p) \/ SubmitProceed(p) \/ SubmitClosed(p)
                                     \/ SubmitTimeout(p) \/ SubmitBuffered(p)
      BY <1>1 DEF Close, Terminated, SubmitCall, SubmitProceed, SubmitClosed, SubmitTimeout,
         SubmitBuffered, vars, runVars, sinkVars
<1>2. CASE \/ RunRecv \/ RunDone \/ RunDrain \/ FlushNext \/ FlushDone \/ RunExit
           \/ \E p \in Submitters : SubmitHandoff(p)
  <2>1. /\ subPc' = subPc
        /\ runPc \notin {"ackRegister", "ackUnregister"}
        /\ runPc' \notin {"ackRegister", "ackUnregister"}
        BY <1>2 DEF RunRecv, RunDone, RunDrain, FlushNext, FlushDone, RunExit, SubmitHandoff,
           sinkVars
  <2>2. QED BY <2>1
<1>3. ASSUME NEW s \in Sinks, Deliver(s) PROVE Replying'
      BY <1>3 DEF Deliver, sinkVars
<1>4. ASSUME NEW s \in Sinks,
             SubscribeCall(s) \/ SubscribeClosed(s) \/ CancelCall(s) \/ CancelClosed(s)
      PROVE  Replying'
      BY <1>4 DEF SubscribeCall, SubscribeClosed, CancelCall, CancelClosed, runVars
<1>5. ASSUME NEW s \in Sinks, RunRegister(s) PROVE Replying'
      BY <1>5 DEF RunRegister
<1>6. ASSUME NEW s \in Sinks, AckRegister(s) PROVE Replying'
      BY <1>6 DEF AckRegister
<1>7. ASSUME NEW s \in Sinks, RunUnregister(s) PROVE Replying'
      BY <1>7 DEF RunUnregister
<1>8. ASSUME NEW s \in Sinks, AckUnregister(s) PROVE Replying'
      BY <1>8 DEF AckUnregister
<1>9. ASSUME NEW s \in Sinks, CloseSink(s) PROVE Replying'
      BY <1>9 DEF CloseSink, runVars
<1>10. QED
      BY <1>1, <1>2, <1>3, <1>4, <1>5, <1>6, <1>7, <1>8, <1>9 DEF Next, Submit, Subscriber, Run

(* Whom each goroutine waits for is there: run for a caller that takes its *)
(* reply, for a sink that has not had the value, or, with submitMu, for    *)
(* Submits whose done case is open; a caller in Subscribe or the           *)
(* CancelFunc for a run still in its loop, or for done, which is closed.   *)
Attended ==
    /\ runPc = "ackRegister" => \E s \in Sinks : subPc[s] = "regWait"
    /\ runPc = "ackUnregister" => \E s \in Sinks : subPc[s] = "unregWait"
    /\ runPc = "fanout" => pending # {}
    /\ runPc = "lock" => done
    /\ \A s \in Sinks :
        /\ subPc[s] \in {"registering", "cancelling"} =>
               done \/ runPc \in {"select", "fanout", "ackRegister", "ackUnregister"}
        /\ subPc[s] = "regWait" => runPc = "ackRegister"
        /\ subPc[s] = "unregWait" => runPc = "ackUnregister"

(* No rendezvous of the loop of run with Subscribe and the CancelFunc is   *)
(* ever left with one side only, however Close comes in between            *)
(* (mux.go:309-412): if sinks take what they are given, somebody can go on.*)
THEOREM NobodyIsLeftWaiting == Spec => []Attended
<1>1. Init => Replying
      BY DEF Init, Replying
<1>2. IInv /\ Replying => Attended
      BY DEF IInv, TypeOK, RunPcs, RunShape, Replying, Attended
<1>3. QED BY Invariance, ReplyingStep, <1>1, <1>2, PTL DEF Spec

(* What is left of a Mux whose run has returned.                           *)
ExitClosesAll ==
    runPc = "exited" =>
        \A s \in Sinks :
            closes[s] = IF subPc[s] \in {"new", "registering", "unheard"} THEN 0 ELSE 1

(* When run has returned, every sink it had registered is closed, exactly  *)
(* once, by whichever of the CancelFunc and the deferred function was      *)
(* first, and no other is (mux.go:302-331).                                *)
THEOREM ExitClosesEverySink == Spec => []ExitClosesAll
<1>1. IInv => ExitClosesAll
  <2> SUFFICES ASSUME IInv, runPc = "exited", NEW s \in Sinks
               PROVE  closes[s] = IF subPc[s] \in {"new", "registering", "unheard"}
                                  THEN 0 ELSE 1
      BY DEF ExitClosesAll
  <2>1. SinkShape /\ outputs = {} /\ subPc[s] \in SubPcs
        BY DEF IInv, RunShape, TypeOK
  <2>2. QED BY <2>1 DEF SinkShape, SubPcs, Unregistered, Registered, Unsubscribed, Complete
<1>2. QED BY Invariance, <1>1, PTL

-----------------------------------------------------------------------------
(* The multiplexer implements Broadcast.                                   *)

USE DEF Stopped

(* A registered sink is short of the current value, or of nothing.         *)
LEMMA ServedLength ==
    ASSUME IInv, NEW s \in outputs
    PROVE  Len(recv[s]) = Served(s) - base[s]
<1>1. SinkTypes /\ FanOut /\ SinkShape /\ RunShape /\ s \in Sinks
      BY SinkTyped DEF IInv, SinkTypes
<1>2. base[s] \in Nat /\ Served(s) \in Int /\ base[s] <= Served(s) /\ Served(s) <= Len(dispatched)
      BY <1>1 DEF SinkTypes, SinkShape, Served
<1>3. \A i \in (base[s] + 1) .. Served(s) : dispatched[i] \in Values
      BY <1>1, <1>2, ElementOfSeq DEF SinkTypes
<1>4. Len(SubSeq(dispatched, base[s] + 1, Served(s)))
          = IF base[s] + 1 <= Served(s) THEN Served(s) - (base[s] + 1) + 1 ELSE 0
      BY <1>2, <1>3, SubSeqProperties
<1>5. recv[s] = SubSeq(dispatched, base[s] + 1, Served(s))
      BY <1>1 DEF FanOut
<1>6. QED BY <1>2, <1>4, <1>5

(* With no fan-out under way every registered sink has everything.         *)
LEMMA AllServed ==
    ASSUME IInv, pending = {}
    PROVE  \A s \in outputs : B!Served(s)
<1> SUFFICES ASSUME NEW s \in outputs PROVE B!Served(s)
    OBVIOUS
<1>1. SinkTypes /\ s \in Sinks
      BY SinkTyped DEF IInv, SinkTypes
<1>2. QED BY <1>1, ServedLength DEF B!Served, Served, SinkTypes

(* What is queued, when nothing is being flushed, follows what has been    *)
(* taken off.                                                              *)
LEMMA QueueLengths ==
    ASSUME IInv
    PROVE  /\ Len(sent) = Len(dispatched) + Len(buffered) + Len(input)
           /\ \A i \in 1 .. Len(dispatched) : sent[i] = dispatched[i]
<1>1. /\ dispatched \in Seq(Values) /\ buffered \in Seq(Values) /\ input \in Seq(Values)
      /\ sent = (dispatched \o buffered) \o input
      BY DEF IInv, TypeOK, AcceptedLog
<1>2. /\ Len(dispatched) \in Nat /\ Len(buffered) \in Nat /\ Len(input) \in Nat
      BY <1>1, LenProperties
<1>3. /\ dispatched \o buffered \in Seq(Values)
      /\ Len(dispatched \o buffered) = Len(dispatched) + Len(buffered)
      /\ \A i \in 1 .. Len(dispatched) : (dispatched \o buffered)[i] = dispatched[i]
      BY <1>1, <1>2, ConcatProperties
<1>4. /\ Len(sent) = Len(dispatched) + Len(buffered) + Len(input)
      /\ \A i \in 1 .. Len(dispatched) + Len(buffered) : sent[i] = (dispatched \o buffered)[i]
      BY <1>1, <1>2, <1>3, ConcatProperties
<1>5. QED BY <1>2, <1>3, <1>4

(* Taking a value off what is queued publishes it.                         *)
LEMMA DispatchPublishes ==
    ASSUME IInv, NEW v \in Values, Dispatch(v), pending = {}, ~Stopped, ~Stopped',
           Len(dispatched) < Len(sent'), UNCHANGED <<outputs, closes, base, recv>>
    PROVE  B!Publish
<1>1. \A s \in outputs : B!Served(s)
      BY AllServed
<1>2. Len(dispatched') = Len(dispatched) + 1
      BY DispatchType DEF IInv
<1>3. QED BY <1>1, <1>2 DEF B!Publish, Closed

(* Every step is a step of the broadcast or leaves it alone.               *)
LEMMA StepRefines == IInv /\ [Next]_vars => [B!Next]_B!vars
<1> SUFFICES ASSUME IInv, [Next]_vars PROVE [B!Next]_B!vars
    OBVIOUS
<1> SinkTypes /\ SinkShape /\ RunShape /\ TypeOK
    BY SinkTyped DEF IInv
<1>1. /\ Len(dispatched) \in Nat /\ Len(buffered) \in Nat /\ Len(input) \in Nat
      /\ Len(sent) = Len(dispatched) + Len(buffered) + Len(input)
      /\ \A i \in 1 .. Len(dispatched) : sent[i] = dispatched[i]
      /\ (buffered = <<>> <=> Len(buffered) = 0) /\ (input = <<>> <=> Len(input) = 0)
      BY QueueLengths, LenProperties, EmptySeq DEF TypeOK
<1>2. ASSUME NEW p \in Submitters, SubmitBuffered(p) PROVE B!Next
  <2>1. Value(p) \in Values /\ ~Stopped
        BY <1>2, ValueType DEF SubmitBuffered, RunShape
  <2>2. B!Queue(Value(p))
        BY <1>2, <2>1 DEF SubmitBuffered, B!Queue, B!Accept, Closed
  <2>3. QED BY <2>1, <2>2 DEF B!Next
<1>3. ASSUME NEW p \in Submitters, SubmitHandoff(p) PROVE B!Next
  <2>1. Value(p) \in Values
        BY <1>3, ValueType DEF SubmitHandoff
  <2>2. Len(sent) = Len(dispatched) /\ pending = {}
        BY <1>1, <1>3 DEF SubmitHandoff, RunShape
  <2>3. Len(sent') = Len(sent) + 1
        BY <1>3, <2>1, AppendProperties DEF SubmitHandoff, TypeOK
  <2>4. B!Publish
        BY <1>1, <1>3, <2>1, <2>2, <2>3, DispatchPublishes DEF SubmitHandoff
  <2>5. B!Handoff(Value(p))
        BY <1>3, <2>2, <2>4 DEF SubmitHandoff, B!Handoff, B!Accept
  <2>6. QED BY <2>1, <2>5 DEF B!Next
<1>4. CASE RunRecv
  <2>1. Head(input) \in Values
        BY <1>4, HeadTailProperties DEF RunRecv, TypeOK
  <2>2. Len(dispatched) < Len(sent') /\ pending = {}
        BY <1>1, <1>4 DEF RunRecv, RunShape
  <2>3. B!Publish
        BY <1>4, <2>1, <2>2, DispatchPublishes DEF RunRecv
  <2>4. QED BY <1>4, <2>3 DEF RunRecv, B!PublishQueued, B!Next
<1>5. CASE FlushNext
  <2>1. Head(buffered) \in Values
        BY <1>5, HeadTailProperties DEF FlushNext, TypeOK
  <2>2. Len(dispatched) < Len(sent')
        BY <1>1, <1>5 DEF FlushNext
  <2>3. B!Publish
        BY <1>5, <2>1, <2>2, DispatchPublishes DEF FlushNext
  <2>4. QED BY <1>5, <2>3 DEF FlushNext, B!PublishQueued, B!Next
<1>6. ASSUME NEW s \in Sinks, Deliver(s) PROVE B!Next
  <2>1. s \in outputs /\ s \in pending /\ base[s] \in Nat /\ base[s] < Len(dispatched)
        BY <1>6 DEF Deliver, RunShape, SinkShape, SinkTypes
  <2>2. Len(recv[s]) = Len(dispatched) - 1 - base[s]
        BY <2>1, <1>1, ServedLength DEF Served
  <2>3. sent[base[s] + Len(recv[s]) + 1] = Current
    <3>1. base[s] + Len(recv[s]) + 1 = Len(dispatched)
          BY <2>1, <2>2, <1>1
    <3>2. Len(dispatched) \in 1 .. Len(dispatched)
          BY <2>1, <1>1
    <3>3. QED BY <3>1, <3>2, <1>1 DEF Current
  <2>4. recv' = [recv EXCEPT ![s] = Append(@, sent[base[s] + Len(@) + 1])]
        BY <1>6, <2>3 DEF Deliver, SinkTypes
  <2>5. ~B!Served(s)
        BY <2>1, <2>2, <1>1 DEF B!Served
  <2>6. UNCHANGED <<sent, Len(dispatched), outputs, Closed, base, Stopped>>
        BY <1>6 DEF Deliver, Closed
  <2>7. B!Give(s)
        BY <2>1, <2>4, <2>5, <2>6 DEF B!Give
  <2>8. QED BY <2>7 DEF B!Next
<1>7. ASSUME NEW s \in Sinks, RunRegister(s) PROVE B!Next
  <2>1. Unregistered(s)
        BY <1>7 DEF RunRegister, SinkShape
  <2>2. B!Attach(s)
        BY <1>7, <2>1 DEF RunRegister, Unregistered, B!Attach, Closed
  <2>3. QED BY <2>2 DEF B!Next
<1>8. ASSUME NEW s \in outputs, RunUnregister(s) \/ CloseSink(s) PROVE B!Next
  <2>1. s \in Sinks /\ pending = {}
        BY <1>8 DEF RunUnregister, CloseSink, RunShape, SinkTypes
  <2>2. B!Served(s)
        BY <2>1, AllServed
  <2>3. Closed' = Closed \union {s}
        BY <1>8, <2>1 DEF RunUnregister, CloseSink, Closed, SinkTypes
  <2>4. B!Detach(s)
        BY <1>8, <2>2, <2>3 DEF RunUnregister, CloseSink, B!Detach
  <2>5. QED BY <2>1, <2>4 DEF B!Next
<1>9. CASE FlushDone
  <2>1. Len(dispatched) = Len(sent)
        BY <1>1, <1>9 DEF FlushDone, RunShape
  <2>2. \A s \in outputs : B!Served(s)
        BY <1>9, AllServed DEF FlushDone
  <2>3. QED BY <1>9, <2>1, <2>2 DEF FlushDone, B!Stop, B!Next, Closed
<1>10. CASE UNCHANGED <<sent, dispatched, outputs, closes, base, recv, Stopped>>
       BY <1>10 DEF B!vars, Closed
<1>11. ASSUME NEW p \in Submitters, SubmitCall(p) \/ SubmitProceed(p) \/ SubmitClosed(p)
                                        \/ SubmitTimeout(p)
       PROVE  [B!Next]_B!vars
       BY <1>10, <1>11 DEF SubmitCall, SubmitProceed, SubmitClosed, SubmitTimeout
<1>12. ASSUME NEW s \in Sinks, Subscriber(s) \/ AckRegister(s) \/ AckUnregister(s)
       PROVE  [B!Next]_B!vars
       BY <1>10, <1>12 DEF Subscriber, SubscribeCall, SubscribeClosed, CancelCall,
          CancelClosed, AckRegister, AckUnregister
<1>13. CASE Close \/ RunDone \/ RunDrain \/ RunExit \/ Terminated \/ UNCHANGED vars
       BY <1>10, <1>13 DEF Close, RunDone, RunDrain, RunExit, Terminated, vars
<1>14. ASSUME NEW s \in Sinks, RunUnregister(s) \/ CloseSink(s) PROVE s \in outputs
       BY <1>14 DEF RunUnregister, CloseSink, SinkShape, RunShape, Registered, Complete
<1>15. QED
       BY <1>2, <1>3, <1>4, <1>5, <1>6, <1>7, <1>8, <1>9, <1>11, <1>12, <1>13, <1>14
       DEF Next, Submit, Run

(* Mux implements Broadcast: sinks are served in lock step, each from its  *)
(* registration on, none after its Close, and run stops only when all that *)
(* Submit accepted has been handed round.                                  *)
THEOREM MuxIsBroadcast == Spec => ImplementsBroadcast
<1>1. Init => B!Init
      BY DEF Init, B!Init, Closed
<1>2. QED BY <1>1, StepRefines, Invariance, PTL DEF Spec, B!Spec, ImplementsBroadcast
=============================================================================
