-------------------------- MODULE DiscoveryProofs ---------------------------
(***************************************************************************)
(* The monitor follows the devices, and every subscriber the monitor, for  *)
(* any devices and subscribers, any number of changes and any number of    *)
(* failures of the socket.                                                 *)
(*                                                                         *)
(* The invariant of the monitor says for every moment from the start on    *)
(* what it will have in d.state when it has taken off the queue what is on *)
(* it now.  That of a subscriber says the same of what it has read and     *)
(* what is still to come of d.mux.                                         *)
(*                                                                         *)
(* Before the enumeration looks at a device that is whatever it will find, *)
(* so Base takes the device's presence for it.                             *)
(***************************************************************************)
EXTENDS Discovery, SequenceTheorems, TLAPS

(* What the monitor starts from: d.state, or during the enumeration what   *)
(* has been found so far and, of the rest, what is there.                  *)
Base ==
    IF monPc = "open" THEN present
    ELSE IF monPc = "enum" THEN (found \ left) \union (present \intersect left)
    ELSE state

Ended == monPc \in {"closeDone", "closeMux", "exited"}

KernelOK ==
    /\ present \subseteq Devices
    /\ devQ \in Seq(Event)
    /\ link \in LinkStates
    /\ state \subseteq Devices
    /\ found \subseteq Devices
    /\ left \subseteq Devices
    /\ found \intersect left = {}
    /\ monPc \in MonPcs
    /\ monPc = "open" => found = {}

(* A socket that is not up queues nothing, and is closed only at the start.*)
LinkOK ==
    /\ link # "up" => devQ = <<>>
    /\ monPc = "open" => link = "closed"
    /\ link = "closed" => monPc = "open" \/ Ended

Tracks == ~Ended => \A x \in Devices \ unseen : x \in After(Base, devQ) <=> x \in present

TInv == KernelOK /\ LinkOK /\ Tracks

-----------------------------------------------------------------------------
(* What After makes of its arguments.                                      *)

(* An empty queue changes nobody's mind.                                   *)
LEMMA AfterEmpty ==
    ASSUME NEW ds, NEW x \in Devices
    PROVE  x \in After(ds, <<>>) <=> x \in ds
BY DEF After

(* What After says of a device depends on that device alone.               *)
LEMMA AfterLocal ==
    ASSUME NEW ds, NEW es, NEW q, NEW x \in Devices, x \in ds <=> x \in es
    PROVE  x \in After(ds, q) <=> x \in After(es, q)
BY DEF After

(* A queue that says nothing of a device leaves it as it is.               *)
LEMMA AfterSilent ==
    ASSUME NEW ds, NEW q, NEW x \in Devices,
           \A i \in DOMAIN q : x \notin Adds(q[i]) \union Dels(q[i])
    PROVE  x \in After(ds, q) <=> x \in ds
BY DEF After

(* One more event decides for the devices it names and for no other.       *)
LEMMA AfterAppend ==
    ASSUME NEW ds, NEW q \in Seq(Event), NEW e \in Event, NEW x \in Devices
    PROVE  /\ x \in Adds(e) => x \in After(ds, Append(q, e))
           /\ x \in Dels(e) /\ x \notin Adds(e) => x \notin After(ds, Append(q, e))
           /\ x \notin Adds(e) /\ x \notin Dels(e) =>
                  (x \in After(ds, Append(q, e)) <=> x \in After(ds, q))
<1> DEFINE r == Append(q, e)
           n == Len(q) + 1
<1>1. /\ DOMAIN r = 1 .. n
      /\ DOMAIN q = 1 .. Len(q)
      /\ Len(r) = n
      /\ Len(q) \in Nat
      /\ r[n] = e
      /\ \A i \in 1 .. Len(q) : r[i] = q[i]
  OBVIOUS
<1> HIDE DEF r, n
<1>2. /\ n \in 1 .. n
      /\ \A i \in 1 .. n : i \in 1 .. Len(q) \/ i = n
      /\ \A i \in 1 .. Len(q) : i \in 1 .. n /\ n \in i + 1 .. n
      /\ n + 1 .. n = {}
  BY <1>1 DEF n
<1>3. x \in Adds(e) => x \in After(ds, r)
  BY <1>1, <1>2 DEF After
<1>4. x \in Dels(e) /\ x \notin Adds(e) => x \notin After(ds, r)
  BY <1>1, <1>2 DEF After
<1>5. ASSUME x \notin Adds(e), x \notin Dels(e)
      PROVE  x \in After(ds, r) <=> x \in After(ds, q)
  <2>1. (\A i \in DOMAIN r : x \notin Dels(r[i])) <=> (\A i \in DOMAIN q : x \notin Dels(q[i]))
    BY <1>1, <1>2, <1>5
  <2>2. ASSUME NEW i \in 1 .. Len(q)
        PROVE  (\A j \in i + 1 .. Len(r) : x \notin Dels(r[j])) <=>
               (\A j \in i + 1 .. Len(q) : x \notin Dels(q[j]))
    <3>1. \A j \in i + 1 .. n : j = n \/ (j \in i + 1 .. Len(q) /\ j \in 1 .. Len(q))
      BY <1>1 DEF n
    <3>2. \A j \in i + 1 .. Len(q) : j \in i + 1 .. n /\ j \in 1 .. Len(q)
      BY <1>1 DEF n
    <3>3. QED  BY <1>1, <1>5, <3>1, <3>2
  <2>3. QED  BY <1>1, <1>2, <1>5, <2>1, <2>2 DEF After
<1>6. QED  BY <1>3, <1>4, <1>5 DEF r

(* To read a queue is to read its first event and then the rest.           *)
LEMMA AfterHead ==
    ASSUME NEW ds, NEW q \in Seq(Event), q # <<>>, NEW x \in Devices
    PROVE  x \in After(ds, q) <=>
           x \in After((ds \ Dels(Head(q))) \union Adds(Head(q)), Tail(q))
<1> DEFINE t == Tail(q)
           n == Len(q)
           es == (ds \ Dels(Head(q))) \union Adds(Head(q))
<1>1. /\ DOMAIN q = 1 .. n
      /\ DOMAIN t = 1 .. n - 1
      /\ Len(t) = n - 1
      /\ n \in Nat \ {0}
      /\ Head(q) = q[1]
      /\ \A i \in 1 .. n - 1 : t[i] = q[i + 1]
  OBVIOUS
<1> HIDE DEF t, n
<1>2. /\ 1 \in 1 .. n
      /\ \A i \in 1 .. n - 1 : i + 1 \in 1 .. n
      /\ \A i \in 1 .. n : i = 1 \/ (i - 1 \in 1 .. n - 1 /\ (i - 1) + 1 = i)
  BY <1>1
<1>3. ASSUME NEW k \in 1 .. n
      PROVE  (\A j \in k + 1 .. n : x \notin Dels(q[j])) <=>
             (\A j \in k .. n - 1 : x \notin Dels(t[j]))
  <2>1. \A j \in k + 1 .. n : j - 1 \in k .. n - 1 /\ j - 1 \in 1 .. n - 1 /\ (j - 1) + 1 = j
    BY <1>1
  <2>2. \A j \in k .. n - 1 : j + 1 \in k + 1 .. n /\ j \in 1 .. n - 1
    BY <1>1
  <2>3. ASSUME \A j \in k + 1 .. n : x \notin Dels(q[j])
        PROVE  \A j \in k .. n - 1 : x \notin Dels(t[j])
    BY <1>1, <2>2, <2>3
  <2>4. ASSUME \A j \in k .. n - 1 : x \notin Dels(t[j])
        PROVE  \A j \in k + 1 .. n : x \notin Dels(q[j])
    <3>1. ASSUME NEW j \in k + 1 .. n PROVE x \notin Dels(q[j])
      <4>1. x \notin Dels(t[j - 1])
        BY <2>1, <2>4
      <4>2. t[j - 1] = q[j]
        BY <1>1, <2>1
      <4>3. QED  BY <4>1, <4>2
    <3>2. QED  BY <3>1
  <2>5. QED  BY <2>3, <2>4
<1>4. (\E i \in 1 .. n : x \in Adds(q[i]) /\ \A j \in i + 1 .. n : x \notin Dels(q[j])) <=>
      \/ x \in Adds(q[1]) /\ \A j \in 1 .. n - 1 : x \notin Dels(t[j])
      \/ \E i \in 1 .. n - 1 : x \in Adds(t[i]) /\ \A j \in i + 1 .. n - 1 : x \notin Dels(t[j])
  <2>1. ASSUME NEW i \in 1 .. n - 1
        PROVE  (x \in Adds(q[i + 1]) /\ \A j \in (i + 1) + 1 .. n : x \notin Dels(q[j])) <=>
               (x \in Adds(t[i]) /\ \A j \in i + 1 .. n - 1 : x \notin Dels(t[j]))
    BY <1>1, <1>2, <1>3
  <2>2. (\A j \in 1 + 1 .. n : x \notin Dels(q[j])) <=> (\A j \in 1 .. n - 1 : x \notin Dels(t[j]))
    BY <1>2, <1>3
  <2>3. QED  BY <1>2, <2>1, <2>2
<1>5. (\A i \in 1 .. n : x \notin Dels(q[i])) <=>
      x \notin Dels(q[1]) /\ \A j \in 1 .. n - 1 : x \notin Dels(t[j])
  <2>1. (\A i \in 1 .. n : x \notin Dels(q[i])) <=>
        x \notin Dels(q[1]) /\ \A i \in 1 + 1 .. n : x \notin Dels(q[i])
    BY <1>1
  <2>2. QED  BY <1>2, <1>3, <2>1
<1>6. x \in After(ds, q) <=>
          \/ x \in ds /\ \A i \in 1 .. n : x \notin Dels(q[i])
          \/ \E i \in 1 .. n : x \in Adds(q[i]) /\ \A j \in i + 1 .. n : x \notin Dels(q[j])
  BY <1>1 DEF After, n
<1>7. x \in After(es, t) <=>
          \/ x \in es /\ \A i \in 1 .. n - 1 : x \notin Dels(t[i])
          \/ \E i \in 1 .. n - 1 : x \in Adds(t[i]) /\ \A j \in i + 1 .. n - 1 : x \notin Dels(t[j])
  BY <1>1 DEF After
<1>8. x \in es <=> (x \in ds /\ x \notin Dels(q[1])) \/ x \in Adds(q[1])
  BY <1>1
<1>9. QED  BY <1>4, <1>5, <1>6, <1>7, <1>8 DEF t

-----------------------------------------------------------------------------
(* The steps.                                                              *)

(* What the three events say.                                              *)
LEMMA EventTypes ==
    /\ \A d \in Devices : Added(d) \in Event /\ Removed(d) \in Event
    /\ \A d : Adds(Added(d)) = {d} /\ Dels(Added(d)) = {}
    /\ \A d : Adds(Removed(d)) = {} /\ Dels(Removed(d)) = {d}
    /\ \A ds : Adds(Snapshot(ds)) = ds /\ Dels(Snapshot(ds)) = {}
BY DEF Added, Removed, Snapshot, Event, Adds, Dels

(* The devices of an event are those it says are there or gone.            *)
LEMMA Named == \A e : e.devs = Adds(e) \union Dels(e)
BY DEF Adds, Dels

LEMMA InitTracks == Init => TInv
<1> SUFFICES ASSUME Init PROVE TInv
  OBVIOUS
<1>1. KernelOK
  BY DEF Init, KernelOK, LinkStates, MonPcs
<1>2. LinkOK
  BY DEF Init, LinkOK
<1>3. Tracks
  BY AfterEmpty DEF Init, Tracks, Base
<1>4. QED  BY <1>1, <1>2, <1>3 DEF TInv

(* A change of the device d, of which the event e tells the truth.         *)
LEMMA ChangeTracks ==
    ASSUME TInv, NEW d \in Devices, NEW e \in Event,
           \/ Adds(e) = {d} /\ Dels(e) = {} /\ present' = present \union {d}
           \/ Adds(e) = {} /\ Dels(e) = {d} /\ present' = present \ {d},
           Change(d, e)
    PROVE  TInv'
<1> USE DEF TInv
<1>1. UNCHANGED <<link, state, monPc, left, found>>
  BY DEF Change, monVars
<1>2. KernelOK'
  BY <1>1 DEF Change, KernelOK
<1>3. LinkOK'
  BY <1>1 DEF Change, LinkOK, Ended
<1>4. ASSUME ~Ended, NEW x \in Devices \ unseen'
      PROVE  x \in After(Base', devQ') <=> x \in present'
  <2>1. x # d => (x \in Base' <=> x \in Base) /\ (x \in present' <=> x \in present)
    BY <1>1 DEF Base
  <2>2. x # d => x \notin unseen
    BY DEF Change
  <2>3. x # d => (x \in After(Base, devQ) <=> x \in present)
    BY <1>4, <2>2 DEF Tracks
  <2>4. CASE link = "up"
    <3>1. devQ' = Append(devQ, e)
      BY <2>4 DEF Change
    <3>2. CASE x = d
      BY <3>1, <3>2, AfterAppend DEF KernelOK
    <3>3. CASE x # d
      <4>1. x \in After(Base', devQ') <=> x \in After(Base', devQ)
        BY <3>1, <3>3, AfterAppend DEF KernelOK
      <4>2. x \in After(Base', devQ) <=> x \in After(Base, devQ)
        BY <2>1, <3>3, AfterLocal
      <4>3. QED  BY <2>1, <2>3, <3>3, <4>1, <4>2
    <3>4. QED  BY <3>2, <3>3
  <2>5. CASE link = "down"
    <3>1. x # d /\ devQ' = devQ
      BY <2>5 DEF Change
    <3>2. x \in After(Base', devQ) <=> x \in After(Base, devQ)
      BY <2>1, <3>1, AfterLocal
    <3>3. QED  BY <2>1, <2>3, <3>1, <3>2
  <2>6. CASE link = "closed"
    <3>1. monPc = "open" /\ devQ' = <<>> /\ Base' = present'
      BY <1>1, <1>4, <2>6 DEF LinkOK, Change, Base
    <3>2. QED  BY <3>1, AfterEmpty
  <2>7. QED  BY <2>4, <2>5, <2>6 DEF KernelOK, LinkStates
<1>5. Tracks'
  BY <1>1, <1>4 DEF Tracks, Ended
<1>6. QED  BY <1>2, <1>3, <1>5

(* The socket fails: the devices of the queue are unseen from now on, and  *)
(* of the others the queue said nothing.                                   *)
LEMMA BreakTracks == TInv /\ Break => TInv'
<1> SUFFICES ASSUME TInv, Break PROVE TInv'
  OBVIOUS
<1> USE DEF TInv
<1>1. UNCHANGED <<present, state, monPc, left, found>> /\ Base' = Base
  BY DEF Break, monVars, Base
<1>2. KernelOK'
  BY <1>1 DEF Break, KernelOK, LinkStates
<1>3. LinkOK'
  BY <1>1 DEF Break, LinkOK, Ended
<1>4. ASSUME ~Ended, NEW x \in Devices \ unseen'
      PROVE  x \in After(Base', devQ') <=> x \in present'
  <2>1. x \notin unseen /\ \A i \in DOMAIN devQ : x \notin Adds(devQ[i]) \union Dels(devQ[i])
    BY Named DEF Break
  <2>2. x \in After(Base, devQ) <=> x \in Base
    BY <2>1, AfterSilent
  <2>3. x \in After(Base, devQ') <=> x \in Base
    BY AfterEmpty DEF Break
  <2>4. QED  BY <1>1, <1>4, <2>1, <2>2, <2>3 DEF Tracks
<1>5. Tracks'
  BY <1>1, <1>4 DEF Tracks, Ended
<1>6. QED  BY <1>2, <1>3, <1>5

LEMMA KernelTracks == TInv /\ Kernel => TInv'
<1> SUFFICES ASSUME TInv, Kernel PROVE TInv'
  OBVIOUS
<1>1. CASE Break
  BY <1>1, BreakTracks
<1>2. ASSUME NEW d \in Devices, Appear(d) PROVE TInv'
  BY <1>2, ChangeTracks, EventTypes DEF Appear
<1>3. ASSUME NEW d \in Devices, Vanish(d) PROVE TInv'
  BY <1>3, ChangeTracks, EventTypes DEF Vanish
<1>4. QED  BY <1>1, <1>2, <1>3 DEF Kernel

(* The monitor takes the event about d off the queue and does to d.state   *)
(* what the event says.                                                    *)
LEMMA TakeTracks ==
    ASSUME TInv, monPc = "select", devQ # <<>>, devQ' = Tail(devQ),
           state' \subseteq Devices,
           \A x \in Devices : x \in state' <=>
               x \in (state \ Dels(Head(devQ))) \union Adds(Head(devQ)),
           UNCHANGED <<present, link, unseen, monPc, left, found>>
    PROVE  TInv'
<1> USE DEF TInv
<1>1. KernelOK'
  BY DEF KernelOK
<1>2. LinkOK'
  BY DEF LinkOK, Ended
<1>3. Base = state /\ Base' = state' /\ ~Ended
  BY DEF Base, Ended
<1>4. ASSUME NEW x \in Devices \ unseen
      PROVE  x \in After(state', devQ') <=> x \in present
  <2>1. x \in After(state, devQ) <=> x \in present
    BY <1>3 DEF Tracks
  <2>2. x \in After(state, devQ) <=>
        x \in After((state \ Dels(Head(devQ))) \union Adds(Head(devQ)), Tail(devQ))
    BY AfterHead DEF KernelOK
  <2>3. x \in After((state \ Dels(Head(devQ))) \union Adds(Head(devQ)), Tail(devQ)) <=>
        x \in After(state', Tail(devQ))
    BY AfterLocal
  <2>4. QED  BY <2>1, <2>2, <2>3
<1>5. Tracks'
  BY <1>3, <1>4 DEF Tracks
<1>6. QED  BY <1>1, <1>2, <1>5

LEMMA EventTracks ==
    ASSUME TInv, NEW d \in Devices, OnAdd(d) \/ OnRemove(d) \/ OnRemoveUnknown(d)
    PROVE  TInv'
<1>1. /\ monPc = "select" /\ devQ # <<>> /\ devQ' = Tail(devQ)
      /\ UNCHANGED <<present, link, unseen, monPc, left, found>>
  BY DEF OnAdd, OnRemove, OnRemoveUnknown, Selecting, monVars
<1>2. state \subseteq Devices
  BY DEF TInv, KernelOK
<1>3. CASE OnAdd(d)
  <2>1. Head(devQ) = Added(d) /\ state' = state \union {d}
    BY <1>3 DEF OnAdd
  <2>2. QED  BY <1>1, <1>2, <2>1, TakeTracks, EventTypes
<1>4. CASE OnRemove(d)
  <2>1. Head(devQ) = Removed(d) /\ state' = state \ {d}
    BY <1>4 DEF OnRemove
  <2>2. QED  BY <1>1, <1>2, <2>1, TakeTracks, EventTypes
<1>5. CASE OnRemoveUnknown(d)
  <2>1. Head(devQ) = Removed(d) /\ state' = state /\ d \notin state
    BY <1>5 DEF OnRemoveUnknown, monVars
  <2>2. QED  BY <1>1, <1>2, <2>1, TakeTracks, EventTypes
<1>6. QED  BY <1>3, <1>4, <1>5

(* A step of the monitor that leaves the devices and the queue alone.      *)
Quiet == UNCHANGED <<present, devQ, unseen>>

LEMMA QuietTracks ==
    ASSUME TInv, Quiet, KernelOK', LinkOK',
           ~Ended' => ~Ended /\ \A x \in Devices : x \in Base' <=> x \in Base
    PROVE  TInv'
<1>1. ASSUME ~Ended', NEW x \in Devices \ unseen
      PROVE  x \in After(Base', devQ') <=> x \in present'
  BY <1>1, AfterLocal DEF Quiet, TInv, Tracks
<1>2. QED  BY <1>1 DEF Quiet, TInv, Tracks

(* The start, the reconnection and the end of the monitor.                 *)
LEMMA PhaseTracks ==
    ASSUME TInv,
           \/ OpenSocket \/ ScanDone \/ StartFails
           \/ \E d \in Devices : Scan(d)
           \/ OnError \/ Reopen \/ Stop \/ CloseDone \/ CloseMux
           \/ \E s \in Subs : Serve(s) \/ Served(s)
    PROVE  TInv'
<1> USE DEF TInv, KernelOK, LinkOK, LinkStates, MonPcs, Ended, Base, Quiet
<1>1. CASE OpenSocket
  BY <1>1, QuietTracks DEF OpenSocket
<1>2. CASE ScanDone
  BY <1>2, QuietTracks DEF ScanDone, kernelVars
<1>3. CASE StartFails
  BY <1>3, QuietTracks DEF StartFails, kernelVars
<1>4. ASSUME NEW d \in Devices, Scan(d) PROVE TInv'
  <2>1. /\ monPc = "enum" /\ d \in left
        /\ left' = left \ {d}
        /\ found' = IF d \in present THEN found \union {d} ELSE found
        /\ UNCHANGED <<present, devQ, link, unseen, state, monPc>>
    BY <1>4 DEF Scan, kernelVars
  <2>2. KernelOK'
    BY <2>1
  <2>3. LinkOK'
    BY <2>1
  <2>4. ASSUME NEW x \in Devices
        PROVE  x \in (found' \ left') \union (present \intersect left') <=>
               x \in (found \ left) \union (present \intersect left)
    BY <2>1
  <2>5. \A x \in Devices : x \in Base' <=> x \in Base
    BY <2>1, <2>4
  <2>6. QED  BY <2>1, <2>2, <2>3, <2>5, QuietTracks
<1>5. CASE OnError \/ Stop \/ CloseDone \/ CloseMux
  BY <1>5, QuietTracks DEF OnError, Stop, CloseDone, CloseMux, Selecting, kernelVars
<1>6. CASE Reopen
  BY <1>6, QuietTracks DEF Reopen
<1>7. ASSUME NEW s \in Subs, Serve(s) \/ Served(s) PROVE TInv'
  BY <1>7, QuietTracks DEF Serve, Served, Selecting, kernelVars
<1>8. QED  BY <1>1, <1>2, <1>3, <1>4, <1>5, <1>6, <1>7

(* The rest does not touch what the invariant is about.                    *)
LEMMA OthersTrack ==
    ASSUME TInv, UNCHANGED <<kernelVars, monVars>>
    PROVE  TInv'
<1>1. UNCHANGED <<present, devQ, link, unseen, state, monPc, left, found>>
  BY DEF kernelVars, monVars
<1>2. Base' = Base /\ Ended' = Ended /\ KernelOK' = KernelOK /\ LinkOK' = LinkOK
  BY <1>1 DEF Base, Ended, KernelOK, LinkOK
<1>3. QED  BY <1>1, <1>2 DEF TInv, Tracks

LEMMA NextTracks == TInv /\ [Next]_vars => TInv'
<1> SUFFICES ASSUME TInv, [Next]_vars PROVE TInv'
  OBVIOUS
<1>1. CASE Kernel
  BY <1>1, KernelTracks
<1>2. CASE \E d \in Devices : OnAdd(d) \/ OnRemove(d) \/ OnRemoveUnknown(d)
  BY <1>2, EventTracks
<1>3. CASE \/ OpenSocket \/ ScanDone \/ StartFails
           \/ \E d \in Devices : Scan(d)
           \/ OnError \/ Reopen \/ Stop \/ CloseDone \/ CloseMux
           \/ \E s \in Subs : Serve(s) \/ Served(s)
  BY <1>3, PhaseTracks
<1>4. CASE SubmitStep \/ RunStep \/ Close \/ CloseReturns
  BY <1>4, OthersTrack DEF SubmitStep, RunStep, Close, CloseReturns
<1>5. CASE \E s \in Subs : \/ Subscribe(s) \/ SubscribeRefused(s)
                           \/ Cancel(s) \/ CancelReturns(s)
                           \/ Deliver(s) \/ Read(s)
  BY <1>5, OthersTrack
     DEF Subscribe, SubscribeRefused, Cancel, CancelReturns, Deliver, Read
<1>6. CASE UNCHANGED vars
  BY <1>6, OthersTrack DEF vars
<1>7. QED  BY <1>1, <1>2, <1>3, <1>4, <1>5, <1>6 DEF Next, MonitorRuns

(* Opening the socket before the enumeration closes the window between the *)
(* two (NewDiscovery's comment): d.state and the queue always tell which   *)
(* devices are there, but for those that changed while the socket was down.*)
THEOREM StateFollowsDevices == Spec => []StateTracksDevices
<1>1. TInv => StateTracksDevices
  <2> SUFFICES ASSUME TInv, monPc \in {"select", "subscribe", "reopen"}
               PROVE  After(state, devQ) \ unseen = present \ unseen
    BY DEF StateTracksDevices
  <2>1. Base = state /\ ~Ended
    BY DEF Base, Ended
  <2>2. After(state, devQ) \subseteq Devices /\ present \subseteq Devices
    BY DEF After, TInv, KernelOK
  <2>3. QED  BY <2>1, <2>2 DEF TInv, Tracks
<1>2. QED  BY InitTracks, NextTracks, <1>1, PTL DEF Spec

-----------------------------------------------------------------------------
(* Queues that are joined.                                                 *)

LEMMA JoinAppend ==
    ASSUME NEW S, NEW q \in Seq(S), NEW e \in S
    PROVE  q \o <<e>> = Append(q, e)
OBVIOUS

LEMMA JoinTail ==
    ASSUME NEW S, NEW q \in Seq(S), NEW r \in Seq(S), q # <<>>
    PROVE  /\ q \o r # <<>>
           /\ Head(q \o r) = Head(q)
           /\ Tail(q \o r) = Tail(q) \o r
<1>1. /\ q \o r \in Seq(S) /\ Len(q \o r) = Len(q) + Len(r)
      /\ \A i \in 1 .. Len(q) + Len(r) : (q \o r)[i] = IF i <= Len(q) THEN q[i] ELSE r[i - Len(q)]
  BY ConcatProperties
<1>2. Len(q) \in Nat \ {0} /\ Len(r) \in Nat
  OBVIOUS
<1>3. q \o r # <<>> /\ Head(q \o r) = Head(q)
  BY <1>1, <1>2
<1>4. /\ Tail(q) \in Seq(S) /\ Len(Tail(q)) = Len(q) - 1
      /\ \A i \in 1 .. Len(q) - 1 : Tail(q)[i] = q[i + 1]
  BY HeadTailProperties
<1>5. /\ Tail(q) \o r \in Seq(S) /\ Len(Tail(q) \o r) = Len(q) - 1 + Len(r)
      /\ \A i \in 1 .. Len(q) - 1 + Len(r) :
             (Tail(q) \o r)[i] = IF i <= Len(q) - 1 THEN Tail(q)[i] ELSE r[i - (Len(q) - 1)]
  BY <1>2, <1>4, ConcatProperties
<1>6. /\ Tail(q \o r) \in Seq(S) /\ Len(Tail(q \o r)) = Len(q) + Len(r) - 1
      /\ \A i \in 1 .. Len(q) + Len(r) - 1 : Tail(q \o r)[i] = (q \o r)[i + 1]
  BY <1>1, <1>3, HeadTailProperties
<1>7. ASSUME NEW i \in 1 .. Len(q) - 1 + Len(r)
      PROVE  Tail(q \o r)[i] = (Tail(q) \o r)[i]
  <2>1. i + 1 \in 1 .. Len(q) + Len(r) /\ i \in 1 .. Len(q) + Len(r) - 1
    BY <1>2
  <2>2. Tail(q \o r)[i] = IF i + 1 <= Len(q) THEN q[i + 1] ELSE r[(i + 1) - Len(q)]
    BY <1>1, <1>6, <2>1
  <2>3. (Tail(q) \o r)[i] = IF i <= Len(q) - 1 THEN q[i + 1] ELSE r[i - (Len(q) - 1)]
    <3>1. CASE i <= Len(q) - 1
      <4>1. i \in 1 .. Len(q) - 1
        BY <1>2, <3>1
      <4> QED
        BY <1>4, <1>5, <3>1, <4>1
    <3>2. CASE ~(i <= Len(q) - 1)
      BY <1>5, <3>2
    <3> QED
      BY <3>1, <3>2
  <2>4. (i + 1 <= Len(q) <=> i <= Len(q) - 1) /\ (i + 1) - Len(q) = i - (Len(q) - 1)
    BY <1>2
  <2> QED
    BY <2>2, <2>3, <2>4
<1>8. Tail(q \o r) = Tail(q) \o r
  <2>1. Len(Tail(q \o r)) = Len(Tail(q) \o r)
    BY <1>2, <1>5, <1>6
  <2>2. \A i \in 1 .. Len(Tail(q \o r)) : Tail(q \o r)[i] = (Tail(q) \o r)[i]
    BY <1>2, <1>6, <1>7
  <2> HIDE <1>1, <1>7
  <2> QED
    BY <1>5, <1>6, <2>1, <2>2, SeqEqual
<1> QED
  BY <1>3, <1>8

-----------------------------------------------------------------------------
(* What every step keeps.                                                  *)

(* The newest event that run has handed out.                               *)
Handed     == IF dispatched = <<>> THEN 0 ELSE M!Current[2]
Submitting == submitPc[Monitor] # "idle"

Types ==
    /\ changes \in 0 .. MaxChanges
    /\ breaks \in 0 .. MaxBreaks
    /\ unseen \subseteq Devices
    /\ ddone \in BOOLEAN
    /\ log \in Seq(Event)
    /\ reqPc \in [Subs -> ReqPcs]
    /\ view \in [Subs -> SUBSET Devices]
    /\ closer \in CloserPcs
    /\ subPc \in [Subs -> M!SubPcs]
    /\ closes \in [Subs -> Nat]

(* d.mux has no buffer and one submitter, so that no event is taken off    *)
(* input but in a Handoff, and run's deferred function finds nothing to    *)
(* flush.                                                                  *)
Unqueued ==
    /\ inBufSize = 0 /\ input = <<>> /\ buffered = <<>>
    /\ submitPc \in [{Monitor} -> M!SubmitPcs]
    /\ calls \in [{Monitor} -> Nat]
    /\ calls[Monitor] = Len(log)
    /\ runPc # "fanout" => pending = {}
    /\ dispatched \in Seq({Monitor} \X Nat)
    /\ Handed \in 0 .. Len(log)
    /\ pending # {} => Handed # 0

(* monitor submits what it has just done to d.state.                       *)
Says ==
    Submitting =>
        /\ monPc = "select" /\ log # <<>>
        /\ Adds(log[Len(log)]) \subseteq state
        /\ Dels(log[Len(log)]) \intersect state = {}

Chans ==
    /\ chan \in [Subs -> Seq(Event)]
    /\ \A s \in Subs : Len(chan[s]) <= ChanCap
    /\ lost \in [Subs -> SUBSET Devices]

(* Which of the subscribers are sinks of d.mux.                            *)
Places ==
    /\ outputs \subseteq Subs /\ pending \subseteq outputs
    /\ \A s \in Subs :
        /\ reqPc[s] \in {"idle", "asking", "refused"} => 
               subPc[s] = "new" /\ view[s] = {} /\ chan[s] = <<>>
        /\ reqPc[s] = "served" => monPc = "subscribe"
        /\ reqPc[s] \in {"served", "subscribed"} => monPc \notin {"open", "enum"}
        /\ reqPc[s] = "subscribed" => subPc[s] \notin {"new", "registering"}
        /\ subPc[s] \in {"new", "registering"} => closes[s] = 0
        /\ s \in outputs => subPc[s] \notin {"new", "registering"} /\ closes[s] = 0
        /\ subPc[s] \notin {"new", "registering"} /\ closes[s] = 0 => s \in outputs
    /\ \A s, t \in Subs : reqPc[s] = "served" /\ reqPc[t] = "served" => s = t

MInv == TInv /\ Types /\ Chans /\ Unqueued /\ Says /\ Places

LEMMA MInitially == Init => MInv
<1> SUFFICES ASSUME Init PROVE MInv
  OBVIOUS
<1> USE DEF Init, M!Init
<1>1. TInv
  BY InitTracks
<1>2. Types
  <2>1. /\ reqPc \in [Subs -> ReqPcs] /\ view \in [Subs -> SUBSET Devices]
        /\ subPc \in [Subs -> M!SubPcs] /\ closes \in [Subs -> Nat]
    BY DEF ReqPcs, M!SubPcs
  <2>2. /\ changes \in 0 .. MaxChanges /\ breaks \in 0 .. MaxBreaks
        /\ log \in Seq(Event) /\ closer \in CloserPcs
    BY DiscoveryAssumption DEF CloserPcs
  <2> QED
    BY <2>1, <2>2 DEF Types
<1>3. Unqueued
  <2>1. /\ inBufSize = 0 /\ input = <<>> /\ buffered = <<>> /\ pending = {}
        /\ dispatched \in Seq({Monitor} \X Nat)
    OBVIOUS
  <2>2. submitPc \in [{Monitor} -> M!SubmitPcs] /\ calls \in [{Monitor} -> Nat]
    BY DEF M!SubmitPcs
  <2>3. calls[Monitor] = 0 /\ Len(log) = 0 /\ Handed = 0
    BY DEF Handed
  <2> QED
    BY <2>1, <2>2, <2>3 DEF Unqueued
<1>4. Says /\ Places
  BY DEF Says, Submitting, Places
<1>5. Chans
  <2>1. chan \in [Subs -> Seq(Event)] /\ lost \in [Subs -> SUBSET Devices]
    OBVIOUS
  <2>2. \A s \in Subs : Len(chan[s]) = 0
    OBVIOUS
  <2> QED
    BY <2>1, <2>2 DEF Chans, ChanCap
<1> QED
  BY <1>1, <1>2, <1>3, <1>4, <1>5 DEF MInv

(* The monitor's two events that go into the log.                          *)
LEMMA Logged ==
    ASSUME NEW d \in Devices, OnAdd(d) \/ OnRemove(d), log \in Seq(Event)
    PROVE  \E e \in Event :
               /\ log' = Append(log, e)
               /\ log' \in Seq(Event) /\ Len(log') = Len(log) + 1 /\ log'[Len(log')] = e
               /\ \A k \in 1 .. Len(log) : log'[k] = log[k]
               /\ state' = (state \ Dels(e)) \union Adds(e)
               /\ Adds(e) \intersect Dels(e) = {}
<1>1. CASE OnAdd(d)
  <2>1. log' = Append(log, Added(d)) /\ Added(d) \in Event /\ state' = state \union {d}
    BY <1>1, EventTypes DEF OnAdd
  <2>2. Adds(Added(d)) = {d} /\ Dels(Added(d)) = {}
    BY EventTypes
  <2> QED
    BY <2>1, <2>2
<1>2. CASE OnRemove(d)
  <2>1. log' = Append(log, Removed(d)) /\ Removed(d) \in Event /\ state' = state \ {d}
    BY <1>2, EventTypes DEF OnRemove
  <2>2. Adds(Removed(d)) = {} /\ Dels(Removed(d)) = {d}
    BY EventTypes
  <2> QED
    BY <2>1, <2>2
<1> QED
  BY <1>1, <1>2

(* run's steps, and where the subscribers are.                             *)
LEMMA RunTypes ==
    ASSUME subPc \in [Subs -> M!SubPcs], closes \in [Subs -> Nat], M!Run
    PROVE  subPc' \in [Subs -> M!SubPcs] /\ closes' \in [Subs -> Nat]
<1>1. CASE M!RunRecv \/ M!RunDone \/ M!RunDrain \/ M!FlushNext \/ M!FlushDone \/ M!RunExit
  BY <1>1 DEF M!RunRecv, M!RunDone, M!RunDrain, M!FlushNext, M!FlushDone, M!RunExit, M!sinkVars
<1>2. ASSUME NEW s \in Subs, M!RunRegister(s) \/ M!AckRegister(s) \/ M!AckUnregister(s)
      PROVE  subPc' \in [Subs -> M!SubPcs] /\ closes' \in [Subs -> Nat]
  BY <1>2 DEF M!RunRegister, M!AckRegister, M!AckUnregister, M!SubPcs
<1>3. ASSUME NEW s \in Subs, M!RunUnregister(s) \/ M!CloseSink(s)
      PROVE  subPc' \in [Subs -> M!SubPcs] /\ closes' \in [Subs -> Nat]
  <2>1. closes' = [closes EXCEPT ![s] = @ + 1]
    BY <1>3 DEF M!RunUnregister, M!CloseSink
  <2>2. subPc' = subPc \/ subPc' = [subPc EXCEPT ![s] = "unregWait"]
    BY <1>3 DEF M!RunUnregister, M!CloseSink
  <2>3. closes' \in [Subs -> Nat]
    BY <2>1
  <2>4. subPc' \in [Subs -> M!SubPcs]
    BY <2>2 DEF M!SubPcs
  <2> QED
    BY <2>3, <2>4
<1> QED
  BY <1>1, <1>2, <1>3 DEF M!Run

LEMMA TypesKept == MInv /\ [Next]_vars => Types'
<1> SUFFICES ASSUME MInv, [Next]_vars PROVE Types'
  OBVIOUS
<1> USE DEF MInv, Types, kernelVars, monVars, subVars, ReqPcs, CloserPcs, M!SubPcs
<1>1. CASE Kernel
  BY <1>1, DiscoveryAssumption DEF Kernel, Break, Appear, Vanish, Change, muxVars
<1>2. CASE \/ OpenSocket \/ ScanDone \/ StartFails
           \/ \E d \in Devices : Scan(d) \/ OnRemoveUnknown(d)
           \/ OnError \/ Reopen \/ Stop \/ CloseDone \/ Close \/ CloseReturns
  BY <1>2 DEF OpenSocket, ScanDone, StartFails, Scan, OnRemoveUnknown, OnError, Reopen, Stop,
              CloseDone, Close, CloseReturns, muxVars
<1>3. ASSUME NEW d \in Devices, OnAdd(d) \/ OnRemove(d)
      PROVE  Types'
  BY <1>3, Logged DEF OnAdd, OnRemove, M!SubmitCall, M!sinkVars
<1>4. CASE SubmitStep \/ CloseMux
  BY <1>4 DEF SubmitStep, CloseMux, M!SubmitProceed, M!SubmitHandoff, M!SubmitTimeout, M!Close,
              M!sinkVars
<1>5. CASE RunStep
  <2>1. UNCHANGED <<changes, breaks, unseen, ddone, log, reqPc, view, closer>> /\ M!Run
    BY <1>5 DEF RunStep
  <2>2. subPc' \in [Subs -> M!SubPcs] /\ closes' \in [Subs -> Nat]
    BY <2>1, RunTypes
  <2> QED
    BY <2>1, <2>2
<1>6. ASSUME NEW s \in Subs, \/ Serve(s) \/ Served(s) \/ Subscribe(s) \/ SubscribeRefused(s)
                             \/ Cancel(s) \/ CancelReturns(s) \/ Deliver(s)
      PROVE  Types'
  BY <1>6 DEF Serve, Served, Subscribe, SubscribeRefused, Cancel, CancelReturns, Deliver,
              M!SubscribeCall, M!CancelCall, M!CancelClosed, M!Deliver, M!sinkVars, muxVars
<1>7. ASSUME NEW s \in Subs, Read(s)
      PROVE  Types'
  BY <1>7 DEF Read, After, muxVars
<1>8. CASE UNCHANGED vars
  BY <1>8 DEF vars, muxVars
<1> QED
  BY <1>1, <1>2, <1>3, <1>4, <1>5, <1>6, <1>7, <1>8 DEF Next, MonitorRuns

(* A number that run hands out becomes the newest.                         *)
LEMMA HandedNext ==
    ASSUME dispatched \in Seq({Monitor} \X Nat), NEW n \in Nat,
           dispatched' = Append(dispatched, <<Monitor, n>>)
    PROVE  dispatched' \in Seq({Monitor} \X Nat) /\ Handed' = n
<1>1. <<Monitor, n>> \in {Monitor} \X Nat
  OBVIOUS
<1>2. /\ dispatched' \in Seq({Monitor} \X Nat) /\ dispatched' # <<>>
      /\ Len(dispatched') = Len(dispatched) + 1
      /\ dispatched'[Len(dispatched) + 1] = <<Monitor, n>>
  BY <1>1
<1> QED
  BY <1>2 DEF Handed, M!Current

LEMMA Publishing ==
    ASSUME MInv, NEW d \in Devices, OnAdd(d) \/ OnRemove(d)
    PROVE  /\ Unqueued' /\ Says' /\ Places'
           /\ UNCHANGED <<pending, closes, reqPc, chan, view, lost, Handed>>
           /\ ~Submitting /\ Submitting'
<1>1. /\ Selecting /\ M!SubmitCall(Monitor)
      /\ UNCHANGED <<monPc, reqPc, chan, view, lost>>
  BY DEF OnAdd, OnRemove, subVars
<1>2. /\ submitPc' = [submitPc EXCEPT ![Monitor] = "check"]
      /\ calls' = [calls EXCEPT ![Monitor] = @ + 1]
      /\ UNCHANGED <<runPc, pending, buffered, inBufSize, input, done, outputs, subPc, closes,
                     dispatched>>
  BY <1>1 DEF M!SubmitCall, M!runVars, M!chanVars, M!sinkVars
<1>3. Handed' = Handed /\ ~Submitting /\ Submitting'
  BY <1>1, <1>2 DEF MInv, Unqueued, Selecting, Submitting, Handed, M!Current
<1>4. PICK e \in Event : /\ log' \in Seq(Event) /\ Len(log') = Len(log) + 1 /\ log'[Len(log')] = e
                         /\ state' = (state \ Dels(e)) \union Adds(e)
                         /\ Adds(e) \intersect Dels(e) = {}
  BY Logged DEF MInv, Types
<1>5. Len(log) \in Nat
  BY DEF MInv, Types
<1>6. Unqueued'
  BY <1>2, <1>3, <1>4, <1>5 DEF MInv, Unqueued, M!SubmitPcs
<1>7. Says'
  <2>1. log' # <<>> /\ monPc' = "select"
    BY <1>1, <1>4, <1>5 DEF Selecting
  <2> QED
    BY <1>4, <2>1 DEF Says
<1>8. Places'
  BY <1>1, <1>2 DEF MInv, Places
<1> QED
  BY <1>1, <1>2, <1>3, <1>6, <1>7, <1>8

(* The monitor in Submit.                                                  *)
LEMMA Submits ==
    ASSUME MInv, SubmitStep
    PROVE  /\ Unqueued' /\ Says' /\ Places'
           /\ UNCHANGED <<log, state, closes, reqPc, chan, view>>
           /\ Submitting
           /\ \/ UNCHANGED <<pending, Handed, lost, settled, Submitting>>
              \/ /\ UNCHANGED <<pending, Handed>> /\ ~Submitting' /\ settled' = state
                 /\ lost' = [s \in Subs |-> IF reqPc[s] = "subscribed"
                                            THEN lost[s] \union Submitted ELSE lost[s]]
              \/ /\ lost' = [s \in Subs |-> lost[s] \ Submitted]
                 /\ ~Submitting' /\ settled' = state
                 /\ Handed' = Len(log) /\ pending = {} /\ pending' = outputs
<1>1. UNCHANGED <<log, state, monPc, reqPc, chan, view>>
  BY DEF SubmitStep, monVars
<1>2. Len(log) \in Nat
  BY DEF MInv, Types
<1>3. CASE M!SubmitProceed(Monitor) /\ UNCHANGED <<lost, settled>>
  <2>1. /\ submitPc[Monitor] = "check"
        /\ submitPc' = [submitPc EXCEPT ![Monitor] = "select"]
        /\ UNCHANGED <<calls, runPc, pending, buffered, inBufSize, input, done, outputs, subPc,
                       closes, dispatched>>
    BY <1>3 DEF M!SubmitProceed, M!runVars, M!chanVars, M!sinkVars
  <2>2. Submitting /\ Submitting' /\ Handed' = Handed
    BY <2>1 DEF MInv, Unqueued, Submitting, Handed, M!Current
  <2>3. Unqueued' /\ Says' /\ Places'
    BY <1>1, <2>1, <2>2 DEF MInv, Unqueued, Says, Places, M!SubmitPcs
  <2> QED
    BY <1>1, <1>3, <2>1, <2>2, <2>3
<1>4. CASE /\ M!SubmitTimeout(Monitor) /\ settled' = state
           /\ lost' = [s \in Subs |-> IF reqPc[s] = "subscribed"
                                      THEN lost[s] \union Submitted ELSE lost[s]]
  <2>1. /\ submitPc[Monitor] = "select"
        /\ submitPc' = [submitPc EXCEPT ![Monitor] = "idle"]
        /\ UNCHANGED <<calls, runPc, pending, buffered, inBufSize, input, done, outputs, subPc,
                       closes, dispatched>>
    BY <1>4 DEF M!SubmitTimeout, M!runVars, M!chanVars, M!sinkVars
  <2>2. Submitting /\ ~Submitting' /\ Handed' = Handed
    BY <2>1 DEF MInv, Unqueued, Submitting, Handed, M!Current
  <2>3. Unqueued' /\ Says' /\ Places'
    BY <1>1, <2>1, <2>2 DEF MInv, Unqueued, Says, Places, M!SubmitPcs
  <2> QED
    BY <1>1, <1>4, <2>1, <2>2, <2>3
<1>5. CASE /\ M!SubmitHandoff(Monitor) /\ settled' = state
           /\ lost' = [s \in Subs |-> lost[s] \ Submitted]
  <2>1. /\ submitPc[Monitor] = "select" /\ runPc = "select"
        /\ submitPc' = [submitPc EXCEPT ![Monitor] = "idle"]
        /\ dispatched' = Append(dispatched, <<Monitor, calls[Monitor]>>)
        /\ pending' = outputs
        /\ runPc' = IF outputs = {} THEN "select" ELSE "fanout"
        /\ UNCHANGED <<calls, buffered, inBufSize, input, done, outputs, subPc, closes>>
    BY <1>5 DEF M!SubmitHandoff, M!Dispatch, M!Value, M!chanVars, M!sinkVars
  <2>2. Submitting /\ ~Submitting' /\ pending = {}
    BY <2>1 DEF MInv, Unqueued, Submitting
  <2>3. calls[Monitor] = Len(log) /\ Len(log) # 0
    BY <1>2, <2>2 DEF MInv, Unqueued, Says, Types
  <2>4. dispatched' \in Seq({Monitor} \X Nat) /\ Handed' = Len(log)
    BY <1>2, <2>1, <2>3, HandedNext DEF MInv, Unqueued
  <2>5. Unqueued'
    BY <1>1, <1>2, <2>1, <2>3, <2>4 DEF MInv, Unqueued, M!SubmitPcs
  <2>6. Says' /\ Places'
    BY <1>1, <2>1, <2>2 DEF MInv, Says, Places
  <2> QED
    BY <1>1, <1>5, <2>1, <2>2, <2>4, <2>5, <2>6
<1> QED
  BY <1>3, <1>4, <1>5 DEF SubmitStep

(* A sink is given the newest event handed out.                            *)
LEMMA Delivers ==
    ASSUME MInv, NEW s \in Subs, Deliver(s)
    PROVE  /\ Unqueued' /\ Says' /\ Places'
           /\ UNCHANGED <<log, state, closes, reqPc, view, lost, Handed, Submitting>>
           /\ s \in pending /\ Handed \in 1 .. Len(log)
           /\ pending' = pending \ {s}
           /\ Len(chan[s]) < ChanCap
           /\ chan' = [chan EXCEPT ![s] = Append(@, log[Handed])]
<1>1. /\ UNCHANGED <<log, state, monPc, reqPc, view, lost>>
      /\ chan' = [chan EXCEPT ![s] = Append(@, log[M!Current[2]])]
      /\ Len(chan[s]) < ChanCap
  BY DEF Deliver, HasRoom, monVars
<1>2. /\ s \in pending /\ pending' = pending \ {s}
      /\ runPc' = IF runPc = "fanout" /\ pending = {s} THEN "select" ELSE runPc
      /\ UNCHANGED <<buffered, inBufSize, input, done, submitPc, calls, outputs, subPc, closes,
                     dispatched>>
  BY DEF Deliver, M!Deliver, M!chanVars, M!callVars, M!sinkVars
<1>3. Handed' = Handed /\ Submitting' = Submitting
  BY <1>2 DEF Handed, M!Current, Submitting
<1>4. Handed # 0 /\ Handed \in 0 .. Len(log) /\ Len(log) \in Nat
  BY <1>2 DEF MInv, Unqueued, Types
<1>5. chan' = [chan EXCEPT ![s] = Append(@, log[Handed])]
  BY <1>1, <1>4 DEF Handed
<1>6. Handed \in 1 .. Len(log)
  BY <1>4
<1>7. Unqueued' /\ Says'
  BY <1>1, <1>2, <1>3 DEF MInv, Unqueued, Says
<1>8. Places'
  <2>1. s \in outputs /\ subPc[s] # "new" /\ reqPc[s] \notin {"idle", "asking", "refused"}
    BY <1>2 DEF MInv, Places
  <2>2. \A t \in Subs : t # s => chan'[t] = chan[t]
    BY <1>1 DEF MInv, Chans
  <2> QED
    BY <1>1, <1>2, <2>1, <2>2 DEF MInv, Places
<1> QED
  BY <1>1, <1>2, <1>3, <1>5, <1>6, <1>7, <1>8

(* run takes on and lets go of sinks, and ends; it finds nothing in input. *)
LEMMA Runs ==
    ASSUME MInv, RunStep
    PROVE  /\ Unqueued' /\ Says' /\ Places'
           /\ UNCHANGED <<log, state, reqPc, chan, view, lost, pending, Handed, Submitting>>
           /\ \A s \in Subs : closes'[s] = closes[s] \/ closes'[s] > 0
           /\ closes' = closes \/ \E s \in Subs : closes' = [closes EXCEPT ![s] = @ + 1]
           /\ pending = {}
<1>1. UNCHANGED <<log, state, monPc, reqPc, chan, view, lost>> /\ M!Run
  BY DEF RunStep, monVars, subVars
<1>2. ~M!RunRecv /\ ~M!FlushNext
  BY DEF MInv, Unqueued, M!RunRecv, M!FlushNext
<1>3. /\ UNCHANGED <<pending, inBufSize, submitPc, calls, dispatched>>
      /\ input' = <<>> /\ buffered' = <<>>
      /\ runPc' # "fanout"
      /\ pending = {}
  BY <1>1, <1>2
     DEF M!Run, M!RunDone, M!RunDrain, M!FlushDone, M!RunExit, M!RunRegister, M!AckRegister,
         M!RunUnregister, M!AckUnregister, M!CloseSink, M!chanVars, M!callVars, M!runVars,
         MInv, Unqueued
<1>4. Handed' = Handed /\ Submitting' = Submitting
  BY <1>3 DEF Handed, M!Current, Submitting
<1>5. Unqueued' /\ Says'
  BY <1>1, <1>3, <1>4 DEF MInv, Unqueued, Says
<1>6. Places' /\ \A s \in Subs : closes'[s] = closes[s] \/ closes'[s] > 0
  <2> USE DEF MInv, Types, M!SubPcs
  <2>1. CASE M!RunDone \/ M!RunDrain \/ M!FlushDone \/ M!RunExit
    BY <1>1, <1>3, <2>1 DEF M!RunDone, M!RunDrain, M!FlushDone, M!RunExit, M!sinkVars, Places
  <2>2. ASSUME NEW s \in Subs, M!RunRegister(s)
        PROVE  Places' /\ closes' = closes
    BY <1>1, <1>3, <2>2 DEF M!RunRegister, Places, ReqPcs
  <2>3. ASSUME NEW s \in Subs, M!AckRegister(s)
        PROVE  Places' /\ closes' = closes
    BY <1>1, <1>3, <2>3 DEF M!AckRegister, Places
  <2>4. ASSUME NEW s \in Subs, M!RunUnregister(s)
        PROVE  Places' /\ \A t \in Subs : closes'[t] = closes[t] \/ closes'[t] > 0
    BY <1>1, <1>3, <2>4 DEF M!RunUnregister, Places
  <2>5. ASSUME NEW s \in Subs, M!AckUnregister(s)
        PROVE  Places' /\ closes' = closes
    BY <1>1, <1>3, <2>5 DEF M!AckUnregister, Places
  <2>6. ASSUME NEW s \in Subs, M!CloseSink(s)
        PROVE  Places' /\ \A t \in Subs : closes'[t] = closes[t] \/ closes'[t] > 0
    BY <1>1, <1>3, <2>6 DEF M!CloseSink, Places
  <2>7. \/ M!RunDone \/ M!RunDrain \/ M!FlushDone \/ M!RunExit
        \/ \E s \in Subs : \/ M!RunRegister(s) \/ M!AckRegister(s) \/ M!RunUnregister(s)
                           \/ M!AckUnregister(s) \/ M!CloseSink(s)
    BY <1>1, <1>2 DEF M!Run
  <2>8. CASE M!RunDone \/ M!RunDrain \/ M!FlushDone \/ M!RunExit
    BY <2>1, <2>8 DEF M!RunDone, M!RunDrain, M!FlushDone, M!RunExit, M!sinkVars
  <2> QED
    BY <2>2, <2>3, <2>4, <2>5, <2>6, <2>7, <2>8
<1>7. closes' = closes \/ \E s \in Subs : closes' = [closes EXCEPT ![s] = @ + 1]
  BY <1>1, <1>2 DEF M!Run, M!RunDone, M!RunDrain, M!FlushDone, M!RunExit, M!RunRegister,
                    M!AckRegister, M!RunUnregister, M!AckUnregister, M!CloseSink, M!sinkVars
<1> QED
  BY <1>1, <1>3, <1>4, <1>5, <1>6, <1>7

(* Every other step leaves d.mux's values alone.                           *)
LEMMA Rests ==
    ASSUME MInv, \/ Kernel \/ OpenSocket \/ ScanDone \/ StartFails
                 \/ \E d \in Devices : Scan(d) \/ OnRemoveUnknown(d)
                 \/ OnError \/ Reopen \/ Stop \/ CloseDone \/ CloseMux
                 \/ Close \/ CloseReturns \/ UNCHANGED vars
                 \/ \E s \in Subs : \/ Serve(s) \/ Served(s) \/ Subscribe(s) \/ SubscribeRefused(s)
                                    \/ Cancel(s) \/ CancelReturns(s) \/ Read(s)
    PROVE  /\ Unqueued' /\ Says'
           /\ UNCHANGED <<log, outputs, pending, closes, Handed, Submitting>>
<1> USE DEF kernelVars, monVars, muxVars
<1>1. /\ UNCHANGED <<log, pending, inBufSize, input, buffered, submitPc, calls, runPc,
                     outputs, closes, dispatched>>
      /\ UNCHANGED <<monPc, state>> \/ ~Submitting
  <2>1. CASE Kernel \/ Close \/ CloseReturns \/ UNCHANGED vars
    BY <2>1 DEF Kernel, Break, Appear, Vanish, Change, Close, CloseReturns, vars
  <2>2. CASE OpenSocket \/ ScanDone \/ StartFails \/ Reopen \/ CloseDone
    BY <2>2 DEF OpenSocket, ScanDone, StartFails, Reopen, CloseDone, MInv, Says
  <2>3. CASE CloseMux
    BY <2>3 DEF CloseMux, M!Close, M!runVars, M!callVars, M!sinkVars, MInv, Says
  <2>4. CASE OnError \/ Stop
    BY <2>4 DEF OnError, Stop, Selecting, Submitting
  <2>5. CASE \E d \in Devices : Scan(d) \/ OnRemoveUnknown(d)
    BY <2>5 DEF Scan, OnRemoveUnknown
  <2>6. CASE \E s \in Subs : Serve(s)
    BY <2>6 DEF Serve, Selecting, Submitting, M!SubscribeCall, M!runVars, M!chanVars, M!callVars
  <2>7. CASE \E s \in Subs : Served(s) \/ Subscribe(s) \/ SubscribeRefused(s) \/ Read(s)
    BY <2>7 DEF Served, Subscribe, SubscribeRefused, Read, MInv, Says
  <2>8. CASE \E s \in Subs : Cancel(s) \/ CancelReturns(s)
    BY <2>8 DEF Cancel, CancelReturns, M!CancelCall, M!CancelClosed, M!runVars, M!chanVars,
                M!callVars
  <2> QED
    BY <2>1, <2>2, <2>3, <2>4, <2>5, <2>6, <2>7, <2>8
<1>2. Handed' = Handed /\ Submitting' = Submitting
  BY <1>1 DEF Handed, M!Current, Submitting
<1> QED
  BY <1>1, <1>2 DEF MInv, Unqueued, Says

(* The callers of Subscribe: a sink is a caller that has been served.      *)
LEMMA PlacesKept ==
    ASSUME MInv, Types',
           \/ Kernel \/ OpenSocket \/ ScanDone \/ StartFails
           \/ \E d \in Devices : Scan(d) \/ OnRemoveUnknown(d)
           \/ OnError \/ Reopen \/ Stop \/ CloseDone \/ CloseMux
           \/ Close \/ CloseReturns \/ UNCHANGED vars
           \/ \E s \in Subs : \/ Serve(s) \/ Served(s) \/ Subscribe(s) \/ SubscribeRefused(s)
                              \/ Cancel(s) \/ CancelReturns(s) \/ Read(s)
    PROVE  Places'
<1> USE DEF MInv
<1>1. UNCHANGED <<log, outputs, pending, closes>>
  BY Rests
<1>2. CASE \/ Kernel \/ OpenSocket \/ ScanDone \/ StartFails
           \/ \E d \in Devices : Scan(d) \/ OnRemoveUnknown(d)
           \/ OnError \/ Reopen \/ Stop \/ CloseDone \/ CloseMux
           \/ Close \/ CloseReturns \/ UNCHANGED vars
  <2> DEFINE Onward == \/ monPc' = monPc
                       \/ monPc' = "enum" /\ monPc = "open"
                       \/ monPc' = "select" /\ monPc \in {"enum", "reopen"}
                       \/ /\ monPc # "subscribe"
                          /\ monPc' \in {"closeDone", "closeMux", "exited", "reopen"}
  <2> USE DEF muxVars, monVars, subVars
  <2>1. UNCHANGED <<reqPc, subPc, view, chan>>
    <3>1. CASE Kernel \/ OpenSocket \/ ScanDone \/ StartFails \/ UNCHANGED vars
      BY <3>1 DEF Kernel, Break, Appear, Vanish, Change, OpenSocket, ScanDone, StartFails, vars
    <3>2. CASE \/ \E d \in Devices : Scan(d) \/ OnRemoveUnknown(d)
               \/ OnError \/ Reopen \/ Stop \/ CloseDone \/ CloseMux
               \/ Close \/ CloseReturns
      BY <3>2 DEF Scan, OnRemoveUnknown, OnError, Reopen, Stop, CloseDone, CloseMux, M!Close,
                  M!sinkVars, Close, CloseReturns
    <3> QED
      BY <1>2, <3>1, <3>2
  <2>2. Onward
    <3>1. CASE Kernel \/ Close \/ CloseReturns \/ UNCHANGED vars
      BY <3>1 DEF Kernel, Break, Appear, Vanish, Change, Close, CloseReturns, vars
    <3>2. CASE \E d \in Devices : Scan(d) \/ OnRemoveUnknown(d)
      BY <3>2 DEF Scan, OnRemoveUnknown
    <3>3. CASE OpenSocket \/ ScanDone \/ Reopen
      BY <3>3 DEF OpenSocket, ScanDone, Reopen
    <3>4. CASE StartFails \/ OnError \/ Stop \/ CloseDone \/ CloseMux
      BY <3>4 DEF StartFails, OnError, Stop, CloseDone, CloseMux, Selecting
    <3> QED
      BY <1>2, <3>1, <3>2, <3>3, <3>4
  <2> QED
    BY <1>1, <2>1, <2>2 DEF Places
<1>3. ASSUME NEW s \in Subs, Serve(s)
      PROVE  Places'
  <2>1. /\ monPc = "select" /\ monPc' = "subscribe" /\ reqPc[s] = "asking" /\ view' = view
        /\ reqPc' = [reqPc EXCEPT ![s] = "served"] /\ subPc' = [subPc EXCEPT ![s] = "registering"]
        /\ subPc[s] = "new"
    BY <1>3 DEF Serve, Selecting, M!SubscribeCall
  <2>2. \A t \in Subs : t # s => chan'[t] = chan[t]
    BY <1>3 DEF Serve, Chans
  <2>3. reqPc \in [Subs -> ReqPcs] /\ subPc \in [Subs -> M!SubPcs]
    BY DEF Types
  <2>4. ASSUME NEW t \in Subs, t # s
        PROVE  reqPc'[t] = reqPc[t] /\ subPc'[t] = subPc[t] /\ reqPc[t] # "served"
    BY <2>1, <2>3, <2>4 DEF Places
  <2>5. reqPc'[s] = "served" /\ subPc'[s] = "registering" /\ s \notin outputs /\ closes[s] = 0
    BY <2>1, <2>3 DEF Places
  <2> QED
    BY <1>1, <2>1, <2>2, <2>4, <2>5 DEF Places
<1>4. ASSUME NEW s \in Subs, Served(s)
      PROVE  Places'
  BY <1>1, <1>4 DEF Served, muxVars, Types, ReqPcs, Places
<1>8. ASSUME NEW s \in Subs, Read(s)
      PROVE  Places'
  <2>1. reqPc[s] \notin {"idle", "asking", "refused"}
    BY <1>8 DEF Read, Places
  <2>2. \A t \in Subs : t # s => chan'[t] = chan[t] /\ view'[t] = view[t]
    BY <1>8 DEF Read, Chans
  <2>3. UNCHANGED <<monPc, reqPc, subPc>>
    BY <1>8 DEF Read, monVars, muxVars
  <2> QED
    BY <1>1, <2>1, <2>2, <2>3 DEF Places
<1>5. ASSUME NEW s \in Subs, Subscribe(s) \/ SubscribeRefused(s)
      PROVE  Places'
  <2>1. /\ UNCHANGED <<monPc, subPc, view, chan>>
        /\ reqPc[s] \in {"idle", "asking"}
        /\ \E r \in {"asking", "refused"} : reqPc' = [reqPc EXCEPT ![s] = r]
    BY <1>5 DEF Subscribe, SubscribeRefused, muxVars, monVars
  <2> QED
    BY <1>1, <2>1 DEF Types, Places
<1>6. ASSUME NEW s \in Subs, Cancel(s)
      PROVE  Places'
  BY <1>1, <1>6 DEF Cancel, M!CancelCall, monVars, subVars, Types, Places
<1>7. ASSUME NEW s \in Subs, CancelReturns(s)
      PROVE  Places'
  BY <1>1, <1>7 DEF CancelReturns, M!CancelClosed, monVars, subVars, Types, Places
<1> QED
  BY <1>2, <1>3, <1>4, <1>5, <1>6, <1>7, <1>8

LEMMA ChansKept == MInv /\ [Next]_vars => Chans'
<1> SUFFICES ASSUME MInv, [Next]_vars PROVE Chans'
  OBVIOUS
<1> USE DEF MInv, Chans, ChanCap
<1>1. CASE UNCHANGED <<chan, lost>>
  BY <1>1
<1>2. CASE SubmitStep
  <2>1. chan' = chan
    BY <1>2, Submits
  <2>2. Submitted \subseteq Devices
    <3>1. Len(log) \in 1 .. Len(log) /\ log \in Seq(Event)
      BY <1>2, Submits DEF Says, Types
    <3>2. log[Len(log)] \in Event
      BY <3>1
    <3> QED
      BY <3>2 DEF Submitted, Event
  <2>3. lost' \in [Subs -> SUBSET Devices]
    BY <1>2, <2>2, Submits
  <2> QED
    BY <2>1, <2>3
<1>3. ASSUME NEW s \in Subs, Serve(s)
      PROVE  Chans'
  <2>1. /\ chan' = [chan EXCEPT ![s] = Append(@, Snapshot(state))] /\ Len(chan[s]) < 1
        /\ lost' = [lost EXCEPT ![s] = {}]
    BY <1>3 DEF Serve, HasRoom
  <2>2. Snapshot(state) \in Event
    BY DEF TInv, KernelOK, Snapshot, Event
  <2> QED
    BY <2>1, <2>2
<1>4. ASSUME NEW s \in Subs, Deliver(s)
      PROVE  Chans'
  <2>1. /\ chan' = [chan EXCEPT ![s] = Append(@, log[Handed])] /\ Len(chan[s]) < 1
        /\ lost' = lost /\ Handed \in 1 .. Len(log)
    BY <1>4, Delivers
  <2>2. log[Handed] \in Event
    BY <2>1 DEF Types
  <2> QED
    BY <2>1, <2>2
<1>5. ASSUME NEW s \in Subs, Read(s)
      PROVE  Chans'
  <2>1. chan' = [chan EXCEPT ![s] = Tail(@)] /\ chan[s] # <<>> /\ lost' = lost
    BY <1>5 DEF Read
  <2>2. Tail(chan[s]) \in Seq(Event) /\ Len(Tail(chan[s])) <= 1
    BY <2>1
  <2> QED
    BY <2>1, <2>2
<1>6. CASE \/ Kernel \/ OpenSocket \/ ScanDone \/ StartFails \/ OnError \/ Reopen \/ Stop
           \/ \E d \in Devices : Scan(d) \/ OnAdd(d) \/ OnRemove(d) \/ OnRemoveUnknown(d)
  <2>1. UNCHANGED <<chan, lost>>
    BY <1>6 DEF Kernel, Break, Appear, Vanish, Change, OpenSocket, ScanDone, StartFails, OnError,
                Reopen, Stop, Scan, OnAdd, OnRemove, OnRemoveUnknown, subVars
  <2> QED
    BY <1>1, <2>1
<1>7. CASE \/ CloseDone \/ CloseMux \/ Close \/ CloseReturns \/ RunStep \/ UNCHANGED vars
           \/ \E s \in Subs : \/ Served(s) \/ Subscribe(s) \/ SubscribeRefused(s)
                              \/ Cancel(s) \/ CancelReturns(s)
  <2>1. UNCHANGED <<chan, lost>>
    BY <1>7 DEF CloseDone, CloseMux, Close, CloseReturns, RunStep, vars, Served, Subscribe,
                SubscribeRefused, Cancel, CancelReturns, subVars
  <2> QED
    BY <1>1, <2>1
<1> QED
  BY <1>2, <1>3, <1>4, <1>5, <1>6, <1>7 DEF Next, MonitorRuns

LEMMA MStepwise == MInv /\ [Next]_vars => MInv'
<1> SUFFICES ASSUME MInv, [Next]_vars PROVE MInv'
  OBVIOUS
<1>1. TInv' /\ Types' /\ Chans'
  BY NextTracks, TypesKept, ChansKept DEF MInv
<1>2. Unqueued' /\ Says' /\ Places'
  <2>1. CASE \E d \in Devices : OnAdd(d) \/ OnRemove(d)
    BY <2>1, Publishing
  <2>2. CASE SubmitStep
    BY <2>2, Submits
  <2>3. CASE RunStep
    BY <2>3, Runs
  <2>4. CASE \E s \in Subs : Deliver(s)
    BY <2>4, Delivers
  <2>5. CASE \/ Kernel \/ OpenSocket \/ ScanDone \/ StartFails
             \/ \E d \in Devices : Scan(d) \/ OnRemoveUnknown(d)
             \/ OnError \/ Reopen \/ Stop \/ CloseDone \/ CloseMux
             \/ Close \/ CloseReturns \/ UNCHANGED vars
             \/ \E s \in Subs : \/ Serve(s) \/ Served(s) \/ Subscribe(s) \/ SubscribeRefused(s)
                                \/ Cancel(s) \/ CancelReturns(s) \/ Read(s)
    BY <1>1, <2>5, Rests, PlacesKept
  <2> QED
    BY <2>1, <2>2, <2>3, <2>4, <2>5 DEF Next, MonitorRuns
<1> QED
  BY <1>1, <1>2 DEF MInv

-----------------------------------------------------------------------------
(* What a subscriber knows and will know.                                  *)

Waiting(s) == IF s \in pending THEN <<log[Handed]>> ELSE <<>>
Offered    == IF Submitting THEN <<log[Len(log)]>> ELSE <<>>
Queue(s)   == (chan[s] \o Waiting(s)) \o Offered

Agrees(s) == \A x \in Devices \ lost[s] : x \in After(view[s], Queue(s)) <=> x \in state

Follows(s) == reqPc[s] \in {"served", "subscribed"} /\ closes[s] = 0 => Agrees(s)

VInv == MInv /\ \A s \in Subs : Follows(s)

LEMMA QueueTypes ==
    ASSUME MInv, NEW s \in Subs
    PROVE  /\ chan[s] \in Seq(Event) /\ Waiting(s) \in Seq(Event) /\ Offered \in Seq(Event)
           /\ chan[s] \o Waiting(s) \in Seq(Event) /\ Queue(s) \in Seq(Event)
           /\ s \in pending => Handed \in 1 .. Len(log) /\ log[Handed] \in Event
           /\ Submitting => Len(log) \in 1 .. Len(log) /\ log[Len(log)] \in Event
           /\ ~Submitting => Queue(s) = chan[s] \o Waiting(s)
<1>1. chan[s] \in Seq(Event) /\ log \in Seq(Event)
  BY DEF MInv, Chans, Types
<1>2. s \in pending => Handed \in 1 .. Len(log) /\ log[Handed] \in Event
  <2> SUFFICES ASSUME s \in pending PROVE Handed \in 1 .. Len(log) /\ log[Handed] \in Event
    OBVIOUS
  <2>1. Handed \in 0 .. Len(log) /\ Handed # 0
    BY DEF MInv, Unqueued
  <2>2. Handed \in 1 .. Len(log)
    BY <1>1, <2>1
  <2> QED
    BY <1>1, <2>2
<1>3. Submitting => Len(log) \in 1 .. Len(log) /\ log[Len(log)] \in Event
  <2> SUFFICES ASSUME Submitting PROVE Len(log) \in 1 .. Len(log) /\ log[Len(log)] \in Event
    OBVIOUS
  <2>1. log # <<>>
    BY DEF MInv, Says
  <2>2. Len(log) \in 1 .. Len(log)
    BY <1>1, <2>1
  <2> QED
    BY <1>1, <2>2
<1>4. Waiting(s) \in Seq(Event) /\ Offered \in Seq(Event)
  BY <1>2, <1>3 DEF Waiting, Offered
<1>5. chan[s] \o Waiting(s) \in Seq(Event)
  BY <1>1, <1>4, ConcatProperties
<1>6. Queue(s) \in Seq(Event)
  BY <1>4, <1>5, ConcatProperties DEF Queue
<1>7. ~Submitting => Queue(s) = chan[s] \o Waiting(s)
  BY <1>5, ConcatEmptySeq DEF Queue, Offered
<1> QED
  BY <1>1, <1>2, <1>3, <1>4, <1>5, <1>6, <1>7

LEMMA FollowsKept ==
    ASSUME MInv, NEW s \in Subs, Follows(s), UNCHANGED <<log, state, Handed, Submitting>>,
           view'[s] = view[s], chan'[s] = chan[s], lost'[s] = lost[s],
           s \in pending' <=> s \in pending,
           reqPc'[s] \in {"served", "subscribed"} => reqPc[s] \in {"served", "subscribed"},
           closes'[s] = 0 => closes[s] = 0
    PROVE  Follows(s)'
<1>1. Queue(s)' = Queue(s)
  BY DEF Queue, Waiting, Offered
<1> QED
  BY <1>1 DEF Follows, Agrees

(* d.state changes, and the event that says so is offered.                 *)
LEMMA FollowsPublishing ==
    ASSUME VInv, NEW d \in Devices, OnAdd(d) \/ OnRemove(d), NEW s \in Subs
    PROVE  Follows(s)'
<1>1. /\ UNCHANGED <<pending, closes, reqPc, chan, view, lost, Handed>>
      /\ ~Submitting /\ Submitting'
  BY Publishing DEF VInv
<1>2. PICK e \in Event : /\ Len(log') = Len(log) + 1 /\ log'[Len(log')] = e
                         /\ \A k \in 1 .. Len(log) : log'[k] = log[k]
                         /\ state' = (state \ Dels(e)) \union Adds(e)
                         /\ Adds(e) \intersect Dels(e) = {}
  BY Logged DEF VInv, MInv, Types
<1> DEFINE q == chan[s] \o Waiting(s)
<1>3. q \in Seq(Event) /\ Queue(s) = q
  BY <1>1, QueueTypes DEF VInv
<1>4. Waiting(s)' = Waiting(s)
  BY <1>1, <1>2, QueueTypes DEF VInv, Waiting
<1>5. Queue(s)' = q \o <<e>>
  BY <1>1, <1>2, <1>4 DEF Queue, Offered
<1> HIDE DEF q
<1>6. Queue(s)' = Append(q, e)
  BY <1>3, <1>5, JoinAppend
<1>7. ASSUME Agrees(s) PROVE Agrees(s)'
  <2> SUFFICES ASSUME NEW x \in Devices \ lost[s]
               PROVE  x \in After(view[s], Append(q, e)) <=> x \in state'
    BY <1>1, <1>6 DEF Agrees
  <2>1. x \in After(view[s], q) <=> x \in state
    BY <1>3, <1>7 DEF Agrees
  <2> QED
    BY <1>2, <1>3, <2>1, AfterAppend
<1> QED
  BY <1>1, <1>7 DEF VInv, Follows

(* The event is handed out to all sinks, or to none and the subscribers    *)
(* lose it.                                                                *)
LEMMA FollowsSubmits ==
    ASSUME VInv, SubmitStep, NEW s \in Subs
    PROVE  Follows(s)'
<1>1. UNCHANGED <<log, state, closes, reqPc, chan, view>> /\ Submitting
  BY Submits DEF VInv
<1> DEFINE e == log[Len(log)]
           q == chan[s] \o Waiting(s)
<1>2. /\ q \in Seq(Event) /\ e \in Event /\ chan[s] \in Seq(Event)
      /\ Queue(s) = q \o <<e>>
  BY <1>1, QueueTypes DEF VInv, Queue, Offered
<1>3. Queue(s) = Append(q, e)
  BY <1>2, JoinAppend
<1>4. lost \in [Subs -> SUBSET Devices]
  BY DEF VInv, MInv, Chans
<1>5. Submitted = Adds(e) \union Dels(e)
  BY Named DEF Submitted
<1>6. reqPc[s] # "served"
  BY <1>1 DEF VInv, MInv, Says, Places
<1>7. CASE UNCHANGED <<pending, Handed, lost, Submitting>>
  BY <1>1, <1>7, FollowsKept DEF VInv
<1>8. CASE /\ UNCHANGED <<pending, Handed>> /\ ~Submitting'
           /\ lost' = [t \in Subs |-> IF reqPc[t] = "subscribed"
                                      THEN lost[t] \union Submitted ELSE lost[t]]
  <2>1. Waiting(s)' = Waiting(s) /\ Offered' = <<>>
    BY <1>1, <1>8 DEF Waiting, Offered
  <2>2. Queue(s)' = q
    BY <1>1, <1>2, <2>1, ConcatEmptySeq DEF Queue
  <2> HIDE DEF q, e
  <2>3. ASSUME reqPc[s] = "subscribed", Agrees(s) PROVE Agrees(s)'
    <3>1. lost'[s] = lost[s] \union Submitted
      BY <1>8, <2>3
    <3> SUFFICES ASSUME NEW x \in Devices, x \notin lost[s], x \notin Submitted
                 PROVE  x \in After(view[s], q) <=> x \in state
      BY <1>1, <2>2, <3>1 DEF Agrees
    <3>2. x \in After(view[s], Append(q, e)) <=> x \in state
      BY <1>3, <2>3 DEF Agrees
    <3> QED
      BY <1>2, <1>5, <3>2, AfterAppend
  <2> QED
    BY <1>1, <1>6, <2>3 DEF VInv, Follows
<1>9. CASE /\ lost' = [t \in Subs |-> lost[t] \ Submitted] /\ ~Submitting'
           /\ Handed' = Len(log) /\ pending = {} /\ pending' = outputs
  <2>1. CASE ~(reqPc[s] = "subscribed" /\ closes[s] = 0)
    BY <1>1, <1>6, <2>1 DEF Follows
  <2>2. CASE reqPc[s] = "subscribed" /\ closes[s] = 0
    <3>1. s \in outputs /\ Agrees(s)
      BY <2>2 DEF VInv, MInv, Places, Follows
    <3>2. Waiting(s) = <<>> /\ Waiting(s)' = <<e>> /\ Offered' = <<>>
      BY <1>1, <1>9, <3>1 DEF Waiting, Offered
    <3>3. q = chan[s]
      BY <1>2, <3>2, ConcatEmptySeq
    <3>4. chan[s] \o <<e>> = Append(q, e) /\ Append(q, e) \in Seq(Event)
      BY <1>2, <3>3, JoinAppend
    <3>5. Queue(s)' = Append(q, e)
      BY <1>1, <3>2, <3>4, ConcatEmptySeq DEF Queue
    <3>6. Adds(e) \subseteq state /\ Dels(e) \intersect state = {}
      BY <1>1 DEF VInv, MInv, Says
    <3> HIDE DEF q, e
    <3>7. ASSUME NEW x \in Devices, x \notin lost[s] \ Submitted
          PROVE  x \in After(view[s], Append(q, e)) <=> x \in state
      <4>1. CASE x \notin lost[s]
        BY <1>3, <3>1, <4>1 DEF Agrees
      <4>2. CASE x \in Submitted
        BY <1>2, <1>5, <3>6, <4>2, AfterAppend
      <4> QED
        BY <3>7, <4>1, <4>2
    <3>8. lost'[s] = lost[s] \ Submitted
      BY <1>9
    <3>9. Agrees(s)'
      BY <1>1, <3>5, <3>7, <3>8 DEF Agrees
    <3> QED
      BY <3>9 DEF Follows
  <2> QED
    BY <2>1, <2>2
<1> QED
  BY <1>7, <1>8, <1>9, Submits DEF VInv

(* The event moves into the channel.                                       *)
LEMMA FollowsDelivers ==
    ASSUME VInv, NEW t \in Subs, Deliver(t), NEW s \in Subs
    PROVE  Follows(s)'
<1>1. /\ UNCHANGED <<log, state, closes, reqPc, view, lost, Handed, Submitting>>
      /\ t \in pending /\ pending' = pending \ {t}
      /\ chan' = [chan EXCEPT ![t] = Append(@, log[Handed])]
  BY Delivers DEF VInv
<1>2. chan \in [Subs -> Seq(Event)]
  BY DEF VInv, MInv, Chans
<1>3. CASE s # t
  BY <1>1, <1>2, <1>3, FollowsKept DEF VInv
<1>4. CASE s = t
  <2> DEFINE e == log[Handed]
  <2>1. e \in Event /\ chan[s] \in Seq(Event)
    BY <1>1, <1>4, QueueTypes DEF VInv
  <2>2. Waiting(s) = <<e>> /\ Waiting(s)' = <<>> /\ Offered' = Offered
    BY <1>1, <1>4 DEF Waiting, Offered
  <2>3. chan'[s] = Append(chan[s], e)
    BY <1>1, <1>2, <1>4
  <2> HIDE DEF e
  <2>4. chan[s] \o <<e>> = Append(chan[s], e) /\ Append(chan[s], e) \in Seq(Event)
    BY <2>1, JoinAppend
  <2>5. chan'[s] \o <<>> = Append(chan[s], e)
    BY <2>3, <2>4, ConcatEmptySeq
  <2>6. Queue(s)' = Queue(s)
    BY <2>2, <2>4, <2>5 DEF Queue
  <2> QED
    BY <1>1, <2>6 DEF VInv, Follows, Agrees
<1> QED
  BY <1>3, <1>4

(* The snapshot is all that the newcomer is told.                          *)
LEMMA FollowsServe ==
    ASSUME VInv, NEW t \in Subs, Serve(t), NEW s \in Subs
    PROVE  Follows(s)'
<1>1. /\ reqPc[t] = "asking" /\ Selecting
      /\ chan' = [chan EXCEPT ![t] = Append(@, Snapshot(state))]
      /\ reqPc' = [reqPc EXCEPT ![t] = "served"]
      /\ lost' = [lost EXCEPT ![t] = {}]
      /\ UNCHANGED <<state, view>>
  BY DEF Serve
<1>2. UNCHANGED <<log, pending, closes, Handed, Submitting>>
  BY Rests DEF VInv
<1>3. /\ chan \in [Subs -> Seq(Event)] /\ lost \in [Subs -> SUBSET Devices]
      /\ reqPc \in [Subs -> ReqPcs]
  BY DEF VInv, MInv, Chans, Types
<1>4. CASE s # t
  BY <1>1, <1>2, <1>3, <1>4, FollowsKept DEF VInv
<1>5. CASE s = t
  <2> DEFINE e == Snapshot(state)
  <2>1. e \in Event /\ Adds(e) = state /\ Dels(e) = {}
    <3>1. e \in Event
      BY DEF VInv, MInv, TInv, KernelOK, Snapshot, Event
    <3> QED
      BY <3>1, EventTypes
  <2>2. view[s] = {} /\ chan[s] = <<>> /\ s \notin pending /\ ~Submitting
    BY <1>1, <1>5 DEF VInv, MInv, Places, Selecting, Submitting
  <2>3. chan'[s] = <<e>> /\ lost'[s] = {} /\ view'[s] = {}
    BY <1>1, <1>3, <1>5, <2>2
  <2>4. Waiting(s)' = <<>> /\ Offered' = <<>>
    BY <1>2, <2>2 DEF Waiting, Offered
  <2> HIDE DEF e
  <2>5. <<e>> \in Seq(Event) /\ <<>> \in Seq(Event) /\ <<e>> = Append(<<>>, e)
    BY <2>1
  <2>6. Queue(s)' = Append(<<>>, e)
    BY <2>3, <2>4, <2>5, ConcatEmptySeq DEF Queue
  <2>7. ASSUME NEW x \in Devices
        PROVE  x \in After({}, Append(<<>>, e)) <=> x \in state
    <3>1. x \notin After({}, <<>>)
      BY AfterEmpty
    <3> QED
      BY <2>1, <2>5, <3>1, AfterAppend
  <2> QED
    BY <1>1, <2>3, <2>6, <2>7 DEF Follows, Agrees
<1> QED
  BY <1>4, <1>5

(* Reading takes the first event of what is still to come.                 *)
LEMMA FollowsRead ==
    ASSUME VInv, NEW t \in Subs, Read(t), NEW s \in Subs
    PROVE  Follows(s)'
<1>1. /\ chan[t] # <<>>
      /\ view' = [view EXCEPT ![t] = After(@, <<Head(chan[t])>>)]
      /\ chan' = [chan EXCEPT ![t] = Tail(@)]
      /\ UNCHANGED <<state, reqPc, lost>>
  BY DEF Read, monVars
<1>2. UNCHANGED <<log, pending, closes, Handed, Submitting>>
  BY Rests DEF VInv
<1>3. chan \in [Subs -> Seq(Event)] /\ view \in [Subs -> SUBSET Devices]
  BY DEF VInv, MInv, Chans, Types
<1>4. CASE s # t
  BY <1>1, <1>2, <1>3, <1>4, FollowsKept DEF VInv
<1>5. CASE s = t
  <2> DEFINE c == chan[s]
             h == Head(c)
             w == Waiting(s)
             ds == (view[s] \ Dels(h)) \union Adds(h)
  <2>1. c \in Seq(Event) /\ c # <<>> /\ w \in Seq(Event) /\ Offered \in Seq(Event)
        /\ c \o w \in Seq(Event) /\ Queue(s) \in Seq(Event)
    BY <1>1, <1>5, QueueTypes DEF VInv
  <2>2. h \in Event /\ Tail(c) \in Seq(Event)
    BY <2>1
  <2>3. Waiting(s)' = w /\ Offered' = Offered /\ chan'[s] = Tail(c)
    BY <1>1, <1>2, <1>3, <1>5 DEF Waiting, Offered
  <2>4. view'[s] = After(view[s], <<h>>)
    BY <1>1, <1>3, <1>5
  <2>5. Queue(s) = (c \o w) \o Offered /\ Queue(s)' = (Tail(c) \o w) \o Offered
    BY <2>3 DEF Queue
  <2> HIDE DEF c, h, w
  <2>6. c \o w # <<>> /\ Head(c \o w) = h /\ Tail(c \o w) = Tail(c) \o w
    BY <2>1, JoinTail DEF h
  <2>7. Queue(s) # <<>> /\ Head(Queue(s)) = h /\ Tail(Queue(s)) = Queue(s)'
    BY <2>1, <2>5, <2>6, JoinTail
  <2>8. ASSUME NEW x \in Devices
        PROVE  x \in After(view'[s], Queue(s)') <=> x \in After(view[s], Queue(s))
    <3>1. x \in After(view[s], Queue(s)) <=> x \in After(ds, Queue(s)')
      BY <2>1, <2>7, AfterHead
    <3>2. <<h>> = Append(<<>>, h) /\ <<>> \in Seq(Event)
      BY <2>2
    <3>3. x \in After(view[s], <<>>) <=> x \in view[s]
      BY AfterEmpty
    <3>4. x \in After(view[s], <<h>>) <=> x \in ds
      BY <2>2, <3>2, <3>3, AfterAppend
    <3>5. x \in After(After(view[s], <<h>>), Queue(s)') <=> x \in After(ds, Queue(s)')
      BY <3>4, AfterLocal
    <3> QED
      BY <2>4, <3>1, <3>5
  <2>9. Agrees(s) => Agrees(s)'
    BY <1>1, <2>8 DEF Agrees
  <2> QED
    BY <1>1, <1>2, <2>9 DEF VInv, Follows
<1> QED
  BY <1>4, <1>5

(* The other steps tell nobody anything; d.state is set by the enumeration *)
(* before there are subscribers.                                           *)
LEMMA FollowsOther ==
    ASSUME VInv, NEW s \in Subs,
           \/ Kernel \/ OpenSocket \/ ScanDone \/ StartFails
           \/ \E d \in Devices : Scan(d) \/ OnRemoveUnknown(d)
           \/ OnError \/ Reopen \/ Stop \/ CloseDone \/ CloseMux
           \/ Close \/ CloseReturns \/ UNCHANGED vars
           \/ \E t \in Subs : \/ Served(t) \/ Subscribe(t) \/ SubscribeRefused(t)
                              \/ Cancel(t) \/ CancelReturns(t)
    PROVE  Follows(s)'
<1>1. UNCHANGED <<log, pending, closes, Handed, Submitting>>
  BY Rests DEF VInv
<1>2. CASE ScanDone
  <2>1. reqPc' = reqPc /\ monPc = "enum"
    BY <1>2 DEF ScanDone, subVars
  <2>2. reqPc[s] \notin {"served", "subscribed"}
    BY <2>1 DEF VInv, MInv, Places
  <2> QED
    BY <2>1, <2>2 DEF Follows
<1>3. CASE \/ Kernel \/ OpenSocket \/ StartFails
           \/ \E d \in Devices : Scan(d) \/ OnRemoveUnknown(d)
           \/ OnError \/ Reopen \/ Stop \/ CloseDone \/ CloseMux
           \/ Close \/ CloseReturns \/ UNCHANGED vars
  <2>1. UNCHANGED <<state, reqPc, chan, view, lost>>
    <3> USE DEF monVars, subVars
    <3>1. CASE Kernel \/ OpenSocket \/ StartFails \/ UNCHANGED vars
      BY <3>1 DEF Kernel, Break, Appear, Vanish, Change, OpenSocket, StartFails, vars
    <3>2. CASE \E d \in Devices : Scan(d) \/ OnRemoveUnknown(d)
      BY <3>2 DEF Scan, OnRemoveUnknown
    <3>3. CASE OnError \/ Reopen \/ Stop \/ CloseDone \/ CloseMux \/ Close \/ CloseReturns
      BY <3>3 DEF OnError, Reopen, Stop, CloseDone, CloseMux, Close, CloseReturns
    <3> QED
      BY <1>3, <3>1, <3>2, <3>3
  <2> QED
    BY <1>1, <2>1, FollowsKept DEF VInv
<1>4. ASSUME NEW t \in Subs, \/ Served(t) \/ Subscribe(t) \/ SubscribeRefused(t)
                             \/ Cancel(t) \/ CancelReturns(t)
      PROVE  Follows(s)'
  <2>1. UNCHANGED <<state, chan, view, lost>>
    BY <1>4 DEF Served, Subscribe, SubscribeRefused, Cancel, CancelReturns, monVars, subVars
  <2>2. reqPc'[s] \in {"served", "subscribed"} => reqPc[s] \in {"served", "subscribed"}
    BY <1>4 DEF Served, Subscribe, SubscribeRefused, Cancel, CancelReturns, subVars,
                VInv, MInv, Types
  <2> QED
    BY <1>1, <2>1, <2>2, FollowsKept DEF VInv
<1> QED
  BY <1>2, <1>3, <1>4

LEMMA VInitially == Init => VInv
<1> SUFFICES ASSUME Init PROVE VInv
  OBVIOUS
<1>1. MInv
  BY MInitially
<1>2. \A s \in Subs : Follows(s)
  BY DEF Init, Follows
<1> QED
  BY <1>1, <1>2 DEF VInv

LEMMA VStepwise == VInv /\ [Next]_vars => VInv'
<1> SUFFICES ASSUME VInv, [Next]_vars PROVE VInv'
  OBVIOUS
<1>1. MInv'
  BY MStepwise DEF VInv
<1>2. ASSUME NEW s \in Subs PROVE Follows(s)'
  <2>1. CASE \E d \in Devices : OnAdd(d) \/ OnRemove(d)
    BY <2>1, FollowsPublishing
  <2>2. CASE SubmitStep
    BY <2>2, FollowsSubmits
  <2>3. CASE RunStep
    <3>1. /\ UNCHANGED <<log, state, reqPc, chan, view, lost, pending, Handed, Submitting>>
          /\ closes'[s] = closes[s] \/ closes'[s] > 0
      BY <2>3, Runs DEF VInv
    <3> QED
      BY <3>1, FollowsKept DEF VInv
  <2>4. CASE \E t \in Subs : Deliver(t)
    BY <2>4, FollowsDelivers
  <2>5. CASE \E t \in Subs : Serve(t)
    BY <2>5, FollowsServe
  <2>6. CASE \E t \in Subs : Read(t)
    BY <2>6, FollowsRead
  <2>7. CASE \/ Kernel \/ OpenSocket \/ ScanDone \/ StartFails
             \/ \E d \in Devices : Scan(d) \/ OnRemoveUnknown(d)
             \/ OnError \/ Reopen \/ Stop \/ CloseDone \/ CloseMux
             \/ Close \/ CloseReturns \/ UNCHANGED vars
             \/ \E t \in Subs : \/ Served(t) \/ Subscribe(t) \/ SubscribeRefused(t)
                                \/ Cancel(t) \/ CancelReturns(t)
    BY <2>7, FollowsOther
  <2> QED
    BY <2>1, <2>2, <2>3, <2>4, <2>5, <2>6, <2>7 DEF Next, MonitorRuns
<1> QED
  BY <1>1, <1>2 DEF VInv

(* A subscriber's snapshot and the events that follow it amount to d.state *)
(* (udev.go:458-480): none is missed or read twice between the snapshot    *)
(* and d.mux.Subscribe, since the monitor submits nothing in between; only *)
(* an event whose Submit timed out is missing.                             *)
THEOREM ViewsFollowState == Spec => []ViewTracksState
<1>1. VInv => ViewTracksState
  <2> SUFFICES ASSUME VInv, NEW s \in Subs,
                      reqPc[s] \in {"served", "subscribed"}, closes[s] = 0
               PROVE  After(view[s], InFlight(s)) \ lost[s] = state \ lost[s]
    BY DEF ViewTracksState, Joined
  <2>1. InFlight(s) = Queue(s)
    <3>1. s \in pending => Handed = M!Current[2]
      BY QueueTypes DEF VInv, Handed
    <3> QED
      BY <3>1 DEF InFlight, Unread, Queue, Waiting, Offered, Submitting
  <2>2. Agrees(s)
    BY DEF VInv, Follows
  <2>3. state \subseteq Devices /\ After(view[s], Queue(s)) \subseteq Devices
    BY DEF VInv, MInv, TInv, KernelOK, After
  <2> QED
    BY <2>1, <2>2, <2>3 DEF Agrees
<1> QED
  BY <1>1, VInitially, VStepwise, PTL DEF Spec

-----------------------------------------------------------------------------
(* The discovery is a feed.                                                *)

(* The event that is being submitted says how d.state became what it is.   *)
Settles ==
    /\ settled \subseteq Devices
    /\ ~Submitting => settled = state
    /\ Submitting => \E d \in Devices :
           \/ log[Len(log)] = Added(d) /\ state = settled \union {d}
           \/ log[Len(log)] = Removed(d) /\ d \in settled /\ state = settled \ {d}

FInv == MInv /\ Settles

(* The steps that are none of a Publishing, a SubmitStep, a Deliver, a     *)
(* Serve, a Read or one of run.                                            *)
Aside ==
    \/ Kernel \/ OpenSocket \/ StartFails
    \/ \E d \in Devices : Scan(d) \/ OnRemoveUnknown(d)
    \/ OnError \/ Reopen \/ Stop \/ CloseDone \/ CloseMux
    \/ Close \/ CloseReturns \/ UNCHANGED vars
    \/ \E s \in Subs : \/ Served(s) \/ Subscribe(s) \/ SubscribeRefused(s)
                       \/ Cancel(s) \/ CancelReturns(s)

LEMMA AsideKeeps ==
    ASSUME MInv, Aside
    PROVE  UNCHANGED <<log, state, settled, chan, pending, closes, Handed, Submitting>>
           /\ Joined' = Joined
<1>1. UNCHANGED <<log, pending, closes, Handed, Submitting>>
  BY Rests DEF Aside
<1>2. CASE \/ Kernel \/ OpenSocket \/ StartFails
           \/ \E d \in Devices : Scan(d) \/ OnRemoveUnknown(d)
           \/ OnError \/ Reopen \/ Stop \/ CloseDone \/ CloseMux
           \/ Close \/ CloseReturns \/ UNCHANGED vars
  <2> USE DEF monVars, subVars
  <2>1. UNCHANGED <<state, settled, reqPc, chan>>
    <3>1. CASE Kernel \/ OpenSocket \/ StartFails \/ UNCHANGED vars
      BY <3>1 DEF Kernel, Break, Appear, Vanish, Change, OpenSocket, StartFails, vars
    <3>2. CASE \E d \in Devices : Scan(d) \/ OnRemoveUnknown(d)
      BY <3>2 DEF Scan, OnRemoveUnknown
    <3>3. CASE OnError \/ Reopen \/ Stop \/ CloseDone \/ CloseMux \/ Close \/ CloseReturns
      BY <3>3 DEF OnError, Reopen, Stop, CloseDone, CloseMux, Close, CloseReturns
    <3> QED
      BY <1>2, <3>1, <3>2, <3>3
  <2> QED
    BY <1>1, <2>1 DEF Joined
<1>3. ASSUME NEW s \in Subs, \/ Served(s) \/ Subscribe(s) \/ SubscribeRefused(s)
                             \/ Cancel(s) \/ CancelReturns(s)
      PROVE  UNCHANGED <<state, settled, chan, Joined>>
  <2>1. UNCHANGED <<state, settled, chan>>
    BY <1>3 DEF Served, Subscribe, SubscribeRefused, Cancel, CancelReturns, monVars, subVars
  <2>2. \A t \in Subs : reqPc'[t] \in {"served", "subscribed"} <=>
                       reqPc[t] \in {"served", "subscribed"}
    BY <1>3 DEF Served, Subscribe, SubscribeRefused, Cancel, CancelReturns, subVars, MInv, Types
  <2> QED
    BY <1>1, <2>1, <2>2 DEF Joined
<1> QED
  BY <1>1, <1>2, <1>3 DEF Aside

(* The enumeration ends before anybody has been served.                    *)
LEMMA ScanDoneKeeps ==
    ASSUME MInv, ScanDone
    PROVE  /\ UNCHANGED <<log, chan, pending, closes, Handed, Submitting>>
           /\ Joined = {} /\ Joined' = {} /\ ~Submitting
           /\ settled' = found /\ state' = found /\ found \subseteq Devices
<1>1. UNCHANGED <<log, pending, closes, Handed, Submitting>>
  BY Rests
<1>2. UNCHANGED <<reqPc, chan>> /\ settled' = found /\ state' = found /\ monPc = "enum"
  BY DEF ScanDone
<1> QED
  BY <1>1, <1>2 DEF Joined, MInv, Places, Says, TInv, KernelOK

LEMMA SettlesKept == FInv /\ [Next]_vars => Settles'
<1> SUFFICES ASSUME FInv, [Next]_vars PROVE Settles'
  OBVIOUS
<1>1. MInv
  BY DEF FInv
<1>2. ASSUME NEW d \in Devices, OnAdd(d) \/ OnRemove(d) PROVE Settles'
  <2>1. ~Submitting /\ Submitting' /\ settled' = settled
    BY <1>1, <1>2, Publishing DEF OnAdd, OnRemove, subVars
  <2>2. settled \subseteq Devices /\ settled = state
    BY <2>1 DEF FInv, Settles
  <2>3. log \in Seq(Event)
    BY <1>1 DEF MInv, Types
  <2>4. CASE OnAdd(d)
    <3>1. log' = Append(log, Added(d)) /\ state' = state \union {d}
      BY <2>4 DEF OnAdd
    <3>2. log'[Len(log')] = Added(d)
      BY <2>3, <3>1
    <3> QED
      BY <2>1, <2>2, <3>1, <3>2 DEF Settles
  <2>5. CASE OnRemove(d)
    <3>1. log' = Append(log, Removed(d)) /\ state' = state \ {d} /\ d \in state
      BY <2>5 DEF OnRemove
    <3>2. log'[Len(log')] = Removed(d)
      BY <2>3, <3>1
    <3> QED
      BY <2>1, <2>2, <3>1, <3>2 DEF Settles
  <2> QED
    BY <1>2, <2>4, <2>5
<1>3. CASE SubmitStep
  <2>1. /\ UNCHANGED <<log, state>>
        /\ UNCHANGED <<settled, Submitting>> \/ (~Submitting' /\ settled' = state)
    BY <1>1, <1>3, Submits
  <2>2. state \subseteq Devices
    BY <1>1 DEF MInv, TInv, KernelOK
  <2> QED
    BY <2>1, <2>2 DEF FInv, Settles
<1>4. CASE RunStep
  <2>1. UNCHANGED <<log, state, Submitting>> /\ settled' = settled
    BY <1>1, <1>4, Runs DEF RunStep, subVars
  <2> QED
    BY <2>1 DEF FInv, Settles
<1>5. ASSUME NEW s \in Subs, Deliver(s) PROVE Settles'
  <2>1. UNCHANGED <<log, state, Submitting>> /\ settled' = settled
    BY <1>1, <1>5, Delivers DEF Deliver
  <2> QED
    BY <2>1 DEF FInv, Settles
<1>6. ASSUME NEW s \in Subs, Serve(s) \/ Read(s) PROVE Settles'
  <2>1. UNCHANGED <<log, Submitting>>
    BY <1>1, <1>6, Rests
  <2>2. UNCHANGED <<state, settled>>
    BY <1>6 DEF Serve, Read, monVars
  <2> QED
    BY <2>1, <2>2 DEF FInv, Settles
<1>7. CASE Aside
  <2>1. UNCHANGED <<log, state, settled, Submitting>>
    BY <1>1, <1>7, AsideKeeps
  <2> QED
    BY <2>1 DEF FInv, Settles
<1>8. CASE ScanDone
  BY <1>1, <1>8, ScanDoneKeeps DEF Settles
<1> QED
  BY <1>2, <1>3, <1>4, <1>5, <1>6, <1>7, <1>8 DEF Next, MonitorRuns, Aside

LEMMA FInitially == Init => FInv
<1> SUFFICES ASSUME Init PROVE FInv
  OBVIOUS
<1>1. MInv
  BY MInitially
<1>2. ~Submitting /\ settled = {} /\ state = {}
  BY DEF Init, M!Init, Submitting
<1> QED
  BY <1>1, <1>2 DEF FInv, Settles

LEMMA FStepwise == FInv /\ [Next]_vars => FInv'
BY MStepwise, SettlesKept DEF FInv

(* What a subscriber has to read, before a step and after it.              *)
LEMMA UnreadIs ==
    ASSUME MInv, MInv', NEW s \in Subs
    PROVE  /\ Unread(s) = chan[s] \o Waiting(s)
           /\ Unread(s)' = chan'[s] \o Waiting(s)'
<1>1. s \in pending => Handed # 0
  BY DEF MInv, Unqueued
<1>2. s \in pending' => Handed' # 0
  BY DEF MInv, Unqueued
<1>3. Unread(s) = chan[s] \o Waiting(s)
  BY <1>1 DEF Unread, Waiting, Handed
<1>4. Unread(s)' = chan'[s] \o Waiting(s)'
  BY <1>2 DEF Unread, Waiting, Handed
<1> QED
  BY <1>3, <1>4

(* What run hands round is not disturbed by what is put behind it.         *)
LEMMA StillWaiting ==
    ASSUME MInv, UNCHANGED <<pending, Handed>>,
           \A k \in 1 .. Len(log) : log'[k] = log[k]
    PROVE  \A s \in Subs : Waiting(s)' = Waiting(s)
BY QueueTypes DEF Waiting

(* A step at which nothing is joined, left, told or read.                  *)
LEMMA FeedRests ==
    ASSUME UNCHANGED <<settled, Joined>>, \A s \in Subs : Unread(s)' = Unread(s)
    PROVE  UNCHANGED F!vars
<1>1. [s \in Subs |-> Unread(s)]' = [s \in Subs |-> Unread(s)]
  OBVIOUS
<1> QED
  BY <1>1 DEF F!vars

(* The monitor has said it to d.mux, or has given up.                      *)
LEMMA SubmitFeeds ==
    ASSUME FInv, MInv', SubmitStep
    PROVE  [F!Next]_F!vars
<1> USE DEF FInv
<1>1. /\ UNCHANGED <<log, state, closes, reqPc, chan>> /\ Submitting
      /\ Joined' = Joined
  BY Submits DEF Joined
<1>2. CASE UNCHANGED <<pending, Handed, settled>>
  <2>1. \A s \in Subs : Unread(s)' = Unread(s)
    BY <1>1, <1>2, UnreadIs DEF Waiting
  <2> QED
    BY <1>1, <1>2, <2>1, FeedRests
<1>3. PICK d \in Devices :
          \/ log[Len(log)] = Added(d) /\ state = settled \union {d}
          \/ log[Len(log)] = Removed(d) /\ d \in settled /\ state = settled \ {d}
  BY <1>1 DEF Settles
<1> DEFINE e == log[Len(log)]
           q == [s \in Subs |-> Unread(s)]
<1>4. /\ e = Added(d) => e = F!Added(d)
      /\ e = Removed(d) => e = F!Removed(d)
  BY DEF Added, Removed, F!Added, F!Removed
<1>5. ASSUME settled' = state, F!Tell(e) \/ F!Drop
      PROVE  F!Next
  <2>1. F!Appear(d) \/ F!Vanish(d)
    <3>1. CASE e = Added(d) /\ state = settled \union {d}
      BY <1>1, <1>4, <1>5, <3>1 DEF F!Appear
    <3>2. CASE e = Removed(d) /\ d \in settled /\ state = settled \ {d}
      BY <1>1, <1>4, <1>5, <3>2 DEF F!Vanish
    <3> QED
      BY <1>3, <3>1, <3>2
  <2> QED
    BY <2>1 DEF F!Next
<1>6. CASE UNCHANGED <<pending, Handed>> /\ settled' = state
  <2>1. \A s \in Subs : Unread(s)' = Unread(s)
    BY <1>1, <1>6, UnreadIs DEF Waiting
  <2>2. F!Drop
    BY <2>1 DEF F!Drop
  <2> QED
    BY <1>5, <1>6, <2>2
<1>7. CASE settled' = state /\ Handed' = Len(log) /\ pending = {} /\ pending' = outputs
  <2>1. \A s \in Subs : s \in Joined <=> s \in outputs
    BY <1>1 DEF Joined, MInv, Places, Says, Types, ReqPcs
  <2>2. ASSUME NEW s \in Subs
        PROVE  /\ Unread(s) = chan[s] /\ chan[s] \in Seq(Event) /\ Len(chan[s]) < ChanCap + 1
               /\ Unread(s)' = IF s \in Joined THEN Append(chan[s], e) ELSE chan[s]
    <3>1. /\ chan[s] \in Seq(Event) /\ Len(chan[s]) <= ChanCap /\ e \in Event
          /\ ChanCap \in Nat
      BY <1>1, QueueTypes DEF MInv, Chans, ChanCap
    <3>2. Waiting(s) = <<>> /\ Waiting(s)' = IF s \in Joined THEN <<e>> ELSE <<>>
      BY <1>1, <1>7, <2>1 DEF Waiting
    <3>3. chan[s] \o <<>> = chan[s] /\ chan[s] \o <<e>> = Append(chan[s], e)
      BY <3>1, ConcatEmptySeq, JoinAppend
    <3>4. Unread(s) = chan[s]
      BY <3>2, <3>3, UnreadIs
    <3>5. Unread(s)' = IF s \in Joined THEN Append(chan[s], e) ELSE chan[s]
      BY <1>1, <3>2, <3>3, UnreadIs
    <3> QED
      BY <3>1, <3>4, <3>5
  <2>3. F!Free
    BY <2>2 DEF F!Free, Joined
  <2>4. q' = [s \in Subs |-> IF s \in Joined THEN Append(q[s], e) ELSE q[s]]
    <3> HIDE DEF e
    <3> QED
      BY <2>2
  <2>5. F!Tell(e)
    BY <2>3, <2>4 DEF F!Tell
  <2> QED
    BY <1>5, <1>7, <2>5
<1> QED
  BY <1>2, <1>6, <1>7, Submits

(* A subscriber is told first what is there.                               *)
LEMMA ServeFeeds ==
    ASSUME FInv, MInv', NEW s \in Subs, Serve(s)
    PROVE  F!Join(s)
<1> USE DEF FInv
<1>1. UNCHANGED <<log, pending, closes, Handed, Submitting>>
  BY Rests
<1>2. /\ reqPc[s] = "asking" /\ ~Submitting
      /\ chan' = [chan EXCEPT ![s] = Append(@, Snapshot(state))]
      /\ reqPc' = [reqPc EXCEPT ![s] = "served"]
      /\ settled' = settled
  BY DEF Serve, Selecting, Submitting
<1>3. reqPc \in [Subs -> ReqPcs] /\ chan \in [Subs -> Seq(Event)]
  BY DEF MInv, Types, Chans
<1>4. chan[s] = <<>> /\ s \notin pending /\ closes[s] = 0
  BY <1>2 DEF MInv, Places
<1>5. settled = state /\ Snapshot(state) = F!Start(settled)
  BY <1>2 DEF Settles, Snapshot, F!Start
<1>6. s \notin Joined /\ Joined' = Joined \union {s}
  BY <1>1, <1>2, <1>3, <1>4 DEF Joined
<1>7. \A t \in Subs : Waiting(t)' = Waiting(t)
  BY <1>1 DEF Waiting
<1>8. Unread(s) = <<>> /\ Unread(s)' = <<F!Start(settled)>>
  <2>1. Waiting(s) = <<>> /\ Waiting(s)' = <<>>
    BY <1>4, <1>7 DEF Waiting
  <2>2. chan'[s] = <<F!Start(settled)>> /\ chan'[s] \in Seq(Event)
    BY <1>2, <1>3, <1>4, <1>5 DEF MInv, Chans
  <2> QED
    BY <1>3, <1>4, <2>1, <2>2, UnreadIs, ConcatEmptySeq
<1>9. \A t \in Subs : t # s => Unread(t)' = Unread(t)
  BY <1>2, <1>3, <1>7, UnreadIs
<1> DEFINE q == [t \in Subs |-> Unread(t)]
<1>10. q[s] = <<>> /\ q' = [q EXCEPT ![s] = <<F!Start(settled)>>]
  BY <1>8, <1>9
<1> QED
  BY <1>2, <1>6, <1>10 DEF F!Join

LEMMA ReadFeeds ==
    ASSUME FInv, MInv', NEW s \in Subs, Read(s)
    PROVE  F!Take(s)
<1> USE DEF FInv
<1>1. UNCHANGED <<log, pending, closes, Handed, Submitting>>
  BY Rests
<1>2. /\ chan[s] # <<>> /\ chan' = [chan EXCEPT ![s] = Tail(@)]
      /\ UNCHANGED <<reqPc, settled>>
  BY DEF Read
<1>3. chan \in [Subs -> Seq(Event)]
  BY DEF MInv, Chans
<1>4. \A t \in Subs : Waiting(t)' = Waiting(t) /\ Waiting(t) \in Seq(Event)
  BY <1>1, QueueTypes DEF Waiting
<1>5. \A t \in Subs : t # s => Unread(t)' = Unread(t)
  BY <1>2, <1>3, <1>4, UnreadIs
<1>6. Unread(s) # <<>> /\ Unread(s)' = Tail(Unread(s))
  <2>1. Unread(s) = chan[s] \o Waiting(s) /\ Unread(s)' = Tail(chan[s]) \o Waiting(s)
    BY <1>2, <1>3, <1>4, UnreadIs
  <2> QED
    BY <1>2, <1>3, <1>4, <2>1, JoinTail
<1> DEFINE q == [t \in Subs |-> Unread(t)]
<1>7. q[s] # <<>> /\ q' = [q EXCEPT ![s] = Tail(@)]
  BY <1>5, <1>6
<1>8. Joined' = Joined
  BY <1>1, <1>2 DEF Joined
<1> QED
  BY <1>2, <1>7, <1>8 DEF F!Take

(* An event goes from run into a channel: the same is still to be read.    *)
LEMMA DeliverFeeds ==
    ASSUME FInv, MInv', NEW s \in Subs, Deliver(s)
    PROVE  UNCHANGED F!vars
<1> USE DEF FInv
<1>1. /\ UNCHANGED <<log, closes, reqPc, Handed>>
      /\ s \in pending /\ pending' = pending \ {s}
      /\ chan' = [chan EXCEPT ![s] = Append(@, log[Handed])]
  BY Delivers
<1>2. chan \in [Subs -> Seq(Event)] /\ log[Handed] \in Event
  BY <1>1, QueueTypes DEF MInv, Chans
<1>3. ASSUME NEW t \in Subs PROVE Unread(t)' = Unread(t)
  <2>1. CASE t # s
    <3>1. chan'[t] = chan[t] /\ Waiting(t)' = Waiting(t)
      BY <1>1, <1>2, <2>1 DEF Waiting
    <3> QED
      BY <3>1, UnreadIs
  <2>2. CASE t = s
    <3>1. Waiting(t) = <<log[Handed]>> /\ Waiting(t)' = <<>>
      BY <1>1, <2>2 DEF Waiting
    <3>2. chan'[t] = Append(chan[t], log[Handed]) /\ chan[t] \in Seq(Event)
      BY <1>1, <1>2, <2>2
    <3>3. chan'[t] \o <<>> = chan'[t] /\ chan[t] \o <<log[Handed]>> = chan'[t]
      BY <1>2, <3>2, ConcatEmptySeq, JoinAppend
    <3> QED
      BY <3>1, <3>3, UnreadIs
  <2> QED
    BY <2>1, <2>2
<1>4. settled' = settled /\ Joined' = Joined
  BY <1>1 DEF Deliver, Joined
<1> QED
  BY <1>3, <1>4, FeedRests

(* run lets go of one sink at a time.                                      *)
LEMMA RunFeeds ==
    ASSUME FInv, MInv', RunStep
    PROVE  [F!Next]_F!vars
<1> USE DEF FInv
<1>1. /\ UNCHANGED <<log, reqPc, chan, pending, Handed>> /\ settled' = settled
      /\ closes' = closes \/ \E s \in Subs : closes' = [closes EXCEPT ![s] = @ + 1]
      /\ pending = {}
  BY Runs DEF RunStep, subVars
<1>2. \A s \in Subs : Unread(s)' = Unread(s)
  BY <1>1, UnreadIs DEF Waiting
<1>3. closes \in [Subs -> Nat]
  BY DEF MInv, Types
<1>4. CASE closes' = closes
  <2>1. Joined' = Joined
    BY <1>1, <1>4 DEF Joined
  <2> QED
    BY <1>1, <1>2, <2>1, FeedRests
<1>5. \A s \in Subs : Len(Unread(s)) < ChanCap + 1
  <2> SUFFICES ASSUME NEW s \in Subs PROVE Len(Unread(s)) < ChanCap + 1
    OBVIOUS
  <2>1. Unread(s) = chan[s] \o <<>>
    BY <1>1, UnreadIs DEF Waiting
  <2>2. chan[s] \in Seq(Event) /\ Len(chan[s]) <= ChanCap /\ ChanCap \in Nat
    BY DEF MInv, Chans, ChanCap
  <2> QED
    BY <2>1, <2>2, ConcatEmptySeq
<1>6. ASSUME NEW s \in Subs, closes' = [closes EXCEPT ![s] = @ + 1]
      PROVE  [F!Next]_F!vars
  <2>1. Joined' = Joined \ {s}
    BY <1>1, <1>3, <1>6 DEF Joined
  <2>2. [t \in Subs |-> Unread(t)]' = [t \in Subs |-> Unread(t)]
    BY <1>2
  <2>3. CASE s \in Joined
    <3>1. F!Free
      BY <1>5 DEF F!Free, Joined
    <3>2. F!Leave(s)
      BY <1>1, <2>1, <2>2, <2>3, <3>1 DEF F!Leave
    <3> QED
      BY <3>2 DEF F!Next
  <2>4. CASE s \notin Joined
    BY <1>1, <1>2, <2>1, <2>4, FeedRests
  <2> QED
    BY <2>3, <2>4
<1> QED
  BY <1>1, <1>4, <1>6

LEMMA FeedStep ==
    ASSUME FInv, MInv', [Next]_vars
    PROVE  [F!Next]_F!vars
<1> USE DEF FInv
<1>1. ASSUME NEW d \in Devices, OnAdd(d) \/ OnRemove(d)
      PROVE  UNCHANGED F!vars
  <2>1. UNCHANGED <<pending, closes, reqPc, chan, Handed>>
    BY <1>1, Publishing
  <2>2. \A k \in 1 .. Len(log) : log'[k] = log[k]
    BY <1>1, Logged DEF MInv, Types
  <2>3. \A s \in Subs : Unread(s)' = Unread(s)
    BY <2>1, <2>2, StillWaiting, UnreadIs
  <2>4. settled' = settled /\ Joined' = Joined
    BY <1>1, <2>1 DEF OnAdd, OnRemove, subVars, Joined
  <2> QED
    BY <2>3, <2>4, FeedRests
<1>2. CASE SubmitStep
  BY <1>2, SubmitFeeds
<1>3. CASE RunStep
  BY <1>3, RunFeeds
<1>4. ASSUME NEW s \in Subs, Deliver(s)
      PROVE  UNCHANGED F!vars
  BY <1>4, DeliverFeeds
<1>5. ASSUME NEW s \in Subs, Serve(s) \/ Read(s)
      PROVE  F!Next
  BY <1>5, ServeFeeds, ReadFeeds DEF F!Next
<1>6. CASE Aside
  <2>1. UNCHANGED <<log, settled, chan, pending, Handed>> /\ Joined' = Joined
    BY <1>6, AsideKeeps
  <2>2. \A s \in Subs : Unread(s)' = Unread(s)
    BY <2>1, UnreadIs DEF Waiting
  <2> QED
    BY <2>1, <2>2, FeedRests
<1>7. CASE ScanDone
  <2>1. /\ UNCHANGED <<log, chan, pending, Handed>> /\ Joined = {} /\ Joined' = {}
        /\ settled' \in SUBSET Devices
    BY <1>7, ScanDoneKeeps
  <2>2. \A s \in Subs : Unread(s)' = Unread(s)
    BY <2>1, UnreadIs DEF Waiting
  <2>3. [s \in Subs |-> Unread(s)]' = [s \in Subs |-> Unread(s)]
    BY <2>2
  <2>4. F!Unheard
    BY <2>1, <2>3 DEF F!Unheard
  <2> QED
    BY <2>4 DEF F!Next
<1> QED
  BY <1>1, <1>2, <1>3, <1>4, <1>5, <1>6, <1>7 DEF Next, MonitorRuns, Aside

(* Whatever times out, breaks or ends, for any devices and subscribers the *)
(* discovery (udev.go:293-501) is a Feed: the snapshot comes first, then   *)
(* each change to all or to none, in one order, and a removal only of what *)
(* was there.                                                              *)
THEOREM DiscoveryIsAFeed == Spec => ImplementsFeed
<1>1. Init => F!Init
  <2> SUFFICES ASSUME Init PROVE F!Init
    OBVIOUS
  <2>1. settled = {} /\ Joined = {}
    BY DEF Init, Joined
  <2>2. \A s \in Subs : Unread(s) = <<>>
    BY DEF Init, M!Init, Unread
  <2>3. [s \in Subs |-> Unread(s)] = [s \in Subs |-> <<>>]
    BY <2>2
  <2> QED
    BY <2>1, <2>3 DEF F!Init
<1>2. FInv /\ MInv' /\ [Next]_vars => [F!Next]_F!vars
  BY FeedStep
<1>3. FInv => MInv
  BY DEF FInv
<1> QED
  BY <1>1, <1>2, <1>3, FInitially, FStepwise, PTL DEF Spec, ImplementsFeed, F!Spec

(* The discovery, the kernel and the callers keep to their types; in       *)
(* particular a subscriber's channel never holds more than it has room for *)
(* (scatter.go:35, batch_partition.go:157).                                *)
THEOREM DiscoveryTypes == Spec => []TypeOK
<1>1. FInv => TypeOK
  BY DEF FInv, Settles, MInv, TInv, KernelOK, Types, Chans, TypeOK
<1> QED
  BY <1>1, FInitially, FStepwise, PTL DEF Spec

-----------------------------------------------------------------------------
(* d.mux is a Mux in every behaviour of the discovery: what the monitor    *)
(* and the subscribers do to it are calls of Mux and steps of its run      *)
(* (udev.go:412-501).                                                      *)
THEOREM DiscoveryIsOnAMux == Spec => M!Spec
<1>1. Init => M!Init
  BY DEF Init
<1>2. [Next]_vars => [M!Next]_M!vars
  <2> SUFFICES ASSUME [Next]_vars PROVE M!Next \/ UNCHANGED muxVars
    BY Zenon DEF M!vars, M!runVars, M!chanVars, M!callVars, M!sinkVars, muxVars
  <2>1. ASSUME NEW d \in Devices, OnAdd(d) \/ OnRemove(d) PROVE M!Next
    BY <2>1, Zenon DEF OnAdd, OnRemove, M!Next
  <2>2. CASE SubmitStep
    <3>1. M!Submit(Monitor)
      BY <2>2, Zenon DEF SubmitStep, M!Submit
    <3> QED
      BY <3>1, Zenon DEF M!Next
  <2>3. ASSUME NEW s \in Subs, Serve(s) \/ Cancel(s) \/ CancelReturns(s) \/ Deliver(s)
        PROVE  M!Next
    <3>1. M!Subscriber(s) \/ M!Deliver(s)
      BY <2>3, Zenon DEF Serve, Cancel, CancelReturns, Deliver, M!Subscriber
    <3> QED
      BY <3>1, Zenon DEF M!Next
  <2>4. CASE RunStep \/ CloseMux
    BY <2>4, Zenon DEF RunStep, CloseMux, M!Next
  <2>5. CASE \/ Kernel \/ Reopen \/ Close \/ CloseReturns
             \/ OpenSocket \/ ScanDone \/ StartFails \/ Stop \/ OnError \/ CloseDone
             \/ \E d \in Devices : Scan(d) \/ OnRemoveUnknown(d)
             \/ \E s \in Subs : Served(s) \/ Subscribe(s) \/ SubscribeRefused(s) \/ Read(s)
             \/ UNCHANGED vars
    BY <2>5
       DEF Kernel, Appear, Vanish, Change, Break, Reopen, Close, CloseReturns, OpenSocket,
           ScanDone, StartFails, Stop, OnError, CloseDone, Scan, OnRemoveUnknown, Served,
           Subscribe, SubscribeRefused, Read, vars
  <2> QED
    BY <2>1, <2>2, <2>3, <2>4, <2>5 DEF Next, MonitorRuns
<1> QED
  BY <1>1, <1>2, PTL DEF Spec, M!Spec

(* The theorems of MuxProofs are theorems about d.mux.                     *)
MP == INSTANCE MuxProofs WITH
         Submitters <- {Monitor},
         Sinks      <- Subs,
         BufSizes   <- {0},
         MaxSubmits <- MaxChanges

(* M and MP are one Mux: the modules instantiate it under two names.       *)
LEMMA SameMux == M!Next => MP!Next
BY Zenon
   DEF M!Next, M!Close, M!Terminated, M!Returned, M!SubmitCall, M!Submit, M!SubmitProceed,
       M!SubmitClosed, M!SubmitTimeout, M!SubmitBuffered, M!SubmitHandoff, M!Value,
       M!Subscriber, M!SubscribeCall, M!SubscribeClosed, M!CancelCall, M!CancelClosed, M!Run,
       M!RunRecv, M!RunDone, M!RunDrain, M!FlushNext, M!FlushDone, M!RunExit, M!RunRegister,
       M!AckRegister, M!RunUnregister, M!AckUnregister, M!CloseSink, M!Deliver, M!Dispatch,
       M!Current, M!vars, M!runVars, M!chanVars, M!callVars, M!sinkVars,
       MP!Next, MP!Close, MP!Terminated, MP!Returned, MP!SubmitCall, MP!Submit,
       MP!SubmitProceed, MP!SubmitClosed, MP!SubmitTimeout, MP!SubmitBuffered,
       MP!SubmitHandoff, MP!Value, MP!Subscriber, MP!SubscribeCall, MP!SubscribeClosed,
       MP!CancelCall, MP!CancelClosed, MP!Run, MP!RunRecv, MP!RunDone, MP!RunDrain,
       MP!FlushNext, MP!FlushDone, MP!RunExit, MP!RunRegister, MP!AckRegister,
       MP!RunUnregister, MP!AckUnregister, MP!CloseSink, MP!Deliver, MP!Dispatch, MP!Current,
       MP!vars, MP!runVars, MP!chanVars, MP!callVars, MP!sinkVars

LEMMA SameSpec == M!Spec => MP!Spec
<1>1. M!Init => MP!Init
  BY Zenon DEF M!Init, MP!Init
<1>2. [M!Next]_M!vars => [MP!Next]_MP!vars
  BY SameMux, Zenon
     DEF M!vars, M!runVars, M!chanVars, M!callVars, M!sinkVars,
         MP!vars, MP!runVars, MP!chanVars, MP!callVars, MP!sinkVars
<1> QED
  BY <1>1, <1>2, PTL DEF M!Spec, MP!Spec

(* What Mux promises, d.mux keeps: every event the monitor's Submit was    *)
(* accepted for reaches the channels of all subscribers in one order, also *)
(* those still to be handed round when the discovery is closed; no channel *)
(* is closed twice, nor written to after its Close, which would panic      *)
(* (udev.go:412-501 and mux.go:263-337).                                   *)
THEOREM DiscoveryKeepsMux ==
    Spec => /\ [](M!InOrder /\ M!ExitDeliversAll /\ M!SinkClosedOnce)
            /\ M!NoSubmitAfterClose
<1>1. {0} \subseteq Nat /\ MaxChanges \in Nat
  BY DiscoveryAssumption
<1>2. /\ MP!Spec => []MP!InOrder
      /\ MP!Spec => []MP!ExitDeliversAll
      /\ MP!Spec => []MP!SinkClosedOnce
      /\ MP!Spec => MP!NoSubmitAfterClose
  BY <1>1, MP!NothingLost, MP!ShutdownLosesNothing, MP!ClosedAtMostOnce, MP!ClosedSinksAreQuiet
<1>3. MP!InOrder => M!InOrder
  BY Zenon DEF MP!InOrder, MP!AcceptedLog, MP!FanOut, MP!Served,
               M!InOrder, M!AcceptedLog, M!FanOut, M!Served
<1>4. MP!ExitDeliversAll => M!ExitDeliversAll
  BY Zenon DEF MP!ExitDeliversAll, MP!KeptToTheEnd, M!ExitDeliversAll, M!KeptToTheEnd
<1>5. MP!SinkClosedOnce => M!SinkClosedOnce
  BY Zenon DEF MP!SinkClosedOnce, M!SinkClosedOnce
<1>6. [\A s \in Subs : closes[s] > 0 => recv'[s] = recv[s]]_MP!vars
          => [\A s \in Subs : closes[s] > 0 => recv'[s] = recv[s]]_M!vars
  BY Zenon DEF MP!vars, MP!runVars, MP!chanVars, MP!callVars, MP!sinkVars,
               M!vars, M!runVars, M!chanVars, M!callVars, M!sinkVars
<1>7. MP!NoSubmitAfterClose => M!NoSubmitAfterClose
  BY <1>6, PTL DEF MP!NoSubmitAfterClose, M!NoSubmitAfterClose
<1> QED
  BY <1>2, <1>3, <1>4, <1>5, <1>7, DiscoveryIsOnAMux, SameSpec, PTL

-----------------------------------------------------------------------------
(* What the liveness properties rest on.                                   *)

(* d.mux lives as long as monitor does, and the caller monitor serves is   *)
(* one that has called d.mux.Subscribe and has not been turned away.       *)
Attends ==
    /\ done => monPc = "exited"
    /\ monPc = "subscribe" => \E s \in Subs : reqPc[s] = "served"
    /\ \A s \in Subs :
           reqPc[s] = "served" => subPc[s] \in {"registering", "regWait", "subscribed"}

LEMMA AttendsStep == MInv /\ Attends /\ [Next]_vars => Attends'
<1> SUFFICES ASSUME MInv, Attends, [Next]_vars PROVE Attends'
  OBVIOUS
<1> USE DEF MInv, Types, Attends
<1>1. ASSUME NEW d \in Devices, OnAdd(d) \/ OnRemove(d)
      PROVE  Attends'
  BY <1>1 DEF OnAdd, OnRemove, M!SubmitCall, M!chanVars, M!sinkVars, subVars
<1>2. CASE SubmitStep
  BY <1>2 DEF SubmitStep, M!SubmitProceed, M!SubmitTimeout, M!SubmitHandoff, M!chanVars,
              M!sinkVars, monVars
<1>3. CASE RunStep
  <2>1. UNCHANGED <<monPc, reqPc>> /\ M!Run
    BY <1>3 DEF RunStep, monVars, subVars
  <2>2. done' = done
    BY <2>1 DEF M!Run, M!RunRecv, M!RunDone, M!RunDrain, M!FlushNext, M!FlushDone, M!RunExit,
                M!RunRegister, M!AckRegister, M!RunUnregister, M!AckUnregister, M!CloseSink,
                M!chanVars
  <2>3. ASSUME NEW s \in Subs, subPc[s] \in {"registering", "regWait", "subscribed"}
        PROVE  subPc'[s] \in {"registering", "regWait", "subscribed"}
    BY <2>1, <2>3 DEF M!Run, M!RunRecv, M!RunDone, M!RunDrain, M!FlushNext, M!FlushDone,
                      M!RunExit, M!RunRegister, M!AckRegister, M!RunUnregister,
                      M!AckUnregister, M!CloseSink, M!sinkVars
  <2> QED
    BY <2>1, <2>2, <2>3
<1>4. ASSUME NEW s \in Subs, Deliver(s)
      PROVE  Attends'
  BY <1>4 DEF Deliver, M!Deliver, M!chanVars, M!sinkVars, monVars
<1>5. CASE \/ Kernel \/ Close \/ CloseReturns \/ UNCHANGED vars
           \/ \E s \in Subs : Read(s)
  <2>1. CASE Kernel
    BY <2>1 DEF Kernel, Break, Appear, Vanish, Change, muxVars, monVars, subVars
  <2>2. CASE Close \/ CloseReturns \/ UNCHANGED vars
    BY <2>2 DEF Close, CloseReturns, vars, muxVars, monVars, subVars
  <2>3. CASE \E s \in Subs : Read(s)
    BY <2>3 DEF Read, muxVars, monVars
  <2> QED
    BY <1>5, <2>1, <2>2, <2>3
<1>6. CASE \/ OpenSocket \/ ScanDone \/ StartFails \/ OnError \/ Reopen \/ Stop \/ CloseDone
           \/ \E d \in Devices : Scan(d) \/ OnRemoveUnknown(d)
  <2>1. /\ UNCHANGED <<done, subPc, reqPc>>
        /\ monPc' \notin {"exited", "subscribe"} \/ monPc' = monPc
        /\ monPc # "exited"
    BY <1>6 DEF OpenSocket, ScanDone, StartFails, OnError, Reopen, Stop, CloseDone, Scan,
                OnRemoveUnknown, Selecting, muxVars, monVars, subVars
  <2> QED
    BY <2>1
<1>7. CASE CloseMux
  BY <1>7 DEF CloseMux, M!Close, M!sinkVars, subVars
<1>8. ASSUME NEW s \in Subs, Serve(s)
      PROVE  Attends'
  BY <1>8 DEF Serve, Selecting, M!SubscribeCall, M!chanVars
<1>9. ASSUME NEW s \in Subs, Served(s)
      PROVE  Attends'
  BY <1>9 DEF Served, muxVars, ReqPcs
<1>10. ASSUME NEW s \in Subs, Subscribe(s) \/ SubscribeRefused(s)
       PROVE  Attends'
  BY <1>10 DEF Subscribe, SubscribeRefused, muxVars, monVars
<1>11. ASSUME NEW s \in Subs, Cancel(s) \/ CancelReturns(s)
       PROVE  Attends'
  <2>1. UNCHANGED <<done, monPc, reqPc>> /\ reqPc[s] # "served"
    BY <1>11 DEF Cancel, CancelReturns, M!CancelCall, M!CancelClosed, M!chanVars, monVars, subVars
  <2>2. \A t \in Subs : t # s => subPc'[t] = subPc[t]
    BY <1>11 DEF Cancel, CancelReturns, M!CancelCall, M!CancelClosed
  <2> QED
    BY <2>1, <2>2
<1> QED
  BY <1>1, <1>2, <1>3, <1>4, <1>5, <1>6, <1>7, <1>8, <1>9, <1>10, <1>11 DEF Next, MonitorRuns

(* While monitor waits in d.mux.Subscribe, d.mux's goroutine is in its     *)
(* loop and has the request before it, is answering it, or has answered.   *)
MonitorIsHeard ==
    monPc = "subscribe" =>
        \E s \in Subs :
            /\ reqPc[s] = "served"
            /\ \/ subPc[s] = "subscribed"
               \/ subPc[s] = "regWait" /\ runPc = "ackRegister"
               \/ /\ subPc[s] = "registering"
                  /\ runPc \in {"select", "fanout", "ackRegister", "ackUnregister"}

(* When d.mux has come to its end, nobody monitor has accepted, cancelled  *)
(* since or not, is left with an open channel.                             *)
EndClosesChannels ==
    runPc = "exited" => \A s \in Subs : reqPc[s] = "subscribed" => closes[s] = 1

(* The monitor never waits on a d.mux that is gone, and when both have     *)
(* ended the channel of every accepted subscriber has been closed, exactly *)
(* once: what RequestsReturn and EndReachesSubscribers come to without     *)
(* fairness (udev.go:380-383, 458-470 and mux.go:302-337).                 *)
THEOREM NobodyIsLeftBehind == Spec => [](MonitorIsHeard /\ EndClosesChannels)
<1>1. {0} \subseteq Nat /\ MaxChanges \in Nat
  BY DiscoveryAssumption
<1>2. MP!Spec => [](MP!Attended /\ MP!IInv /\ MP!SinkClosedOnce)
  <2>1. MP!Spec => []MP!Attended
    BY <1>1, MP!NobodyIsLeftWaiting
  <2>2. MP!Spec => []MP!IInv
    BY <1>1, MP!Invariance
  <2>3. MP!Spec => []MP!SinkClosedOnce
    BY <1>1, MP!ClosedAtMostOnce
  <2> QED
    BY <2>1, <2>2, <2>3, PTL
<1>3. MInv /\ Attends /\ MP!Attended => MonitorIsHeard
  <2> SUFFICES ASSUME MInv, Attends, MP!Attended, monPc = "subscribe" PROVE MonitorIsHeard
    BY DEF MonitorIsHeard
  <2>1. PICK s \in Subs : reqPc[s] = "served"
    BY DEF Attends
  <2>2. subPc[s] \in {"registering", "regWait", "subscribed"} /\ ~done
    BY <2>1 DEF Attends
  <2> QED
    BY <2>1, <2>2 DEF MP!Attended, MonitorIsHeard
<1>4. MInv /\ MP!IInv /\ MP!SinkClosedOnce => EndClosesChannels
  <2> SUFFICES ASSUME MInv, MP!IInv, MP!SinkClosedOnce, runPc = "exited",
                      NEW s \in Subs, reqPc[s] = "subscribed"
      PROVE  closes[s] = 1
    BY DEF EndClosesChannels
  <2>1. outputs = {}
    BY DEF MP!IInv, MP!RunShape
  <2>2. closes[s] # 0 /\ closes[s] \in Nat
    BY <2>1 DEF MInv, Types, Places
  <2>3. closes[s] <= 1
    BY <2>1 DEF MP!SinkClosedOnce
  <2> QED
    BY <2>2, <2>3
<1>5. Init => Attends
  BY DEF Init, M!Init, Attends
<1> QED
  BY <1>2, <1>3, <1>4, <1>5, AttendsStep, MInitially, MStepwise, DiscoveryIsOnAMux, SameSpec, PTL
     DEF Spec
=============================================================================
