--------------------------- MODULE ScatterProofs ---------------------------
(***************************************************************************)
(* From a device event to the kubelet, for any configuration, any devices  *)
(* and any templates, whatever Adds fail.                                  *)
(*                                                                         *)
(* IInv.  RouteIsServed is about routes that exist; AddShape says as much  *)
(* of the route that register is about to make, and that it is a new one,  *)
(* so the resource a failed register closes is nobody's route.             *)
(* ClosedIsStored keeps a resource that is newly stored from being taken   *)
(* for a closed one.                                                       *)
(*                                                                         *)
(* OfferInv.  OfferIsTrue and SeatsFollowPool are about consumers at rest  *)
(* and streams that have heard everything; Tracked says the same of a      *)
(* consumer that is not, from the last word its queue has of each device,  *)
(* and Streamed of a stream that has a snapshot to read.  A step of a      *)
(* consumer leaves the others and their resources alone (OthersUntouched), *)
(* so each is followed by itself.                                          *)
(***************************************************************************)
EXTENDS Scatter, TLAPS

AddingC(c) == pc[c] \in {"store", "register"}

AddShape ==
    \A c \in Consumers :
        /\ AddingC(c) /\ c \in Scatters
              => cur[c] \in Devices /\ NameOf(c) \in Names \ routes[c]
        /\ pc[c] = "register" => owner[NameOf(c)] = c /\ NameOf(c) \notin closed

ClosedIsStored == \A n \in closed : owner[n] # None

IInv == TypeOK /\ AddShape /\ ClosedIsStored /\ RouteIsServed

-----------------------------------------------------------------------------
(* What a consumer adds has one of the names.                              *)
LEMMA AddedName ==
    ASSUME ConTypes, AddShape, NEW c \in Consumers, AddingC(c)
    PROVE  NameOf(c) \in Names
<1>1. CASE c \in Batches
  BY <1>1, ScatterAssumption DEF NameOf
<1>2. CASE c \notin Batches
  BY <1>2 DEF AddShape, Consumers
<1>. QED  BY <1>1, <1>2

(* The initial states.                                                     *)
LEMMA InitServed == Init => IInv
<1>. SUFFICES ASSUME Init PROVE IInv
  OBVIOUS
<1>1. EnvTypes
  BY ScatterAssumption DEF Init, EnvTypes
<1>2. ConTypes
  BY DEF Init, Begin, ConTypes, Pcs, Backlog, Consumers
<1>3. ResTypes
  BY DEF Init, ResTypes, NoInstance, Marks
<1>4. AddShape /\ ClosedIsStored /\ RouteIsServed
  BY ScatterAssumption DEF Init, Begin, AddShape, AddingC, ClosedIsStored, RouteIsServed
<1>. QED  BY <1>1, <1>2, <1>3, <1>4 DEF IInv, TypeOK

-----------------------------------------------------------------------------
(* A step that makes no consumer begin or end an Add and leaves routes and *)
(* resources in place keeps what IInv says of them.                        *)
LEMMA Frame ==
    ASSUME AddShape, ClosedIsStored, RouteIsServed,
           UNCHANGED <<routes, owner, closed>>,
           \A c \in Consumers : AddingC(c)' => pc'[c] = pc[c] /\ cur'[c] = cur[c]
    PROVE  AddShape' /\ ClosedIsStored' /\ RouteIsServed'
<1>1. ClosedIsStored' /\ RouteIsServed'
  BY DEF ClosedIsStored, RouteIsServed
<1>2. ASSUME NEW c \in Consumers
      PROVE  /\ AddingC(c)' /\ c \in Scatters
                   => cur'[c] \in Devices /\ NameOf(c)' \in Names \ routes'[c]
             /\ pc'[c] = "register" => owner'[NameOf(c)'] = c /\ NameOf(c)' \notin closed'
  <2>1. AddingC(c)' => AddingC(c) /\ NameOf(c)' = NameOf(c)
    BY DEF AddingC, NameOf
  <2>2. pc'[c] = "register" => AddingC(c)' /\ pc[c] = "register"
    BY DEF AddingC
  <2>. QED  BY <2>1, <2>2 DEF AddShape
<1>. QED  BY <1>1, <1>2 DEF AddShape

(* Events queued for one consumer or for all of them.                      *)
LEMMA EmitTypes ==
    ASSUME ConTypes, NEW e \in F!Event, F!Tell(e) \/ F!Drop,
           UNCHANGED <<subscribed, pc, cur, todo, routes, pool, refused>>
    PROVE  ConTypes'
<1>1. CASE F!Drop
  BY <1>1 DEF F!Drop, ConTypes
<1>2. CASE F!Free /\ chan' = [c \in Consumers |->
                        IF c \in subscribed THEN Append(chan[c], e) ELSE chan[c]]
  <2>1. ASSUME NEW c \in Consumers
        PROVE  chan'[c] \in Seq(F!Event) /\ Len(chan'[c]) <= Backlog
    BY <1>2 DEF ConTypes, F!Free, Backlog
  <2>2. chan' \in [Consumers -> Seq(F!Event)]
    BY <1>2, <2>1
  <2>. QED  BY <2>1, <2>2 DEF ConTypes
<1>. QED  BY <1>1, <1>2 DEF F!Tell

(* A change of a device is an event about it, which all are told or none.  *)
LEMMA ChangeTells ==
    ASSUME NEW d \in Devices, Appear(d) \/ Vanish(d)
    PROVE  /\ Changed(d) /\ UNCHANGED subscribed
           /\ \E e \in F!Event \intersect {F!Added(d), F!Removed(d)} :
                  /\ F!Tell(e) \/ F!Drop
                  /\ e.devs = {d} /\ e.kind \in {"Added", "Removed"}
                  /\ present' = IF e.kind = "Added" THEN present \union {d} ELSE present \ {d}
<1>1. CASE Appear(d)
  BY <1>1 DEF Appear, F!Appear, F!Added, F!Event
<1>2. CASE Vanish(d)
  BY <1>2 DEF Vanish, F!Vanish, F!Removed, F!Event
<1>. QED  BY <1>1, <1>2

(* The devices and the kubelet.                                            *)
LEMMA EnvironmentServed ==
    ASSUME IInv,
           \/ \E d \in Devices : Appear(d) \/ Vanish(d)
           \/ KubeletStarts \/ HupEnds
           \/ \E n \in Names : Hup(n) \/ Watch(n) \/ Tell(n)
    PROVE  IInv'
<1>. USE DEF IInv, TypeOK
<1>1. ASSUME NEW d \in Devices, Appear(d) \/ Vanish(d)
      PROVE  IInv'
  <2>1. PICK e \in F!Event :
            /\ F!Tell(e) \/ F!Drop
            /\ present' \in {present \union {d}, present \ {d}}
    BY <1>1, ChangeTells
  <2>2. Changed(d) /\ UNCHANGED subscribed
    BY <1>1, ChangeTells
  <2>3. EnvTypes'
    BY <2>1, <2>2, ScatterAssumption DEF EnvTypes, Changed, kubeVars
  <2>4. ConTypes'
    BY <2>1, <2>2, EmitTypes DEF Changed
  <2>5. ResTypes'
    BY <2>2 DEF ResTypes, Changed, resVars
  <2>6. AddShape' /\ ClosedIsStored' /\ RouteIsServed'
    BY <2>2, Frame DEF Changed, resVars
  <2>. QED  BY <2>3, <2>4, <2>5, <2>6
<1>2. ASSUME KubeletStarts PROVE IInv'
  <2>1. EnvTypes' /\ ConTypes'
    BY <1>2, ScatterAssumption DEF EnvTypes, ConTypes, KubeletStarts, envVars, conVars
  <2>2. ResTypes'
    BY <1>2 DEF ResTypes, KubeletStarts
  <2>3. AddShape' /\ ClosedIsStored' /\ RouteIsServed'
    BY <1>2, Frame DEF KubeletStarts, conVars
  <2>. QED  BY <2>1, <2>2, <2>3
<1>3. ASSUME NEW n \in Names, Hup(n) PROVE IInv'
  <2>1. EnvTypes' /\ ConTypes' /\ ResTypes'
    BY <1>3 DEF EnvTypes, ConTypes, ResTypes, Hup, StreamEnds, envVars, conVars
  <2>2. AddShape' /\ ClosedIsStored' /\ RouteIsServed'
    BY <1>3, Frame DEF Hup, conVars
  <2>. QED  BY <2>1, <2>2
<1>4. ASSUME NEW n \in Names, Watch(n) \/ Tell(n) PROVE IInv'
  <2>1. EnvTypes' /\ ConTypes'
    BY <1>4 DEF EnvTypes, ConTypes, Watch, Tell, envVars, kubeVars, conVars
  <2>2. ResTypes'
    <3>1. CASE Watch(n)
      BY <3>1 DEF ResTypes, Watch
    <3>2. CASE Tell(n)
      <4>1. PICK notUp \in SUBSET Links :
                /\ told' = [told EXCEPT ![n] = Shown(n, snap[n], notUp)]
                /\ down' = [down EXCEPT ![n] = notUp]
        BY <3>2 DEF Tell
      <4>2. Shown(n, snap[n], notUp) \in SUBSET Ids
        BY DEF Shown, Asked
      <4>. QED  BY <3>2, <4>1, <4>2 DEF ResTypes, Tell
    <3>. QED  BY <1>4, <3>1, <3>2
  <2>3. AddShape' /\ ClosedIsStored' /\ RouteIsServed'
    BY <1>4, Frame DEF Watch, Tell, conVars
  <2>. QED  BY <2>1, <2>2, <2>3
<1>5. ASSUME HupEnds PROVE IInv'
  <2>1. EnvTypes' /\ ConTypes' /\ ResTypes'
    BY <1>5 DEF EnvTypes, ConTypes, ResTypes, HupEnds, envVars, conVars, resVars
  <2>2. AddShape' /\ ClosedIsStored' /\ RouteIsServed'
    BY <1>5, Frame DEF HupEnds, conVars, resVars
  <2>. QED  BY <2>1, <2>2
<1>. QED  BY <1>1, <1>2, <1>3, <1>4, <1>5

(* A consumer subscribes, cancels or ends.                                 *)
LEMMA SubscriberServed ==
    ASSUME IInv, NEW c \in Consumers, Subscribe(c) \/ Cancel(c) \/ Exit(c)
    PROVE  IInv'
<1>. USE DEF IInv, TypeOK
<1>1. EnvTypes' /\ ResTypes'
  BY DEF EnvTypes, ResTypes, Subscribe, F!Join, Cancel, F!Leave, Exit, envVars, kubeVars, resVars
<1>2. ConTypes'
  <2>1. CASE Subscribe(c)
    <3>1. F!Start(present) \in F!Event
      BY DEF F!Start, F!Event, EnvTypes
    <3>2. <<F!Start(present)>> \in Seq(F!Event) /\ Len(<<F!Start(present)>>) <= Backlog
      BY <3>1 DEF Backlog
    <3>. QED  BY <2>1, <3>2 DEF ConTypes, Subscribe, F!Join, Pcs
  <2>2. CASE Cancel(c)
    BY <2>2 DEF ConTypes, Cancel, F!Leave
  <2>3. CASE Exit(c)
    BY <2>3 DEF ConTypes, Exit, Pcs
  <2>. QED  BY <2>1, <2>2, <2>3
<1>3. AddShape' /\ ClosedIsStored' /\ RouteIsServed'
  BY Frame DEF Subscribe, F!Join, Cancel, F!Leave, Exit, resVars, AddingC, ConTypes
<1>. QED  BY <1>1, <1>2, <1>3

-----------------------------------------------------------------------------
(* What the end of an Add does to the consumer.                            *)
LEMMA RefusedTypes ==
    ASSUME ConTypes, AddShape, NEW c \in Consumers, AddingC(c), Refused(c), UNCHANGED todo
    PROVE  /\ pc' \in [Consumers -> Pcs]
           /\ cur' \in [Consumers -> Devices \union {None}]
           /\ refused' \in [Scatters -> SUBSET Devices]
           /\ ~AddingC(c)'
           /\ \A e \in Consumers \ {c} : pc'[e] = pc[e] /\ cur'[e] = cur[e]
<1>1. CASE c \in Batches
  BY <1>1 DEF Refused, ConTypes, Pcs, AddingC
<1>2. CASE c \notin Batches
  <2>1. c \in Scatters /\ cur[c] \in Devices
    BY <1>2 DEF Consumers, AddShape
  <2>2. /\ cur' = [cur EXCEPT ![c] = None]
        /\ refused' = [refused EXCEPT ![c] = @ \union {cur[c]}]
        /\ Onward(c)
    BY <1>2 DEF Refused
  <2>3. PICK w \in {"idle", "init"} : pc' = [pc EXCEPT ![c] = w]
    BY <2>2 DEF Onward
  <2>4. /\ pc' \in [Consumers -> Pcs]
        /\ ~AddingC(c)'
        /\ \A e \in Consumers \ {c} : pc'[e] = pc[e]
    BY <2>3 DEF ConTypes, Pcs, AddingC
  <2>5. /\ cur' \in [Consumers -> Devices \union {None}]
        /\ \A e \in Consumers \ {c} : cur'[e] = cur[e]
    BY <2>2 DEF ConTypes
  <2>6. refused' \in [Scatters -> SUBSET Devices]
    BY <2>1, <2>2 DEF ConTypes
  <2>. QED  BY <2>4, <2>5, <2>6
<1>. QED  BY <1>1, <1>2

(* registry.Add.                                                           *)
LEMMA StoreServed ==
    ASSUME IInv, NEW c \in Consumers, AddStore(c)
    PROVE  IInv'
<1>. USE DEF IInv, TypeOK
<1>n. NameOf(c) \in Names /\ NameOf(c)' = NameOf(c) /\ owner[NameOf(c)] = None
  BY AddedName DEF AddStore, AddingC, NameOf
<1>1. EnvTypes'
  BY DEF EnvTypes, AddStore, envVars, kubeVars
<1>2. ConTypes'
  BY DEF ConTypes, AddStore, Pcs
<1>3. ResTypes'
  BY <1>n DEF ResTypes, AddStore, Marks
<1>4. NameOf(c) \notin closed
  BY <1>n DEF ClosedIsStored
<1>5. \A e \in Consumers : NameOf(e)' = NameOf(e) /\ (AddingC(e)' => AddingC(e))
  BY DEF AddStore, NameOf, AddingC, ConTypes
<1>6. AddShape'
  <2>1. ASSUME NEW e \in Consumers
        PROVE  /\ AddingC(e)' /\ e \in Scatters
                     => cur'[e] \in Devices /\ NameOf(e)' \in Names \ routes'[e]
               /\ pc'[e] = "register" => owner'[NameOf(e)'] = e /\ NameOf(e)' \notin closed'
    <3>1. CASE e = c
      BY <1>n, <1>4, <1>5, <3>1 DEF AddShape, AddStore, ResTypes
    <3>2. CASE e # c
      <4>1. pc'[e] = pc[e]
        BY <3>2 DEF AddStore, ConTypes
      <4>2. pc[e] = "register" => NameOf(e) # NameOf(c)
        BY <1>n, ScatterAssumption DEF AddShape
      <4>3. owner'[NameOf(e)] = owner[NameOf(e)] \/ pc[e] # "register"
        BY <4>2, AddedName DEF AddStore, ResTypes, AddingC
      <4>. QED  BY <1>5, <4>1, <4>3 DEF AddShape, AddStore
    <3>. QED  BY <3>1, <3>2
  <2>. QED  BY <2>1 DEF AddShape
<1>7. ClosedIsStored'
  BY <1>n, ScatterAssumption DEF ClosedIsStored, AddStore, ResTypes
<1>8. RouteIsServed'
  BY <1>n, ScatterAssumption DEF RouteIsServed, AddStore, ResTypes, Consumers, ConTypes
<1>. QED  BY <1>1, <1>2, <1>3, <1>6, <1>7, <1>8

(* An Add that stores nothing.                                             *)
LEMMA AddFailsServed ==
    ASSUME IInv, NEW c \in Consumers, AddFails(c)
    PROVE  IInv'
<1>. USE DEF IInv, TypeOK
<1>1. AddingC(c) /\ Refused(c) /\ UNCHANGED todo
  BY DEF AddFails, AddingC
<1>2. EnvTypes' /\ ResTypes'
  BY DEF EnvTypes, ResTypes, AddFails, envVars, kubeVars, resVars
<1>3. ConTypes'
  BY <1>1, RefusedTypes DEF ConTypes, AddFails
<1>4. AddShape' /\ ClosedIsStored' /\ RouteIsServed'
  BY <1>1, RefusedTypes, Frame DEF AddFails, resVars
<1>. QED  BY <1>2, <1>3, <1>4

(* The resource a failed register closes is nobody's route: its name is    *)
(* owned by the consumer that fails, which has no route to it yet.         *)
LEMMA RegisterFailsServed ==
    ASSUME IInv, NEW c \in Consumers, RegisterFails(c)
    PROVE  IInv'
<1>. USE DEF IInv, TypeOK
<1>. DEFINE name == NameOf(c)
<1>1. AddingC(c) /\ Refused(c) /\ UNCHANGED todo
  BY DEF RegisterFails, AddingC
<1>2. /\ name \in Names /\ owner[name] = c /\ name \notin closed
      /\ c \in Scatters => name \notin routes[c]
  BY <1>1, AddedName DEF RegisterFails, AddShape
<1>3. UNCHANGED <<routes, owner>> /\ closed' = closed \union {name}
  BY DEF RegisterFails
<1>. HIDE DEF name
<1>4. EnvTypes'
  BY <1>2 DEF EnvTypes, RegisterFails, envVars, name
<1>5. ConTypes'
  BY <1>1, RefusedTypes DEF ConTypes, RegisterFails
<1>6. ResTypes'
  BY <1>2 DEF ResTypes, RegisterFails, StreamEnds, name
<1>7. AddShape'
  <2>1. ASSUME NEW e \in Consumers
        PROVE  /\ AddingC(e)' /\ e \in Scatters
                     => cur'[e] \in Devices /\ NameOf(e)' \in Names \ routes'[e]
               /\ pc'[e] = "register" => owner'[NameOf(e)'] = e /\ NameOf(e)' \notin closed'
    <3>1. CASE e = c
      <4>1. ~AddingC(e)'
        BY <1>1, <3>1, RefusedTypes
      <4>. QED  BY <4>1 DEF AddingC
    <3>2. CASE e # c
      <4>1. pc'[e] = pc[e] /\ cur'[e] = cur[e]
        BY <1>1, <3>2, RefusedTypes
      <4>2. (AddingC(e)' <=> AddingC(e)) /\ NameOf(e)' = NameOf(e)
        BY <4>1 DEF AddingC, NameOf
      <4>3. pc[e] = "register" => NameOf(e) # name
        BY <1>2, <3>2 DEF AddShape
      <4>. QED  BY <1>3, <4>1, <4>2, <4>3 DEF AddShape
    <3>. QED  BY <3>1, <3>2
  <2>. QED  BY <2>1 DEF AddShape
<1>8. ClosedIsStored'
  BY <1>2, <1>3, ScatterAssumption DEF ClosedIsStored
<1>9. RouteIsServed'
  BY <1>2, <1>3 DEF RouteIsServed
<1>. QED  BY <1>4, <1>5, <1>6, <1>7, <1>8, <1>9

(* The new route leads to the resource that was just registered.           *)
LEMMA RegisterOkServed ==
    ASSUME IInv, NEW c \in Consumers, RegisterOk(c)
    PROVE  IInv'
<1>. USE DEF IInv, TypeOK
<1>. DEFINE name == NameOf(c)
<1>1. pc[c] = "register" /\ AddingC(c) /\ UNCHANGED <<owner, closed>>
  BY DEF RegisterOk, AddingC, resVars
<1>2. name \in Names /\ owner[name] = c /\ name \notin closed
  BY <1>1, AddedName DEF AddShape
<1>3. PICK w \in {"subscribe", "idle", "init"} : pc' = [pc EXCEPT ![c] = w]
  BY DEF RegisterOk, Onward
<1>4. cur' = IF c \in Batches THEN cur ELSE [cur EXCEPT ![c] = None]
  BY DEF RegisterOk
<1>5. routes' = IF c \in Batches THEN routes ELSE [routes EXCEPT ![c] = @ \union {name}]
  BY DEF RegisterOk
<1>. HIDE DEF name
<1>6. EnvTypes' /\ ResTypes'
  BY <1>2 DEF EnvTypes, ResTypes, RegisterOk, envVars, resVars, name
<1>7. ConTypes'
  BY <1>2, <1>3, <1>4, <1>5 DEF ConTypes, RegisterOk, Pcs
<1>8. AddShape'
  <2>1. ASSUME NEW e \in Consumers
        PROVE  /\ AddingC(e)' /\ e \in Scatters
                     => cur'[e] \in Devices /\ NameOf(e)' \in Names \ routes'[e]
               /\ pc'[e] = "register" => owner'[NameOf(e)'] = e /\ NameOf(e)' \notin closed'
    <3>1. CASE e = c
      BY <1>3, <3>1 DEF AddingC, ConTypes
    <3>2. CASE e # c
      <4>1. pc'[e] = pc[e] /\ cur'[e] = cur[e] /\ (e \in Scatters => routes'[e] = routes[e])
        BY <1>3, <1>4, <1>5, <3>2 DEF ConTypes
      <4>2. (AddingC(e)' <=> AddingC(e)) /\ NameOf(e)' = NameOf(e)
        BY <4>1 DEF AddingC, NameOf
      <4>. QED  BY <1>1, <4>1, <4>2 DEF AddShape
    <3>. QED  BY <3>1, <3>2
  <2>. QED  BY <2>1 DEF AddShape
<1>9. ClosedIsStored' /\ RouteIsServed'
  BY <1>1, <1>2, <1>5 DEF ClosedIsStored, RouteIsServed, ConTypes
<1>. QED  BY <1>6, <1>7, <1>8, <1>9

-----------------------------------------------------------------------------
(* A health event changes the marks and the snapshot of its resource only. *)
LEMMA SubmitTypes ==
    ASSUME ResTypes, NEW n \in Names, NEW ids, NEW h \in Marks, ResSubmit(n, ids, h)
    PROVE  ResTypes' /\ UNCHANGED <<owner, closed>>
<1>1. Overridden(n, ids, h) \in [Ids -> Marks]
  BY DEF Overridden, ResTypes
<1>2. inst' = [inst EXCEPT ![n] = Overridden(n, ids, h)]
  BY DEF ResSubmit
<1>3. inst' \in [Names -> [Ids -> Marks]] /\ inst'[n] \in [Ids -> Marks]
  BY <1>1, <1>2 DEF ResTypes
<1>4. snap' = snap \/ snap' = [snap EXCEPT ![n] = inst'[n]]
  BY DEF ResSubmit
<1>5. snap' \in [Names -> {NoSnapshot} \union [Ids -> Marks]]
  BY <1>3, <1>4 DEF ResTypes
<1>6. missed' \subseteq Names /\ UNCHANGED <<owner, closed, watching, told, down>>
  BY DEF ResSubmit, ResTypes
<1>. QED  BY <1>3, <1>5, <1>6 DEF ResTypes

(* What an event makes of a scatter: only for a template that is a name    *)
(* and no route does it begin an Add.                                      *)
LEMMA ScatterHandles ==
    ASSUME TypeOK, NEW s \in Scatters, NEW d \in Devices,
           ScatterAdded(s, d) \/ ScatterRemoved(s, d)
    PROVE  /\ ResTypes' /\ UNCHANGED <<owner, closed>>
           /\ refused' \in [Scatters -> SUBSET Devices]
           /\ \/ /\ cur' = [cur EXCEPT ![s] = d]
                 /\ pc' = [pc EXCEPT ![s] = "store"]
                 /\ Template[s][d] \in Names \ routes[s]
              \/ /\ UNCHANGED cur
                 /\ \E w \in {"idle", "init"} : pc' = [pc EXCEPT ![s] = w]
<1>. USE DEF TypeOK
<1>1. CASE ScatterIgnores(s)
  BY <1>1 DEF ScatterIgnores, Onward, resVars, ResTypes, ConTypes
<1>2. CASE \E h \in {"own", "Unhealthy"} :
              Template[s][d] \in routes[s] /\ ScatterSubmits(s, d, h)
  <2>1. PICK h \in {"own", "Unhealthy"} :
              Template[s][d] \in routes[s] /\ ScatterSubmits(s, d, h)
    BY <1>2
  <2>2. Template[s][d] \in Names /\ h \in Marks
    BY <2>1 DEF ConTypes, Marks
  <2>3. ResTypes' /\ UNCHANGED <<owner, closed>>
    BY <2>1, <2>2, SubmitTypes DEF ScatterSubmits
  <2>4. refused' \in [Scatters -> SUBSET Devices]
    BY <2>1 DEF ScatterSubmits, ConTypes
  <2>5. UNCHANGED cur /\ \E w \in {"idle", "init"} : pc' = [pc EXCEPT ![s] = w]
    BY <2>1 DEF ScatterSubmits, Onward
  <2>. QED  BY <2>3, <2>4, <2>5
<1>3. CASE ScatterAdds(s, d) /\ Template[s][d] \in Names \ routes[s]
  BY <1>3 DEF ScatterAdds, resVars, ResTypes, ConTypes
<1>. QED  BY <1>1, <1>2, <1>3 DEF ScatterAdded, ScatterRemoved

(* The part of ConTypes that handling a device does not decide.            *)
QueueTypes ==
    /\ subscribed \subseteq Consumers
    /\ chan \in [Consumers -> Seq(F!Event)]
    /\ \A c \in Consumers : Len(chan[c]) <= Backlog
    /\ todo \in [Consumers -> SUBSET Devices]
    /\ routes \in [Scatters -> SUBSET Names]
    /\ pool \in [Batches -> SUBSET Devices]

(* A scatter handles a device of an event or of Init.                      *)
LEMMA ScatterServed ==
    ASSUME IInv, NEW s \in Scatters, NEW d \in Devices,
           ScatterAdded(s, d) \/ ScatterRemoved(s, d),
           EnvTypes', QueueTypes', UNCHANGED routes
    PROVE  IInv'
<1>. USE DEF IInv, TypeOK
<1>1. /\ ResTypes' /\ UNCHANGED <<owner, closed>>
      /\ refused' \in [Scatters -> SUBSET Devices]
  BY ScatterHandles
<1>2. CASE /\ cur' = [cur EXCEPT ![s] = d]
           /\ pc' = [pc EXCEPT ![s] = "store"]
           /\ Template[s][d] \in Names \ routes[s]
  <2>1. ConTypes'
    BY <1>1, <1>2 DEF ConTypes, QueueTypes, Pcs
  <2>2. ASSUME NEW e \in Consumers
        PROVE  /\ AddingC(e)' /\ e \in Scatters
                     => cur'[e] \in Devices /\ NameOf(e)' \in Names \ routes'[e]
               /\ pc'[e] = "register" => owner'[NameOf(e)'] = e /\ NameOf(e)' \notin closed'
    <3>1. CASE e = s
      <4>1. pc'[e] = "store" /\ cur'[e] = d /\ e \notin Batches
        BY <1>2, <3>1, ScatterAssumption DEF ConTypes, Consumers
      <4>. QED  BY <1>2, <3>1, <4>1 DEF NameOf
    <3>2. CASE e # s
      <4>1. pc'[e] = pc[e] /\ cur'[e] = cur[e]
        BY <1>2, <3>2 DEF ConTypes
      <4>2. (AddingC(e)' <=> AddingC(e)) /\ NameOf(e)' = NameOf(e)
        BY <4>1 DEF AddingC, NameOf
      <4>. QED  BY <1>1, <4>1, <4>2 DEF AddShape
    <3>. QED  BY <3>1, <3>2
  <2>3. AddShape'
    BY <2>2 DEF AddShape
  <2>4. ClosedIsStored' /\ RouteIsServed'
    BY <1>1 DEF ClosedIsStored, RouteIsServed
  <2>. QED  BY <1>1, <2>1, <2>3, <2>4
<1>3. CASE /\ UNCHANGED cur
           /\ \E w \in {"idle", "init"} : pc' = [pc EXCEPT ![s] = w]
  <2>1. ConTypes'
    BY <1>1, <1>3 DEF ConTypes, QueueTypes, Pcs
  <2>2. \A e \in Consumers : AddingC(e)' => pc'[e] = pc[e] /\ cur'[e] = cur[e]
    BY <1>3 DEF ConTypes, AddingC
  <2>3. AddShape' /\ ClosedIsStored' /\ RouteIsServed'
    BY <1>1, <2>2, Frame
  <2>. QED  BY <1>1, <2>1, <2>3
<1>. QED  BY <1>2, <1>3, ScatterHandles

(* A step that only sends a consumer to a place outside of Add.            *)
LEMMA MoveServed ==
    ASSUME IInv, NEW c \in Consumers, NEW w \in Pcs \ {"store", "register"},
           pc' = [pc EXCEPT ![c] = w],
           EnvTypes', QueueTypes', ResTypes', UNCHANGED <<cur, routes, owner, closed, refused>>
    PROVE  IInv'
<1>1. ConTypes'
  BY DEF IInv, TypeOK, ConTypes, QueueTypes
<1>2. \A e \in Consumers : AddingC(e)' => pc'[e] = pc[e] /\ cur'[e] = cur[e]
  BY DEF IInv, TypeOK, ConTypes, AddingC
<1>3. AddShape' /\ ClosedIsStored' /\ RouteIsServed'
  BY <1>2, Frame DEF IInv
<1>. QED  BY <1>1, <1>3 DEF IInv, TypeOK

(* A consumer takes an event from its channel.                             *)
LEMMA ReceiveServed ==
    ASSUME IInv, NEW c \in Consumers, Receive(c)
    PROVE  IInv'
<1>. USE DEF IInv, TypeOK
<1>. DEFINE e == Head(chan[c])
<1>1. e \in F!Event /\ Tail(chan[c]) \in Seq(F!Event) /\ Len(Tail(chan[c])) <= Backlog
  BY DEF Receive, F!Take, ConTypes, Backlog
<1>2. /\ Handle(c, e)
      /\ chan' = [chan EXCEPT ![c] = Tail(@)]
      /\ UNCHANGED <<envVars, kubeVars, subscribed, routes>>
  BY DEF Receive, F!Take, envVars
<1>3. e.devs \subseteq Devices
  BY <1>1 DEF F!Event
<1>. HIDE DEF e
<1>4. EnvTypes'
  BY <1>2 DEF EnvTypes, envVars, kubeVars
<1>5. /\ chan' \in [Consumers -> Seq(F!Event)]
      /\ \A x \in Consumers : Len(chan'[x]) <= Backlog
  BY <1>1, <1>2 DEF ConTypes
<1>6. CASE /\ todo' = [todo EXCEPT ![c] = e.devs]
           /\ Onward(c)
           /\ UNCHANGED <<cur, pool, resVars, refused>>
  <2>1. PICK w \in {"idle", "init"} : pc' = [pc EXCEPT ![c] = w]
    BY <1>6 DEF Onward
  <2>2. QueueTypes'
    BY <1>2, <1>3, <1>5, <1>6 DEF QueueTypes, ConTypes
  <2>3. ResTypes' /\ w \in Pcs \ {"store", "register"}
    BY <1>6, <2>1 DEF ResTypes, resVars, Pcs
  <2>. QED  BY <1>2, <1>4, <1>6, <2>1, <2>2, <2>3, MoveServed DEF resVars
<1>7. CASE /\ c \in Scatters
           /\ UNCHANGED <<todo, pool>>
           /\ \E d \in e.devs : ScatterAdded(c, d) \/ ScatterRemoved(c, d)
  <2>1. QueueTypes'
    BY <1>2, <1>5, <1>7 DEF QueueTypes, ConTypes
  <2>. QED  BY <1>2, <1>3, <1>4, <1>7, <2>1, ScatterServed
<1>8. CASE /\ c \in Batches
           /\ \E d \in e.devs : BatchAdded(c, d) \/ BatchRemoved(c, d)
           /\ UNCHANGED <<cur, todo, resVars, refused>>
  <2>1. PICK w \in {"tell", "withdraw", "idle"} : pc' = [pc EXCEPT ![c] = w]
    BY <1>8 DEF BatchAdded, BatchRemoved
  <2>2. pool' \in [Batches -> SUBSET Devices]
    BY <1>3, <1>8 DEF BatchAdded, BatchRemoved, PoolAdd, PoolRemove, ConTypes
  <2>3. QueueTypes'
    BY <1>2, <1>5, <1>8, <2>2 DEF QueueTypes, ConTypes
  <2>4. ResTypes' /\ w \in Pcs \ {"store", "register"}
    BY <1>8, <2>1 DEF ResTypes, resVars, Pcs
  <2>. QED  BY <1>2, <1>4, <1>8, <2>1, <2>3, <2>4, MoveServed DEF resVars
<1>. QED  BY <1>2, <1>6, <1>7, <1>8 DEF Handle

(* A consumer goes on with its Init event.                                 *)
LEMMA InitNextServed ==
    ASSUME IInv, NEW c \in Consumers, InitNext(c)
    PROVE  IInv'
<1>. USE DEF IInv, TypeOK
<1>1. PICK d \in todo[c] :
          /\ todo' = [todo EXCEPT ![c] = @ \ {d}]
          /\ \/ c \in Scatters /\ ScatterAdded(c, d) /\ UNCHANGED pool
             \/ c \in Batches /\ BatchInit(c, d) /\ UNCHANGED <<cur, resVars, refused>>
  BY DEF InitNext
<1>2. d \in Devices /\ todo' \in [Consumers -> SUBSET Devices]
  BY <1>1 DEF ConTypes
<1>3. UNCHANGED <<envVars, kubeVars, subscribed, chan, routes>>
  BY DEF InitNext
<1>4. EnvTypes'
  BY <1>3 DEF EnvTypes, envVars, kubeVars
<1>5. CASE c \in Scatters /\ ScatterAdded(c, d) /\ UNCHANGED pool
  <2>1. QueueTypes'
    BY <1>2, <1>3, <1>5 DEF QueueTypes, ConTypes
  <2>. QED  BY <1>2, <1>3, <1>4, <1>5, <2>1, ScatterServed
<1>6. CASE c \in Batches /\ BatchInit(c, d) /\ UNCHANGED <<cur, resVars, refused>>
  <2>1. PICK w \in {"init", "idle", "tell"} : pc' = [pc EXCEPT ![c] = w]
    BY <1>6 DEF BatchInit
  <2>2. pool' \in [Batches -> SUBSET Devices]
    BY <1>2, <1>6 DEF BatchInit, PoolAdd, ConTypes
  <2>3. QueueTypes'
    BY <1>2, <1>3, <2>2 DEF QueueTypes, ConTypes
  <2>4. ResTypes' /\ w \in Pcs \ {"store", "register"}
    BY <1>6, <2>1 DEF ResTypes, resVars, Pcs
  <2>. QED  BY <1>3, <1>4, <1>6, <2>1, <2>3, <2>4, MoveServed DEF resVars
<1>. QED  BY <1>1, <1>5, <1>6

(* A batch sends the health event of its seats.                            *)
LEMMA BatchSubmitServed ==
    ASSUME IInv, NEW b \in Batches, BatchSubmit(b)
    PROVE  IInv'
<1>. USE DEF IInv, TypeOK
<1>1. PICK h \in {"own", "Unhealthy"} : ResSubmit(BatchName[b], Seats, h)
  BY DEF BatchSubmit
<1>2. BatchName[b] \in Names /\ h \in Marks /\ b \in Consumers
  BY ScatterAssumption DEF Marks, Consumers
<1>3. ResTypes' /\ UNCHANGED <<owner, closed>>
  BY <1>1, <1>2, SubmitTypes
<1>4. EnvTypes' /\ QueueTypes'
  BY DEF EnvTypes, QueueTypes, ConTypes, BatchSubmit, envVars, kubeVars
<1>5. /\ pc' = [pc EXCEPT ![b] = "idle"] /\ "idle" \in Pcs \ {"store", "register"}
      /\ UNCHANGED <<cur, routes, refused>>
  BY DEF BatchSubmit, Pcs
<1>. QED  BY <1>2, <1>3, <1>4, <1>5, MoveServed

-----------------------------------------------------------------------------
(* Every step keeps the invariant.                                         *)
LEMMA NextServed == IInv /\ [Next]_vars => IInv'
<1>. SUFFICES ASSUME IInv, [Next]_vars PROVE IInv'
  OBVIOUS
<1>1. CASE UNCHANGED vars
  BY <1>1 DEF IInv, TypeOK, EnvTypes, ConTypes, ResTypes, AddShape, AddingC, NameOf,
     ClosedIsStored, RouteIsServed, vars, envVars, kubeVars, conVars, resVars
<1>2. ASSUME NEW c \in Consumers, Consumer(c) \/ Cancel(c) PROVE IInv'
  BY <1>2, SubscriberServed, StoreServed, AddFailsServed, RegisterOkServed,
     RegisterFailsServed, ReceiveServed, InitNextServed, BatchSubmitServed DEF Consumer
<1>3. CASE \/ \E d \in Devices : Appear(d) \/ Vanish(d)
           \/ KubeletStarts \/ HupEnds
           \/ \E n \in Names : Hup(n) \/ Watch(n) \/ Tell(n)
  BY <1>3, EnvironmentServed
<1>. QED  BY <1>1, <1>2, <1>3 DEF Next

(* The first invariant holds in every state.                               *)
LEMMA Served == Spec => []IInv
<1>. QED  BY InitServed, NextServed, PTL DEF Spec

(* Every variable stays in its set; in particular a consumer that waits in *)
(* Add or in a health event never has more than two events before it,      *)
(* however long it waits (mux.go's channels as scatter.go:137-150 reads    *)
(* them).                                                                  *)
THEOREM ScatterTypes == Spec => []TypeOK
<1>. QED  BY Served, PTL DEF IInv

(* A route leads to an open resource that the registry holds for this      *)
(* scatter: a health event is never lost in a resource that a failed Add   *)
(* has closed, nor in one the registry does not know (scatter.go:81-89).   *)
THEOREM RoutesAreServed == Spec => []RouteIsServed
<1>. QED  BY Served, PTL DEF IInv
-----------------------------------------------------------------------------
(* What the kubelet is told.  The second invariant follows a device from   *)
(* the queue of a consumer to the marks of its instances and to the stream.*)

(* Nothing has come to a consumer yet.                                     *)
Fresh(c) ==
    /\ todo[c] = {}
    /\ c \in Scatters => routes[c] = {}
    /\ c \in Batches => pool[c] = {}

(* What its place says of a consumer.                                      *)
Place(c) ==
    /\ pc[c] # "init" /\ ~(c \in Scatters /\ AddingC(c)) => todo[c] = {}
    /\ pc[c] = "subscribe" \/ (c \in Batches /\ AddingC(c))
          => Fresh(c) /\ c \notin subscribed
    /\ pc[c] \in {"dead", "exited"} => c \notin subscribed
    /\ pc[c] \in {"tell", "withdraw"} => c \in Batches

(* An event is about one device, but for the first.                        *)
OneDevice(e) == \E d \in Devices : e \in {F!Added(d), F!Removed(d)}

Queued(c) ==
    \A k \in 1 .. Len(chan[c]) :
        \/ OneDevice(chan[c][k])
        \/ chan[c][k].kind = "Init" /\ k = 1 /\ pc[c] = "idle" /\ Fresh(c)

(* A batch that is past its Add has its resource, where no seat stays      *)
(* Unhealthy while there is a device.                                      *)
Working(b) == pc[b] \in {"subscribe", "idle", "init", "tell", "withdraw"}

Pooled(b) ==
    /\ pool[b] \subseteq Matched[b]
    /\ pc[b] = "withdraw" => pool[b] = {}
    /\ Working(b) =>
          /\ owner[BatchName[b]] = b
          /\ \A i \in Ids \ Seats : inst[BatchName[b]][i] = "none"
          /\ pc[b] = "idle" /\ pool[b] # {} =>
                \A i \in Seats : inst[BatchName[b]][i] = "own"

(* A resource that is being registered is as it was made.                  *)
Unmarked(c) ==
    pc[c] = "register" =>
        \A i \in Ids : inst[NameOf(c)][i] = IF i \in IdsOf(c) THEN "own" ELSE "none"

(* What the kubelet knows is somebody's, and a batch has one resource.     *)
Owned ==
    /\ \A n \in known \union watching : owner[n] # None
    /\ \A n \in Names : owner[n] \in Batches => n = BatchName[owner[n]]

(* A batch that has still to tell its seats.                               *)
Turning(b) == pc[b] \in {"tell", "withdraw"} \/ (pc[b] = "init" /\ pool[b] # {})

(* A stream that has missed nothing has the marks before it, or has told   *)
(* the kubelet what they are.                                              *)
Streamed(n) ==
    n \in watching \ missed =>
        /\ snap[n] # NoSnapshot => snap[n] = inst[n]
        /\ snap[n] = NoSnapshot /\ ~(owner[n] \in Batches /\ Turning(owner[n]))
              => told[n] = Shown(n, inst[n], down[n])

(* The last word that a queue has of a device.                             *)
Speaks(e, d) == e.kind = "Init" \/ d \in e.devs

Puts(e, d) == e.kind # "Removed" /\ d \in e.devs

Silent(q, d) == \A k \in 1 .. Len(q) : ~Speaks(q[k], d)

LastIsTrue(q, d, there) ==
    \A k \in 1 .. Len(q) :
        Speaks(q[k], d) /\ (\A j \in k + 1 .. Len(q) : ~Speaks(q[j], d))
            => (Puts(q[k], d) <=> d \in there)

(* What a consumer makes of a device it has heard all of.                  *)
Offers(s, d, i) ==
    \/ AddingC(s) /\ cur[s] = d
    \/ Template[s][d] \in routes[s] /\ inst[Template[s][d]][i] = "own"

Cared(s, d) == Template[s][d] \in Names /\ ~Shared(s, d) /\ d \notin refused[s]

Has(c, d) ==
    /\ c \in Batches /\ d \in Matched[c] => d \in pool[c]
    /\ c \in Scatters /\ Cared(c, d) => \A i \in Instances[d] : Offers(c, d, i)

Lacks(c, d) ==
    /\ c \in Batches /\ d \in Matched[c] => d \notin pool[c]
    /\ c \in Scatters /\ Cared(c, d) => \A i \in Instances[d] : ~Offers(c, d, i)

(* The devices as a consumer will have them are those that are present.    *)
TrackedBy(c, d) ==
    /\ LastIsTrue(chan[c], d, present)
    /\ Silent(chan[c], d) =>
          /\ d \in todo[c] => d \in present
          /\ d \notin todo[c] /\ d \in present => Has(c, d)
          /\ d \notin todo[c] /\ d \notin present => Lacks(c, d)

Tracked(c) == c \in subscribed => \A d \in Devices \ lost : TrackedBy(c, d)

(* All that the invariant says of one consumer.                            *)
Sound(c) ==
    /\ Place(c) /\ Queued(c) /\ Unmarked(c) /\ Tracked(c)
    /\ c \in Batches => Pooled(c)

OfferInv ==
    /\ IInv
    /\ \A c \in Consumers : Sound(c)
    /\ Owned
    /\ \A n \in Names : Streamed(n)

-----------------------------------------------------------------------------
(* Queues.                                                                 *)

(* The head of a queue is its first event, its tail the ones after.        *)
LEMMA HeadTail ==
    ASSUME NEW q \in Seq(F!Event), q # <<>>
    PROVE  /\ Len(q) >= 1 /\ Head(q) = q[1] /\ Head(q) \in F!Event
           /\ Len(Tail(q)) = Len(q) - 1
           /\ \A k \in 1 .. Len(Tail(q)) : Tail(q)[k] = q[k + 1] /\ k + 1 \in 1 .. Len(q)
<1>. QED  OBVIOUS

(* When the tail says nothing of a device, the head did, or the queue does *)
(* not.                                                                    *)
LEMMA TailWords ==
    ASSUME NEW q \in Seq(F!Event), q # <<>>, NEW d, NEW there, LastIsTrue(q, d, there)
    PROVE  /\ LastIsTrue(Tail(q), d, there)
           /\ Silent(Tail(q), d) /\ Speaks(Head(q), d) => (Puts(Head(q), d) <=> d \in there)
           /\ Silent(Tail(q), d) /\ ~Speaks(Head(q), d) => Silent(q, d)
<1>. DEFINE r == Tail(q)
<1>1. /\ Len(q) \in Nat /\ Len(q) >= 1 /\ Head(q) = q[1]
      /\ Len(r) = Len(q) - 1
      /\ \A k \in 1 .. Len(r) : r[k] = q[k + 1] /\ k + 1 \in 1 .. Len(q)
  BY HeadTail
<1>2. \A k \in 2 .. Len(q) : k - 1 \in 1 .. Len(r) /\ r[k - 1] = q[k]
  BY <1>1
<1>. HIDE DEF r
<1>3. ASSUME NEW k \in 1 .. Len(r), Speaks(r[k], d),
             \A j \in k + 1 .. Len(r) : ~Speaks(r[j], d)
      PROVE  Puts(r[k], d) <=> d \in there
  <2>1. k + 1 \in 1 .. Len(q) /\ q[k + 1] = r[k]
    BY <1>1
  <2>2. ASSUME NEW j \in k + 1 + 1 .. Len(q) PROVE ~Speaks(q[j], d)
    <3>1. j \in 2 .. Len(q) /\ j - 1 \in k + 1 .. Len(r)
      BY <1>1
    <3>. QED  BY <1>2, <1>3, <3>1
  <2>. QED  BY <1>3, <2>1, <2>2 DEF LastIsTrue
<1>4. ASSUME Silent(r, d) PROVE \A j \in 2 .. Len(q) : ~Speaks(q[j], d)
  BY <1>2, <1>4 DEF Silent
<1>5. ASSUME Silent(r, d), Speaks(q[1], d) PROVE Puts(q[1], d) <=> d \in there
  <2>1. 1 \in 1 .. Len(q) /\ 1 + 1 = 2
    BY <1>1
  <2>. QED  BY <1>4, <1>5, <2>1 DEF LastIsTrue
<1>6. ASSUME Silent(r, d), ~Speaks(q[1], d) PROVE Silent(q, d)
  <2>1. \A j \in 1 .. Len(q) : j = 1 \/ j \in 2 .. Len(q)
    BY <1>1
  <2>. QED  BY <1>4, <1>6, <2>1 DEF Silent
<1>7. LastIsTrue(r, d, there)
  BY <1>3 DEF LastIsTrue
<1>. QED  BY <1>1, <1>5, <1>6, <1>7 DEF r

-----------------------------------------------------------------------------
(* A consumer's step leaves the others and what they own as it was.        *)
Untouched(x) ==
    /\ chan'[x] = chan[x] /\ pc'[x] = pc[x] /\ cur'[x] = cur[x] /\ todo'[x] = todo[x]
    /\ x \in subscribed' <=> x \in subscribed
    /\ x \in Scatters => routes'[x] = routes[x] /\ refused'[x] = refused[x]
    /\ x \in Batches => pool'[x] = pool[x]

Spared(n, c) ==
    /\ owner[n] # None => owner'[n] = owner[n]
    /\ owner[n] \notin {None, c} => inst'[n] = inst[n]

(* A health event touches one resource of its owner.                       *)
LEMMA SubmitSpares ==
    ASSUME TypeOK, NEW c, NEW n \in Names, NEW ids, NEW h, ResSubmit(n, ids, h), owner[n] = c
    PROVE  \A m \in Names : Spared(m, c)
<1>. QED  BY DEF ResSubmit, Spared, TypeOK, ResTypes

(* Which consumer owns what a device event of it marks.                    *)
LEMMA HandlerSpares ==
    ASSUME IInv, NEW s \in Scatters, NEW d \in Devices,
           ScatterAdded(s, d) \/ ScatterRemoved(s, d)
    PROVE  /\ \A n \in Names : Spared(n, s)
           /\ \A x \in Consumers \ {s} : pc'[x] = pc[x] /\ cur'[x] = cur[x]
           /\ \A x \in Scatters \ {s} : refused'[x] = refused[x]
<1>. USE DEF IInv, TypeOK
<1>1. CASE ScatterIgnores(s)
  BY <1>1 DEF ScatterIgnores, Onward, resVars, ConTypes, Spared
<1>2. CASE \E h \in {"own", "Unhealthy"} :
              Template[s][d] \in routes[s] /\ ScatterSubmits(s, d, h)
  <2>1. PICK h \in {"own", "Unhealthy"} :
              Template[s][d] \in routes[s] /\ ScatterSubmits(s, d, h)
    BY <1>2
  <2>2. Template[s][d] \in Names /\ owner[Template[s][d]] = s
    BY <2>1 DEF ConTypes, RouteIsServed
  <2>3. \A n \in Names : Spared(n, s)
    BY <2>1, <2>2, SubmitSpares DEF ScatterSubmits
  <2>4. \A x \in Consumers \ {s} : pc'[x] = pc[x] /\ cur'[x] = cur[x]
    BY <2>1 DEF ScatterSubmits, Onward, ConTypes
  <2>5. \A x \in Scatters \ {s} : refused'[x] = refused[x]
    BY <2>1 DEF ScatterSubmits, ConTypes
  <2>. QED  BY <2>3, <2>4, <2>5
<1>3. CASE ScatterAdds(s, d)
  BY <1>3 DEF ScatterAdds, resVars, ConTypes, Spared
<1>. QED  BY <1>1, <1>2, <1>3 DEF ScatterAdded, ScatterRemoved

(* The end of a failed Add is the affair of its consumer.                  *)
LEMMA RefusedSpares ==
    ASSUME ConTypes, NEW c \in Consumers, Refused(c)
    PROVE  /\ \A x \in Consumers \ {c} : pc'[x] = pc[x] /\ cur'[x] = cur[x]
           /\ \A x \in Scatters \ {c} : refused'[x] = refused[x]
<1>1. CASE c \in Batches
  BY <1>1 DEF Refused, ConTypes
<1>2. CASE c \notin Batches
  BY <1>2 DEF Refused, Onward, ConTypes
<1>. QED  BY <1>1, <1>2

(* Whatever a consumer does, the others stay as they are.                  *)
LEMMA OthersUntouched ==
    ASSUME IInv, NEW c \in Consumers, Consumer(c) \/ Cancel(c),
           c \in Batches /\ pc[c] \in {"tell", "withdraw"} => owner[BatchName[c]] = c
    PROVE  /\ UNCHANGED envVars
           /\ \A x \in Consumers \ {c} : Untouched(x)
           /\ \A n \in Names : Spared(n, c)
<1>. USE DEF IInv, TypeOK
<1>0. UNCHANGED envVars
  BY DEF Consumer, Subscribe, F!Join, Receive, F!Take, InitNext, Exit, AddStore, AddFails,
     RegisterOk, RegisterFails, BatchSubmit, Cancel, F!Leave, envVars
<1>1. CASE Subscribe(c) \/ Cancel(c) \/ Exit(c)
  BY <1>0, <1>1 DEF Subscribe, F!Join, Cancel, F!Leave, Exit, resVars, ConTypes, Untouched, Spared
<1>2. CASE AddStore(c)
  <2>1. NameOf(c) \in Names /\ owner[NameOf(c)] = None
    BY <1>2, AddedName DEF AddStore, AddingC
  <2>. QED  BY <1>0, <1>2, <2>1 DEF AddStore, ConTypes, ResTypes, Untouched, Spared
<1>3. CASE AddFails(c)
  BY <1>0, <1>3, RefusedSpares DEF AddFails, resVars, Untouched, Spared
<1>4. CASE RegisterFails(c)
  BY <1>0, <1>4, RefusedSpares DEF RegisterFails, Untouched, Spared
<1>5. CASE RegisterOk(c)
  <2>1. CASE c \in Batches
    BY <1>0, <1>5, <2>1, ScatterAssumption
       DEF RegisterOk, resVars, ConTypes, Untouched, Spared
  <2>2. CASE c \notin Batches
    BY <1>0, <1>5, <2>2 DEF RegisterOk, Onward, resVars, ConTypes, Untouched, Spared
  <2>. QED  BY <2>1, <2>2
<1>6. CASE c \in Batches /\ BatchSubmit(c)
  <2>1. BatchName[c] \in Names /\ owner[BatchName[c]] = c
    BY <1>6, ScatterAssumption DEF BatchSubmit
  <2>2. \A n \in Names : Spared(n, c)
    <3>1. PICK h : ResSubmit(BatchName[c], Seats, h)
      BY <1>6 DEF BatchSubmit
    <3>. QED  BY <2>1, <3>1, SubmitSpares
  <2>. QED  BY <1>0, <1>6, <2>2 DEF BatchSubmit, ConTypes, Untouched
<1>7. CASE Receive(c)
  <2>. DEFINE e == Head(chan[c])
  <2>0. e \in F!Event
    BY <1>7, HeadTail DEF Receive, F!Take, ConTypes
  <2>1. /\ Handle(c, e) /\ e.devs \subseteq Devices
        /\ UNCHANGED <<subscribed, routes>>
        /\ chan' = [chan EXCEPT ![c] = Tail(@)]
    BY <1>7, <2>0 DEF Receive, F!Take, F!Event
  <2>. HIDE DEF e
  <2>2. CASE /\ c \in Scatters
             /\ UNCHANGED <<todo, pool>>
             /\ \E d \in e.devs : ScatterAdded(c, d) \/ ScatterRemoved(c, d)
    BY <1>0, <2>1, <2>2, HandlerSpares DEF Untouched, ConTypes
  <2>3. CASE /\ c \in Batches
             /\ \E d \in e.devs : BatchAdded(c, d) \/ BatchRemoved(c, d)
             /\ UNCHANGED <<cur, todo, resVars, refused>>
    BY <1>0, <2>1, <2>3 DEF BatchAdded, BatchRemoved, PoolAdd, PoolRemove, resVars,
       ConTypes, Untouched, Spared
  <2>4. CASE /\ todo' = [todo EXCEPT ![c] = e.devs]
             /\ Onward(c)
             /\ UNCHANGED <<cur, pool, resVars, refused>>
    BY <1>0, <2>1, <2>4 DEF Onward, resVars, ConTypes, Untouched, Spared
  <2>. QED  BY <2>1, <2>2, <2>3, <2>4 DEF Handle
<1>8. CASE InitNext(c)
  <2>1. PICK d \in todo[c] :
            /\ todo' = [todo EXCEPT ![c] = @ \ {d}]
            /\ \/ c \in Scatters /\ ScatterAdded(c, d) /\ UNCHANGED pool
               \/ c \in Batches /\ BatchInit(c, d) /\ UNCHANGED <<cur, resVars, refused>>
    BY <1>8 DEF InitNext
  <2>2. d \in Devices /\ UNCHANGED <<subscribed, chan, routes>>
    BY <1>8 DEF InitNext, ConTypes
  <2>3. CASE c \in Scatters /\ ScatterAdded(c, d) /\ UNCHANGED pool
    BY <1>0, <2>1, <2>2, <2>3, HandlerSpares DEF Untouched, ConTypes
  <2>4. CASE c \in Batches /\ BatchInit(c, d) /\ UNCHANGED <<cur, resVars, refused>>
    BY <1>0, <2>1, <2>2, <2>4 DEF BatchInit, PoolAdd, resVars, ConTypes, Untouched, Spared
  <2>. QED  BY <2>1, <2>3, <2>4
<1>. QED  BY <1>0, <1>1, <1>2, <1>3, <1>4, <1>5, <1>6, <1>7, <1>8 DEF Consumer

(* So what holds of them still does.                                       *)
LEMMA UntouchedSound ==
    ASSUME IInv, NEW x \in Consumers, NEW c, Sound(x), x # c, Untouched(x),
           UNCHANGED envVars, \A n \in Names : Spared(n, c)
    PROVE  Sound(x)'
<1>. USE DEF Sound
<1>1. Place(x)' /\ Queued(x)'
  BY DEF Place, Queued, Fresh, AddingC, Untouched
<1>2. Unmarked(x)'
  <2>1. CASE pc[x] = "register"
    <3>1. NameOf(x) \in Names /\ owner[NameOf(x)] = x
      BY <2>1, AddedName DEF IInv, TypeOK, AddShape, AddingC
    <3>2. inst'[NameOf(x)] = inst[NameOf(x)]
      BY <3>1, ScatterAssumption DEF Spared
    <3>3. NameOf(x)' = NameOf(x) /\ IdsOf(x)' = IdsOf(x)
      BY DEF NameOf, IdsOf, Untouched
    <3>. QED  BY <3>2, <3>3 DEF Unmarked, Untouched
  <2>2. CASE pc[x] # "register"
    BY <2>2 DEF Unmarked, Untouched
  <2>. QED  BY <2>1, <2>2
<1>3. x \in Batches => Pooled(x)'
  BY ScatterAssumption DEF Pooled, Working, Untouched, Spared
<1>4. Tracked(x)'
  <2>1. ASSUME NEW d \in Devices
        PROVE  (Has(x, d) => Has(x, d)') /\ (Lacks(x, d) => Lacks(x, d)')
    <3>1. CASE x \in Scatters
      <4>1. x \notin Batches
        BY <3>1, ScatterAssumption
      <4>2. Cared(x, d)' <=> Cared(x, d)
        BY <3>1 DEF Cared, Shared, Untouched
      <4>3. ASSUME Template[x][d] \in routes[x]
            PROVE  inst'[Template[x][d]] = inst[Template[x][d]]
        <5>1. Template[x][d] \in Names /\ owner[Template[x][d]] = x
          BY <3>1, <4>3 DEF IInv, TypeOK, ConTypes, RouteIsServed
        <5>. QED  BY <5>1, ScatterAssumption DEF Spared
      <4>4. \A i \in Instances[d] : Offers(x, d, i)' <=> Offers(x, d, i)
        BY <3>1, <4>3 DEF Offers, AddingC, Untouched
      <4>. QED  BY <4>1, <4>2, <4>4 DEF Has, Lacks
    <3>2. CASE x \notin Scatters
      BY <3>2 DEF Has, Lacks, Untouched, Consumers
    <3>. QED  BY <3>1, <3>2
  <2>2. ASSUME NEW d \in Devices \ lost, x \in subscribed PROVE TrackedBy(x, d)'
    <3>1. TrackedBy(x, d)
      BY <2>2 DEF Tracked
    <3>2. LastIsTrue(chan[x], d, present)' /\ (Silent(chan[x], d)' => Silent(chan[x], d))
      BY <3>1 DEF TrackedBy, LastIsTrue, Silent, Untouched, envVars
    <3>. QED  BY <2>1, <3>1, <3>2 DEF TrackedBy, Untouched, envVars
  <2>. QED  BY <2>2 DEF Tracked, Untouched, envVars
<1>. QED  BY <1>1, <1>2, <1>3, <1>4
-----------------------------------------------------------------------------
(* The devices come and go.                                                *)

(* An event at the end of a queue is the last word of its device.          *)
LEMMA AppendWords ==
    ASSUME NEW q \in Seq(F!Event), NEW e \in F!Event, NEW d, NEW there,
           Speaks(e, d) => (Puts(e, d) <=> d \in there),
           ~Speaks(e, d) => LastIsTrue(q, d, there)
    PROVE  /\ LastIsTrue(Append(q, e), d, there)
           /\ Silent(Append(q, e), d) => ~Speaks(e, d) /\ Silent(q, d)
<1>. DEFINE r == Append(q, e)
<1>1. /\ Len(q) \in Nat /\ Len(r) = Len(q) + 1 /\ r[Len(q) + 1] = e
      /\ \A k \in 1 .. Len(q) : r[k] = q[k]
  OBVIOUS
<1>2. \A k \in 1 .. Len(r) : k \in 1 .. Len(q) \/ k = Len(r)
  BY <1>1
<1>3. Len(r) \in 1 .. Len(r) /\ \A k \in 1 .. Len(q) : k \in 1 .. Len(r)
  BY <1>1
<1>. HIDE DEF r
<1>4. ASSUME NEW k \in 1 .. Len(r), Speaks(r[k], d),
             \A j \in k + 1 .. Len(r) : ~Speaks(r[j], d)
      PROVE  Puts(r[k], d) <=> d \in there
  <2>1. CASE k = Len(r)
    BY <1>1, <1>4, <2>1
  <2>2. CASE k \in 1 .. Len(q)
    <3>1. Len(r) \in k + 1 .. Len(r) /\ \A j \in k + 1 .. Len(q) : j \in k + 1 .. Len(r)
      BY <1>1, <2>2
    <3>2. ~Speaks(e, d) /\ r[k] = q[k]
      BY <1>1, <1>4, <2>2, <3>1
    <3>3. \A j \in k + 1 .. Len(q) : r[j] = q[j]
      BY <1>1, <2>2
    <3>. QED  BY <1>4, <2>2, <3>1, <3>2, <3>3 DEF LastIsTrue
  <2>. QED  BY <1>2, <2>1, <2>2
<1>5. LastIsTrue(r, d, there)
  BY <1>4 DEF LastIsTrue
<1>6. ASSUME Silent(r, d) PROVE ~Speaks(e, d) /\ Silent(q, d)
  BY <1>1, <1>3, <1>6 DEF Silent
<1>. QED  BY <1>5, <1>6 DEF r

(* A device's event is queued for all or dropped for all.                  *)
LEMMA ChangeSound ==
    ASSUME IInv, NEW x \in Consumers, Sound(x), NEW d \in Devices, Appear(d) \/ Vanish(d)
    PROVE  Sound(x)'
<1>. USE DEF Sound
<1>1. PICK e \in F!Event \intersect {F!Added(d), F!Removed(d)} :
          /\ F!Tell(e) \/ F!Drop
          /\ e.devs = {d} /\ e.kind \in {"Added", "Removed"}
          /\ present' = IF e.kind = "Added" THEN present \union {d} ELSE present \ {d}
  BY ChangeTells
<1>2. /\ OneDevice(e) /\ (Puts(e, d) <=> d \in present')
      /\ \A f \in Devices : Speaks(e, f) <=> f = d
  BY <1>1 DEF OneDevice, Speaks, Puts
<1>3. \A f \in Devices \ {d} : f \in present' <=> f \in present
  BY <1>1
<1>4. /\ UNCHANGED <<subscribed, pc, cur, todo, routes, pool, owner, inst, refused>>
      /\ lost' = IF subscribed # {} /\ chan' = chan THEN lost \union {d} ELSE lost \ {d}
  BY ChangeTells DEF Changed, resVars
<1>5. /\ chan'[x] = chan[x] \/ chan'[x] = Append(chan[x], e)
      /\ x \in subscribed => chan' = chan \/ chan'[x] = Append(chan[x], e)
      /\ chan[x] \in Seq(F!Event)
  BY <1>1 DEF F!Tell, F!Drop, IInv, TypeOK, ConTypes
<1>6. Place(x)' /\ Unmarked(x)' /\ (x \in Batches => Pooled(x)')
  BY <1>4 DEF Place, Fresh, AddingC, Unmarked, NameOf, IdsOf, Pooled, Working
<1>7. Queued(x)'
  <2>1. ASSUME NEW k \in 1 .. Len(chan'[x]) PROVE k \in 1 .. Len(chan[x]) \/ chan'[x][k] = e
    BY <1>5
  <2>2. \A k \in 1 .. Len(chan[x]) : chan'[x][k] = chan[x][k]
    BY <1>5
  <2>3. Fresh(x)' <=> Fresh(x)
    BY <1>4 DEF Fresh
  <2>. QED  BY <1>2, <1>4, <2>1, <2>2, <2>3 DEF Queued, OneDevice
<1>8. ASSUME NEW f \in Devices \ lost', x \in subscribed PROVE TrackedBy(x, f)'
  <2>1. /\ (Has(x, f) => Has(x, f)') /\ (Lacks(x, f) => Lacks(x, f)')
    BY <1>4 DEF Has, Lacks, Cared, Shared, Offers, AddingC
  <2>2. CASE f = d
    <3>1. chan'[x] = Append(chan[x], e)
      BY <1>4, <1>5, <1>8, <2>2
    <3>. QED  BY <1>1, <1>2, <1>5, <2>2, <3>1, AppendWords DEF TrackedBy
  <2>3. CASE f # d
    <3>1. f \notin lost /\ TrackedBy(x, f) /\ (f \in present' <=> f \in present)
      BY <1>3, <1>4, <1>8, <2>3 DEF Tracked
    <3>2. LastIsTrue(chan[x], f, present')
      BY <3>1 DEF TrackedBy, LastIsTrue
    <3>3. LastIsTrue(chan'[x], f, present') /\ (Silent(chan'[x], f) => Silent(chan[x], f))
      <4>1. ~Speaks(e, f)
        BY <1>2, <2>3
      <4>2. CASE chan'[x] = chan[x]
        BY <3>2, <4>2
      <4>3. CASE chan'[x] = Append(chan[x], e)
        <5>1. /\ LastIsTrue(Append(chan[x], e), f, present')
              /\ Silent(Append(chan[x], e), f) => Silent(chan[x], f)
          BY <1>2, <1>5, <3>2, <4>1, AppendWords
        <5>. QED  BY <4>3, <5>1
      <4>. QED  BY <1>5, <4>2, <4>3
    <3>. QED  BY <1>4, <2>1, <3>1, <3>3 DEF TrackedBy
  <2>. QED  BY <2>2, <2>3
<1>9. Tracked(x)'
  BY <1>4, <1>8 DEF Tracked
<1>. QED  BY <1>6, <1>7, <1>9

(* The kubelet changes nothing of a consumer.                              *)
LEMMA KubeletSound ==
    ASSUME IInv, NEW x \in Consumers, Sound(x),
           KubeletStarts \/ HupEnds \/ \E n \in Names : Hup(n) \/ Watch(n) \/ Tell(n)
    PROVE  Sound(x)'
<1>1. UNCHANGED <<envVars, conVars, owner, inst, refused>>
  BY DEF KubeletStarts, HupEnds, Hup, Watch, Tell, resVars
<1>2. Untouched(x) /\ \A n \in Names : Spared(n, None)
  BY <1>1 DEF Untouched, Spared, conVars
<1>3. x # None
  BY ScatterAssumption
<1>. QED  BY <1>1, <1>2, <1>3, UntouchedSound
-----------------------------------------------------------------------------
(* A consumer's own step.                                                  *)

(* A subscription begins with the devices that are present.                *)
LEMMA SubscribeSound ==
    ASSUME IInv, NEW c \in Consumers, Sound(c), Subscribe(c)
    PROVE  Sound(c)'
<1>. USE DEF Sound
<1>1. /\ pc[c] = "subscribe" /\ pc'[c] = "idle"
      /\ chan'[c] = <<F!Start(present)>>
      /\ UNCHANGED <<present, lost, cur, todo, routes, pool, owner, inst, refused>>
  BY DEF Subscribe, F!Join, IInv, TypeOK, ConTypes, resVars
<1>2. Fresh(c) /\ Fresh(c)'
  BY <1>1 DEF Place, Fresh
<1>3. /\ Len(chan'[c]) = 1 /\ chan'[c][1] = F!Start(present)
      /\ \A k \in 1 .. Len(chan'[c]) : k = 1
  BY <1>1
<1>4. Place(c)' /\ Unmarked(c)'
  BY <1>1, <1>2 DEF Place, Fresh, AddingC, Unmarked
<1>5. Queued(c)'
  BY <1>1, <1>2, <1>3 DEF Queued, F!Start
<1>6. c \in Batches => Pooled(c)'
  BY <1>1, <1>2 DEF Pooled, Working, Fresh
<1>7. ASSUME NEW d \in Devices PROVE TrackedBy(c, d)'
  <2>1. /\ Speaks(F!Start(present), d)
        /\ Puts(F!Start(present), d) <=> d \in present'
    BY <1>1 DEF Speaks, Puts, F!Start
  <2>2. LastIsTrue(chan'[c], d, present') /\ ~Silent(chan'[c], d)
    BY <1>3, <2>1 DEF LastIsTrue, Silent
  <2>. QED  BY <2>2 DEF TrackedBy
<1>. QED  BY <1>4, <1>5, <1>6, <1>7 DEF Tracked

(* A consumer that is cancelled, and one that ends.                        *)
LEMMA LeaveSound ==
    ASSUME IInv, NEW c \in Consumers, Sound(c), Cancel(c) \/ Exit(c)
    PROVE  Sound(c)'
<1>. USE DEF Sound
<1>1. /\ UNCHANGED <<chan, cur, todo, routes, pool, owner, inst, refused>>
      /\ c \notin subscribed'
      /\ pc'[c] = pc[c] \/ (pc[c] = "idle" /\ pc'[c] = "exited" /\ chan[c] = <<>>)
  BY DEF Cancel, F!Leave, Exit, IInv, TypeOK, ConTypes, resVars
<1>2. Place(c)'
  BY <1>1 DEF Place, Fresh, AddingC
<1>3. Queued(c)'
  BY <1>1 DEF Queued, Fresh
<1>4. Unmarked(c)' /\ (c \in Batches => Pooled(c)')
  BY <1>1 DEF Unmarked, NameOf, IdsOf, Pooled, Working
<1>. QED  BY <1>1, <1>2, <1>3, <1>4 DEF Tracked

(* What a consumer that was not idle has in its queue is about one device  *)
(* each.                                                                   *)
LEMMA QueuedLater ==
    ASSUME NEW c, Queued(c), pc[c] # "idle", chan'[c] = chan[c]
    PROVE  Queued(c)'
<1>. QED  BY DEF Queued, OneDevice

(* What it knows of a device does not change with the place alone.         *)
LEMMA StillTracked ==
    ASSUME NEW c \in Consumers, Tracked(c), UNCHANGED <<present, lost, subscribed>>,
           chan'[c] = chan[c], todo'[c] = todo[c],
           \A d \in Devices : (Has(c, d) => Has(c, d)') /\ (Lacks(c, d) => Lacks(c, d)')
    PROVE  Tracked(c)'
<1>1. ASSUME c \in subscribed, NEW d \in Devices \ lost PROVE TrackedBy(c, d)'
  <2>1. TrackedBy(c, d)
    BY <1>1 DEF Tracked
  <2>. QED  BY <2>1 DEF TrackedBy
<1>. QED  BY <1>1 DEF Tracked

(* A resource is stored under a name that was nobody's.                    *)
LEMMA AddStoreSound ==
    ASSUME IInv, NEW c \in Consumers, Sound(c), AddStore(c)
    PROVE  Sound(c)'
<1>. USE DEF Sound
<1>. DEFINE name == NameOf(c)
<1>1. /\ pc[c] = "store" /\ pc'[c] = "register"
      /\ UNCHANGED <<present, lost, subscribed, chan, cur, todo, routes, pool, refused>>
      /\ name \in Names /\ owner[name] = None
      /\ owner' = [owner EXCEPT ![name] = c]
      /\ inst' = [inst EXCEPT ![name] = [i \in Ids |-> IF i \in IdsOf(c) THEN "own" ELSE "none"]]
  BY AddedName DEF AddStore, AddingC, IInv, TypeOK, ConTypes, envVars
<1>2. NameOf(c)' = name /\ IdsOf(c)' = IdsOf(c)
  BY <1>1 DEF NameOf, IdsOf
<1>. HIDE DEF name
<1>3. Place(c)' /\ Queued(c)'
  BY <1>1, QueuedLater DEF Place, Fresh, AddingC
<1>4. Unmarked(c)'
  BY <1>1, <1>2 DEF Unmarked, IInv, TypeOK, ResTypes
<1>5. c \in Batches => Pooled(c)'
  BY <1>1 DEF Pooled, Working
<1>6. ASSUME NEW d \in Devices
      PROVE  (Has(c, d) => Has(c, d)') /\ (Lacks(c, d) => Lacks(c, d)')
  <2>1. CASE c \in Scatters
    <3>1. c \notin Batches /\ (Cared(c, d)' <=> Cared(c, d))
      BY <1>1, <2>1, ScatterAssumption DEF Cared, Shared
    <3>2. Template[c][d] \in routes[c] => inst'[Template[c][d]] = inst[Template[c][d]]
      <4>1. Template[c][d] \in routes[c] => Template[c][d] # name
        BY <1>1, <2>1, ScatterAssumption DEF IInv, RouteIsServed
      <4>. QED  BY <1>1, <2>1, <4>1 DEF IInv, TypeOK, ConTypes, ResTypes
    <3>3. \A i \in Instances[d] : Offers(c, d, i)' <=> Offers(c, d, i)
      BY <1>1, <3>2 DEF Offers, AddingC
    <3>. QED  BY <3>1, <3>3 DEF Has, Lacks
  <2>2. CASE c \notin Scatters
    BY <1>1, <2>2 DEF Has, Lacks
  <2>. QED  BY <2>1, <2>2
<1>7. Tracked(c)'
  BY <1>1, <1>6, StillTracked
<1>. QED  BY <1>3, <1>4, <1>5, <1>7

(* An Add that fails excuses the device it was for.                        *)
LEMMA AddEndsSound ==
    ASSUME IInv, NEW c \in Consumers, Sound(c), AddFails(c) \/ RegisterFails(c)
    PROVE  Sound(c)'
<1>. USE DEF Sound
<1>1. /\ AddingC(c) /\ Refused(c)
      /\ UNCHANGED <<present, lost, subscribed, chan, todo, routes, pool, owner, inst>>
  BY DEF AddFails, RegisterFails, AddingC, envVars, resVars
<1>2. pc[c] \notin {"idle", "init", "subscribe", "dead", "exited", "tell", "withdraw"}
  BY <1>1 DEF AddingC
<1>3. CASE c \in Batches
  <2>1. pc'[c] = "dead" /\ c \notin Scatters
    BY <1>1, <1>3, ScatterAssumption DEF Refused, IInv, TypeOK, ConTypes
  <2>2. Fresh(c) /\ c \notin subscribed'
    BY <1>1, <1>3 DEF Place
  <2>3. Place(c)'
    BY <1>1, <2>1, <2>2 DEF Place, Fresh, AddingC
  <2>4. Queued(c)'
    BY <1>1, <1>2, QueuedLater
  <2>. QED  BY <1>1, <2>1, <2>2, <2>3, <2>4 DEF Unmarked, Tracked, Pooled, Working
<1>4. CASE c \notin Batches
  <2>1. c \in Scatters /\ cur[c] \in Devices
    BY <1>1, <1>4 DEF Consumers, IInv, AddShape
  <2>2. /\ cur'[c] = None
        /\ refused'[c] = refused[c] \union {cur[c]}
        /\ pc'[c] = IF todo[c] = {} THEN "idle" ELSE "init"
    BY <1>1, <1>4, <2>1 DEF Refused, Onward, IInv, TypeOK, ConTypes
  <2>3. Place(c)' /\ Unmarked(c)'
    BY <1>1, <1>4, <2>1, <2>2 DEF Place, AddingC, Unmarked
  <2>4. Queued(c)'
    BY <1>1, <1>2, QueuedLater
  <2>5. ASSUME NEW d \in Devices
        PROVE  (Has(c, d) => Has(c, d)') /\ (Lacks(c, d) => Lacks(c, d)')
    <3>1. Cared(c, d)' => Cared(c, d) /\ d # cur[c]
      BY <2>2 DEF Cared, Shared
    <3>2. ASSUME d # cur[c]
          PROVE  \A i \in Instances[d] : Offers(c, d, i)' <=> Offers(c, d, i)
      BY <1>1, <2>2, <3>2 DEF Offers, AddingC
    <3>. QED  BY <1>4, <3>1, <3>2 DEF Has, Lacks
  <2>6. Tracked(c)'
    BY <1>1, <2>5, StillTracked
  <2>. QED  BY <1>4, <2>3, <2>4, <2>6
<1>. QED  BY <1>3, <1>4

(* The new route offers what the resource was made with.                   *)
LEMMA RegisterOkSound ==
    ASSUME IInv, NEW c \in Consumers, Sound(c), RegisterOk(c)
    PROVE  Sound(c)'
<1>. USE DEF Sound
<1>1. /\ pc[c] = "register" /\ AddingC(c)
      /\ UNCHANGED <<present, lost, subscribed, chan, todo, pool, owner, inst, refused>>
  BY DEF RegisterOk, AddingC, envVars, resVars
<1>2. pc[c] # "idle" /\ Queued(c)'
  BY <1>1, QueuedLater
<1>3. CASE c \in Batches
  <2>1. pc'[c] = "subscribe" /\ c \notin Scatters
    BY <1>3, ScatterAssumption DEF RegisterOk, IInv, TypeOK, ConTypes
  <2>2. Fresh(c) /\ Fresh(c)' /\ c \notin subscribed'
    BY <1>1, <1>3, <2>1 DEF Place, Fresh
  <2>3. Place(c)' /\ Unmarked(c)' /\ Tracked(c)'
    BY <2>1, <2>2 DEF Place, Fresh, AddingC, Unmarked, Tracked
  <2>4. NameOf(c) = BatchName[c] /\ IdsOf(c) = Seats
    BY <1>3 DEF NameOf, IdsOf
  <2>5. /\ owner[BatchName[c]] = c
        /\ \A i \in Ids \ Seats : inst[BatchName[c]][i] = "none"
    BY <1>1, <2>4 DEF IInv, AddShape, Unmarked
  <2>6. Pooled(c)'
    BY <1>1, <1>3, <2>1, <2>5 DEF Pooled, Working
  <2>. QED  BY <1>2, <2>3, <2>6
<1>4. CASE c \notin Batches
  <2>. DEFINE x == cur[c]  name == Template[c][x]
  <2>1. /\ c \in Scatters /\ x \in Devices
        /\ name \in Names \ routes[c] /\ NameOf(c) = name /\ IdsOf(c) = Instances[x]
    BY <1>1, <1>4 DEF Consumers, IInv, AddShape, NameOf, IdsOf
  <2>2. /\ cur'[c] = None
        /\ routes'[c] = routes[c] \union {name}
        /\ pc'[c] = IF todo[c] = {} THEN "idle" ELSE "init"
    BY <1>1, <1>4, <2>1 DEF RegisterOk, Onward, IInv, TypeOK, ConTypes
  <2>3. \A i \in Ids : inst[name][i] = IF i \in Instances[x] THEN "own" ELSE "none"
    BY <1>1, <2>1 DEF Unmarked
  <2>4. Place(c)' /\ Unmarked(c)'
    BY <1>1, <1>4, <2>1, <2>2 DEF Place, AddingC, Unmarked
  <2>5. ASSUME NEW d \in Devices
        PROVE  (Has(c, d) => Has(c, d)') /\ (Lacks(c, d) => Lacks(c, d)')
    <3>1. Cared(c, d)' <=> Cared(c, d)
      BY <1>1 DEF Cared, Shared
    <3>2. \A i \in Instances[d] : i \in Ids
      BY ScatterAssumption
    <3>3. ASSUME Cared(c, d), NEW i \in Instances[d] PROVE Offers(c, d, i)' <=> Offers(c, d, i)
      <4>1. CASE d = x
        BY <1>1, <2>2, <2>3, <3>2, <4>1 DEF Offers
      <4>2. CASE d # x /\ Template[c][d] # name
        BY <1>1, <2>2, <4>2 DEF Offers, AddingC
      <4>3. CASE d # x /\ Template[c][d] = name
        <5>1. i \notin Instances[x]
          BY <2>1, <3>3, <4>3 DEF Cared, Shared
        <5>2. ~Offers(c, d, i)
          BY <1>1, <2>1, <4>3 DEF Offers
        <5>3. ~Offers(c, d, i)'
          BY <1>1, <2>2, <2>3, <3>2, <4>3, <5>1 DEF Offers, AddingC
        <5>. QED  BY <5>2, <5>3
      <4>. QED  BY <4>1, <4>2, <4>3
    <3>. QED  BY <1>4, <3>1, <3>3 DEF Has, Lacks
  <2>6. Tracked(c)'
    BY <1>1, <2>5, StillTracked
  <2>. QED  BY <1>2, <1>4, <2>4, <2>6
<1>. QED  BY <1>3, <1>4

(* A batch tells its seats, Unhealthy only while the pool is empty.        *)
LEMMA BatchSubmitSound ==
    ASSUME IInv, NEW c \in Consumers, Sound(c), c \in Batches, BatchSubmit(c)
    PROVE  Sound(c)'
<1>. USE DEF Sound
<1>. DEFINE n == BatchName[c]  h == IF pc[c] = "tell" THEN "own" ELSE "Unhealthy"
<1>1. /\ pc[c] \in {"tell", "withdraw"} /\ pc'[c] = "idle" /\ c \notin Scatters
      /\ UNCHANGED <<present, lost, subscribed, chan, todo, pool>>
      /\ ResSubmit(n, Seats, h)
  BY ScatterAssumption DEF BatchSubmit, IInv, TypeOK, ConTypes, envVars
<1>2. n \in Names /\ Seats \subseteq Ids
  BY ScatterAssumption
<1>3. /\ owner' = owner
      /\ \A i \in Ids : inst'[n][i] = IF i \in Seats THEN h ELSE inst[n][i]
  BY <1>1, <1>2 DEF ResSubmit, Overridden, IInv, TypeOK, ResTypes
<1>4. Place(c)' /\ Unmarked(c)' /\ Queued(c)'
  BY <1>1, QueuedLater DEF Place, Unmarked, AddingC
<1>5. Pooled(c)'
  BY <1>1, <1>2, <1>3 DEF Pooled, Working
<1>6. Tracked(c)'
  BY <1>1, StillTracked DEF Has, Lacks
<1>. QED  BY <1>4, <1>5, <1>6
-----------------------------------------------------------------------------
(* A device event.  A health event of one device leaves the instances of   *)
(* the others alone, unless they share an id.                              *)
Keeps(c, e) == (Has(c, e) => Has(c, e)') /\ (Lacks(c, e) => Lacks(c, e)')

(* A health event of a device marks its instances and no others.           *)
LEMMA SubmitMarks ==
    ASSUME IInv, NEW s \in Scatters, NEW d \in Devices, NEW h \in {"own", "Unhealthy"},
           Template[s][d] \in routes[s], ScatterSubmits(s, d, h),
           pc[s] \in {"idle", "init"}, UNCHANGED routes
    PROVE  /\ h = "own" => Has(s, d)'
           /\ h # "own" => Lacks(s, d)'
           /\ \A e \in Devices \ {d} : Keeps(s, e)
<1>. DEFINE n == Template[s][d]
<1>1. n \in Names /\ Instances[d] \subseteq Ids /\ s \notin Batches
  BY ScatterAssumption DEF IInv, TypeOK, ConTypes
<1>2. /\ \A i \in Ids : inst'[n][i] = IF i \in Instances[d] THEN h ELSE inst[n][i]
      /\ \A m \in Names \ {n} : inst'[m] = inst[m]
  BY <1>1 DEF ScatterSubmits, ResSubmit, Overridden, IInv, TypeOK, ResTypes
<1>3. /\ pc'[s] \in {"idle", "init"} /\ ~AddingC(s) /\ ~AddingC(s)'
      /\ \A e \in Devices \ {d} : e \in refused'[s] <=> e \in refused[s]
  BY DEF ScatterSubmits, Onward, AddingC, IInv, TypeOK, ConTypes, Consumers
<1>4. \A i \in Instances[d] : Offers(s, d, i)' <=> h = "own"
  BY <1>1, <1>2, <1>3 DEF Offers
<1>5. ASSUME NEW e \in Devices \ {d} PROVE Keeps(s, e)
  <2>1. Cared(s, e)' <=> Cared(s, e)
    BY <1>3 DEF Cared, Shared
  <2>2. ASSUME Cared(s, e), NEW i \in Instances[e] PROVE Offers(s, e, i)' <=> Offers(s, e, i)
    <3>1. i \in Ids
      BY ScatterAssumption
    <3>2. inst'[Template[s][e]][i] = inst[Template[s][e]][i]
      <4>1. CASE Template[s][e] = n
        <5>1. i \notin Instances[d]
          BY <2>2, <4>1 DEF Cared, Shared
        <5>. QED  BY <1>2, <3>1, <4>1, <5>1
      <4>2. CASE Template[s][e] # n
        BY <1>2, <2>2, <4>2 DEF Cared
      <4>. QED  BY <4>1, <4>2
    <3>. QED  BY <1>3, <3>2 DEF Offers
  <2>. QED  BY <1>1, <2>1, <2>2 DEF Keeps, Has, Lacks
<1>. QED  BY <1>1, <1>4, <1>5 DEF Has, Lacks

(* A step that ignores the device, or begins an Add for it.                *)
LEMMA ScatterRest ==
    ASSUME IInv, NEW s \in Scatters, NEW d \in Devices,
           pc[s] \in {"idle", "init"}, UNCHANGED routes,
           ScatterIgnores(s) \/ ScatterAdds(s, d)
    PROVE  /\ ScatterAdds(s, d) => Has(s, d)'
           /\ ScatterIgnores(s) /\ Template[s][d] \notin routes[s] => Lacks(s, d)'
           /\ \A e \in Devices \ {d} : Keeps(s, e)
<1>1. s \notin Batches /\ ~AddingC(s) /\ UNCHANGED <<inst, refused>>
  BY ScatterAssumption DEF ScatterIgnores, ScatterAdds, AddingC, resVars
<1>2. AddingC(s)' => cur'[s] = d
  BY DEF ScatterIgnores, ScatterAdds, Onward, AddingC, IInv, TypeOK, ConTypes, Consumers
<1>3. ASSUME NEW e \in Devices \ {d} PROVE Keeps(s, e)
  <2>1. \A i \in Instances[e] : Offers(s, e, i)' <=> Offers(s, e, i)
    BY <1>1, <1>2 DEF Offers
  <2>2. Cared(s, e)' <=> Cared(s, e)
    BY <1>1 DEF Cared, Shared
  <2>. QED  BY <1>1, <2>1, <2>2 DEF Keeps, Has, Lacks
<1>4. ASSUME ScatterAdds(s, d) PROVE Has(s, d)'
  <2>1. AddingC(s)' /\ cur'[s] = d
    BY <1>4 DEF ScatterAdds, AddingC, IInv, TypeOK, ConTypes, Consumers
  <2>. QED  BY <1>1, <2>1 DEF Has, Offers
<1>5. ASSUME ScatterIgnores(s), Template[s][d] \notin routes[s] PROVE Lacks(s, d)'
  <2>1. ~AddingC(s)'
    BY <1>5 DEF ScatterIgnores, Onward, AddingC, IInv, TypeOK, ConTypes, Consumers
  <2>. QED  BY <1>1, <1>5, <2>1 DEF Lacks, Offers
<1>. QED  BY <1>3, <1>4, <1>5

(* A scatter that has handled Added offers the device, or excuses it.      *)
LEMMA AddedMakes ==
    ASSUME IInv, NEW s \in Scatters, NEW d \in Devices,
           pc[s] \in {"idle", "init"}, UNCHANGED routes, ScatterAdded(s, d)
    PROVE  Has(s, d)' /\ \A e \in Devices \ {d} : Keeps(s, e)
<1>1. CASE Template[s][d] \notin Names /\ ScatterIgnores(s)
  <2>1. Has(s, d)'
    BY <1>1, ScatterAssumption DEF Has, Cared
  <2>. QED  BY <1>1, <2>1, ScatterRest
<1>2. CASE Template[s][d] \in routes[s] /\ ScatterSubmits(s, d, "own")
  BY <1>2, SubmitMarks
<1>3. CASE ScatterAdds(s, d)
  BY <1>3, ScatterRest
<1>. QED  BY <1>1, <1>2, <1>3 DEF ScatterAdded

(* A scatter that has handled Removed offers it no longer.                 *)
LEMMA RemovedMakes ==
    ASSUME IInv, NEW s \in Scatters, NEW d \in Devices,
           pc[s] \in {"idle", "init"}, UNCHANGED routes, ScatterRemoved(s, d)
    PROVE  Lacks(s, d)' /\ \A e \in Devices \ {d} : Keeps(s, e)
<1>1. CASE Template[s][d] \notin routes[s] /\ ScatterIgnores(s)
  BY <1>1, ScatterRest
<1>2. CASE Template[s][d] \in routes[s] /\ ScatterSubmits(s, d, "Unhealthy")
  BY <1>2, SubmitMarks
<1>. QED  BY <1>1, <1>2 DEF ScatterRemoved

(* The pool takes a device that matches and lets it go.                    *)
LEMMA PoolMakes ==
    ASSUME IInv, NEW b \in Batches, NEW d \in Devices, PoolAdd(b, d) \/ PoolRemove(b, d)
    PROVE  /\ PoolAdd(b, d) => Has(b, d)'
           /\ PoolRemove(b, d) => Lacks(b, d)'
           /\ \A e \in Devices \ {d} : Keeps(b, e)
<1>. QED  BY ScatterAssumption DEF PoolAdd, PoolRemove, Matches, Keeps, Has, Lacks,
          IInv, TypeOK, ConTypes

-----------------------------------------------------------------------------
(* Where a consumer is after a device.                                     *)
LEMMA ScatterGoes ==
    ASSUME IInv, NEW s \in Scatters, NEW d \in Devices,
           ScatterAdded(s, d) \/ ScatterRemoved(s, d)
    PROVE  pc'[s] = "store" \/ (pc'[s] = IF todo'[s] = {} THEN "idle" ELSE "init")
<1>. QED  BY DEF ScatterAdded, ScatterRemoved, ScatterIgnores, ScatterSubmits, ScatterAdds,
          Onward, IInv, TypeOK, ConTypes, Consumers

(* A scatter that has handled a device is as it should be, but for what it *)
(* knows.                                                                  *)
LEMMA ScatterSound ==
    ASSUME IInv, NEW s \in Scatters, NEW d \in Devices, Place(s),
           ScatterAdded(s, d) \/ ScatterRemoved(s, d),
           pc[s] \in {"idle", "init"}
    PROVE  Place(s)' /\ Unmarked(s)'
<1>1. s \in Consumers /\ s \notin Batches
  BY ScatterAssumption DEF Consumers
<1>. QED  BY <1>1, ScatterGoes DEF Place, AddingC, Unmarked

(* The same of a batch, whose seats are told when its pool turns.          *)
LEMMA BatchSound ==
    ASSUME IInv, NEW b \in Batches, NEW d \in Devices, Place(b), Pooled(b),
           UNCHANGED <<owner, inst>>,
           \/ /\ pc[b] = "idle" /\ todo'[b] = {}
              /\ BatchAdded(b, d) \/ BatchRemoved(b, d)
           \/ pc[b] = "init" /\ BatchInit(b, d)
    PROVE  Place(b)' /\ Unmarked(b)' /\ Pooled(b)'
<1>. DEFINE in == Matches(b, d)
<1>1. b \in Consumers /\ b \notin Scatters
  BY ScatterAssumption DEF Consumers
<1>2. Working(b) /\ BatchName[b] \in Names
  BY ScatterAssumption DEF Working
<1>3. CASE pc[b] = "idle" /\ todo'[b] = {} /\ BatchAdded(b, d)
  <2>1. /\ pool'[b] = IF in THEN pool[b] \union {d} ELSE pool[b]
        /\ pc'[b] = IF in /\ pool[b] = {} THEN "tell" ELSE "idle"
    BY <1>1, <1>3 DEF BatchAdded, PoolAdd, WasEmpty, IInv, TypeOK, ConTypes
  <2>2. pool'[b] \subseteq Matched[b]
    BY <2>1 DEF Pooled, Matches
  <2>3. pc'[b] = "idle" /\ pool'[b] # {} => pool[b] # {}
    BY <2>1
  <2>. QED  BY <1>1, <1>2, <1>3, <2>1, <2>2, <2>3 DEF Place, AddingC, Unmarked, Pooled, Working
<1>4. CASE pc[b] = "idle" /\ todo'[b] = {} /\ BatchRemoved(b, d)
  <2>1. /\ pool'[b] = IF in THEN pool[b] \ {d} ELSE pool[b]
        /\ pc'[b] = IF in /\ pool'[b] = {} THEN "withdraw" ELSE "idle"
    BY <1>1, <1>4 DEF BatchRemoved, PoolRemove, IInv, TypeOK, ConTypes
  <2>2. pool'[b] \subseteq Matched[b]
    BY <2>1 DEF Pooled
  <2>3. pool'[b] # {} => pool[b] # {}
    BY <2>1
  <2>. QED  BY <1>1, <1>2, <1>4, <2>1, <2>2, <2>3 DEF Place, AddingC, Unmarked, Pooled, Working
<1>5. CASE pc[b] = "init" /\ BatchInit(b, d)
  <2>1. /\ pool'[b] = IF in THEN pool[b] \union {d} ELSE pool[b]
        /\ pc'[b] = IF todo'[b] # {} THEN "init" ELSE IF pool'[b] = {} THEN "idle" ELSE "tell"
    BY <1>1, <1>5 DEF BatchInit, PoolAdd, IInv, TypeOK, ConTypes
  <2>2. pool'[b] \subseteq Matched[b]
    BY <2>1 DEF Pooled, Matches
  <2>. QED  BY <1>1, <1>2, <1>5, <2>1, <2>2 DEF Place, AddingC, Unmarked, Pooled, Working
<1>. QED  BY <1>3, <1>4, <1>5

(* What remains of a queue.                                                *)
LEMMA QueuedTail ==
    ASSUME NEW c, Queued(c), chan[c] \in Seq(F!Event), chan[c] # <<>>, chan'[c] = Tail(chan[c])
    PROVE  Queued(c)'
<1>1. ASSUME NEW k \in 1 .. Len(chan'[c]) PROVE OneDevice(chan'[c][k])
  <2>1. chan'[c][k] = chan[c][k + 1] /\ k + 1 \in 1 .. Len(chan[c]) /\ k + 1 # 1
    BY HeadTail
  <2>. QED  BY <2>1 DEF Queued
<1>. QED  BY <1>1 DEF Queued, OneDevice

(* The event that a consumer takes.                                        *)
LEMMA ReceiveSound ==
    ASSUME IInv, NEW c \in Consumers, Sound(c), Receive(c)
    PROVE  Sound(c)'
<1>. USE DEF Sound
<1>. DEFINE q == chan[c]  e == Head(chan[c])
<1>1. /\ q \in Seq(F!Event) /\ q # <<>> /\ e = q[1] /\ 1 \in 1 .. Len(q) /\ pc[c] = "idle"
      /\ Handle(c, e) /\ chan'[c] = Tail(q)
      /\ UNCHANGED <<present, lost, subscribed, routes>>
  BY HeadTail DEF Receive, F!Take, envVars, IInv, TypeOK, ConTypes
<1>2. Queued(c)'
  BY <1>1, QueuedTail
<1>3. todo[c] = {} /\ e.devs \subseteq Devices
  BY <1>1, HeadTail DEF Place, AddingC, F!Event
<1>4. /\ e.kind # "Init" => OneDevice(e)
      /\ OneDevice(e) => e.kind # "Init"
      /\ OneDevice(e) \/ Fresh(c)
  <2>1. \/ OneDevice(e)
        \/ e.kind = "Init" /\ Fresh(c)
    BY <1>1 DEF Queued
  <2>2. OneDevice(e) => e.kind # "Init"
    BY DEF OneDevice, F!Added, F!Removed
  <2>. QED  BY <2>1, <2>2
<1>5. ASSUME NEW d \in Devices \ lost, c \in subscribed
      PROVE  /\ LastIsTrue(chan'[c], d, present)
             /\ Silent(chan'[c], d) /\ Speaks(e, d) => (Puts(e, d) <=> d \in present)
             /\ Silent(chan'[c], d) /\ ~Speaks(e, d) => Silent(chan[c], d)
  <2>1. LastIsTrue(chan[c], d, present)
    BY <1>5 DEF Tracked, TrackedBy
  <2>. QED  BY <1>1, <2>1, TailWords
<1>. HIDE DEF q, e
<1>6. CASE e.kind = "Init"
  <2>1. Fresh(c)
    BY <1>4, <1>6
  <2>2. /\ todo'[c] = e.devs /\ pc'[c] = IF e.devs = {} THEN "idle" ELSE "init"
        /\ UNCHANGED <<cur, pool, owner, inst, refused>>
    BY <1>1, <1>6 DEF Handle, Onward, resVars, IInv, TypeOK, ConTypes
  <2>3. Place(c)' /\ Unmarked(c)' /\ (c \in Batches => Pooled(c)')
    BY <1>1, <2>1, <2>2 DEF Place, AddingC, Unmarked, Pooled, Working, Fresh
  <2>4. ASSUME NEW d \in Devices \ lost, c \in subscribed PROVE TrackedBy(c, d)'
    <3>1. Lacks(c, d)'
      BY <1>1, <2>1, <2>2 DEF Lacks, Fresh, Offers, AddingC
    <3>2. Speaks(e, d) /\ (Puts(e, d) <=> d \in e.devs)
      BY <1>6 DEF Speaks, Puts
    <3>. QED  BY <1>1, <1>5, <2>2, <2>4, <3>1, <3>2 DEF TrackedBy
  <2>. QED  BY <1>1, <1>2, <2>3, <2>4 DEF Tracked
<1>7. CASE e.kind # "Init"
  <2>1. PICK d \in Devices : e \in {F!Added(d), F!Removed(d)}
    BY <1>4, <1>7 DEF OneDevice
  <2>2. e.devs = {d} /\ (Puts(e, d) <=> e.kind = "Added") /\ \A f : Speaks(e, f) <=> f = d
    BY <2>1 DEF F!Added, F!Removed, Puts, Speaks
  <2>3. /\ Place(c)' /\ Unmarked(c)' /\ (c \in Batches => Pooled(c)')
        /\ todo'[c] = {}
        /\ IF e.kind = "Added" THEN Has(c, d)' ELSE Lacks(c, d)'
        /\ \A f \in Devices \ {d} : Keeps(c, f)
    <3>1. CASE c \in Scatters
      <4>1. /\ c \notin Batches /\ todo' = todo
            /\ IF e.kind = "Added" THEN ScatterAdded(c, d) ELSE ScatterRemoved(c, d)
        BY <1>1, <1>7, <2>2, <3>1, ScatterAssumption DEF Handle
      <4>2. Place(c)' /\ Unmarked(c)'
        BY <1>1, <3>1, <4>1, ScatterSound
      <4>. QED  BY <1>1, <1>3, <3>1, <4>1, <4>2, AddedMakes, RemovedMakes
    <3>2. CASE c \in Batches
      <4>1. /\ UNCHANGED <<todo, owner, inst>>
            /\ IF e.kind = "Added" THEN BatchAdded(c, d) ELSE BatchRemoved(c, d)
        BY <1>1, <1>7, <2>2, <3>2, ScatterAssumption DEF Handle, resVars
      <4>2. Place(c)' /\ Unmarked(c)' /\ Pooled(c)'
        BY <1>1, <1>3, <3>2, <4>1, BatchSound
      <4>. QED  BY <1>3, <3>2, <4>1, <4>2, PoolMakes DEF BatchAdded, BatchRemoved
    <3>. QED  BY <3>1, <3>2 DEF Consumers
  <2>4. ASSUME NEW f \in Devices \ lost, c \in subscribed PROVE TrackedBy(c, f)'
    <3>1. CASE f = d
      BY <1>1, <1>5, <2>2, <2>3, <2>4, <3>1 DEF TrackedBy
    <3>2. CASE f # d
      <4>1. TrackedBy(c, f) /\ Keeps(c, f)
        BY <2>3, <2>4, <3>2 DEF Tracked
      <4>. QED  BY <1>1, <1>3, <1>5, <2>2, <2>3, <2>4, <3>2, <4>1 DEF TrackedBy, Keeps
    <3>. QED  BY <3>1, <3>2
  <2>. QED  BY <1>1, <1>2, <2>3, <2>4 DEF Tracked
<1>. QED  BY <1>6, <1>7

(* A device of the Init event.                                             *)
LEMMA InitNextSound ==
    ASSUME IInv, NEW c \in Consumers, Sound(c), InitNext(c)
    PROVE  Sound(c)'
<1>. USE DEF Sound
<1>1. PICK d \in todo[c] :
          /\ todo' = [todo EXCEPT ![c] = @ \ {d}]
          /\ \/ c \in Scatters /\ ScatterAdded(c, d) /\ UNCHANGED pool
             \/ c \in Batches /\ BatchInit(c, d) /\ UNCHANGED <<cur, resVars, refused>>
  BY DEF InitNext
<1>2. /\ pc[c] = "init" /\ d \in Devices
      /\ todo'[c] = todo[c] \ {d}
      /\ UNCHANGED <<present, lost, subscribed, chan, routes>>
  BY <1>1 DEF InitNext, envVars, IInv, TypeOK, ConTypes
<1>3. /\ Place(c)' /\ Unmarked(c)' /\ (c \in Batches => Pooled(c)')
      /\ Has(c, d)' /\ \A f \in Devices \ {d} : Keeps(c, f)
  <2>1. CASE c \in Scatters /\ ScatterAdded(c, d)
    <3>1. c \notin Batches
      BY <2>1, ScatterAssumption
    <3>. QED  BY <1>2, <2>1, <3>1, ScatterSound, AddedMakes
  <2>2. CASE c \in Batches /\ BatchInit(c, d) /\ UNCHANGED resVars
    <3>1. Place(c)' /\ Unmarked(c)' /\ Pooled(c)'
      BY <1>2, <2>2, BatchSound DEF resVars
    <3>. QED  BY <1>2, <2>2, <3>1, PoolMakes DEF BatchInit
  <2>. QED  BY <1>1, <2>1, <2>2
<1>4. Queued(c)'
  BY <1>2, QueuedLater
<1>5. ASSUME NEW f \in Devices \ lost, c \in subscribed PROVE TrackedBy(c, f)'
  <2>1. TrackedBy(c, f)
    BY <1>5 DEF Tracked
  <2>2. CASE f = d
    BY <1>1, <1>2, <1>3, <2>1, <2>2 DEF TrackedBy
  <2>3. CASE f # d
    <3>1. Keeps(c, f)
      BY <1>3, <2>3
    <3>. QED  BY <1>2, <2>1, <2>3, <3>1 DEF TrackedBy, Keeps
  <2>. QED  BY <2>2, <2>3
<1>. QED  BY <1>2, <1>3, <1>4, <1>5 DEF Tracked
-----------------------------------------------------------------------------
(* The streams.                                                            *)

(* A snapshot is taken for none only where there are no ids.               *)
LEMMA NoIds ==
    ASSUME NEW f \in [Ids -> Marks], f = NoSnapshot
    PROVE  Ids = {}
<1>. QED  BY DEF NoSnapshot

(* What an instance says depends on its marks, on the reading of its NIC   *)
(* and on the pool.                                                        *)
LEMMA ShownKept ==
    ASSUME NEW m \in Names, UNCHANGED owner,
           inst'[m] = inst[m], down'[m] = down[m],
           owner[m] \in Batches => pool'[owner[m]] = pool[owner[m]]
    PROVE  Shown(m, inst[m], down[m])' = Shown(m, inst[m], down[m])
<1>1. Asked(inst[m])' = Asked(inst[m])
  BY DEF Asked
<1>2. owner[m] \in Batches => PoolHealthy(owner[m])' = PoolHealthy(owner[m])
  BY DEF PoolHealthy
<1>. QED  BY <1>1, <1>2 DEF Shown

(* A resource whose marks, stream and pool are left alone.                 *)
LEMMA StillStreamed ==
    ASSUME TypeOK, NEW n \in Names, Streamed(n),
           watching' \subseteq watching, missed \subseteq missed',
           \/ n \notin watching'
           \/ /\ snap'[n] = snap[n] /\ told'[n] = told[n] /\ down'[n] = down[n]
              /\ inst'[n] = inst[n] /\ owner'[n] = owner[n]
              /\ owner[n] \in Batches /\ ~Turning(owner[n])' =>
                    /\ ~Turning(owner[n])
                    /\ pool'[owner[n]] = {} <=> pool[owner[n]] = {}
    PROVE  Streamed(n)'
<1>1. CASE n \notin watching'
  BY <1>1 DEF Streamed
<1>2. CASE n \in watching'
  BY <1>2 DEF Streamed, Shown, Asked, PoolHealthy
<1>. QED  BY <1>1, <1>2

(* The kubelet's starts, its streams and what they tell it.                *)
LEMMA KubeletStreamed ==
    ASSUME IInv, Owned, \A n \in Names : Streamed(n),
           KubeletStarts \/ HupEnds \/ \E n \in Names : Hup(n) \/ Watch(n) \/ Tell(n)
    PROVE  Owned' /\ \A n \in Names : Streamed(n)'
<1>. USE DEF IInv, TypeOK
<1>1. CASE KubeletStarts
  BY <1>1 DEF KubeletStarts, Owned, Streamed
<1>2. CASE HupEnds
  <2>1. UNCHANGED <<known, watching, missed, snap, told, down, inst, owner, pc, pool>>
    BY <1>2 DEF HupEnds, conVars, resVars
  <2>. QED  BY <2>1 DEF Owned, Streamed, Turning, Shown, Asked, PoolHealthy
<1>3. ASSUME NEW n \in Names, Hup(n) PROVE Owned' /\ \A m \in Names : Streamed(m)'
  <2>1. /\ UNCHANGED <<missed, inst, owner, pc, pool>>
        /\ owner[n] # None /\ known' \subseteq known \union {n}
        /\ watching' = watching \ {n}
        /\ \A m \in Names \ {n} : snap'[m] = snap[m] /\ told'[m] = told[m] /\ down'[m] = down[m]
    BY <1>3 DEF Hup, StreamEnds, conVars, ResTypes
  <2>2. Owned'
    BY <2>1 DEF Owned
  <2>3. ASSUME NEW m \in Names PROVE Streamed(m)'
    BY <2>1, StillStreamed DEF Turning
  <2>. QED  BY <2>2, <2>3
<1>4. ASSUME NEW n \in Names, Watch(n) PROVE Owned' /\ \A m \in Names : Streamed(m)'
  <2>1. /\ UNCHANGED <<told, down, inst, owner, pc, pool, known>>
        /\ n \in known /\ watching' = watching \union {n} /\ missed' = missed \ {n}
        /\ snap'[n] = inst[n]
        /\ \A m \in Names \ {n} : snap'[m] = snap[m]
    BY <1>4 DEF Watch, conVars, kubeVars, ResTypes
  <2>2. Owned'
    BY <2>1 DEF Owned
  <2>3. Streamed(n)'
    <3>1. inst[n] = NoSnapshot => told[n] = {} /\ Shown(n, inst[n], down[n])' = {}
      <4>1. inst[n] \in [Ids -> Marks] /\ told[n] \subseteq Ids
        BY DEF ResTypes
      <4>2. Shown(n, inst[n], down[n])' \subseteq Ids
        BY DEF Shown, Asked
      <4>. QED  BY <4>1, <4>2, NoIds
    <3>. QED  BY <2>1, <3>1 DEF Streamed
  <2>4. ASSUME NEW m \in Names \ {n} PROVE Streamed(m)'
    BY <2>1 DEF Streamed, Turning, Shown, Asked, PoolHealthy
  <2>. QED  BY <2>2, <2>3, <2>4
<1>5. ASSUME NEW n \in Names, Tell(n) PROVE Owned' /\ \A m \in Names : Streamed(m)'
  <2>1. /\ UNCHANGED <<inst, owner, pc, pool, known, watching, missed>>
        /\ snap[n] # NoSnapshot
        /\ told'[n] = Shown(n, snap[n], down'[n])
        /\ snap'[n] = NoSnapshot
        /\ \A m \in Names \ {n} : snap'[m] = snap[m] /\ told'[m] = told[m] /\ down'[m] = down[m]
    BY <1>5 DEF Tell, conVars, kubeVars, ResTypes
  <2>2. Owned'
    BY <2>1 DEF Owned
  <2>3. Streamed(n)'
    BY <2>1 DEF Streamed, Shown, Asked, PoolHealthy
  <2>4. ASSUME NEW m \in Names \ {n} PROVE Streamed(m)'
    <3>1. Shown(m, inst[m], down[m])' = Shown(m, inst[m], down[m])
      BY <2>1, ShownKept
    <3>. QED  BY <2>1, <3>1 DEF Streamed, Turning
  <2>. QED  BY <2>2, <2>3, <2>4
<1>. QED  BY <1>1, <1>2, <1>3, <1>4, <1>5

(* A change of the devices has not reached the streams yet.                *)
LEMMA ChangeStreamed ==
    ASSUME Owned, \A n \in Names : Streamed(n), NEW d \in Devices,
           Appear(d) \/ Vanish(d)
    PROVE  Owned' /\ \A n \in Names : Streamed(n)'
<1>1. UNCHANGED <<known, watching, missed, snap, told, down, inst, owner, pc, pool>>
  BY ChangeTells DEF Changed, kubeVars, resVars
<1>. QED  BY <1>1 DEF Owned, Streamed, Turning, Shown, Asked, PoolHealthy

(* A health event either reaches the stream or counts as missed.           *)
LEMMA SubmitStreamed ==
    ASSUME TypeOK, TypeOK', NEW n \in Names, NEW ids, NEW h, ResSubmit(n, ids, h), Streamed(n)
    PROVE  Streamed(n)'
<1>1. /\ UNCHANGED <<owner, watching, told, down>>
      /\ n \in watching /\ n \notin missed' => snap'[n] = inst'[n]
  BY DEF ResSubmit, TypeOK, ResTypes
<1>2. inst'[n] = NoSnapshot => told'[n] = {} /\ Shown(n, inst[n], down[n])' = {}
  <2>1. inst'[n] \in [Ids -> Marks] /\ told'[n] \subseteq Ids
    BY DEF TypeOK, ResTypes
  <2>2. Shown(n, inst[n], down[n])' \subseteq Ids
    BY DEF Shown, Asked
  <2>. QED  BY <2>1, <2>2, NoIds
<1>. QED  BY <1>1, <1>2 DEF Streamed

(* A health event leaves the other streams alone.                          *)
LEMMA SubmitOthers ==
    ASSUME TypeOK, NEW n \in Names, NEW ids, NEW h, ResSubmit(n, ids, h)
    PROVE  /\ UNCHANGED <<owner, watching, told, down>>
           /\ \A m \in Names \ {n} :
                 /\ inst'[m] = inst[m] /\ snap'[m] = snap[m]
                 /\ m \in missed' <=> m \in missed
<1>. QED  BY DEF ResSubmit, TypeOK, ResTypes

(* Steps of a consumer that leave the resources alone.                     *)
LEMMA RestStreamed ==
    ASSUME IInv, Owned, \A n \in Names : Streamed(n), NEW c \in Consumers,
           \A x \in Consumers \ {c} : Untouched(x),
           UNCHANGED <<known, watching, missed, snap, told, down, inst, owner>>,
           c \in Batches /\ ~Turning(c)' =>
               ~Turning(c) /\ (pool'[c] = {} <=> pool[c] = {})
    PROVE  Owned' /\ \A n \in Names : Streamed(n)'
<1>1. Owned'
  BY DEF Owned
<1>2. ASSUME NEW n \in Names PROVE Streamed(n)'
  <2>1. ASSUME owner[n] \in Batches, ~Turning(owner[n])'
        PROVE  ~Turning(owner[n]) /\ (pool'[owner[n]] = {} <=> pool[owner[n]] = {})
    <3>1. CASE owner[n] = c
      BY <2>1, <3>1
    <3>2. CASE owner[n] # c
      BY <2>1, <3>2 DEF Untouched, Turning, Consumers
    <3>. QED  BY <3>1, <3>2
  <2>. QED  BY <2>1, StillStreamed DEF IInv, TypeOK
<1>. QED  BY <1>1, <1>2

(* So after a health event every stream is as it should be.                *)
LEMMA SubmitsStreamed ==
    ASSUME IInv, IInv', Owned, \A n \in Names : Streamed(n), NEW c \in Consumers,
           \A x \in Consumers \ {c} : Untouched(x),
           known' = known,
           NEW n \in Names, NEW ids, NEW h, ResSubmit(n, ids, h), owner[n] = c
    PROVE  Owned' /\ \A m \in Names : Streamed(m)'
<1>. USE DEF IInv, TypeOK
<1>1. /\ UNCHANGED <<owner, watching, told, down>>
      /\ \A m \in Names \ {n} :
            /\ inst'[m] = inst[m] /\ snap'[m] = snap[m]
            /\ m \in missed' <=> m \in missed
  BY SubmitOthers
<1>2. Owned'
  BY <1>1 DEF Owned
<1>3. Streamed(n)'
  BY SubmitStreamed
<1>4. ASSUME NEW m \in Names \ {n} PROVE Streamed(m)'
  <2>1. owner[m] \in Batches => owner[m] # c
    BY <1>4 DEF Owned
  <2>2. owner[m] \in Batches =>
            pc'[owner[m]] = pc[owner[m]] /\ pool'[owner[m]] = pool[owner[m]]
    BY <2>1 DEF Untouched, Consumers
  <2>3. Shown(m, inst[m], down[m])' = Shown(m, inst[m], down[m])
    BY <1>1, <2>2, ShownKept
  <2>. QED  BY <1>1, <2>2, <2>3 DEF Streamed, Turning
<1>. QED  BY <1>2, <1>3, <1>4

(* A device event of a scatter, likewise.                                  *)
LEMMA ScatterStreamed ==
    ASSUME IInv, IInv', Owned, \A n \in Names : Streamed(n), NEW s \in Scatters, NEW d \in Devices,
           \A x \in Consumers \ {s} : Untouched(x),
           known' = known, ScatterAdded(s, d) \/ ScatterRemoved(s, d)
    PROVE  Owned' /\ \A n \in Names : Streamed(n)'
<1>1. s \in Consumers /\ s \notin Batches
  BY ScatterAssumption DEF Consumers
<1>2. CASE ScatterIgnores(s) \/ ScatterAdds(s, d)
  <2>1. UNCHANGED <<watching, missed, snap, told, down, inst, owner>>
    BY <1>2 DEF ScatterIgnores, ScatterAdds, resVars
  <2>. QED  BY <1>1, <2>1, RestStreamed
<1>3. CASE \E h \in {"own", "Unhealthy"} :
              Template[s][d] \in routes[s] /\ ScatterSubmits(s, d, h)
  <2>1. PICK h : Template[s][d] \in routes[s] /\ ResSubmit(Template[s][d], Instances[d], h)
    BY <1>3 DEF ScatterSubmits
  <2>2. Template[s][d] \in Names /\ owner[Template[s][d]] = s
    BY <2>1 DEF IInv, TypeOK, ConTypes, RouteIsServed
  <2>. QED  BY <1>1, <2>1, <2>2, SubmitsStreamed
<1>. QED  BY <1>2, <1>3 DEF ScatterAdded, ScatterRemoved

(* A batch that lets its seats be has a pool that did not turn.            *)
LEMMA BatchStreamed ==
    ASSUME IInv, Owned, \A n \in Names : Streamed(n), NEW b \in Batches, NEW d \in Devices,
           \A x \in Consumers \ {b} : Untouched(x),
           UNCHANGED <<known, resVars>>,
           \/ pc[b] = "idle" /\ (BatchAdded(b, d) \/ BatchRemoved(b, d))
           \/ pc[b] = "init" /\ BatchInit(b, d)
    PROVE  Owned' /\ \A n \in Names : Streamed(n)'
<1>1. b \in Consumers
  BY DEF Consumers
<1>2. ASSUME ~Turning(b)' PROVE ~Turning(b) /\ (pool'[b] = {} <=> pool[b] = {})
  <2>1. CASE pc[b] = "idle" /\ BatchAdded(b, d)
    <3>1. /\ pool'[b] = IF Matches(b, d) THEN pool[b] \union {d} ELSE pool[b]
          /\ pc'[b] = IF Matches(b, d) /\ pool[b] = {} THEN "tell" ELSE "idle"
      BY <1>1, <2>1 DEF BatchAdded, PoolAdd, WasEmpty, IInv, TypeOK, ConTypes
    <3>. QED  BY <1>2, <2>1, <3>1 DEF Turning
  <2>2. CASE pc[b] = "idle" /\ BatchRemoved(b, d)
    <3>1. /\ pool'[b] = IF Matches(b, d) THEN pool[b] \ {d} ELSE pool[b]
          /\ pc'[b] = IF Matches(b, d) /\ pool'[b] = {} THEN "withdraw" ELSE "idle"
      BY <1>1, <2>2 DEF BatchRemoved, PoolRemove, IInv, TypeOK, ConTypes
    <3>. QED  BY <1>2, <2>2, <3>1 DEF Turning
  <2>3. CASE pc[b] = "init" /\ BatchInit(b, d)
    <3>1. /\ pool'[b] = IF Matches(b, d) THEN pool[b] \union {d} ELSE pool[b]
          /\ pc'[b] = IF todo'[b] # {} THEN "init"
                      ELSE IF pool'[b] = {} THEN "idle" ELSE "tell"
      BY <1>1, <2>3 DEF BatchInit, PoolAdd, IInv, TypeOK, ConTypes
    <3>2. pool'[b] = {} /\ pool[b] = {}
      BY <1>2, <3>1 DEF Turning
    <3>. QED  BY <2>3, <3>2 DEF Turning
  <2>. QED  BY <2>1, <2>2, <2>3
<1>. QED  BY <1>1, <1>2, RestStreamed DEF resVars

(* registry.Add, for a name that was nobody's and has no stream.           *)
LEMMA AddStreamed ==
    ASSUME IInv, Owned, \A n \in Names : Streamed(n), NEW c \in Consumers,
           \A x \in Consumers \ {c} : Untouched(x),
           AddStore(c) \/ RegisterOk(c) \/ RegisterFails(c)
    PROVE  Owned' /\ \A n \in Names : Streamed(n)'
<1>. DEFINE name == NameOf(c)
<1>1. AddingC(c) /\ name \in Names
  BY AddedName DEF AddStore, RegisterOk, RegisterFails, AddingC, IInv, TypeOK
<1>2. ~Turning(c) /\ (c \in Batches => ~Turning(c)' /\ pool'[c] = pool[c])
  BY <1>1, ScatterAssumption DEF AddStore, RegisterOk, RegisterFails, Refused, AddingC, Turning,
     IInv, TypeOK, ConTypes
<1>3. ASSUME NEW n \in Names, owner'[n] = owner[n], owner[n] \in Batches, ~Turning(owner[n])'
      PROVE  ~Turning(owner[n]) /\ (pool'[owner[n]] = {} <=> pool[owner[n]] = {})
  <2>1. CASE owner[n] = c
    BY <1>2, <1>3, <2>1
  <2>2. CASE owner[n] # c
    <3>1. pc'[owner[n]] = pc[owner[n]] /\ pool'[owner[n]] = pool[owner[n]]
      BY <1>3, <2>2 DEF Untouched, Consumers
    <3>. QED  BY <1>3, <3>1 DEF Turning
  <2>. QED  BY <2>1, <2>2
<1>4. CASE AddStore(c)
  <2>1. /\ UNCHANGED <<known, watching, missed, snap, told, down>>
        /\ owner[name] = None /\ owner'[name] = c /\ c # None
        /\ \A n \in Names \ {name} : owner'[n] = owner[n] /\ inst'[n] = inst[n]
    BY <1>1, <1>4, ScatterAssumption DEF AddStore, kubeVars, IInv, TypeOK, ResTypes
  <2>2. name \notin known \union watching
    BY <2>1 DEF Owned
  <2>3. known \subseteq Names /\ watching \subseteq Names
    BY DEF IInv, TypeOK, EnvTypes, ResTypes
  <2>4. c \in Batches => name = BatchName[c]
    BY DEF NameOf
  <2>. HIDE DEF name
  <2>5. Owned'
    BY <2>1, <2>2, <2>3, <2>4 DEF Owned
  <2>6. ASSUME NEW n \in Names PROVE Streamed(n)'
    BY <1>3, <2>1, <2>2, StillStreamed DEF IInv, TypeOK
  <2>. QED  BY <2>5, <2>6
<1>5. CASE RegisterOk(c)
  <2>1. UNCHANGED <<watching, missed, snap, told, down, inst, owner>> /\ known' = known \union {name}
    BY <1>5 DEF RegisterOk, resVars
  <2>2. owner[name] # None
    BY <1>1, <1>5, ScatterAssumption DEF RegisterOk, IInv, AddShape
  <2>. HIDE DEF name
  <2>3. Owned'
    BY <2>1, <2>2 DEF Owned
  <2>4. ASSUME NEW n \in Names PROVE Streamed(n)'
    BY <1>3, <2>1, StillStreamed DEF IInv, TypeOK
  <2>. QED  BY <2>3, <2>4
<1>6. CASE RegisterFails(c)
  <2>1. /\ UNCHANGED <<missed, inst, owner>> /\ known' \subseteq known \union {name}
        /\ watching' = watching \ {name}
        /\ \A n \in Names \ {name} : snap'[n] = snap[n] /\ told'[n] = told[n] /\ down'[n] = down[n]
    BY <1>1, <1>6 DEF RegisterFails, StreamEnds, IInv, TypeOK, ResTypes
  <2>2. owner[name] # None
    BY <1>1, <1>6, ScatterAssumption DEF RegisterFails, IInv, AddShape
  <2>. HIDE DEF name
  <2>3. Owned'
    BY <2>1, <2>2 DEF Owned
  <2>4. ASSUME NEW n \in Names PROVE Streamed(n)'
    BY <1>3, <2>1, StillStreamed DEF IInv, TypeOK
  <2>. QED  BY <2>3, <2>4
<1>. QED  BY <1>4, <1>5, <1>6

(* Every step of a consumer.                                               *)
LEMMA ConsumerStreamed ==
    ASSUME IInv, IInv', Owned, \A n \in Names : Streamed(n), NEW c \in Consumers, Sound(c),
           \A x \in Consumers \ {c} : Untouched(x),
           Consumer(c) \/ Cancel(c)
    PROVE  Owned' /\ \A n \in Names : Streamed(n)'
<1>1. CASE Subscribe(c) \/ Cancel(c) \/ Exit(c)
  BY <1>1, RestStreamed DEF Subscribe, F!Join, Cancel, F!Leave, Exit, kubeVars, resVars, Turning,
     IInv, TypeOK, ConTypes
<1>2. CASE AddFails(c)
  <2>1. UNCHANGED <<known, watching, missed, snap, told, down, inst, owner, pool>>
    BY <1>2 DEF AddFails, kubeVars, resVars
  <2>2. ~Turning(c)
    BY <1>2 DEF AddFails, Turning
  <2>. QED  BY <2>1, <2>2, RestStreamed
<1>3. CASE AddStore(c) \/ RegisterOk(c) \/ RegisterFails(c)
  BY <1>3, AddStreamed
<1>4. CASE c \in Batches /\ BatchSubmit(c)
  <2>1. PICK h : ResSubmit(BatchName[c], Seats, h)
    BY <1>4 DEF BatchSubmit
  <2>2. BatchName[c] \in Names /\ owner[BatchName[c]] = c /\ known' = known
    BY <1>4, ScatterAssumption DEF BatchSubmit, kubeVars, Sound, Pooled, Working
  <2>. QED  BY <2>1, <2>2, SubmitsStreamed
<1>5. CASE Receive(c)
  <2>. DEFINE e == Head(chan[c])
  <2>1. e \in F!Event
    BY <1>5, HeadTail DEF Receive, F!Take, IInv, TypeOK, ConTypes
  <2>2. pc[c] = "idle" /\ Handle(c, e) /\ e.devs \subseteq Devices /\ known' = known
    BY <1>5, <2>1 DEF Receive, F!Take, F!Event, kubeVars
  <2>. HIDE DEF e
  <2>3. CASE /\ Onward(c)
             /\ UNCHANGED <<cur, pool, resVars, refused>>
    <3>1. ~Turning(c)
      BY <2>2 DEF Turning
    <3>. QED  BY <2>2, <2>3, <3>1, RestStreamed DEF resVars
  <2>4. CASE c \in Scatters /\ \E d \in e.devs : ScatterAdded(c, d) \/ ScatterRemoved(c, d)
    BY <2>2, <2>4, ScatterStreamed
  <2>5. CASE /\ c \in Batches /\ UNCHANGED resVars
             /\ \E d \in e.devs : BatchAdded(c, d) \/ BatchRemoved(c, d)
    BY <2>2, <2>5, BatchStreamed
  <2>. QED  BY <2>2, <2>3, <2>4, <2>5 DEF Handle
<1>6. CASE InitNext(c)
  <2>1. PICK d \in todo[c] :
            \/ c \in Scatters /\ ScatterAdded(c, d)
            \/ c \in Batches /\ BatchInit(c, d) /\ UNCHANGED <<cur, resVars, refused>>
    BY <1>6 DEF InitNext
  <2>2. pc[c] = "init" /\ d \in Devices /\ known' = known
    BY <1>6 DEF InitNext, kubeVars, IInv, TypeOK, ConTypes
  <2>3. CASE c \in Scatters /\ ScatterAdded(c, d)
    BY <2>2, <2>3, ScatterStreamed
  <2>4. CASE c \in Batches /\ BatchInit(c, d) /\ UNCHANGED resVars
    BY <2>2, <2>4, BatchStreamed
  <2>. QED  BY <2>1, <2>3, <2>4
<1>. QED  BY <1>1, <1>2, <1>3, <1>4, <1>5, <1>6 DEF Consumer

-----------------------------------------------------------------------------
(* The second invariant, in the initial states and from step to step.      *)
LEMMA InitOffers == Init => OfferInv
<1>. SUFFICES ASSUME Init PROVE OfferInv
  OBVIOUS
<1>1. IInv
  BY InitServed
<1>2. ASSUME NEW c \in Consumers PROVE Sound(c)
  <2>1. /\ pc[c] \in {"dead", Begin(c)} /\ todo[c] = {} /\ chan[c] = <<>> /\ c \notin subscribed
        /\ c \in Scatters => routes[c] = {}
        /\ c \in Batches => pool[c] = {}
    BY <1>2 DEF Init
  <2>2. c \in Batches => pc[c] \in {"dead", "store"}
    BY <2>1 DEF Begin
  <2>3. Place(c) /\ Queued(c) /\ Unmarked(c) /\ Tracked(c)
    BY <2>1 DEF Begin, Place, Fresh, AddingC, Queued, Unmarked, Tracked
  <2>4. c \in Batches => Pooled(c)
    BY <2>1, <2>2 DEF Pooled, Working
  <2>. QED  BY <2>3, <2>4 DEF Sound
<1>3. Owned /\ \A n \in Names : Streamed(n)
  BY ScatterAssumption DEF Init, Owned, Streamed, Consumers
<1>. QED  BY <1>1, <1>2, <1>3 DEF OfferInv

(* Every step keeps the second invariant.                                  *)
LEMMA NextOffers == OfferInv /\ IInv' /\ [Next]_vars => OfferInv'
<1>. SUFFICES ASSUME OfferInv, IInv', [Next]_vars PROVE OfferInv'
  OBVIOUS
<1>. USE DEF OfferInv
<1>1. CASE UNCHANGED vars
  <2>1. UNCHANGED <<envVars, kubeVars, conVars, resVars, refused>>
    BY <1>1 DEF vars
  <2>2. ASSUME NEW x \in Consumers PROVE Sound(x)'
    <3>1. Untouched(x) /\ (\A n \in Names : Spared(n, None)) /\ x # None
      BY <2>1, ScatterAssumption DEF Untouched, Spared, conVars, resVars
    <3>. QED  BY <2>1, <3>1, UntouchedSound
  <2>3. UNCHANGED <<known, watching, missed, snap, told, down, inst, owner, pc, pool>>
    BY <2>1 DEF kubeVars, conVars, resVars
  <2>4. Owned' /\ \A n \in Names : Streamed(n)'
    BY <2>3 DEF Owned, Streamed, Turning, Shown, Asked, PoolHealthy
  <2>. QED  BY <2>2, <2>4
<1>2. ASSUME NEW d \in Devices, Appear(d) \/ Vanish(d) PROVE OfferInv'
  BY <1>2, ChangeSound, ChangeStreamed
<1>3. CASE KubeletStarts \/ HupEnds \/ \E n \in Names : Hup(n) \/ Watch(n) \/ Tell(n)
  BY <1>3, KubeletSound, KubeletStreamed
<1>4. ASSUME NEW c \in Consumers, Consumer(c) \/ Cancel(c) PROVE OfferInv'
  <2>1. /\ UNCHANGED envVars
        /\ \A x \in Consumers \ {c} : Untouched(x)
        /\ \A n \in Names : Spared(n, c)
    BY <1>4, OthersUntouched DEF Sound, Pooled, Working
  <2>2. Sound(c)'
    BY <1>4, SubscribeSound, LeaveSound, AddStoreSound, AddEndsSound, RegisterOkSound,
       BatchSubmitSound, ReceiveSound, InitNextSound DEF Consumer
  <2>3. \A x \in Consumers \ {c} : Sound(x)'
    BY <2>1, UntouchedSound
  <2>4. Owned' /\ \A n \in Names : Streamed(n)'
    BY <1>4, <2>1, ConsumerStreamed
  <2>. QED  BY <2>2, <2>3, <2>4
<1>. QED  BY <1>1, <1>2, <1>3, <1>4 DEF Next

(* The second invariant holds in every state.                              *)
LEMMA Offering == Spec => []OfferInv
<1>. QED  BY InitOffers, NextOffers, Served, PTL DEF Spec

-----------------------------------------------------------------------------
(* A consumer at rest has made of each device what it is.                  *)
LEMMA AtRest ==
    ASSUME OfferInv, NEW c \in Consumers, Settled(c), NEW d \in Devices \ lost
    PROVE  /\ d \in present => Has(c, d)
           /\ d \notin present => Lacks(c, d)
<1>1. TrackedBy(c, d) /\ chan[c] = <<>> /\ todo[c] = {}
  BY DEF OfferInv, Sound, Tracked, Place, AddingC, Settled
<1>2. Silent(chan[c], d)
  BY <1>1 DEF Silent
<1>. QED  BY <1>1, <1>2 DEF TrackedBy

(* The kubelet is told that an instance of a device is Healthy if and only *)
(* if the device is present and the instance's NIC, if it is a network     *)
(* one's, was found up (net_bw.go:25-30), for any scatters, templates and  *)
(* instances, whatever becomes of their Adds, however the kubelet starts   *)
(* and the streams end, whatever operstates are read and whatever health   *)
(* events are late (scatter.go:42-127); but for devices with a dropped     *)
(* event or a failed Add, and shared ids.                                  *)
THEOREM OffersAreTrue == Spec => []OfferIsTrue
<1>1. OfferInv => OfferIsTrue
  <2>. SUFFICES ASSUME OfferInv, NEW s \in Scatters, NEW d \in Devices \ (lost \union refused[s]),
                       Settled(s), Template[s][d] \in routes[s], Heard(Template[s][d]),
                       ~Shared(s, d), NEW i \in Instances[d]
                PROVE  i \in told[Template[s][d]]
                           <=> d \in present /\ i \notin down[Template[s][d]]
    BY DEF OfferIsTrue
  <2>. DEFINE n == Template[s][d]
  <2>1. /\ s \in Consumers /\ s \notin Batches /\ i \in Ids
        /\ n \in Names /\ owner[n] = s
    BY ScatterAssumption DEF Consumers, OfferInv, IInv, TypeOK, ConTypes, RouteIsServed
  <2>2. told[n] = Shown(n, inst[n], down[n])
    BY <2>1 DEF Heard, OfferInv, Streamed
  <2>3. i \in told[n] <=> inst[n][i] = "own" /\ i \notin down[n]
    BY <2>1, <2>2 DEF Shown, Asked
  <2>4. Offers(s, d, i) <=> inst[n][i] = "own"
    BY DEF Offers, Settled, AddingC
  <2>5. Cared(s, d)
    BY <2>1 DEF Cared
  <2>. QED  BY <2>1, <2>3, <2>4, <2>5, AtRest DEF Has, Lacks
<1>. QED  BY <1>1, Offering, PTL

(* All the seats of a batch are Healthy while a partition that matches is  *)
(* there, and none is when there is not, for any number of batches, seats  *)
(* and partitions: a stream that hears only of the pool's turns, and reads *)
(* the pool late, ends on the truth (batch_partition.go:171-211).          *)
THEOREM SeatsFollowThePool == Spec => []SeatsFollowPool
<1>1. OfferInv => SeatsFollowPool
  <2>. SUFFICES ASSUME OfferInv, NEW b \in Batches, Settled(b), Heard(BatchName[b]),
                       Matched[b] \intersect lost = {}
                PROVE  told[BatchName[b]] =
                          IF Matched[b] \intersect present = {} THEN {} ELSE Seats
    BY DEF SeatsFollowPool
  <2>. DEFINE n == BatchName[b]
  <2>1. /\ b \in Consumers /\ n \in Names /\ Matched[b] \subseteq Devices /\ Seats \subseteq Ids
        /\ Pooled(b) /\ pc[b] = "idle"
    BY ScatterAssumption DEF Consumers, OfferInv, Sound, Settled
  <2>2. owner[n] = b /\ ~Turning(b)
    BY <2>1 DEF Pooled, Working, Turning
  <2>3. told[n] = Shown(n, inst[n], down[n])
    BY <2>1, <2>2 DEF Heard, OfferInv, Streamed
  <2>4. pool[b] = Matched[b] \intersect present
    <3>1. ASSUME NEW d \in Matched[b] PROVE d \in pool[b] <=> d \in present
      BY <2>1, <3>1, AtRest DEF Has, Lacks
    <3>. QED  BY <2>1, <3>1 DEF Pooled
  <2>5. CASE pool[b] = {}
    BY <2>2, <2>3, <2>4, <2>5 DEF Shown, Asked, PoolHealthy
  <2>6. CASE pool[b] # {}
    <3>1. \A i \in Ids : inst[n][i] = "own" <=> i \in Seats
      BY <2>1, <2>6 DEF Pooled, Working
    <3>2. Shown(n, inst[n], down[n]) = Seats
      BY <2>1, <2>2, <2>6, <3>1 DEF Shown, Asked, PoolHealthy
    <3>. QED  BY <2>3, <2>4, <2>6, <3>2
  <2>. QED  BY <2>5, <2>6
<1>. QED  BY <1>1, Offering, PTL
=============================================================================
