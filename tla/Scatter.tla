------------------------------ MODULE Scatter ------------------------------
(***************************************************************************)
(* From a device event to an offer of the kubelet: the scatters of         *)
(* internal/plugin/scatter.go and the batch scatters of                    *)
(* batch_partition.go, as main.go connects them to one discovery and one   *)
(* registry.                                                               *)
(*                                                                         *)
(* Each consumer is a goroutine that reads the events of the discovery     *)
(* from a channel of its own.  A scatter makes a resource for every        *)
(* template it meets and has the registry add it; a batch scatter has one  *)
(* resource, made before it subscribes, whose seats share a pool of        *)
(* devices.  Add may take ten seconds and fail, and while one consumer is  *)
(* in it the discovery's mux waits for that consumer, and what the monitor *)
(* submits meanwhile is dropped for all of them.                           *)
(*                                                                         *)
(* Discovery, Registry and Resource have modules of their own and are      *)
(* abstracted here to what a consumer sees of them.  The discovery is the  *)
(* Feed that Discovery implements; the registry a map from names to        *)
(* resources that nothing ever leaves; a stream one that ends on the       *)
(* newest snapshot broadcast (Resource shows the race in which it does     *)
(* not).                                                                   *)
(***************************************************************************)
EXTENDS Integers, Sequences, FiniteSets

CONSTANTS
    Scatters, Batches,  \* the consumers, one for each entry of a configuration
    Configs,            \* the configurations, each a set of consumers
    Devices,            \* the udev devices
    Names,              \* the resource names
    Ids,                \* the ids an instance can have
    None,               \* no consumer, and no device
    Template,           \* the name each scatter's templater gives each device
    Instances,          \* the ids of the instances a mapper makes of each device
    BatchName,          \* the name of each batch's resource
    Matched,            \* the devices each batch's matcher accepts
    Seats,              \* the ids of the seats of a batch resource
    Links,              \* the ids of instances that look at their NIC's operstate
    MaxChanges,         \* bound on the devices' comings and goings
    MaxStarts           \* bound on the starts of the kubelet

Consumers == Scatters \union Batches

(* A template that is not a name stands for no match, and for an error of  *)
(* the templater or of the mapper.                                         *)
ASSUME ScatterAssumption ==
    /\ MaxChanges \in Nat /\ MaxStarts \in Nat
    /\ Configs \subseteq SUBSET Consumers
    /\ None \notin Consumers \union Devices
    /\ Scatters \intersect Batches = {}
    /\ DOMAIN Template = Scatters
    /\ \A s \in Scatters : DOMAIN Template[s] = Devices
    /\ Instances \in [Devices -> SUBSET Ids]
    /\ BatchName \in [Batches -> Names]
    /\ Matched \in [Batches -> SUBSET Devices]
    /\ Seats \subseteq Ids /\ Links \subseteq Ids

VARIABLES
    present, changes,   \* the devices the discovery knows; bound
    lost,               \* history: devices whose last event was dropped
    kubelet, starts,    \* whether the kubelet is up; bound
    known,              \* the names it has accepted a register of
    due                 \* the names hup may still come to

VARIABLES
    subscribed,         \* the consumers whose channel the discovery serves
    chan,               \* the events each of them has still to receive
    pc,                 \* where each consumer is
    cur,                \* the device it is handling
    todo,               \* the devices left of its Init event
    routes,             \* the names in each scatter's s.routes
    pool                \* each batch's pool.parts

VARIABLES               \* of the resource stored under each name
    owner,              \* the consumer that made it, None if there is none
    closed,             \* the names whose resource is closed
    inst,               \* its r.instances: "none", "own" or "Unhealthy" by id
    watching,           \* the names the kubelet has a stream of
    snap,               \* the snapshot the stream has still to read
    told,               \* the ids the kubelet was last told to be Healthy
    down,               \* history: the ids whose NIC was then found not to be up
    missed,             \* history: names whose last health event was not sent
    refused             \* history: devices each scatter had no success adding

envVars  == <<present, changes, lost>>
kubeVars == <<kubelet, starts, known, due>>
conVars  == <<subscribed, chan, pc, cur, todo, routes, pool>>
resVars  == <<owner, closed, inst, watching, snap, told, down, missed>>
vars     == <<envVars, kubeVars, conVars, resVars, refused>>

Pcs == {"subscribe", "store", "register", "idle", "init", "tell", "withdraw",
        "dead", "exited"}

(* A consumer's channel has one place, and a second event may be in the    *)
(* hands of run, which waits for that consumer with everybody else.        *)
Backlog == 2

F == INSTANCE Feed WITH
         Readers <- Consumers,
         Ahead   <- Backlog,
         devs    <- present,
         joined  <- subscribed,
         queue   <- chan

(* The resource a consumer is adding: that of the device at hand, or of    *)
(* the batch.                                                              *)
NameOf(c) == IF c \in Batches THEN BatchName[c] ELSE Template[c][cur[c]]
IdsOf(c)  == IF c \in Batches THEN Seats ELSE Instances[cur[c]]

NoInstance == [i \in Ids |-> "none"]
NoSnapshot == <<>>

(* A scatter begins with its subscription, a batch with Add.               *)
Begin(c) == IF c \in Batches THEN "store" ELSE "subscribe"

Init ==
    /\ present \in SUBSET Devices
    /\ changes = 0
    /\ lost = {}
    /\ kubelet \in BOOLEAN
    /\ starts = 0
    /\ known = {}
    /\ due = {}
    /\ subscribed = {}
    /\ chan = [c \in Consumers |-> <<>>]
    /\ \E entries \in Configs :
          pc = [c \in Consumers |-> IF c \in entries THEN Begin(c) ELSE "dead"]
    /\ cur = [c \in Consumers |-> None]
    /\ todo = [c \in Consumers |-> {}]
    /\ routes = [s \in Scatters |-> {}]
    /\ pool = [b \in Batches |-> {}]
    /\ owner = [n \in Names |-> None]
    /\ closed = {}
    /\ inst = [n \in Names |-> NoInstance]
    /\ watching = {}
    /\ snap = [n \in Names |-> NoSnapshot]
    /\ told = [n \in Names |-> {}]
    /\ down = [n \in Names |-> {}]
    /\ missed = {}
    /\ refused = [s \in Scatters |-> {}]

-----------------------------------------------------------------------------
(* The environment.                                                        *)

(* A change of the device d that the discovery's subscribers, if there are *)
(* any, are told of, or that is dropped for all of them.                   *)
Changed(d) ==
    /\ changes < MaxChanges
    /\ changes' = changes + 1
    /\ lost' = IF subscribed # {} /\ chan' = chan THEN lost \union {d} ELSE lost \ {d}
    /\ UNCHANGED <<kubeVars, pc, cur, todo, routes, pool, resVars, refused>>

Appear(d) == F!Appear(d) /\ Changed(d)

Vanish(d) == F!Vanish(d) /\ Changed(d)

(* The kubelet starts, or starts again: it knows no plugin and has no      *)
(* stream, and the registry will answer with hup.                          *)
KubeletStarts ==
    /\ starts < MaxStarts
    /\ starts' = starts + 1
    /\ kubelet' = TRUE
    /\ known' = {}
    /\ due' = Names
    /\ watching' = {}
    /\ snap' = [n \in Names |-> NoSnapshot]
    /\ told' = [n \in Names |-> {}]
    /\ down' = [n \in Names |-> {}]
    /\ missed' = {}
    /\ UNCHANGED <<envVars, conVars, owner, closed, inst, refused>>

(* The end of a stream: the kubelet takes its instances for Unhealthy.     *)
StreamEnds(n) ==
    /\ watching' = watching \ {n}
    /\ snap' = [snap EXCEPT ![n] = NoSnapshot]
    /\ told' = [told EXCEPT ![n] = {}]
    /\ down' = [down EXCEPT ![n] = {}]

(* hup stops the plugins stored when it begins, and perhaps some stored    *)
(* meanwhile, each once, and registers new ones in their place; that may   *)
(* fail.  It does not ask whether the resource is open.  After a second    *)
(* start hup may run twice, and come to a name again.                      *)
Hup(n) ==
    /\ n \in due
    /\ owner[n] # None
    /\ due' = due \ {n} \/ (starts > 1 /\ due' = due)
    /\ known' \in {known \ {n}, known \union {n}}
    /\ StreamEnds(n)
    /\ UNCHANGED <<envVars, kubelet, starts, conVars, owner, closed, inst, missed, refused>>

HupEnds ==
    /\ due # {}
    /\ due' = {}
    /\ UNCHANGED <<envVars, kubelet, starts, known, conVars, resVars, refused>>

(* The kubelet opens a stream: the replay.  A closed resource gives a      *)
(* stream that ends at once.                                               *)
Watch(n) ==
    /\ n \in known \ (closed \union watching)
    /\ watching' = watching \union {n}
    /\ snap' = [snap EXCEPT ![n] = inst[n]]
    /\ missed' = missed \ {n}
    /\ UNCHANGED <<envVars, kubeVars, conVars, owner, closed, inst, told, down, refused>>

(* A seat is Healthy while the pool it shares is not empty.                *)
PoolHealthy(b) == pool[b] # {}

(* The stream's handler asks each instance of the snapshot for its health. *)
(* An override that is not Unhealthy leaves it to the instance.  A seat    *)
(* looks at the pool as it is now, a network instance at the operstate of  *)
(* its NIC, which may be anything, and any other instance is Healthy.      *)
Asked(instances) == {i \in Ids : instances[i] = "own"}

Shown(n, instances, notUp) ==
    IF owner[n] \in Batches
    THEN IF PoolHealthy(owner[n]) THEN Asked(instances) ELSE {}
    ELSE Asked(instances) \ notUp

Tell(n) ==
    /\ snap[n] # NoSnapshot
    /\ \E notUp \in SUBSET (Links \intersect Asked(snap[n])) :
          /\ told' = [told EXCEPT ![n] = Shown(n, snap[n], notUp)]
          /\ down' = [down EXCEPT ![n] = notUp]
    /\ snap' = [snap EXCEPT ![n] = NoSnapshot]
    /\ UNCHANGED <<envVars, kubeVars, conVars, owner, closed, inst, watching, missed,
                   refused>>

-----------------------------------------------------------------------------
(* Subscribe and the CancelFunc.                                           *)

Subscribe(c) ==
    /\ pc[c] = "subscribe"
    /\ F!Join(c)
    /\ pc' = [pc EXCEPT ![c] = "idle"]
    /\ UNCHANGED <<changes, lost, kubeVars, cur, todo, routes, pool, resVars, refused>>

Cancel(c) ==
    /\ F!Leave(c)
    /\ UNCHANGED <<changes, lost, kubeVars, pc, cur, todo, routes, pool, resVars, refused>>

(* The channel is closed and read to its end.                              *)
Exit(c) ==
    /\ pc[c] = "idle"
    /\ c \notin subscribed
    /\ chan[c] = <<>>
    /\ pc' = [pc EXCEPT ![c] = "exited"]
    /\ UNCHANGED <<envVars, kubeVars, subscribed, chan, cur, todo, routes, pool, resVars,
                   refused>>

-----------------------------------------------------------------------------
(* A consumer goes on: with the next device of Init, or the next event.    *)
Onward(c) == pc' = [pc EXCEPT ![c] = IF todo'[c] = {} THEN "idle" ELSE "init"]

(* registry.Add.  That newPlugin fails shows only at LoadOrStore.          *)

AddStore(c) ==
    /\ pc[c] = "store"
    /\ owner[NameOf(c)] = None
    /\ owner' = [owner EXCEPT ![NameOf(c)] = c]
    /\ inst' = [inst EXCEPT ![NameOf(c)] =
                   [i \in Ids |-> IF i \in IdsOf(c) THEN "own" ELSE "none"]]
    /\ pc' = [pc EXCEPT ![c] = "register"]
    /\ UNCHANGED <<envVars, kubeVars, subscribed, chan, cur, todo, routes, pool,
                   closed, watching, snap, told, down, missed, refused>>

(* What is left of a failed Add: the consumer goes on without a route; the *)
(* no-op CancelFunc of a batch is never heard of again.                    *)
Refused(c) ==
    IF c \in Batches
    THEN /\ pc' = [pc EXCEPT ![c] = "dead"]
         /\ UNCHANGED <<cur, refused>>
    ELSE /\ Onward(c)
         /\ cur' = [cur EXCEPT ![c] = None]
         /\ refused' = [refused EXCEPT ![c] = @ \union {cur[c]}]

(* newPlugin fails, or the name is taken (AddStore's guard): the new       *)
(* resource is closed and forgotten.  What becomes of the sockets then is  *)
(* the matter of Registry.                                                 *)
AddFails(c) ==
    /\ UNCHANGED todo
    /\ pc[c] = "store"
    /\ Refused(c)
    /\ UNCHANGED <<envVars, kubeVars, subscribed, chan, routes, pool, resVars>>

RegisterOk(c) ==
    /\ UNCHANGED todo
    /\ pc[c] = "register"
    /\ kubelet
    /\ known' = known \union {NameOf(c)}
    /\ IF c \in Batches
       THEN /\ pc' = [pc EXCEPT ![c] = "subscribe"]
            /\ UNCHANGED <<cur, routes>>
       ELSE /\ Onward(c)
            /\ cur' = [cur EXCEPT ![c] = None]
            /\ routes' = [routes EXCEPT ![c] = @ \union {NameOf(c)}]
    /\ UNCHANGED <<envVars, kubelet, starts, due, subscribed, chan, pool,
                   resVars, refused>>

(* Slip: the route is written before the error of Add is looked at.        *)
RegisterUnchecked(c) ==
    /\ UNCHANGED todo
    /\ pc[c] = "register"
    /\ closed' = closed \union {NameOf(c)}
    /\ routes' = IF c \in Scatters THEN [routes EXCEPT ![c] = @ \union {NameOf(c)}] ELSE routes
    /\ Refused(c)
    /\ UNCHANGED <<envVars, kubeVars, subscribed, chan, pool, owner, inst, watching,
                   snap, told, down, missed>>

(* No kubelet, a refusal, or an answer that takes longer than ten seconds, *)
(* which a kubelet may give all the same.  The resource is closed, and its *)
(* streams with it; the registry's entry stays.                            *)
RegisterFails(c) ==
    /\ UNCHANGED todo
    /\ pc[c] = "register"
    /\ known' = known \/ (kubelet /\ known' = known \union {NameOf(c)})
    /\ closed' = closed \union {NameOf(c)}
    /\ StreamEnds(NameOf(c))
    /\ Refused(c)
    /\ UNCHANGED <<envVars, kubelet, starts, due, subscribed, chan, routes, pool,
                   owner, inst, missed>>

(* Slip: an override that once Unhealthy stays so.                         *)
OverriddenOnce(n, ids, h) ==
    [i \in Ids |-> IF i \in ids /\ inst[n][i] # "Unhealthy" THEN h ELSE inst[n][i]]

(* res.Submit: the override is put on the instances, and the snapshot      *)
(* broadcast to the stream, unless that takes longer than a second: a      *)
(* stream that nobody reads makes the resource's own mux wait.             *)
Overridden(n, ids, h) == [i \in Ids |-> IF i \in ids THEN h ELSE inst[n][i]]

ResSubmit(n, ids, h) ==
    /\ inst' = [inst EXCEPT ![n] = Overridden(n, ids, h)]
    /\ \/ /\ snap' = IF n \in watching THEN [snap EXCEPT ![n] = inst'[n]] ELSE snap
          /\ missed' = missed \ {n}
       \/ /\ n \in watching
          /\ snap' = snap
          /\ missed' = missed \union {n}
    /\ UNCHANGED <<owner, closed, watching, told, down>>

-----------------------------------------------------------------------------
(* A scatter: added and removed.                                           *)

ScatterIgnores(s) ==
    /\ Onward(s)
    /\ UNCHANGED <<cur, resVars, refused>>

ScatterSubmits(s, d, h) ==
    /\ ResSubmit(Template[s][d], Instances[d], h)
    /\ refused' = [refused EXCEPT ![s] = @ \ {d}]
    /\ Onward(s)
    /\ UNCHANGED cur

(* newResource; the resource is known by the device it is made for.        *)
ScatterAdds(s, d) ==
    /\ cur' = [cur EXCEPT ![s] = d]
    /\ pc' = [pc EXCEPT ![s] = "store"]
    /\ UNCHANGED <<resVars, refused>>

ScatterAdded(s, d) ==
    \/ Template[s][d] \notin Names /\ ScatterIgnores(s)
    \/ Template[s][d] \in routes[s] /\ ScatterSubmits(s, d, "own")
    \/ Template[s][d] \in Names \ routes[s] /\ ScatterAdds(s, d)

ScatterRemoved(s, d) ==
    \/ Template[s][d] \notin routes[s] /\ ScatterIgnores(s)
    \/ Template[s][d] \in routes[s] /\ ScatterSubmits(s, d, "Unhealthy")

-----------------------------------------------------------------------------
(* A batch: the pool, and a health event when it stops being empty or      *)
(* becomes so.                                                             *)

(* Slip: the pool is looked at after the device is added to it.            *)
WasEmptyLate(b) == pool'[b] = {}

WasEmpty(b) == pool[b] = {}

Matches(b, d) == d \in Matched[b]

PoolAdd(b, d) ==
    pool' = IF Matches(b, d) THEN [pool EXCEPT ![b] = @ \union {d}] ELSE pool

PoolRemove(b, d) ==
    pool' = IF Matches(b, d) THEN [pool EXCEPT ![b] = @ \ {d}] ELSE pool

BatchAdded(b, d) ==
    /\ PoolAdd(b, d)
    /\ pc' = [pc EXCEPT ![b] = IF Matches(b, d) /\ WasEmpty(b) THEN "tell" ELSE "idle"]

BatchRemoved(b, d) ==
    /\ PoolRemove(b, d)
    /\ pc' = [pc EXCEPT ![b] = IF Matches(b, d) /\ pool'[b] = {} THEN "withdraw" ELSE "idle"]

(* The health event of Init comes after the last of its devices.           *)
BatchInit(b, d) ==
    /\ PoolAdd(b, d)
    /\ pc' = [pc EXCEPT ![b] =
                 IF todo'[b] # {} THEN "init" ELSE IF pool'[b] = {} THEN "idle" ELSE "tell"]

BatchSubmit(b) ==
    /\ pc[b] \in {"tell", "withdraw"}
    /\ ResSubmit(BatchName[b], Seats, IF pc[b] = "tell" THEN "own" ELSE "Unhealthy")
    /\ pc' = [pc EXCEPT ![b] = "idle"]
    /\ UNCHANGED <<envVars, kubeVars, subscribed, chan, cur, todo, routes, pool, refused>>

-----------------------------------------------------------------------------
(* for ev := range evCh.                                                   *)

Handle(c, e) ==
    \/ /\ e.kind = "Init"
       /\ todo' = [todo EXCEPT ![c] = e.devs]
       /\ Onward(c)
       /\ UNCHANGED <<cur, pool, resVars, refused>>
    \/ /\ e.kind # "Init"
       /\ c \in Scatters
       /\ UNCHANGED <<todo, pool>>
       /\ \E d \in e.devs : IF e.kind = "Added" THEN ScatterAdded(c, d)
                                                ELSE ScatterRemoved(c, d)
    \/ /\ e.kind # "Init"
       /\ c \in Batches
       /\ \E d \in e.devs : IF e.kind = "Added" THEN BatchAdded(c, d)
                                                ELSE BatchRemoved(c, d)
       /\ UNCHANGED <<cur, todo, resVars, refused>>

Receive(c) ==
    /\ pc[c] = "idle"
    /\ F!Take(c)
    /\ Handle(c, Head(chan[c]))
    /\ UNCHANGED <<changes, lost, kubeVars, routes>>

(* The devices of Init come in any order.                                  *)
InitNext(c) ==
    /\ pc[c] = "init"
    /\ \E d \in todo[c] :
          /\ todo' = [todo EXCEPT ![c] = @ \ {d}]
          /\ \/ c \in Scatters /\ ScatterAdded(c, d) /\ UNCHANGED pool
             \/ c \in Batches /\ BatchInit(c, d) /\ UNCHANGED <<cur, resVars, refused>>
    /\ UNCHANGED <<envVars, kubeVars, subscribed, chan, routes>>

-----------------------------------------------------------------------------
(* What the goroutine of a consumer does by itself.                        *)
Consumer(c) ==
    \/ Subscribe(c) \/ Receive(c) \/ InitNext(c) \/ Exit(c)
    \/ AddStore(c) \/ AddFails(c) \/ RegisterOk(c) \/ RegisterFails(c)
    \/ c \in Batches /\ BatchSubmit(c)

Next ==
    \/ \E d \in Devices : Appear(d) \/ Vanish(d)
    \/ KubeletStarts \/ HupEnds
    \/ \E n \in Names : Hup(n) \/ Watch(n) \/ Tell(n)
    \/ \E c \in Consumers : Consumer(c) \/ Cancel(c)

Spec == Init /\ [][Next]_vars

-----------------------------------------------------------------------------
Marks == {"none", "own", "Unhealthy"}

EnvTypes ==
    /\ present \subseteq Devices /\ lost \subseteq Devices
    /\ changes \in 0 .. MaxChanges /\ starts \in 0 .. MaxStarts
    /\ kubelet \in BOOLEAN
    /\ known \subseteq Names /\ due \subseteq Names

ConTypes ==
    /\ subscribed \subseteq Consumers
    /\ chan \in [Consumers -> Seq(F!Event)]
    /\ \A c \in Consumers : Len(chan[c]) <= Backlog
    /\ pc \in [Consumers -> Pcs]
    /\ cur \in [Consumers -> Devices \union {None}]
    /\ todo \in [Consumers -> SUBSET Devices]
    /\ routes \in [Scatters -> SUBSET Names]
    /\ pool \in [Batches -> SUBSET Devices]
    /\ refused \in [Scatters -> SUBSET Devices]

ResTypes ==
    /\ owner \in [Names -> Consumers \union {None}]
    /\ closed \subseteq Names
    /\ inst \in [Names -> [Ids -> Marks]]
    /\ watching \subseteq Names /\ missed \subseteq Names
    /\ snap \in [Names -> {NoSnapshot} \union [Ids -> Marks]]
    /\ told \in [Names -> SUBSET Ids] /\ down \in [Names -> SUBSET Links]

(* Every variable stays in its set, and no channel holds more than one     *)
(* event beside the one in the hands of the discovery's run.               *)
TypeOK == EnvTypes /\ ConTypes /\ ResTypes

(* A consumer has handled every event of its channel.                      *)
Settled(c) == c \in subscribed /\ pc[c] = "idle" /\ chan[c] = <<>>

(* The stream of a name has read everything that was submitted for it.     *)
Heard(n) == n \in watching \ missed /\ snap[n] = NoSnapshot

(* A route leads to a resource that is open, that the registry holds under *)
(* its name, and that this scatter made: also when two scatters produce    *)
(* the same name, and whenever an Add fails (scatter.go:81-89).            *)
RouteIsServed ==
    \A s \in Scatters : \A n \in routes[s] : owner[n] = s /\ n \notin closed

(* What the kubelet is told of a name that has a route is what is there:   *)
(* an instance of a device is Healthy if and only if the device is present *)
(* and the instance's NIC, if it looks at one, was up when it was asked    *)
(* (net_bw.go:25-30, net_rdma.go:28-33): only a removal overrules what the *)
(* instance says (resource.go:77-91).  Except for devices whose event the  *)
(* discovery dropped or whose Add failed, and ids that several devices     *)
(* have (scatter.go:42-127).                                               *)
Shared(s, d) ==
    \E e \in Devices \ {d} :
        Template[s][e] = Template[s][d] /\ Instances[e] \intersect Instances[d] # {}

OfferIsTrue ==
    \A s \in Scatters : \A d \in Devices \ (lost \union refused[s]) :
        LET n == Template[s][d] IN
        Settled(s) /\ n \in routes[s] /\ Heard(n) /\ ~Shared(s, d)
            => \A i \in Instances[d] : i \in told[n] <=> d \in present /\ i \notin down[n]

(* Every seat of a batch is Healthy, or none, as some partition that       *)
(* matches is there or none is, although its streams hear of a change only *)
(* when the pool stops or begins to be empty (batch_partition.go:171-211). *)
SeatsFollowPool ==
    \A b \in Batches :
        Settled(b) /\ Heard(BatchName[b]) /\ Matched[b] \intersect lost = {}
            => told[BatchName[b]] = IF Matched[b] \intersect present = {} THEN {} ELSE Seats

(* "Each unique ResourceTemplate produced by the templater gets its own    *)
(* Resource" (scatter.go:11-12): a name that a scatter had the registry    *)
(* advertise to the kubelet is a resource that the scatter serves.         *)
TemplateGetsResource ==
    \A s \in Scatters : \A n \in known :
        owner[n] = s /\ Settled(s) => n \in routes[s] /\ n \notin closed
=============================================================================
