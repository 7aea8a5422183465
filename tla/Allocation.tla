----------------------------- MODULE Allocation -----------------------------
(***************************************************************************)
(* What an entry of the configuration makes of the devices, and what       *)
(* plugin.Allocate (internal/plugin/plugin.go) gives a container: the      *)
(* mappers of partition.go, net_bw.go, net_rdma.go and batch_partition.go. *)
(*                                                                         *)
(* One entry, its scatter and their resources.  Events are handled one by  *)
(* one and every registration succeeds: Scatter has what else may happen.  *)
(* An Init is its devices added one after the other.                       *)
(*                                                                         *)
(* A device is an object of libudev, which keeps an attribute once it has  *)
(* been read; a removal passes the object of the last addition (Discovery),*)
(* and a device added while it is there is a new object.  Only the         *)
(* character devices of a NIC are looked up in the system each time.       *)
(*                                                                         *)
(* Allocate changes nothing, so it is enough to follow one call at a time, *)
(* with the last list the kubelet had before it.                           *)
(***************************************************************************)
EXTENDS Integers, Sequences, FiniteSets, Functions

CONSTANTS
    Devices,        \* the devices
    Entries,        \* the entries a configuration may have
    Unreadable,     \* the speed of a NIC that tells none
    Unknown,        \* an id of an earlier run of the program
    Fold,           \* Fold[l]: sanitizeEnv of the label l
    Width,          \* bits of uint and int
    MaxChanges      \* bound on the events

(* An entry is                                                             *)
(*   kind    "part", "netbw", "netrdma" or "batch"                         *)
(*   groups  the number of groups of its regular expression                *)
(*   match   FindStringSubmatch of each name that matches                  *)
(*   num     mbpsPerShare, resourceCount or count                          *)
(*   attrs   the attributes its devices may have: name (PARTNAME or        *)
(*           INTERFACE), speed, up (operstate), rdma (character devices    *)
(*           are found when it is added)                                   *)
(* A batch's labels are groups of a name, not paths in /sys: none of them  *)
(* is the id of a device.                                                  *)
ASSUME AllocationAssumption ==
    /\ Width \in Nat \ {0} /\ MaxChanges \in Nat
    /\ \A e \in Entries :
           /\ DOMAIN e = {"kind", "groups", "match", "num", "attrs"}
           /\ e.kind \in {"part", "netbw", "netrdma", "batch"}
           /\ e.groups \in Nat
           /\ \A n \in DOMAIN e.match : Len(e.match[n]) = e.groups + 1
           /\ e.num \in 0 .. 2 ^ Width - 1
           /\ \A a \in e.attrs : DOMAIN a = {"name", "speed", "up", "rdma"}
    /\ (Devices \union {Unknown}) \intersect DOMAIN Fold = {}

VARIABLES
    entry,          \* the entry
    held,           \* the object of each device that is there
    routes,         \* routes[r][i]: instance i of the resource of suffix r
    labels,         \* batchPartitionPool: the label of each device in it
    changes,        \* number of events so far
    crashed,        \* TRUE when a mapper has panicked
    orphans,        \* history: instances, devices of the pool, that the last
                    \* event of their device did not map to
    pc,             \* where the kubelet's call is
    name,           \* the resource it is about
    request,        \* the ids asked for, by container
    todo,           \* those that Allocate has still to serve
    instances,      \* the instances as Allocate took them
    response,       \* its answer so far
    offered,        \* the Healthy ids of the kubelet's last list
    stayed          \* history: the devices in the pool ever since that list

deviceVars == <<entry, held, routes, labels, changes, crashed, orphans>>
callVars   == <<pc, name, request, todo, instances, response, offered>>
vars       == <<deviceVars, callVars, stayed>>

(* A map after an assignment, and one map written over another.            *)
Put(g, x, v) == [y \in DOMAIN g \union {x} |-> IF y = x THEN v ELSE g[y]]

Override(f, g) == [y \in DOMAIN f \union DOMAIN g |-> IF y \in DOMAIN f THEN f[y] ELSE g[y]]

-----------------------------------------------------------------------------
(* The configuration.                                                      *)

(* A partition's regular expression has at most one group.                 *)
Valid(e) == e.kind = "part" => e.groups <= 1

(* A slip: a batch without a count is left without a seat.                 *)
ValidatedWithoutDefault(e) == e

(* A batch without a count has one seat.                                   *)
Validated(e) == IF e.kind = "batch" /\ e.num = 0 THEN [e EXCEPT !.num = 1] ELSE e

-----------------------------------------------------------------------------
(* The mappers.                                                            *)

Matches(a) == a.name \in DOMAIN entry.match

(* The groups, which the templater puts into the name of the resource.     *)
Suffix(a) == Tail(entry.match[a.name])

(* The first group, or else the name.                                      *)
PartitionLabel(a) ==
    LET matches == entry.match[a.name] IN
    IF Len(matches) > 1 THEN matches[2] ELSE a.name

(* The first group, or else the part of the name that matched.             *)
BatchLabel(a) ==
    LET matches == entry.match[a.name] IN
    IF Len(matches) > 1 THEN matches[2] ELSE matches[1]

(* int(u) of a uint.                                                       *)
AsInt(u) == IF u < 2 ^ (Width - 1) THEN u ELSE u - 2 ^ Width

Abs(n) == IF n < 0 THEN -n ELSE n

(* Division of int, which truncates.                                       *)
Quotient(m, n) ==
    LET q == Abs(m) \div Abs(n) IN IF (m < 0) = (n < 0) THEN q ELSE -q

(* mbpsPerShare into the speed of the NIC.                                 *)
Shares(a) == Quotient(a.speed, AsInt(entry.num))

NicIds(a, n) == {<<a.name, i>> : i \in 0 .. n - 1}

(* The ids of the instances a device that matches is mapped to.            *)
PartitionIds(a) == {PartitionLabel(a)}
ShareIds(a)     == IF a.speed = Unreadable THEN {} ELSE NicIds(a, Shares(a))
RdmaIds(a)      == IF a.rdma THEN NicIds(a, AsInt(entry.num)) ELSE {}

Mapped(a) ==
    CASE entry.kind = "part"    /\ Matches(a) -> PartitionIds(a)
      [] entry.kind = "netbw"   /\ Matches(a) -> ShareIds(a)
      [] entry.kind = "netrdma" /\ Matches(a) -> RdmaIds(a)
      [] OTHER                                -> {}

(* A division by zero, or a negative capacity for make.                    *)
MapperPanics(a) ==
    /\ Matches(a)
    /\ CASE entry.kind = "netbw"   -> /\ a.speed # Unreadable
                                      /\ AsInt(entry.num) = 0 \/ Shares(a) < 0
         [] entry.kind = "netrdma" -> a.rdma /\ AsInt(entry.num) < 0
         [] OTHER                  -> FALSE

Seats == 0 .. entry.num - 1

-----------------------------------------------------------------------------
(* Health and lists.                                                       *)

(* Instance.Health: a partition is always Healthy.                         *)
OwnHealth(inst) ==
    CASE entry.kind = "part"  -> TRUE
      [] entry.kind = "batch" -> DOMAIN labels # {}
      [] OTHER                -> inst.obj.up

(* healthOverride: an override Healthy leaves it to the instance.          *)
Healthy(inst) == ~inst.forced /\ OwnHealth(inst)

-----------------------------------------------------------------------------
(* What Allocate answers.  devs are the pairs of a device and the label in *)
(* its container path, env the device that the variables of a folded label *)
(* are about.  The order and the repetition of the specs are left out.     *)

NoResponse == [devs |-> {}, env |-> <<>>]

(* A slip: the variables of the earlier response are not taken over.       *)
MergeLastEnv(r, s) == [devs |-> r.devs \union s.devs, env |-> s.env]

(* mergeResponses: of a variable in both the last value stays.             *)
Merge(r, s) == [devs |-> r.devs \union s.devs, env |-> Override(s.env, r.env)]

(* allocatePartitionDevice.                                                *)
AllocatePartition(d, l) == [devs |-> {<<d, l>>}, env |-> Put(<<>>, Fold[l], d)]

(* batchPartitionPool.allocate: any order, since it ranges over a map.     *)
AllocateBatch ==
    LET pairs == {<<d, labels[d]>> : d \in DOMAIN labels}
        folds == {Fold[p[2]] : p \in pairs}
    IN  {[devs |-> pairs, env |-> env] :
            env \in {f \in [folds -> DOMAIN labels] : \A l \in folds : Fold[labels[f[l]]] = l}}

(* netRdma.Allocate: the character devices of the NIC, at their own paths. *)
AllocateRdma(d) == [devs |-> {<<d, d>>}, env |-> <<>>]

(* Instance.Allocate.                                                      *)
Allocations(i) ==
    LET inst == instances[i] IN
    CASE entry.kind = "part"    -> {AllocatePartition(inst.dev, i)}
      [] entry.kind = "netbw"   -> {NoResponse}
      [] entry.kind = "netrdma" -> {AllocateRdma(inst.dev)}
      [] entry.kind = "batch"   -> AllocateBatch

-----------------------------------------------------------------------------
Init ==
    /\ entry \in {Validated(e) : e \in {f \in Entries : Valid(f)}}
    /\ held = <<>>
    /\ routes = IF entry.kind = "batch"
                THEN Put(<<>>, <<>>,
                         [i \in Seats |-> [dev |-> Unknown, obj |-> Unknown, forced |-> FALSE]])
                ELSE <<>>
    /\ labels = <<>>
    /\ changes = 0
    /\ crashed = FALSE
    /\ orphans = {}
    /\ pc = "idle"
    /\ name = <<>>
    /\ request = {}
    /\ todo = {}
    /\ instances = <<>>
    /\ response = <<>>
    /\ offered = {}
    /\ stayed = {}

-----------------------------------------------------------------------------
(* The scatters.                                                           *)

(* resource.Submit, or the map newResource is given: the instances is of   *)
(* device d replace those of the same ids.                                 *)
Submit(r, is, d, a, forced) ==
    LET new == [i \in is |-> [dev |-> d, obj |-> a, forced |-> forced]]
        old == IF r \in DOMAIN routes THEN routes[r] ELSE <<>>
    IN  routes' = Put(routes, r, Override(new, old))

(* What d was mapped to before and is not now.                             *)
Stranded(d, a, is) ==
    (orphans \union {p \in UNION {{r} \X DOMAIN routes[r] : r \in DOMAIN routes} :
                        routes[p[1]][p[2]].dev = d})
        \ {<<Suffix(a), i>> : i \in is}

(* A slip: a removal reports the instances Healthy, as an addition does.   *)
ScatterRemovedHealthy(d, a) ==
    /\ IF Matches(a) /\ Suffix(a) \in DOMAIN routes
       THEN Submit(Suffix(a), Mapped(a), d, a, FALSE)
       ELSE routes' = routes
    /\ orphans' = Stranded(d, a, Mapped(a))

(* Scatter.added and Scatter.removed.                                      *)
ScatterAdded(d, a) ==
    /\ IF Matches(a) THEN Submit(Suffix(a), Mapped(a), d, a, FALSE) ELSE routes' = routes
    /\ orphans' = Stranded(d, a, Mapped(a))

ScatterRemoved(d, a) ==
    /\ IF Matches(a) /\ Suffix(a) \in DOMAIN routes
       THEN Submit(Suffix(a), Mapped(a), d, a, TRUE)
       ELSE routes' = routes
    /\ orphans' = Stranded(d, a, Mapped(a))

(* The seats are told when the pool becomes empty or stops being empty.    *)
SubmitSeats(forced) ==
    routes' = [routes EXCEPT ![<<>>] = [i \in Seats |-> [@[i] EXCEPT !.forced = forced]]]

BatchAdded(d, a) ==
    IF Matches(a)
    THEN /\ labels' = Put(labels, d, BatchLabel(a))
         /\ IF DOMAIN labels = {} THEN SubmitSeats(FALSE) ELSE routes' = routes
         /\ orphans' = orphans \ {<<<<>>, d>>}
    ELSE /\ UNCHANGED <<labels, routes>>
         /\ orphans' = orphans \union {<<<<>>, e>> : e \in DOMAIN labels \intersect {d}}

BatchRemoved(d, a) ==
    IF Matches(a)
    THEN /\ labels' = Restrict(labels, DOMAIN labels \ {d})
         /\ IF DOMAIN labels \subseteq {d} THEN SubmitSeats(TRUE) ELSE routes' = routes
         /\ UNCHANGED orphans
    ELSE UNCHANGED <<labels, routes, orphans>>

Event ==
    /\ ~crashed
    /\ changes < MaxChanges
    /\ changes' = changes + 1

(* The object a removal passes.  Its character devices are looked up once  *)
(* more, and may still be found or not, or be found only now.              *)
Removable(d) ==
    {a \in {[held[e] EXCEPT !.rdma = found] : e \in DOMAIN held \intersect {d}, found \in BOOLEAN} :
        entry.kind # "netrdma" => a = held[d]}

(* No two interfaces have one name.                                        *)
Possible(d, a) ==
    entry.kind \in {"netbw", "netrdma"} =>
        \A e \in DOMAIN held \ {d} : held[e].name # a.name

(* A device is added, again perhaps.                                       *)
Add(d, a) ==
    /\ Event
    /\ Possible(d, a)
    /\ held' = Put(held, d, a)
    /\ ~MapperPanics(a)
    /\ IF entry.kind = "batch" THEN BatchAdded(d, a)
                               ELSE ScatterAdded(d, a) /\ UNCHANGED labels
    /\ UNCHANGED <<entry, crashed, callVars, stayed>>

(* The mapper panics on a device that is added or removed.                 *)
Panic(d) ==
    /\ Event
    /\ {a \in {b \in entry.attrs : Possible(d, b)} \union Removable(d) : MapperPanics(a)} # {}
    /\ crashed' = TRUE
    /\ UNCHANGED <<entry, held, routes, labels, orphans, callVars, stayed>>

(* A device is removed.                                                    *)
Remove(d) ==
    /\ Event
    /\ held' = Restrict(held, DOMAIN held \ {d})
    /\ \E a \in Removable(d) :
           /\ ~MapperPanics(a)
           /\ IF entry.kind = "batch" THEN BatchRemoved(d, a)
                                      ELSE ScatterRemoved(d, a) /\ UNCHANGED labels
    /\ stayed' = stayed \intersect DOMAIN labels'
    /\ UNCHANGED <<entry, crashed, callVars>>

-----------------------------------------------------------------------------
(* The kubelet and plugin.Allocate.                                        *)

(* ListAndWatch sends the kubelet a list.                                  *)
List(r) ==
    /\ ~crashed
    /\ pc \in {"idle", "listed"}
    /\ r \in DOMAIN routes
    /\ pc' = "listed"
    /\ name' = r
    /\ offered' = {i \in DOMAIN routes[r] : Healthy(routes[r][i])}
    /\ stayed' = DOMAIN labels
    /\ UNCHANGED <<deviceVars, request, todo, instances, response>>

(* The kubelet asks for ids that are Healthy in its list, or for one that  *)
(* it knows from before, for one container or for two.                     *)
Allocate(req) ==
    /\ ~crashed
    /\ pc = "listed"
    /\ req # {}
    /\ {p[1] : p \in req} \in {{1}, {1, 2}}
    /\ \A p, q \in req : p[2] = q[2] => p = q
    /\ pc' = "serving"
    /\ request' = req
    /\ todo' = req
    /\ instances' = routes[name]
    /\ response' = [c \in {p[1] : p \in req} |-> NoResponse]
    /\ UNCHANGED <<deviceVars, name, offered, stayed>>

(* The containers are served in their order.                               *)
NextIds == {p \in todo : \A q \in todo : p[1] <= q[1]}

ServeId ==
    /\ ~crashed
    /\ pc = "serving"
    /\ \E p \in NextIds :
           /\ p[2] \in DOMAIN instances
           /\ \E r \in Allocations(p[2]) : response' = [response EXCEPT ![p[1]] = Merge(@, r)]
           /\ todo' = todo \ {p}
    /\ pc' = IF todo' = {} THEN "answered" ELSE "serving"
    /\ UNCHANGED <<deviceVars, name, request, instances, offered, stayed>>

(* An id that is not found fails the whole request.                        *)
NotFound ==
    /\ ~crashed
    /\ pc = "serving"
    /\ \E p \in NextIds : p[2] \notin DOMAIN instances
    /\ pc' = "failed"
    /\ todo' = {}
    /\ response' = <<>>
    /\ UNCHANGED <<deviceVars, name, request, instances, offered, stayed>>

(* The call is over.                                                       *)
Return ==
    /\ pc \in {"answered", "failed"}
    /\ pc' = "idle"
    /\ name' = <<>>
    /\ request' = {} /\ todo' = {}
    /\ instances' = <<>> /\ response' = <<>>
    /\ offered' = {} /\ stayed' = {}
    /\ UNCHANGED deviceVars

Next ==
    \/ \E d \in Devices :
           \/ \E a \in entry.attrs : Add(d, a)
           \/ Remove(d) \/ Panic(d)
    \/ \E r \in DOMAIN routes : List(r)
    \/ \E req \in SUBSET ({1, 2} \X (offered \union {Unknown})) : Allocate(req)
    \/ ServeId \/ NotFound \/ Return

Spec == Init /\ [][Next]_vars

-----------------------------------------------------------------------------
(* Properties.                                                             *)

(* Type correctness; an entry is one that validate lets through, which     *)
(* gives a batch at least one seat and a partition at most one group       *)
(* (main.go:290, 323).                                                     *)
TypeOK ==
    /\ entry.kind \in {"part", "netbw", "netrdma", "batch"}
    /\ entry.kind = "part" => \A n \in DOMAIN entry.match : Len(entry.match[n]) <= 2
    /\ entry.kind = "batch" => Seats # {}
    /\ DOMAIN held \subseteq Devices /\ \A d \in DOMAIN held : held[d] \in entry.attrs
    /\ \A r \in DOMAIN routes : \A i \in DOMAIN routes[r] :
           /\ routes[r][i].dev \in Devices \union {Unknown}
           /\ routes[r][i].forced \in BOOLEAN
    /\ DOMAIN labels \subseteq Devices
    /\ changes \in 0 .. MaxChanges
    /\ crashed \in BOOLEAN
    /\ pc \in {"idle", "listed", "serving", "answered", "failed"}
    /\ todo \subseteq request
    /\ DOMAIN response \subseteq {p[1] : p \in request}
    /\ stayed \subseteq Devices

(* A device is there as it was when it was mapped to this instance.        *)
Current(inst) == inst.dev \in DOMAIN held /\ held[inst.dev] = inst.obj

(* An instance that is not forced Unhealthy is of a device that is there,  *)
(* unless the last event of that device did not map to it: the shares      *)
(* beyond a lower speed, those of a NIC whose character devices were not   *)
(* found when it was removed, the label before a new one.                  *)
NotStale(r, i) == ~routes[r][i].forced => Current(routes[r][i]) \/ <<r, i>> \in orphans

(* A device that matches has its instances, none of them forced Unhealthy, *)
(* unless another device took the id later.                                *)
Served(d) ==
    LET r == Suffix(held[d]) IN
    /\ r \in DOMAIN routes
    /\ \A i \in Mapped(held[d]) :
           /\ i \in DOMAIN routes[r]
           /\ routes[r][i].dev = d => Current(routes[r][i]) /\ ~routes[r][i].forced

(* The instances follow the devices (scatter.go:58-74, 108-122).           *)
InstancesFollow ==
    entry.kind # "batch" =>
        /\ \A r \in DOMAIN routes : \A i \in DOMAIN routes[r] : NotStale(r, i)
        /\ \A d \in DOMAIN held : Matches(held[d]) => Served(d)

(* The pool likewise: every device that matches is in it, and besides them *)
(* at most one added again under a name that does not match, which the     *)
(* code keeps for good though the pool is "the current set of partition    *)
(* devices matching" (batch_partition.go:16); and no seat is withheld      *)
(* while the pool holds a device (batch_partition.go:185-212).             *)
PoolFollows ==
    entry.kind = "batch" =>
        LET matching == {d \in DOMAIN held : Matches(held[d])} IN
        /\ matching \subseteq DOMAIN labels
        /\ DOMAIN labels \subseteq matching \union {o[2] : o \in orphans}
        /\ \A d \in DOMAIN labels : <<<<>>, d>> \notin orphans => labels[d] = BatchLabel(held[d])
        /\ DOMAIN labels # {} => \A i \in Seats : Healthy(routes[<<>>][i])

(* So what is offered follows the devices, one by one and in batches.      *)
OffersFollowDevices == InstancesFollow /\ PoolFollows

(* Each device of a container's answer has its variables, but for a device *)
(* whose label folds to the same.                                          *)
VariablesOf(r) ==
    \A p \in r.devs :
        p[2] \in DOMAIN Fold =>
            /\ Fold[p[2]] \in DOMAIN r.env
            /\ \E q \in r.devs : q[1] = r.env[Fold[p[2]]] /\ Fold[q[2]] = Fold[p[2]]

(* A container that asked for ids it was offered has them all: the path of *)
(* each partition, the character devices of each NIC, and of a seat every  *)
(* device that was in the pool from the list to the answer ("device specs  *)
(* and env vars for every matching partition at once").                    *)
AnswerIsWhole ==
    pc = "answered" =>
        \A p \in request :
            LET r == response[p[1]]  devs == {q[1] : q \in r.devs} IN
            /\ VariablesOf(r)
            /\ CASE entry.kind = "part"    -> p[2] \in {q[2] : q \in r.devs}
                 [] entry.kind = "netrdma" -> instances[p[2]].dev \in devs
                 [] entry.kind = "batch"   -> stayed \subseteq devs
                 [] OTHER                  -> TRUE
=============================================================================
