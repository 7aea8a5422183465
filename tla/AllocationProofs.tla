-------------------------- MODULE AllocationProofs --------------------------
(***************************************************************************)
(* Proofs about Allocation, for every set of devices, entries and widths.  *)
(*                                                                         *)
(* OffersFollowDevices is nearly inductive.  What a batch needs besides:   *)
(* its one resource has exactly its seats, and a device that was left in   *)
(* the pool is not one that matches.                                       *)
(*                                                                         *)
(* AnswerIsWhole is about a call of Allocate, which answers for one id     *)
(* after the other: AnswerInv says what those it is done with have been    *)
(* given, and that each variable names a device that is in the answer.     *)
(***************************************************************************)
EXTENDS Allocation, TLAPS

(* A seat, an instance of no device.                                       *)
Seat == [dev : {Unknown}, obj : {Unknown}, forced : BOOLEAN]

(* The resource of a batch, and the devices left in its pool.              *)
BatchShape ==
    entry.kind = "batch" =>
        /\ <<>> \in DOMAIN routes
        /\ DOMAIN routes[<<>>] = Seats
        /\ \A i \in Seats : routes[<<>>][i] \in Seat
        /\ \A o \in orphans :
               /\ o = <<<<>>, o[2]>>
               /\ o[2] \in DOMAIN held => ~Matches(held[o[2]])

IInv == OffersFollowDevices /\ BatchShape

-----------------------------------------------------------------------------
(* Scatters.                                                               *)

(* What resource.Submit does to the instances: those it is given are the   *)
(* device's, and no others change or go.                                   *)
LEMMA Submitting ==
    ASSUME NEW r, NEW is, NEW d, NEW a, NEW forced, Submit(r, is, d, a, forced)
    PROVE  /\ DOMAIN routes' = DOMAIN routes \union {r}
           /\ \A q \in DOMAIN routes \ {r} : routes'[q] = routes[q]
           /\ \A i \in is : /\ i \in DOMAIN routes'[r]
                            /\ routes'[r][i] = [dev |-> d, obj |-> a, forced |-> forced]
           /\ \A i \in DOMAIN routes'[r] \ is :
                 r \in DOMAIN routes /\ i \in DOMAIN routes[r] /\ routes'[r][i] = routes[r][i]
           /\ r \in DOMAIN routes => DOMAIN routes[r] \subseteq DOMAIN routes'[r]
<1> DEFINE new == [i \in is |-> [dev |-> d, obj |-> a, forced |-> forced]]
           old == IF r \in DOMAIN routes THEN routes[r] ELSE <<>>
           all == Override(new, old)
<1>1. routes' = Put(routes, r, all)
  BY DEF Submit
<1>2. DOMAIN new = is /\ \A i \in is : new[i] = [dev |-> d, obj |-> a, forced |-> forced]
  OBVIOUS
<1>3. r \notin DOMAIN routes => DOMAIN old = {}
  OBVIOUS
<1>4. r \in DOMAIN routes => old = routes[r]
  OBVIOUS
<1> HIDE DEF new, old
<1>5. /\ DOMAIN all = is \union DOMAIN old
      /\ \A i \in is : all[i] = [dev |-> d, obj |-> a, forced |-> forced]
      /\ \A i \in DOMAIN old \ is : all[i] = old[i]
  BY <1>2 DEF Override
<1> HIDE DEF all
<1>6. /\ DOMAIN routes' = DOMAIN routes \union {r}
      /\ routes'[r] = all
      /\ \A q \in DOMAIN routes \ {r} : routes'[q] = routes[q]
  BY <1>1 DEF Put
<1> QED
  BY <1>3, <1>4, <1>5, <1>6

(* The mappers depend on nothing but the entry, which never changes.       *)
LEMMA FixedEntry ==
    ASSUME entry' = entry, NEW e, NEW a, held'[e] = a
    PROVE  /\ Matches(held[e])' = Matches(a)
           /\ Suffix(held[e])' = Suffix(a)
           /\ Mapped(held[e])' = Mapped(a)
           /\ BatchLabel(held[e])' = BatchLabel(a)
BY DEF Matches, Suffix, Mapped, BatchLabel, PartitionIds, PartitionLabel, ShareIds, Shares,
       RdmaIds, NicIds, Quotient, AsInt, Abs

(* An event of d that reaches no instance only strands d's.                *)
LEMMA Unrouted ==
    ASSUME entry.kind # "batch", entry' = entry, InstancesFollow,
           NEW d, NEW a, NEW is, is = {} \/ Suffix(a) \notin DOMAIN routes,
           DOMAIN held \ {d} = DOMAIN held' \ {d},
           \A e \in DOMAIN held' \ {d} : held'[e] = held[e],
           d \in DOMAIN held' => ~Matches(held[d])',
           routes' = routes, orphans' = Stranded(d, a, is)
    PROVE  InstancesFollow'
<1>1. ASSUME NEW q \in DOMAIN routes, NEW i \in DOMAIN routes[q]
      PROVE  NotStale(q, i)'
  <2>1. NotStale(q, i)
    BY DEF InstancesFollow
  <2>2. <<q, i>> \notin {<<Suffix(a), j>> : j \in is}
    OBVIOUS
  <2>3. CASE routes[q][i].dev = d
    BY <2>2, <2>3 DEF Stranded, NotStale
  <2>4. CASE routes[q][i].dev # d
    BY <2>1, <2>2, <2>4 DEF Stranded, NotStale, Current
  <2> QED
    BY <2>3, <2>4
<1>2. ASSUME NEW e \in DOMAIN held', Matches(held[e])'
      PROVE  Served(e)'
  <2>1. e \in DOMAIN held /\ held'[e] = held[e] /\ e # d
    BY <1>2
  <2>2. Suffix(held[e])' = Suffix(held[e]) /\ Mapped(held[e])' = Mapped(held[e])
    BY <2>1, FixedEntry
  <2>3. Served(e)
    BY <1>2, <2>1, FixedEntry DEF InstancesFollow
  <2> QED
    BY <2>1, <2>2, <2>3 DEF Served, Current
<1> QED
  BY <1>1, <1>2 DEF InstancesFollow

(* Scatter.added keeps the instances in step with the devices.             *)
LEMMA ScatterAdds ==
    ASSUME entry.kind # "batch", entry' = entry, InstancesFollow,
           NEW d, NEW a, held' = Put(held, d, a), ScatterAdded(d, a)
    PROVE  InstancesFollow'
<1> DEFINE r == Suffix(a)  is == Mapped(a)
<1>1. /\ DOMAIN held' = DOMAIN held \union {d}
      /\ held'[d] = a
      /\ \A e \in DOMAIN held \ {d} : held'[e] = held[e]
  BY DEF Put
<1>2. CASE Matches(a)
  <2>1. Submit(r, is, d, a, FALSE)
    BY <1>2 DEF ScatterAdded
  <2>2. /\ DOMAIN routes' = DOMAIN routes \union {r}
        /\ \A q \in DOMAIN routes \ {r} : routes'[q] = routes[q]
        /\ \A i \in is : /\ i \in DOMAIN routes'[r]
                         /\ routes'[r][i] = [dev |-> d, obj |-> a, forced |-> FALSE]
        /\ \A i \in DOMAIN routes'[r] \ is :
              r \in DOMAIN routes /\ i \in DOMAIN routes[r] /\ routes'[r][i] = routes[r][i]
        /\ r \in DOMAIN routes => DOMAIN routes[r] \subseteq DOMAIN routes'[r]
    BY <2>1, Submitting
  <2>3. orphans' = Stranded(d, a, is)
    BY DEF ScatterAdded
  <2>4. ASSUME NEW q \in DOMAIN routes', NEW i \in DOMAIN routes'[q]
        PROVE  NotStale(q, i)'
    <3>1. CASE q = r /\ i \in is
      BY <1>1, <2>2, <3>1 DEF NotStale, Current
    <3>2. CASE ~(q = r /\ i \in is)
      <4>1. q \in DOMAIN routes /\ i \in DOMAIN routes[q] /\ routes'[q][i] = routes[q][i]
        BY <2>2, <3>2
      <4>2. NotStale(q, i)
        BY <4>1 DEF InstancesFollow
      <4>3. CASE routes[q][i].dev = d
        BY <2>3, <3>2, <4>1, <4>3 DEF Stranded, NotStale
      <4>4. CASE routes[q][i].dev # d
        BY <1>1, <2>3, <3>2, <4>1, <4>2, <4>4 DEF Stranded, NotStale, Current
      <4> QED
        BY <4>3, <4>4
    <3> QED
      BY <3>1, <3>2
  <2>5. ASSUME NEW e \in DOMAIN held', Matches(held[e])'
        PROVE  Served(e)'
    <3>1. CASE e = d
      <4>1. Suffix(held[d])' = r /\ Mapped(held[d])' = is
        BY <1>1, FixedEntry
      <4> HIDE DEF r, is
      <4> QED
        BY <1>1, <2>2, <3>1, <4>1 DEF Served, Current
    <3>2. CASE e # d
      <4>1. e \in DOMAIN held /\ held'[e] = held[e] /\ Served(e)
        BY <1>1, <2>5, <3>2 DEF InstancesFollow, Matches
      <4>2. Suffix(held[e])' = Suffix(held[e]) /\ Mapped(held[e])' = Mapped(held[e])
        BY <4>1, FixedEntry
      <4> HIDE DEF r, is
      <4>3. ASSUME NEW i \in Mapped(held[e])
            PROVE  LET q == Suffix(held[e]) IN
                   /\ q \in DOMAIN routes' /\ i \in DOMAIN routes'[q]
                   /\ \/ routes'[q][i] = routes[q][i]
                      \/ routes'[q][i].dev = d
        BY <2>2, <4>1 DEF Served
      <4> QED
        BY <1>1, <2>2, <3>2, <4>1, <4>2, <4>3 DEF Served, Current
    <3> QED
      BY <3>1, <3>2
  <2> QED
    BY <2>4, <2>5 DEF InstancesFollow
<1>3. CASE ~Matches(a)
  <2>1. is = {}
    BY <1>3 DEF Mapped
  <2>2. ~Matches(held[d])'
    BY <1>1, <1>3, FixedEntry
  <2>3. routes' = routes /\ orphans' = Stranded(d, a, is)
    BY <1>3 DEF ScatterAdded
  <2> HIDE DEF r, is
  <2> QED
    BY <1>1, <2>1, <2>2, <2>3, Unrouted
<1> QED
  BY <1>2, <1>3

(* And so does Scatter.removed, whatever it is told of the device.         *)
LEMMA ScatterRemoves ==
    ASSUME entry.kind # "batch", entry' = entry, InstancesFollow,
           NEW d, NEW a, held' = Restrict(held, DOMAIN held \ {d}), ScatterRemoved(d, a)
    PROVE  InstancesFollow'
<1> DEFINE r == Suffix(a)  is == Mapped(a)
<1>1. /\ DOMAIN held' = DOMAIN held \ {d}
      /\ \A e \in DOMAIN held \ {d} : held'[e] = held[e]
  BY DEF Restrict
<1>2. orphans' = Stranded(d, a, is)
  BY DEF ScatterRemoved
<1>3. CASE Matches(a) /\ r \in DOMAIN routes
  <2>1. Submit(r, is, d, a, TRUE)
    BY <1>3 DEF ScatterRemoved
  <2>2. /\ DOMAIN routes' = DOMAIN routes
        /\ \A q \in DOMAIN routes \ {r} : routes'[q] = routes[q]
        /\ \A i \in is : /\ i \in DOMAIN routes'[r]
                         /\ routes'[r][i] = [dev |-> d, obj |-> a, forced |-> TRUE]
        /\ \A i \in DOMAIN routes'[r] \ is :
              i \in DOMAIN routes[r] /\ routes'[r][i] = routes[r][i]
        /\ DOMAIN routes[r] \subseteq DOMAIN routes'[r]
    <3>1. r \in DOMAIN routes
      BY <1>3
    <3> HIDE DEF r, is
    <3>2. /\ DOMAIN routes' = DOMAIN routes \union {r}
          /\ \A q \in DOMAIN routes \ {r} : routes'[q] = routes[q]
          /\ \A i \in is : /\ i \in DOMAIN routes'[r]
                           /\ routes'[r][i] = [dev |-> d, obj |-> a, forced |-> TRUE]
          /\ \A i \in DOMAIN routes'[r] \ is :
                 r \in DOMAIN routes /\ i \in DOMAIN routes[r] /\ routes'[r][i] = routes[r][i]
          /\ r \in DOMAIN routes => DOMAIN routes[r] \subseteq DOMAIN routes'[r]
      BY <2>1, Submitting
    <3>3. DOMAIN routes \union {r} = DOMAIN routes
      BY <3>1
    <3> QED
      BY <3>1, <3>2, <3>3
  <2>3. ASSUME NEW q \in DOMAIN routes', NEW i \in DOMAIN routes'[q]
        PROVE  NotStale(q, i)'
    <3>1. CASE q = r /\ i \in is
      BY <2>2, <3>1 DEF NotStale
    <3>2. CASE ~(q = r /\ i \in is)
      <4>1. q \in DOMAIN routes /\ i \in DOMAIN routes[q] /\ routes'[q][i] = routes[q][i]
        BY <2>2, <3>2
      <4>2. NotStale(q, i)
        BY <4>1 DEF InstancesFollow
      <4>3. CASE routes[q][i].dev = d
        BY <1>2, <3>2, <4>1, <4>3 DEF Stranded, NotStale
      <4>4. CASE routes[q][i].dev # d
        BY <1>1, <1>2, <3>2, <4>1, <4>2, <4>4 DEF Stranded, NotStale, Current
      <4> QED
        BY <4>3, <4>4
    <3> QED
      BY <3>1, <3>2
  <2>4. ASSUME NEW e \in DOMAIN held', Matches(held[e])'
        PROVE  Served(e)'
    <3>1. e \in DOMAIN held /\ held'[e] = held[e] /\ e # d
      BY <1>1
    <3>2. Suffix(held[e])' = Suffix(held[e]) /\ Mapped(held[e])' = Mapped(held[e])
      BY <3>1, FixedEntry
    <3>3. Served(e)
      BY <2>4, <3>1, FixedEntry DEF InstancesFollow
    <3> HIDE DEF r, is
    <3>4. ASSUME NEW i \in Mapped(held[e])
          PROVE  LET q == Suffix(held[e]) IN
                 /\ q \in DOMAIN routes' /\ i \in DOMAIN routes'[q]
                 /\ \/ routes'[q][i] = routes[q][i]
                    \/ routes'[q][i].dev = d
      BY <2>2, <3>3 DEF Served
    <3> QED
      BY <1>1, <2>2, <3>1, <3>2, <3>3, <3>4 DEF Served, Current
  <2> QED
    BY <2>3, <2>4 DEF InstancesFollow
<1>4. CASE ~(Matches(a) /\ r \in DOMAIN routes)
  <2>1. routes' = routes
    BY <1>4 DEF ScatterRemoved
  <2>2. is = {} \/ r \notin DOMAIN routes
    BY <1>4 DEF Mapped
  <2> HIDE DEF is
  <2> QED
    BY <1>1, <1>2, <2>1, <2>2, Unrouted
<1> QED
  BY <1>3, <1>4

-----------------------------------------------------------------------------
(* Batches.                                                                *)

(* The seats are told of a health and keep their places.                   *)
LEMMA Seating ==
    ASSUME entry.kind = "batch", entry' = entry, BatchShape, NEW f \in BOOLEAN, SubmitSeats(f)
    PROVE  /\ <<>> \in DOMAIN routes'
           /\ DOMAIN routes'[<<>>] = Seats
           /\ \A i \in Seats : routes'[<<>>][i] \in Seat /\ routes'[<<>>][i].forced = f
<1>1. /\ <<>> \in DOMAIN routes
      /\ DOMAIN routes[<<>>] = Seats
      /\ \A i \in Seats : routes[<<>>][i] \in Seat
  BY DEF BatchShape
<1>2. <<>> \in DOMAIN routes' /\ routes'[<<>>] = [i \in Seats |-> [routes[<<>>][i] EXCEPT !.forced = f]]
  BY <1>1 DEF SubmitSeats
<1> HIDE DEF Seats
<1>3. ASSUME NEW i \in Seats
      PROVE  routes'[<<>>][i] \in Seat /\ routes'[<<>>][i].forced = f
  BY <1>1, <1>2 DEF Seat
<1> QED
  BY <1>2, <1>3

(* The devices that were left in the pool, and those that match.           *)
Left     == {o[2] : o \in orphans}
Matching == {e \in DOMAIN held : Matches(held[e])}

(* An event of a batch's device adds it to the pool with its label, or     *)
(* leaves the pool as it was: what is left in it no longer matches.        *)
LEMMA BatchAdds ==
    ASSUME entry.kind = "batch", entry' = entry, PoolFollows, BatchShape,
           NEW d, NEW a, held' = Put(held, d, a), BatchAdded(d, a)
    PROVE  PoolFollows' /\ BatchShape'
<1>1. /\ DOMAIN held' = DOMAIN held \union {d}
      /\ held'[d] = a
      /\ \A e \in DOMAIN held \ {d} : held'[e] = held[e]
  BY DEF Put
<1>2. Seats' = Seats
  BY DEF Seats
<1>3. /\ Matching \subseteq DOMAIN labels /\ DOMAIN labels \subseteq Matching \union Left
      /\ \A e \in DOMAIN labels : <<<<>>, e>> \notin orphans => labels[e] = BatchLabel(held[e])
      /\ DOMAIN labels # {} => \A i \in Seats : ~routes[<<>>][i].forced
  BY DEF PoolFollows, Matching, Left, Healthy
<1>4. \A o \in orphans : o = <<<<>>, o[2]>> /\ (o[2] \in DOMAIN held => ~Matches(held[o[2]]))
  BY DEF BatchShape
<1>5. /\ Matches(held[d])' = Matches(a)
      /\ BatchLabel(held[d])' = BatchLabel(a)
      /\ \A e \in DOMAIN held \ {d} : /\ Matches(held[e])' = Matches(held[e])
                                     /\ BatchLabel(held[e])' = BatchLabel(held[e])
  BY <1>1, FixedEntry
<1>6. CASE Matches(a)
  <2>1. /\ DOMAIN labels' = DOMAIN labels \union {d}
        /\ labels'[d] = BatchLabel(a)
        /\ \A e \in DOMAIN labels \ {d} : labels'[e] = labels[e]
    BY <1>6 DEF BatchAdded, Put
  <2>2. orphans' = orphans \ {<<<<>>, d>>}
    BY <1>6 DEF BatchAdded
  <2>3. Matching' = Matching \union {d}
    BY <1>1, <1>5, <1>6 DEF Matching
  <2>4. Left' = Left \ {d}
    BY <1>4, <2>2 DEF Left
  <2>5. \A e \in DOMAIN labels' : <<<<>>, e>> \notin orphans' => labels'[e] = BatchLabel(held[e])'
    <3>1. ASSUME NEW e \in DOMAIN labels \ {d}, <<<<>>, e>> \notin orphans'
          PROVE  labels'[e] = BatchLabel(held[e])'
      <4>1. <<<<>>, e>> \notin orphans
        BY <2>2, <3>1
      <4>2. e \notin Left
        BY <1>4, <4>1 DEF Left
      <4>3. e \in DOMAIN held
        BY <1>3, <4>2 DEF Matching
      <4> QED
        BY <1>3, <1>5, <2>1, <4>1, <4>3
    <3> QED
      BY <1>5, <2>1, <3>1
  <2>6. /\ <<>> \in DOMAIN routes'
        /\ DOMAIN routes'[<<>>] = Seats
        /\ \A i \in Seats : routes'[<<>>][i] \in Seat /\ ~routes'[<<>>][i].forced
    <3>1. CASE DOMAIN labels = {}
      BY <1>6, <3>1, Seating DEF BatchAdded
    <3>2. CASE DOMAIN labels # {}
      BY <1>3, <1>6, <3>2 DEF BatchAdded, BatchShape
    <3> QED
      BY <3>1, <3>2
  <2>7. BatchShape'
    BY <1>1, <1>2, <1>4, <1>5, <2>2, <2>6 DEF BatchShape
  <2>8. PoolFollows'
    BY <1>2, <1>3, <2>1, <2>3, <2>4, <2>5, <2>6
       DEF PoolFollows, Matching, Left, Healthy, OwnHealth
  <2> QED
    BY <2>7, <2>8
<1>7. CASE ~Matches(a)
  <2>1. labels' = labels /\ routes' = routes
    BY <1>7 DEF BatchAdded
  <2>2. orphans' = orphans \union {<<<<>>, e>> : e \in DOMAIN labels \intersect {d}}
    BY <1>7 DEF BatchAdded
  <2>3. Matching' = Matching \ {d}
    BY <1>1, <1>5, <1>7 DEF Matching
  <2>4. Left' = Left \union (DOMAIN labels \intersect {d})
    <3>1. \A e : <<<<>>, e>>[2] = e
      OBVIOUS
    <3> QED
      BY <2>2, <3>1 DEF Left
  <2>5. BatchShape'
    BY <1>1, <1>2, <1>4, <1>5, <1>7, <2>1, <2>2 DEF BatchShape
  <2>6. ASSUME NEW e \in DOMAIN labels, <<<<>>, e>> \notin orphans'
        PROVE  labels[e] = BatchLabel(held[e])'
    <3>1. e # d /\ <<<<>>, e>> \notin orphans
      BY <2>2, <2>6
    <3>2. e \notin Left
      BY <1>4, <3>1 DEF Left
    <3>3. e \in DOMAIN held
      BY <1>3, <3>2 DEF Matching
    <3> QED
      BY <1>3, <1>5, <3>1, <3>3
  <2>7. PoolFollows'
    BY <1>2, <1>3, <2>1, <2>3, <2>4, <2>6
       DEF PoolFollows, Matching, Left, Healthy, OwnHealth
  <2> QED
    BY <2>5, <2>7
<1> QED
  BY <1>6, <1>7

(* A removal takes a device that matches out of the pool; the seats turn   *)
(* Unhealthy when it was the last.                                         *)
LEMMA BatchRemoves ==
    ASSUME entry.kind = "batch", entry' = entry, PoolFollows, BatchShape,
           NEW d \in DOMAIN held, held' = Restrict(held, DOMAIN held \ {d}),
           BatchRemoved(d, held[d])
    PROVE  PoolFollows' /\ BatchShape'
<1>1. /\ DOMAIN held' = DOMAIN held \ {d}
      /\ \A e \in DOMAIN held \ {d} : held'[e] = held[e]
  BY DEF Restrict
<1>2. Seats' = Seats
  BY DEF Seats
<1>3. /\ Matching \subseteq DOMAIN labels /\ DOMAIN labels \subseteq Matching \union Left
      /\ \A e \in DOMAIN labels : <<<<>>, e>> \notin orphans => labels[e] = BatchLabel(held[e])
      /\ DOMAIN labels # {} => \A i \in Seats : ~routes[<<>>][i].forced
  BY DEF PoolFollows, Matching, Left, Healthy
<1>4. \A o \in orphans : o = <<<<>>, o[2]>> /\ (o[2] \in DOMAIN held => ~Matches(held[o[2]]))
  BY DEF BatchShape
<1>5. \A e \in DOMAIN held \ {d} : /\ Matches(held[e])' = Matches(held[e])
                                  /\ BatchLabel(held[e])' = BatchLabel(held[e])
  BY <1>1, FixedEntry
<1>6. orphans' = orphans /\ Left' = Left
  BY DEF BatchRemoved, Left
<1>7. Matching' = Matching \ {d}
  BY <1>1, <1>5 DEF Matching
<1>8. \A e \in Left : <<<<>>, e>> \in orphans
  BY <1>4 DEF Left
<1>9. ASSUME NEW e \in DOMAIN labels \ {d}, <<<<>>, e>> \notin orphans
      PROVE  labels[e] = BatchLabel(held[e])'
  <2>1. e \in DOMAIN held
    BY <1>3, <1>8, <1>9 DEF Matching
  <2> QED
    BY <1>3, <1>5, <1>9, <2>1
<1>10. CASE Matches(held[d])
  <2>1. /\ DOMAIN labels' = DOMAIN labels \ {d}
        /\ \A e \in DOMAIN labels \ {d} : labels'[e] = labels[e]
    BY <1>10 DEF BatchRemoved, Restrict
  <2>2. d \notin Left
    BY <1>4, <1>10 DEF Left
  <2>3. /\ <<>> \in DOMAIN routes'
        /\ DOMAIN routes'[<<>>] = Seats
        /\ \A i \in Seats : /\ routes'[<<>>][i] \in Seat
                            /\ DOMAIN labels' # {} => ~routes'[<<>>][i].forced
    <3>1. CASE DOMAIN labels \subseteq {d}
      BY <1>10, <2>1, <3>1, Seating DEF BatchRemoved
    <3>2. CASE ~(DOMAIN labels \subseteq {d})
      BY <1>3, <1>10, <3>2 DEF BatchRemoved, BatchShape
    <3> QED
      BY <3>1, <3>2
  <2>4. BatchShape'
    BY <1>1, <1>2, <1>4, <1>5, <1>6, <2>3 DEF BatchShape
  <2>5. PoolFollows'
    BY <1>2, <1>3, <1>6, <1>7, <1>9, <2>1, <2>2, <2>3
       DEF PoolFollows, Matching, Left, Healthy, OwnHealth
  <2> QED
    BY <2>4, <2>5
<1>11. CASE ~Matches(held[d])
  <2>1. labels' = labels /\ routes' = routes
    BY <1>11 DEF BatchRemoved
  <2>2. BatchShape'
    BY <1>1, <1>2, <1>4, <1>5, <1>6, <2>1 DEF BatchShape
  <2>3. d \in DOMAIN labels => <<<<>>, d>> \in orphans
    BY <1>3, <1>8, <1>11 DEF Matching
  <2>4. Matching' = Matching
    BY <1>7, <1>11 DEF Matching
  <2>5. \A e \in DOMAIN labels : <<<<>>, e>> \notin orphans => labels[e] = BatchLabel(held[e])'
    BY <1>9, <2>3
  <2>6. PoolFollows'
    BY <1>2, <1>3, <1>6, <2>1, <2>4, <2>5
       DEF PoolFollows, Matching, Left, Healthy, OwnHealth
  <2> QED
    BY <2>2, <2>6
<1> QED
  BY <1>10, <1>11

-----------------------------------------------------------------------------
(* The invariant.                                                          *)

(* No device is there, and a batch has its seats.                          *)
LEMMA Initially == Init => IInv
<1> SUFFICES ASSUME Init PROVE IInv
  OBVIOUS
<1>1. InstancesFollow
  BY DEF Init, InstancesFollow
<1>2. CASE entry.kind = "batch"
  <2>1. DOMAIN held = {} /\ DOMAIN labels = {} /\ orphans = {}
    BY DEF Init
  <2>2. PoolFollows
    BY <2>1 DEF PoolFollows
  <2>3. BatchShape
    BY <1>2, <2>1 DEF Init, BatchShape, Put, Seat
  <2> QED
    BY <1>1, <2>2, <2>3 DEF IInv, OffersFollowDevices
<1>3. CASE entry.kind # "batch"
  BY <1>1, <1>3 DEF IInv, OffersFollowDevices, PoolFollows, BatchShape
<1> QED
  BY <1>2, <1>3

(* Steps of the kubelet and of Allocate change nothing it speaks of.       *)
LEMMA Unmoved ==
    ASSUME IInv, UNCHANGED <<entry, held, routes, labels, orphans>>
    PROVE  IInv'
<1>1. ASSUME NEW e
      PROVE  /\ Matches(held[e])' = Matches(held[e])
             /\ Suffix(held[e])' = Suffix(held[e])
             /\ Mapped(held[e])' = Mapped(held[e])
             /\ BatchLabel(held[e])' = BatchLabel(held[e])
  BY FixedEntry
<1>2. InstancesFollow'
  <2>1. ASSUME NEW q \in DOMAIN routes, NEW i \in DOMAIN routes[q], NotStale(q, i)
        PROVE  NotStale(q, i)'
    BY <2>1 DEF NotStale, Current
  <2>2. ASSUME NEW e \in DOMAIN held, Served(e)
        PROVE  Served(e)'
    BY <1>1, <2>2 DEF Served, Current
  <2> QED
    BY <1>1, <2>1, <2>2 DEF IInv, OffersFollowDevices, InstancesFollow
<1>3. PoolFollows'
  BY <1>1 DEF IInv, OffersFollowDevices, PoolFollows, Seats, Healthy, OwnHealth
<1>4. BatchShape'
  BY <1>1 DEF IInv, BatchShape, Seats
<1> QED
  BY <1>2, <1>3, <1>4 DEF IInv, OffersFollowDevices

(* An addition or a removal keeps it, of a device of each kind of entry.   *)
LEMMA Stepwise == IInv /\ [Next]_vars => IInv'
<1> SUFFICES ASSUME IInv, [Next]_vars PROVE IInv'
  OBVIOUS
<1>1. ASSUME NEW d \in Devices, NEW a \in entry.attrs, Add(d, a)
      PROVE  IInv'
  <2>1. CASE entry.kind = "batch"
    BY <1>1, <2>1, BatchAdds DEF Add, IInv, OffersFollowDevices, InstancesFollow
  <2>2. CASE entry.kind # "batch"
    BY <1>1, <2>2, ScatterAdds DEF Add, IInv, OffersFollowDevices, PoolFollows, BatchShape
  <2> QED
    BY <2>1, <2>2
<1>2. ASSUME NEW d \in Devices, Remove(d)
      PROVE  IInv'
  <2>1. CASE entry.kind = "batch"
    <3>1. d \in DOMAIN held /\ BatchRemoved(d, held[d])
      BY <1>2, <2>1 DEF Remove, Removable
    <3> QED
      BY <1>2, <2>1, <3>1, BatchRemoves DEF Remove, IInv, OffersFollowDevices, InstancesFollow
  <2>2. CASE entry.kind # "batch"
    BY <1>2, <2>2, ScatterRemoves DEF Remove, IInv, OffersFollowDevices, PoolFollows, BatchShape
  <2> QED
    BY <2>1, <2>2
<1>3. ASSUME NEW d \in Devices, Panic(d)
      PROVE  IInv'
  BY <1>3, Unmoved DEF Panic
<1>4. ASSUME NEW r \in DOMAIN routes, List(r)
      PROVE  IInv'
  BY <1>4, Unmoved DEF List, deviceVars
<1>5. ASSUME NEW req, Allocate(req)
      PROVE  IInv'
  BY <1>5, Unmoved DEF Allocate, deviceVars
<1>6. CASE ServeId \/ NotFound \/ Return \/ UNCHANGED vars
  BY <1>6, Unmoved DEF ServeId, NotFound, Return, deviceVars, vars
<1> QED
  BY <1>1, <1>2, <1>3, <1>4, <1>5, <1>6 DEF Next

(* What is offered follows the devices (scatter.go:58-74, 108-122,         *)
(* batch_partition.go:185-212), for every entry, any number of devices and *)
(* of events.                                                              *)
THEOREM OffersFollow == Spec => []OffersFollowDevices
<1>1. IInv => OffersFollowDevices
  BY DEF IInv
<1> QED
  BY <1>1, Initially, Stepwise, PTL DEF Spec

-----------------------------------------------------------------------------
(* Shares.                                                                 *)

(* Entries of which a mapper cannot panic: validate asks for none of this. *)
OrdinaryEntry(e) ==
    /\ e.kind = "netbw" =>
           /\ 1 < e.num /\ e.num < 2 ^ (Width - 1)
           /\ \A a \in e.attrs : a.speed # Unreadable => a.speed \in Int /\ a.speed >= -1
    /\ e.kind = "netrdma" => e.num < 2 ^ (Width - 1)

(* The division rounds towards zero: a link without a speed, which reports *)
(* -1, has no share, and the shares of the others are all that fit.        *)
LEMMA Dividing ==
    ASSUME NEW m \in Int, m >= -1, NEW n \in Int, n > 1
    PROVE  /\ Quotient(m, n) \in Nat
           /\ m >= 0 => Quotient(m, n) * n <= m /\ m < (Quotient(m, n) + 1) * n
<1>1. CASE m = -1
  <2>1. 1 \div n = 0
    BY SMT
  <2> QED
    BY <1>1, <2>1 DEF Quotient, Abs
<1>2. CASE m >= 0
  <2>1. m \div n \in Nat /\ n * (m \div n) <= m /\ m < n * (m \div n) + n
    BY <1>2, SMT
  <2>2. Quotient(m, n) = m \div n
    BY <1>2 DEF Quotient, Abs
  <2> HIDE DEF Quotient
  <2> QED
    BY <1>2, <2>1, <2>2, SMT
<1> QED
  BY <1>1, <1>2

(* No object that a mapper is given can make it panic.                     *)
LEMMA Harmless ==
    ASSUME entry \in Entries, OrdinaryEntry(entry), NEW a,
           a.speed # Unreadable => \E b \in entry.attrs : a.speed = b.speed
    PROVE  ~MapperPanics(a)
<1>1. CASE entry.kind = "netbw" /\ a.speed # Unreadable
  <2>1. AsInt(entry.num) = entry.num /\ entry.num \in Int /\ entry.num > 1
    BY <1>1, AllocationAssumption DEF OrdinaryEntry, AsInt
  <2>2. a.speed \in Int /\ a.speed >= -1
    BY <1>1 DEF OrdinaryEntry
  <2>3. Shares(a) \in Nat
    BY <2>1, <2>2, Dividing DEF Shares
  <2> QED
    BY <1>1, <2>1, <2>3 DEF MapperPanics
<1>2. CASE entry.kind = "netrdma"
  <2>1. AsInt(entry.num) = entry.num /\ entry.num >= 0
    BY <1>2, AllocationAssumption DEF OrdinaryEntry, AsInt
  <2> QED
    BY <1>2, <2>1, AllocationAssumption DEF MapperPanics
<1> QED
  BY <1>1, <1>2 DEF MapperPanics

(* The mappers of the entries of a configuration panic on no NIC, however  *)
(* devices come and go, if every mbpsPerShare is at least 2 and, like      *)
(* every resourceCount, fits an int, and no speed is below -1              *)
(* (net_bw.go:97-102, net_rdma.go:108).                                    *)
THEOREM OrdinaryEntriesNeverPanic ==
    ASSUME \A e \in Entries : OrdinaryEntry(e)
    PROVE  Spec => []~crashed
<1> DEFINE Sound == /\ ~crashed
                    /\ entry \in Entries \/ entry.kind = "batch"
                    /\ \A d \in DOMAIN held : held[d] \in entry.attrs
<1>1. Init => Sound
  <2>1. ASSUME NEW e \in Entries
        PROVE  Validated(e) = e \/ Validated(e).kind = "batch"
    BY AllocationAssumption DEF Validated
  <2> QED
    BY <2>1 DEF Init
<1>2. Sound /\ [Next]_vars => Sound'
  <2> SUFFICES ASSUME Sound, [Next]_vars PROVE Sound'
    OBVIOUS
  <2>1. ASSUME NEW d \in Devices, NEW a \in entry.attrs, Add(d, a)
        PROVE  Sound'
    BY <2>1 DEF Add, Put
  <2>2. ASSUME NEW d \in Devices, Remove(d)
        PROVE  Sound'
    BY <2>2 DEF Remove, Restrict
  <2>3. ASSUME NEW d \in Devices, Panic(d)
        PROVE  Sound'
    <3>1. PICK a \in {b \in entry.attrs : Possible(d, b)} \union Removable(d) : MapperPanics(a)
      BY <2>3 DEF Panic
    <3>2. entry \in Entries
      BY <3>1 DEF MapperPanics
    <3>3. \E b \in entry.attrs : a.speed = b.speed
      <4>1. CASE a \in entry.attrs
        BY <4>1
      <4>2. CASE a \in Removable(d)
        <5>1. d \in DOMAIN held /\ \E found \in BOOLEAN : a = [held[d] EXCEPT !.rdma = found]
          BY <4>2 DEF Removable
        <5>2. held[d] \in entry.attrs /\ DOMAIN held[d] = {"name", "speed", "up", "rdma"}
          BY <3>2, <5>1, AllocationAssumption
        <5> QED
          BY <5>1, <5>2
      <4> QED
        BY <3>1, <4>1, <4>2
    <3> QED
      BY <3>1, <3>2, <3>3, Harmless
  <2>4. ASSUME NEW r, List(r)
        PROVE  Sound'
    BY <2>4 DEF List, deviceVars
  <2>5. ASSUME NEW req, Allocate(req)
        PROVE  Sound'
    BY <2>5 DEF Allocate, deviceVars
  <2>6. CASE ServeId \/ NotFound \/ Return \/ UNCHANGED vars
    BY <2>6 DEF ServeId, NotFound, Return, deviceVars, vars
  <2> QED
    BY <2>1, <2>2, <2>3, <2>4, <2>5, <2>6 DEF Next
<1>3. Sound => ~crashed
  OBVIOUS
<1> QED
  BY <1>1, <1>2, <1>3, PTL DEF Spec

-----------------------------------------------------------------------------
(* Types, and what a container is given.                                   *)

(* The entry is one of the configuration's, as validate leaves it.         *)
LEMMA ValidEntry ==
    ASSUME NEW e \in Entries, Valid(e)
    PROVE  LET v == Validated(e) IN
           /\ v.kind \in {"part", "netbw", "netrdma", "batch"}
           /\ v.kind = "part" => \A n \in DOMAIN v.match : Len(v.match[n]) <= 2
           /\ v.kind = "batch" => v.num \in Int /\ v.num > 0
<1>1. /\ DOMAIN e = {"kind", "groups", "match", "num", "attrs"}
      /\ e.kind \in {"part", "netbw", "netrdma", "batch"}
      /\ e.groups \in Nat
      /\ \A n \in DOMAIN e.match : Len(e.match[n]) = e.groups + 1
      /\ e.num \in Int /\ e.num >= 0
  BY AllocationAssumption
<1>2. CASE e.kind = "batch" /\ e.num = 0
  <2>1. Validated(e) = [e EXCEPT !.num = 1]
    BY <1>2 DEF Validated
  <2>2. Validated(e).num = 1 /\ Validated(e).kind = "batch"
    BY <1>1, <1>2, <2>1
  <2>. QED  BY <2>2
<1>3. CASE ~(e.kind = "batch" /\ e.num = 0)
  <2>1. Validated(e) = e
    BY <1>3 DEF Validated
  <2>2. e.kind = "part" => \A n \in DOMAIN e.match : Len(e.match[n]) <= 2
    BY <1>1 DEF Valid
  <2>. QED  BY <1>1, <1>3, <2>1, <2>2
<1>. QED  BY <1>2, <1>3

EntryTypes ==
    /\ entry.kind \in {"part", "netbw", "netrdma", "batch"}
    /\ entry.kind = "part" => \A n \in DOMAIN entry.match : Len(entry.match[n]) <= 2
    /\ entry.kind = "batch" => Seats # {}

Placed(inst) == inst.dev \in Devices \union {Unknown} /\ inst.forced \in BOOLEAN

DeviceTypes ==
    /\ DOMAIN held \subseteq Devices /\ \A d \in DOMAIN held : held[d] \in entry.attrs
    /\ \A r \in DOMAIN routes : \A i \in DOMAIN routes[r] : Placed(routes[r][i])
    /\ DOMAIN labels \subseteq Devices
    /\ changes \in 0 .. MaxChanges
    /\ crashed \in BOOLEAN

CallTypes ==
    /\ pc \in {"idle", "listed", "serving", "answered", "failed"}
    /\ todo \subseteq request
    /\ DOMAIN response \subseteq {p[1] : p \in request}
    /\ stayed \subseteq Devices

TypeInv == EntryTypes /\ DeviceTypes /\ CallTypes

(* The types hold before the first event.                                  *)
LEMMA TypesAtFirst == Init => TypeInv
<1>. SUFFICES ASSUME Init PROVE TypeInv
  OBVIOUS
<1>1. EntryTypes
  <2>1. PICK e \in Entries : Valid(e) /\ entry = Validated(e)
    BY DEF Init
  <2>2. entry.kind = "batch" => entry.num \in Int /\ entry.num > 0
    BY <2>1, ValidEntry
  <2>3. entry.kind = "batch" => 0 \in Seats
    BY <2>2 DEF Seats
  <2>. QED  BY <2>1, <2>3, ValidEntry DEF EntryTypes
<1>2. DeviceTypes
  <2>1. ASSUME NEW r \in DOMAIN routes, NEW i \in DOMAIN routes[r] PROVE Placed(routes[r][i])
    <3>1. entry.kind = "batch"
      BY <2>1 DEF Init
    <3>2. routes = Put(<<>>, <<>>,
                       [j \in Seats |-> [dev |-> Unknown, obj |-> Unknown, forced |-> FALSE]])
      BY <3>1 DEF Init
    <3>. HIDE DEF Seats
    <3>3. routes[r] = [j \in Seats |-> [dev |-> Unknown, obj |-> Unknown, forced |-> FALSE]]
      BY <3>2 DEF Put
    <3>4. routes[r][i] = [dev |-> Unknown, obj |-> Unknown, forced |-> FALSE]
      BY <3>3
    <3>. QED  BY <3>4 DEF Placed
  <2>2. DOMAIN held = {} /\ DOMAIN labels = {}
    BY DEF Init
  <2>3. changes \in 0 .. MaxChanges /\ crashed \in BOOLEAN
    <3>1. MaxChanges \in Nat
      BY AllocationAssumption
    <3>2. changes = 0 /\ crashed = FALSE
      BY DEF Init
    <3>3. changes \in 0 .. MaxChanges
      BY <3>1, <3>2
    <3>4. crashed \in BOOLEAN
      BY <3>2
    <3>. QED  BY <3>3, <3>4
  <2>. QED  BY <2>1, <2>2, <2>3 DEF DeviceTypes
<1>3. CallTypes
  BY DEF Init, CallTypes
<1>. QED  BY <1>1, <1>2, <1>3 DEF TypeInv

(* Instances that are submitted are a device's.                            *)
LEMMA SubmitPlaces ==
    ASSUME DeviceTypes, NEW r, NEW is, NEW d \in Devices, NEW a, NEW forced \in BOOLEAN,
           Submit(r, is, d, a, forced)
    PROVE  \A q \in DOMAIN routes' : \A i \in DOMAIN routes'[q] : Placed(routes'[q][i])
<1>1. /\ DOMAIN routes' = DOMAIN routes \union {r}
      /\ \A q \in DOMAIN routes \ {r} : routes'[q] = routes[q]
      /\ \A i \in is : /\ i \in DOMAIN routes'[r]
                       /\ routes'[r][i] = [dev |-> d, obj |-> a, forced |-> forced]
      /\ \A i \in DOMAIN routes'[r] \ is :
            r \in DOMAIN routes /\ i \in DOMAIN routes[r] /\ routes'[r][i] = routes[r][i]
      /\ r \in DOMAIN routes => DOMAIN routes[r] \subseteq DOMAIN routes'[r]
  BY Submitting
<1>2. ASSUME NEW i \in DOMAIN routes'[r] PROVE Placed(routes'[r][i])
  <2>1. CASE i \in is
    BY <1>1, <2>1 DEF Placed
  <2>2. CASE i \notin is
    BY <1>1, <2>2 DEF DeviceTypes
  <2>. QED  BY <2>1, <2>2
<1>. QED  BY <1>1, <1>2 DEF DeviceTypes

(* Seats stay seats.                                                       *)
LEMMA SeatPlaces ==
    ASSUME DeviceTypes, entry.kind = "batch", entry' = entry, BatchShape,
           NEW f \in BOOLEAN, SubmitSeats(f)
    PROVE  \A q \in DOMAIN routes' : \A i \in DOMAIN routes'[q] : Placed(routes'[q][i])
<1>1. /\ DOMAIN routes'[<<>>] = Seats
      /\ \A i \in Seats : routes'[<<>>][i] \in Seat
  BY Seating
<1>2. /\ DOMAIN routes' = DOMAIN routes
      /\ \A q \in DOMAIN routes \ {<<>>} : routes'[q] = routes[q]
  BY DEF SubmitSeats
<1>3. \A i \in Seats : Placed(routes'[<<>>][i])
  BY <1>1 DEF Seat, Placed
<1>. QED  BY <1>1, <1>2, <1>3 DEF DeviceTypes

(* A device is added or removed.                                           *)
LEMMA EventTypes ==
    ASSUME IInv, TypeInv, NEW d \in Devices,
           (\E a \in entry.attrs : Add(d, a)) \/ Remove(d)
    PROVE  TypeInv'
<1>1. entry' = entry /\ UNCHANGED <<crashed, callVars>> /\ changes' = changes + 1 /\ changes < MaxChanges
  BY DEF Add, Remove, Event
<1>2. EntryTypes'
  BY <1>1 DEF TypeInv, EntryTypes, Seats
<1>3. changes' \in 0 .. MaxChanges
  BY <1>1, AllocationAssumption DEF TypeInv, DeviceTypes
<1>4. CASE \E a \in entry.attrs : Add(d, a)
  <2>1. PICK a \in entry.attrs : Add(d, a)
    BY <1>4
  <2>2. DOMAIN held' \subseteq Devices /\ \A e \in DOMAIN held' : held'[e] \in entry.attrs
    BY <2>1 DEF Add, Put, TypeInv, DeviceTypes
  <2>3. DOMAIN labels' \subseteq Devices
    BY <2>1 DEF Add, BatchAdded, Put, TypeInv, DeviceTypes
  <2>4. \A q \in DOMAIN routes' : \A i \in DOMAIN routes'[q] : Placed(routes'[q][i])
    <3>1. CASE routes' = routes
      BY <3>1 DEF TypeInv, DeviceTypes
    <3>2. CASE entry.kind = "batch" /\ SubmitSeats(FALSE)
      BY <1>1, <3>2, SeatPlaces DEF TypeInv, IInv
    <3>3. CASE entry.kind # "batch" /\ Submit(Suffix(a), Mapped(a), d, a, FALSE)
      BY <3>3, SubmitPlaces DEF TypeInv
    <3>. QED  BY <2>1, <3>1, <3>2, <3>3 DEF Add, BatchAdded, ScatterAdded
  <2>5. CallTypes'
    BY <1>1, <2>1 DEF Add, TypeInv, CallTypes, callVars
  <2>. QED  BY <1>1, <1>2, <1>3, <2>2, <2>3, <2>4, <2>5 DEF TypeInv, DeviceTypes
<1>5. CASE Remove(d)
  <2>1. PICK a \in Removable(d) :
            IF entry.kind = "batch" THEN BatchRemoved(d, a)
                                    ELSE ScatterRemoved(d, a) /\ UNCHANGED labels
    BY <1>5 DEF Remove
  <2>2. DOMAIN held' \subseteq Devices /\ \A e \in DOMAIN held' : held'[e] \in entry.attrs
    BY <1>5 DEF Remove, Restrict, TypeInv, DeviceTypes
  <2>3. DOMAIN labels' \subseteq Devices
    BY <2>1 DEF BatchRemoved, Restrict, TypeInv, DeviceTypes
  <2>4. \A q \in DOMAIN routes' : \A i \in DOMAIN routes'[q] : Placed(routes'[q][i])
    <3>1. CASE routes' = routes
      BY <3>1 DEF TypeInv, DeviceTypes
    <3>2. CASE entry.kind = "batch" /\ SubmitSeats(TRUE)
      BY <1>1, <3>2, SeatPlaces DEF TypeInv, IInv
    <3>3. CASE entry.kind # "batch" /\ Submit(Suffix(a), Mapped(a), d, a, TRUE)
      BY <3>3, SubmitPlaces DEF TypeInv
    <3>. QED  BY <2>1, <3>1, <3>2, <3>3 DEF BatchRemoved, ScatterRemoved
  <2>5. CallTypes'
    BY <1>1, <1>5 DEF Remove, TypeInv, CallTypes, callVars
  <2>. QED  BY <1>1, <1>2, <1>3, <2>2, <2>3, <2>4, <2>5 DEF TypeInv, DeviceTypes
<1>. QED  BY <1>4, <1>5

(* Every event and every step of the call keeps the types.                 *)
LEMMA TypesStepwise == IInv /\ TypeInv /\ [Next]_vars => TypeInv'
<1>. SUFFICES ASSUME IInv, TypeInv, [Next]_vars PROVE TypeInv'
  OBVIOUS
<1>1. ASSUME NEW d \in Devices, (\E a \in entry.attrs : Add(d, a)) \/ Remove(d) PROVE TypeInv'
  BY <1>1, EventTypes
<1>2. ASSUME UNCHANGED <<entry, held, routes, labels>>,
             changes' \in 0 .. MaxChanges, crashed' \in BOOLEAN
      PROVE  EntryTypes' /\ DeviceTypes'
  BY <1>2 DEF TypeInv, EntryTypes, DeviceTypes, Seats
<1>3. ASSUME NEW d \in Devices, Panic(d) PROVE TypeInv'
  <2>1. changes' \in 0 .. MaxChanges /\ crashed' \in BOOLEAN
    BY <1>3, AllocationAssumption DEF Panic, Event, TypeInv, DeviceTypes
  <2>2. CallTypes'
    BY <1>3 DEF Panic, TypeInv, CallTypes, callVars
  <2>. QED  BY <1>2, <1>3, <2>1, <2>2 DEF Panic, TypeInv
<1>4. ASSUME UNCHANGED deviceVars PROVE EntryTypes' /\ DeviceTypes'
  BY <1>2, <1>4 DEF deviceVars, TypeInv, DeviceTypes
<1>5. ASSUME NEW r \in DOMAIN routes, List(r) PROVE TypeInv'
  <2>1. CallTypes'
    BY <1>5 DEF List, TypeInv, CallTypes, DeviceTypes
  <2>. QED  BY <1>4, <1>5, <2>1 DEF List, TypeInv
<1>6. ASSUME NEW req, Allocate(req) PROVE TypeInv'
  <2>1. CallTypes'
    BY <1>6 DEF Allocate, TypeInv, CallTypes
  <2>. QED  BY <1>4, <1>6, <2>1 DEF Allocate, TypeInv
<1>7. CASE ServeId \/ NotFound \/ Return
  <2>1. CallTypes'
    BY <1>7 DEF ServeId, NotFound, Return, NextIds, TypeInv, CallTypes
  <2>. QED  BY <1>4, <1>7, <2>1 DEF ServeId, NotFound, Return, TypeInv
<1>8. CASE UNCHANGED vars
  BY <1>4, <1>8 DEF vars, callVars, TypeInv, CallTypes
<1>. QED  BY <1>1, <1>3, <1>5, <1>6, <1>7, <1>8 DEF Next

(* Both invariants hold in every state.                                    *)
LEMMA Typed == Spec => [](IInv /\ TypeInv)
<1>1. Init => IInv /\ TypeInv
  BY Initially, TypesAtFirst
<1>2. IInv /\ TypeInv /\ [Next]_vars => (IInv /\ TypeInv)'
  BY Stepwise, TypesStepwise
<1>. QED  BY <1>1, <1>2, PTL DEF Spec

(* Every variable stays in its set; an entry that validate lets through    *)
(* gives a batch a seat, and a partition at most one group, however the    *)
(* configuration writes it (main.go:290, 323).                             *)
THEOREM AllocationTypes == Spec => []TypeOK
<1>1. TypeInv => TypeOK
  BY DEF TypeInv, EntryTypes, DeviceTypes, Placed, CallTypes, TypeOK
<1>. QED  BY <1>1, Typed, PTL

-----------------------------------------------------------------------------
(* The answer.                                                             *)

(* Each variable of a response is about one of its devices.                *)
DevicesOf(r) ==
    \A l \in DOMAIN r.env : \E q \in r.devs : q[1] = r.env[l] /\ Fold[q[2]] = l

Coherent(r) ==
    /\ DevicesOf(r)
    /\ \A p \in r.devs : p[2] \in DOMAIN Fold => Fold[p[2]] \in DOMAIN r.env

(* A coherent response has the variables of its devices.                   *)
LEMMA CoherentVariables ==
    ASSUME NEW r, Coherent(r)
    PROVE  VariablesOf(r)
<1>. QED  BY DEF Coherent, DevicesOf, VariablesOf

(* And so has one merged from two: the variable that is overwritten is     *)
(* that of a label which folds to the same.                                *)
LEMMA MergeCoherent ==
    ASSUME NEW r, NEW s, Coherent(r), Coherent(s)
    PROVE  Coherent(Merge(r, s)) /\ Merge(r, s).devs = r.devs \union s.devs
<1>. DEFINE env == Override(s.env, r.env)  m == Merge(r, s)
<1>1. m.devs = r.devs \union s.devs /\ m.env = env
  BY DEF Merge
<1>2. /\ DOMAIN env = DOMAIN s.env \union DOMAIN r.env
      /\ \A l \in DOMAIN s.env : env[l] = s.env[l]
      /\ \A l \in DOMAIN r.env \ DOMAIN s.env : env[l] = r.env[l]
  BY DEF Override
<1>. HIDE DEF env, m
<1>3. DevicesOf(m)
  <2>1. ASSUME NEW l \in DOMAIN env
        PROVE  \E q \in m.devs : q[1] = env[l] /\ Fold[q[2]] = l
    <3>1. CASE l \in DOMAIN s.env
      BY <1>1, <1>2, <3>1 DEF Coherent, DevicesOf
    <3>2. CASE l \notin DOMAIN s.env
      BY <1>1, <1>2, <3>2 DEF Coherent, DevicesOf
    <3>. QED  BY <3>1, <3>2
  <2>. QED  BY <1>1, <2>1 DEF DevicesOf
<1>4. \A p \in m.devs : p[2] \in DOMAIN Fold => Fold[p[2]] \in DOMAIN m.env
  BY <1>1, <1>2 DEF Coherent
<1>. QED  BY <1>1, <1>3, <1>4 DEF Coherent, m

(* A container that has been given nothing yet.                            *)
LEMMA EmptyCoherent == Coherent(NoResponse)
<1>1. NoResponse.devs = {} /\ DOMAIN NoResponse.env = {}
  BY DEF NoResponse
<1>. QED  BY <1>1 DEF Coherent, DevicesOf

(* What each id is given for itself.                                       *)
Given(r, i) ==
    LET devs == {q[1] : q \in r.devs} IN
    /\ entry.kind = "part" => i \in {q[2] : q \in r.devs}
    /\ entry.kind = "netrdma" => instances[i].dev \in devs
    /\ entry.kind = "batch" => stayed \subseteq devs

(* Every answer of Instance.Allocate is coherent, and is what the id is    *)
(* for.                                                                    *)
LEMMA AllocationCoherent ==
    ASSUME TypeInv, NEW i, i \in DOMAIN instances, NEW r \in Allocations(i),
           entry.kind = "netrdma" => instances[i].dev \notin DOMAIN Fold,
           entry.kind = "batch" => stayed \subseteq DOMAIN labels
    PROVE  Coherent(r) /\ Given(r, i)
<1>. DEFINE d == instances[i].dev
<1>1. CASE entry.kind = "part"
  <2>1. r = AllocatePartition(d, i)
    BY <1>1 DEF Allocations
  <2>2. /\ r.devs = {<<d, i>>}
        /\ DOMAIN r.env = {Fold[i]} /\ r.env[Fold[i]] = d
    BY <2>1 DEF AllocatePartition, Put
  <2>. HIDE DEF d
  <2>3. Coherent(r)
    BY <2>2 DEF Coherent, DevicesOf
  <2>. QED  BY <1>1, <2>2, <2>3 DEF Given
<1>2. CASE entry.kind = "netbw"
  BY <1>2, EmptyCoherent DEF Allocations, Given
<1>3. CASE entry.kind = "netrdma"
  <2>1. r.devs = {<<d, d>>} /\ DOMAIN r.env = {}
    BY <1>3 DEF Allocations, AllocateRdma
  <2>2. Coherent(r)
    BY <1>3, <2>1 DEF Coherent, DevicesOf
  <2>. QED  BY <1>3, <2>1, <2>2 DEF Given
<1>4. CASE entry.kind = "batch"
  <2>. DEFINE pairs == {<<e, labels[e]>> : e \in DOMAIN labels}
              folds == {Fold[p[2]] : p \in pairs}
  <2>1. PICK env \in [folds -> DOMAIN labels] :
            /\ \A l \in folds : Fold[labels[env[l]]] = l
            /\ r = [devs |-> pairs, env |-> env]
    BY <1>4 DEF Allocations, AllocateBatch
  <2>2. r.devs = pairs /\ r.env = env /\ DOMAIN env = folds
    BY <2>1
  <2>3. ASSUME NEW l \in folds PROVE \E q \in pairs : q[1] = env[l] /\ Fold[q[2]] = l
    <3>1. env[l] \in DOMAIN labels /\ Fold[labels[env[l]]] = l
      BY <2>1
    <3>2. <<env[l], labels[env[l]]>> \in pairs
      BY <3>1
    <3>. QED  BY <3>1, <3>2
  <2>4. \A p \in pairs : Fold[p[2]] \in folds
    OBVIOUS
  <2>5. ASSUME NEW e \in DOMAIN labels PROVE e \in {q[1] : q \in pairs}
    <3>1. <<e, labels[e]>> \in pairs
      OBVIOUS
    <3>2. <<e, labels[e]>>[1] = e
      OBVIOUS
    <3>. HIDE DEF pairs
    <3>. QED  BY <3>1, <3>2
  <2>. HIDE DEF pairs, folds
  <2>6. Coherent(r)
    BY <2>2, <2>3, <2>4 DEF Coherent, DevicesOf
  <2>. QED  BY <1>4, <2>2, <2>5, <2>6 DEF Given
<1>. QED  BY <1>1, <1>2, <1>3, <1>4 DEF TypeInv, EntryTypes

(* While Allocate runs, the ids it is done with have been given what they  *)
(* are for.                                                                *)
InCall == pc \in {"serving", "answered"}

AnswerInv ==
    /\ pc = "answered" => todo = {}
    /\ InCall => /\ DOMAIN response = {p[1] : p \in request}
                 /\ \A c \in DOMAIN response : Coherent(response[c])
                 /\ \A p \in request \ todo : Given(response[p[1]], p[2])
                 /\ \A i \in DOMAIN instances : Placed(instances[i])
    /\ pc = "listed" => name \in DOMAIN routes
    /\ pc \in {"listed", "serving", "answered"} /\ entry.kind = "batch" =>
          stayed \subseteq DOMAIN labels

(* An id once given stays given when the container is given more.          *)
LEMMA GivenMore ==
    ASSUME NEW r, NEW s, NEW i, Given(r, i), r.devs \subseteq s.devs
    PROVE  Given(s, i)
<1>. QED  BY DEF Given

(* A device event during the call takes from stayed what has gone, and no  *)
(* resource goes.                                                          *)
LEMMA EventAnswers ==
    ASSUME TypeInv, IInv, AnswerInv, NEW d \in Devices,
           (\E a \in entry.attrs : Add(d, a)) \/ Remove(d)
    PROVE  AnswerInv'
<1>1. UNCHANGED <<entry, callVars>>
  BY DEF Add, Remove
<1>2. /\ stayed' \subseteq stayed
      /\ entry.kind = "batch" /\ stayed \subseteq DOMAIN labels => stayed' \subseteq DOMAIN labels'
  <2>1. CASE Remove(d)
    BY <2>1 DEF Remove
  <2>2. CASE \E a \in entry.attrs : Add(d, a)
    <3>1. PICK a \in entry.attrs : Add(d, a)
      BY <2>2
    <3>2. entry.kind = "batch" => DOMAIN labels \subseteq DOMAIN labels'
      BY <3>1 DEF Add, BatchAdded, Put
    <3>3. stayed' = stayed
      BY <3>1 DEF Add
    <3>. QED  BY <3>2, <3>3
  <2>. QED  BY <2>1, <2>2
<1>3. DOMAIN routes \subseteq DOMAIN routes'
  <2>1. ASSUME NEW r, NEW is, NEW a, NEW f, Submit(r, is, d, a, f)
        PROVE  DOMAIN routes \subseteq DOMAIN routes'
    BY <2>1 DEF Submit, Put
  <2>2. ASSUME NEW f, SubmitSeats(f) PROVE DOMAIN routes \subseteq DOMAIN routes'
    BY <2>2 DEF SubmitSeats
  <2>3. CASE Remove(d)
    BY <2>1, <2>2, <2>3 DEF Remove, BatchRemoved, ScatterRemoved
  <2>4. CASE \E a \in entry.attrs : Add(d, a)
    BY <2>1, <2>2, <2>4 DEF Add, BatchAdded, ScatterAdded
  <2>. QED  BY <2>3, <2>4
<1>4. \A r, i : Given(r, i) => Given(r, i)'
  BY <1>1, <1>2 DEF Given, callVars
<1>5. UNCHANGED <<pc, name, request, todo, instances, response>>
  BY <1>1 DEF callVars
<1>6. InCall => \A p \in request \ todo : Given(response[p[1]], p[2])'
  <2>1. ASSUME InCall, NEW p \in request \ todo PROVE Given(response[p[1]], p[2])'
    <3>1. Given(response[p[1]], p[2])
      BY <2>1 DEF AnswerInv
    <3>. QED  BY <1>1, <1>2, <1>5, <3>1 DEF Given
  <2>. QED  BY <2>1
<1>. QED  BY <1>1, <1>2, <1>3, <1>5, <1>6 DEF AnswerInv, InCall, Coherent, DevicesOf, Placed

(* Allocate serves an id.                                                  *)
LEMMA ServeAnswers ==
    ASSUME TypeInv, AnswerInv, ServeId
    PROVE  AnswerInv'
<1>1. PICK p \in NextIds :
          /\ p[2] \in DOMAIN instances
          /\ \E r \in Allocations(p[2]) : response' = [response EXCEPT ![p[1]] = Merge(@, r)]
          /\ todo' = todo \ {p}
  BY DEF ServeId
<1>2. PICK r \in Allocations(p[2]) : response' = [response EXCEPT ![p[1]] = Merge(@, r)]
  BY <1>1
<1>3. /\ UNCHANGED <<entry, routes, labels, name, request, instances, stayed>>
      /\ pc = "serving" /\ pc' = IF todo' = {} THEN "answered" ELSE "serving"
  BY DEF ServeId, deviceVars
<1>4. /\ p \in request /\ DOMAIN response = {q[1] : q \in request}
      /\ \A c \in DOMAIN response : Coherent(response[c])
      /\ \A q \in request \ todo : Given(response[q[1]], q[2])
      /\ \A i \in DOMAIN instances : Placed(instances[i])
      /\ entry.kind = "batch" => stayed \subseteq DOMAIN labels
  BY <1>3 DEF AnswerInv, InCall, NextIds, TypeInv, CallTypes
<1>5. p[1] \in DOMAIN response
  BY <1>4
<1>6. instances[p[2]].dev \notin DOMAIN Fold
  BY <1>1, <1>4, AllocationAssumption DEF Placed
<1>7. Coherent(r) /\ Given(r, p[2])
  BY <1>1, <1>4, <1>6, AllocationCoherent
<1>. DEFINE m == Merge(response[p[1]], r)
<1>8. Coherent(m) /\ m.devs = response[p[1]].devs \union r.devs
  BY <1>4, <1>5, <1>7, MergeCoherent
<1>9. /\ DOMAIN response' = DOMAIN response
      /\ response'[p[1]] = m
      /\ \A c \in DOMAIN response \ {p[1]} : response'[c] = response[c]
  BY <1>2, <1>5
<1>. HIDE DEF m
<1>10. \A c \in DOMAIN response' : Coherent(response'[c])
  BY <1>4, <1>8, <1>9
<1>11. ASSUME NEW q \in request \ todo' PROVE Given(response'[q[1]], q[2])
  <2>1. CASE q = p
    BY <1>7, <1>8, <1>9, <2>1, GivenMore
  <2>2. CASE q # p
    <3>1. Given(response[q[1]], q[2]) /\ q[1] \in DOMAIN response
      BY <1>1, <1>4, <2>2
    <3>2. response[q[1]].devs \subseteq response'[q[1]].devs
      BY <1>8, <1>9, <3>1
    <3>. QED  BY <3>1, <3>2, GivenMore
  <2>. QED  BY <2>1, <2>2
<1>12. \A q \in request' \ todo' : Given(response[q[1]], q[2])'
  BY <1>3, <1>11 DEF Given
<1>13. \A c \in DOMAIN response' : Coherent(response[c])'
  BY <1>10 DEF Coherent, DevicesOf
<1>14. \A i \in DOMAIN instances' : Placed(instances[i])'
  BY <1>3, <1>4 DEF Placed
<1>. QED  BY <1>3, <1>4, <1>9, <1>12, <1>13, <1>14 DEF AnswerInv, InCall

(* The call begins with empty responses, from the instances as they are.   *)
LEMMA CallAnswers ==
    ASSUME TypeInv, AnswerInv, (\E r \in DOMAIN routes : List(r)) \/ \E req : Allocate(req)
    PROVE  AnswerInv'
<1>1. CASE \E r \in DOMAIN routes : List(r)
  BY <1>1 DEF List, deviceVars, AnswerInv, InCall
<1>2. ASSUME NEW req, Allocate(req) PROVE AnswerInv'
  <2>1. /\ pc = "listed" /\ pc' = "serving" /\ request' = req /\ todo' = req
        /\ instances' = routes[name]
        /\ response' = [c \in {p[1] : p \in req} |-> NoResponse]
        /\ UNCHANGED <<entry, routes, labels, name, stayed>>
    BY <1>2 DEF Allocate, deviceVars
  <2>2. \A c \in DOMAIN response' : Coherent(response'[c])
    BY <2>1, EmptyCoherent
  <2>3. \A c \in DOMAIN response' : Coherent(response[c])'
    BY <2>2 DEF Coherent, DevicesOf
  <2>4. \A i \in DOMAIN instances' : Placed(instances[i])'
    BY <2>1 DEF AnswerInv, TypeInv, DeviceTypes, Placed
  <2>. QED  BY <2>1, <2>3, <2>4 DEF AnswerInv, InCall
<1>. QED  BY <1>1, <1>2

(* Each step keeps what holds of the answer.                               *)
LEMMA AnswersStepwise == TypeInv /\ IInv /\ AnswerInv /\ [Next]_vars => AnswerInv'
<1>. SUFFICES ASSUME TypeInv, IInv, AnswerInv, [Next]_vars PROVE AnswerInv'
  OBVIOUS
<1>1. ASSUME UNCHANGED <<entry, routes, labels, callVars, stayed>> PROVE AnswerInv'
  BY <1>1 DEF callVars, AnswerInv, InCall, Coherent, DevicesOf, Given, Placed
<1>2. ASSUME NEW d \in Devices, Panic(d) PROVE AnswerInv'
  BY <1>1, <1>2 DEF Panic
<1>3. CASE NotFound \/ Return
  BY <1>3 DEF NotFound, Return, deviceVars, AnswerInv, InCall
<1>4. CASE UNCHANGED vars
  BY <1>1, <1>4 DEF vars, deviceVars
<1>5. ASSUME NEW d \in Devices, (\E a \in entry.attrs : Add(d, a)) \/ Remove(d)
      PROVE  AnswerInv'
  BY <1>5, EventAnswers
<1>. QED  BY <1>2, <1>3, <1>4, <1>5, CallAnswers, ServeAnswers DEF Next

(* A container that asked for ids it was offered gets them all with their  *)
(* variables, for any number of ids, whatever comes and goes while it is   *)
(* served: the path of each partition, the character devices of each NIC,  *)
(* and of a seat every device that stayed in the pool (plugin.go:133-212,  *)
(* batch_partition.go:54-76).                                              *)
THEOREM AnswersAreWhole == Spec => []AnswerIsWhole
<1>1. Init => AnswerInv
  BY DEF Init, AnswerInv, InCall
<1>2. TypeInv /\ AnswerInv => AnswerIsWhole
  <2>. SUFFICES ASSUME TypeInv, AnswerInv, pc = "answered", NEW p \in request
                PROVE  LET r == response[p[1]]  devs == {q[1] : q \in r.devs} IN
                       /\ VariablesOf(r)
                       /\ CASE entry.kind = "part"    -> p[2] \in {q[2] : q \in r.devs}
                            [] entry.kind = "netrdma" -> instances[p[2]].dev \in devs
                            [] entry.kind = "batch"   -> stayed \subseteq devs
                            [] OTHER                  -> TRUE
    BY DEF AnswerIsWhole
  <2>1. Given(response[p[1]], p[2]) /\ p[1] \in DOMAIN response
    BY DEF AnswerInv, InCall
  <2>2. VariablesOf(response[p[1]])
    BY <2>1, CoherentVariables DEF AnswerInv, InCall
  <2>. QED  BY <2>1, <2>2 DEF Given
<1>. QED  BY <1>1, <1>2, AnswersStepwise, Typed, PTL DEF Spec
=============================================================================
