-------------------------------- MODULE Feed --------------------------------
(***************************************************************************)
(* What a discovery promises the consumers of its events, with no monitor, *)
(* socket or multiplexer in it.  One who joins is first told which devices *)
(* are there, and from then on every change, in order and with everybody   *)
(* else, or a change is told to nobody.  No change is told while somebody  *)
(* who has joined is Ahead events behind.                                  *)
(*                                                                         *)
(* Discovery implements it, and Scatter is built on it.                    *)
(***************************************************************************)
EXTENDS Naturals, Sequences

CONSTANTS Readers, Devices, Ahead

VARIABLES
    devs,           \* the devices that are there
    joined,         \* the readers that are told of changes
    queue           \* the events each reader has still to read

vars == <<devs, joined, queue>>

(* Added and Removed name one device, Start all those that are there.      *)
Event      == [kind : {"Init", "Added", "Removed"}, devs : SUBSET Devices]
Added(d)   == [kind |-> "Added", devs |-> {d}]
Removed(d) == [kind |-> "Removed", devs |-> {d}]
Start(ds)  == [kind |-> "Init", devs |-> ds]

Init ==
    /\ devs \in SUBSET Devices
    /\ joined = {}
    /\ queue = [r \in Readers |-> <<>>]

(* Slip: an event more than is counted on.                                 *)
FreeLate == \A r \in joined : Len(queue[r]) <= Ahead

Free == \A r \in joined : Len(queue[r]) < Ahead

Tell(e) ==
    /\ Free
    /\ queue' = [r \in Readers |-> IF r \in joined THEN Append(queue[r], e) ELSE queue[r]]

(* A change may be told to nobody for no reason that a reader can see.     *)
Drop == queue' = queue

(* A device may appear that is there already.                              *)
Appear(d) ==
    /\ devs' = devs \union {d}
    /\ Tell(Added(d)) \/ Drop
    /\ UNCHANGED joined

Vanish(d) ==
    /\ d \in devs
    /\ devs' = devs \ {d}
    /\ Tell(Removed(d)) \/ Drop
    /\ UNCHANGED joined

(* While there is nobody to tell, any change at all.                       *)
Unheard ==
    /\ joined = {}
    /\ devs' \in SUBSET Devices
    /\ UNCHANGED <<joined, queue>>

Join(r) ==
    /\ r \notin joined
    /\ queue[r] = <<>>
    /\ joined' = joined \union {r}
    /\ queue' = [queue EXCEPT ![r] = <<Start(devs)>>]
    /\ UNCHANGED devs

(* What was told before can still be read.                                 *)
Leave(r) ==
    /\ Free
    /\ r \in joined
    /\ joined' = joined \ {r}
    /\ UNCHANGED <<devs, queue>>

Take(r) ==
    /\ queue[r] # <<>>
    /\ queue' = [queue EXCEPT ![r] = Tail(@)]
    /\ UNCHANGED <<devs, joined>>

Next ==
    \/ \E d \in Devices : Appear(d) \/ Vanish(d)
    \/ Unheard
    \/ \E r \in Readers : Join(r) \/ Leave(r) \/ Take(r)

Spec == Init /\ [][Next]_vars
=============================================================================
