------------------------------ MODULE Broadcast ------------------------------
(***************************************************************************)
(* What a multiplexer promises, with no goroutine, channel or lock in it:  *)
(* an ordered log of accepted values, published one at a time, the next    *)
(* one only when every attached sink has been given the last.  A sink that *)
(* attaches is given every value published from then on, in order, until   *)
(* it is detached, which closes it.  When the broadcast stops, everything  *)
(* accepted has been published, and all that is left is to detach.         *)
(***************************************************************************)
EXTENDS Naturals, Sequences

CONSTANTS Values, Sinks

VARIABLES
    accepted,       \* the accepted values, in order
    published,      \* how many of them have been published
    attached,       \* the sinks that are served
    closed,         \* the sinks that have been detached
    from,           \* how many values had been published when the sink attached
    got,            \* what each sink has been given
    stopped         \* nothing is accepted or attached any more

vars == <<accepted, published, attached, closed, from, got, stopped>>

Init ==
    /\ accepted = <<>>
    /\ published = 0
    /\ attached = {}
    /\ closed = {}
    /\ from = [s \in Sinks |-> 0]
    /\ got = [s \in Sinks |-> <<>>]
    /\ stopped = FALSE

(* The sink has been given everything it is owed so far.                   *)
Served(s) == from[s] + Len(got[s]) = published

Accept(v) ==
    /\ ~stopped
    /\ accepted' = Append(accepted, v)

Publish ==
    /\ published < Len(accepted')
    /\ \A s \in attached : Served(s)
    /\ published' = published + 1
    /\ UNCHANGED <<attached, closed, from, got, stopped>>

Queue(v) ==
    /\ Accept(v)
    /\ UNCHANGED <<published, attached, closed, from, got, stopped>>

PublishQueued == Publish /\ UNCHANGED accepted

(* With nothing queued a value may be accepted and published at once.      *)
Handoff(v) ==
    /\ published = Len(accepted)
    /\ Accept(v)
    /\ Publish

Give(s) ==
    /\ s \in attached
    /\ ~Served(s)
    /\ got' = [got EXCEPT ![s] = Append(@, accepted[from[s] + Len(@) + 1])]
    /\ UNCHANGED <<accepted, published, attached, closed, from, stopped>>

Attach(s) ==
    /\ ~stopped
    /\ s \notin attached \union closed
    /\ attached' = attached \union {s}
    /\ from' = [from EXCEPT ![s] = published]
    /\ UNCHANGED <<accepted, published, closed, got, stopped>>

Detach(s) ==
    /\ s \in attached
    /\ Served(s)
    /\ attached' = attached \ {s}
    /\ closed' = closed \union {s}
    /\ UNCHANGED <<accepted, published, from, got, stopped>>

Stop ==
    /\ ~stopped
    /\ published = Len(accepted)
    /\ \A s \in attached : Served(s)
    /\ stopped' = TRUE
    /\ UNCHANGED <<accepted, published, attached, closed, from, got>>

Next ==
    \/ \E v \in Values : Queue(v) \/ Handoff(v)
    \/ PublishQueued
    \/ Stop
    \/ \E s \in Sinks : Give(s) \/ Attach(s) \/ Detach(s)

Spec == Init /\ [][Next]_vars
=============================================================================
