----------------------------- MODULE MCScatter -----------------------------
(* The small instances of Scatter that TLC checks.                         *)
EXTENDS Scatter

CONSTANTS s1, s2, b1, d1, d2, part, batch, i1, i2, seat, NoName

(* Two entries of the configuration that overlap: the second scatter       *)
(* produces the first one's name for the second device.                    *)
Overlapping ==
    [s \in Scatters |-> [d \in Devices |-> IF s = s2 /\ d = d1 THEN NoName ELSE part]]

OneEach      == [d \in Devices |-> IF d = d1 THEN {i1} ELSE {i2}]
OneBatchName == [b \in Batches |-> batch]
AllMatch     == [b \in Batches |-> Devices]
=============================================================================
