---------------------------- MODULE MCDiscovery -----------------------------
(* The discovery for TLC.  No symmetry, for liveness.                      *)
EXTENDS Discovery

CONSTANTS s1, d1, d2

OneSub     == {s1}
TwoDevices == {d1, d2}
=============================================================================
