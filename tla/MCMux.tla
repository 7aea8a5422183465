------------------------------- MODULE MCMux -------------------------------
(* The small instances of Mux that TLC checks.                             *)
EXTENDS Mux

CONSTANTS p1, p2, s1, s2

TwoSubmitters == {p1, p2}
OneSubmitter  == {p1}
TwoSinks      == {s1, s2}
OneSink       == {s1}
=============================================================================
