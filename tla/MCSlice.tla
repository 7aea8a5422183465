------------------------------ MODULE MCSlice ------------------------------
(* The slice for TLC.                                                      *)
EXTENDS Slice

CONSTANTS s1, s2, d1, d2
=============================================================================
