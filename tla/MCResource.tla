----------------------------- MODULE MCResource -----------------------------
(* The small instances of Resource that TLC checks.                        *)
EXTENDS Resource, TLC

CONSTANTS w1, w2

TwoWatchers == {w1, w2}
OneWatcher  == {w1}

(* Streams are interchangeable: for safety only.                           *)
Symmetry == Permutations(TwoWatchers)
=============================================================================
