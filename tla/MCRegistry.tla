----------------------------- MODULE MCRegistry -----------------------------
(* The registry for TLC.                                                   *)
EXTENDS Registry

(* All names are folded into one path.                                     *)
OnePath == [n \in Names |-> "socket"]
=============================================================================
