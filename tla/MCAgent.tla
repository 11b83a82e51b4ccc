------------------------------- MODULE MCAgent ------------------------------
(* Instances of the capture agent for TLC. *)
EXTENDS Agent
=============================================================================
