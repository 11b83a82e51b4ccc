----------------------------- MODULE MCSegments -----------------------------
(* Instances of one recording directory for TLC.                           *)
EXTENDS Segments
=============================================================================
