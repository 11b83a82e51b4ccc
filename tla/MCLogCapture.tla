---------------------------- MODULE MCLogCapture ----------------------------
(* Instances of the workload log capture service for TLC.                   *)
EXTENDS LogCapture
=============================================================================
