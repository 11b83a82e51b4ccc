------------------------------ MODULE MCStream ------------------------------
(* Two nodes, three packets whose arrival can invert their timestamps, one  *)
(* live subscriber beside the recorder, channels of one batch.             *)
EXTENDS Stream, TLC

CONSTANTS p1, p2, p3, n1, n2, rec, live

MCTimestamp == p1 :> 1 @@ p2 :> 0 @@ p3 :> 1
MCSequence == p1 :> 1 @@ p2 :> 1 @@ p3 :> 2
MCSize == p1 :> 1 @@ p2 :> 2 @@ p3 :> 2
MCFeed == n1 :> <<{p1, p3}>> @@ n2 :> <<{p2}>>
=============================================================================
