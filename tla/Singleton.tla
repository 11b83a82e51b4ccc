----------------------------- MODULE Singleton ------------------------------
(***************************************************************************)
(* What a client of the server may rely on when it starts and stops the    *)
(* one capture of a kind that the server runs (the workload log capture,   *)
(* the continuous packet capture): a status, and whether a worker captures *)
(* behind it.  A worker comes into being only by a start that found the    *)
(* service STOPPED, and STOPPED means that there is none.                  *)
(***************************************************************************)

VARIABLES
    status,     \* what the service answers
    worker      \* TRUE while something captures

vars == <<status, worker>>

Statuses == {"STOPPED", "STARTING", "RUNNING", "STOPPING", "FAILED"}

Init == status = "STOPPED" /\ worker = FALSE

Begin ==
    /\ status = "STOPPED" /\ status' = "STARTING"
    /\ UNCHANGED worker

(* What was started may have ended by the time the service says so.         *)
Started ==
    /\ status = "STARTING" /\ status' = "RUNNING"
    /\ worker' \in BOOLEAN

Refused ==
    /\ status = "STARTING" /\ status' = "STOPPED"
    /\ ~worker /\ UNCHANGED worker

AskStop ==
    /\ status \in {"RUNNING", "FAILED"} /\ status' = "STOPPING"
    /\ UNCHANGED worker

(* The worker fails, or the service learns that it has.                     *)
Fail ==
    /\ status \in {"RUNNING", "STOPPING"} /\ status' = "FAILED"
    /\ worker' \in {worker, FALSE}

(* The worker's end, seen by no client yet.                                 *)
End ==
    /\ status # "STARTING" /\ worker /\ worker' = FALSE
    /\ UNCHANGED status

(* A stop completes: whatever captured has ended.                           *)
Stopped ==
    /\ status \in {"STOPPING", "FAILED"} /\ status' = "STOPPED"
    /\ worker' = FALSE

(* The process dies; the next one begins anew.                              *)
Restart == status' = "STOPPED" /\ worker' = FALSE

Next == Begin \/ Started \/ Refused \/ AskStop \/ Fail \/ End \/ Stopped \/ Restart

Spec == Init /\ [][Next]_vars
=============================================================================
