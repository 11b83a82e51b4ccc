----------------------------- MODULE MCRecovery -----------------------------
(***************************************************************************)
(* What is written so that a restarted server goes on: the recovery file   *)
(* of a capture session, and the workload log capture service with its     *)
(* metadata.  They share no state; each behaviour is one of the two at     *)
(* work, chosen at the start.                                              *)
(***************************************************************************)
EXTENDS RecoveryFile

CONSTANTS Keys, MaxPods, QueueSize, MaxRuns, MaxFaults, MaxBoots

ASSUME LogBoundsAssumption ==
    QueueSize \in Nat /\ MaxRuns \in Nat /\ MaxFaults \in Nat /\ MaxBoots \in Nat

VARIABLES
    at,
    logPhase, status, run, op, starting, recovered, recorder, job, cancelled,
    runErr, queued, streams, stream, pods, seen, desired, last, faults, boots,
    ran, logStopAsked, stopped, idle

Logs == INSTANCE LogCapture WITH phase <- logPhase, stopAsked <- logStopAsked

logVars == <<logPhase, status, run, op, starting, recovered, recorder, job,
             cancelled, runErr, queued, streams, stream, pods, seen, desired,
             last, faults, boots, ran, logStopAsked, stopped, idle>>
allVars == <<at, vars, logVars>>

\* The part that is not at work has one initial state.
RecoveryInit ==
    /\ at \in {"file", "logs"}
    /\ Init /\ (at # "file" => file = Absent)
    /\ Logs!Init /\ (at # "logs" => pods = {})

RecoveryNext ==
    /\ UNCHANGED at
    /\ \/ at = "file" /\ Next /\ UNCHANGED logVars
       \/ at = "logs" /\ Logs!Next /\ UNCHANGED vars

Log(A) == at = "logs" /\ A

RecoveryFairness ==
    /\ WF_logVars(Log(Logs!JobCancelled)) /\ WF_logVars(Log(Logs!JobReconcile))
    /\ WF_logVars(Log(Logs!JobWrite)) /\ WF_logVars(Log(Logs!JobWait))
    /\ WF_logVars(Log(Logs!JobDrain)) /\ WF_logVars(Log(Logs!JobClose))
    /\ WF_logVars(Log(Logs!JobDone))
    /\ \A k \in Keys :
          WF_logVars(Log(Logs!StreamOpen(k) \/ Logs!StreamVerify(k)
                         \/ Logs!StreamExits(k)))

RecoverySpec ==
    RecoveryInit /\ [][RecoveryNext]_allVars /\ RecoveryFairness

\* Types of the recovery file's and of the log capture service's variables.
PartsTypeOK == TypeOK /\ (at = "logs" => Logs!TypeOK)

\* A log job that has ended has written every line its streams handed over and
\* leaves no stream and no open recorder behind (job.run, Service.start, stop).
LogEndIsClean == at = "logs" => Logs!EndIsClean

\* A log run whose stop was acknowledged is not restored, and the latest one
\* nobody asked to stop is (Service.stop, Restore, Shutdown, RecoverableRuns).
LogDesiredIsDurable == at = "logs" => Logs!DesiredIsDurable

\* The log capture service implements the specification of a singleton capture
\* (Service.start, stop, jobDone); at rest it trivially does.
LogIsSingleton == Logs!IsSingleton

\* A stop that cancelled the job comes to its end (Service.stop, run, stream).
LogStopCompletes == at = "logs" => Logs!StopCompletes

\* A pod that stays listed while the job runs is read (Reconcile, stream,
\* waitForCurrentStream).
LogListedIsRead == at = "logs" => Logs!ListedIsRead
=============================================================================
