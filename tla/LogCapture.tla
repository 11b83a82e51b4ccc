----------------------------- MODULE LogCapture -----------------------------
(***************************************************************************)
(* Workload log capture: the service that owns the one log job, the job's  *)
(* goroutine, one goroutine per container log, and the desired state that  *)
(* outlives the process.                                                   *)
(*   src/internal/application/logcapture/service.go                        *)
(*   src/internal/adapter/logrecording/manager.go (recovery state)         *)
(*   src/cmd/capmesh-server/main.go (boot and shutdown)                    *)
(*                                                                         *)
(* A stream key (workload, pod UID, container, restart count) is a value   *)
(* of Keys; once its container is gone it does not come back, because UIDs *)
(* are not reused and restart counts grow.  The records channel is its     *)
(* length: what a line says does not matter, that it is written does.      *)
(* MaxFaults bounds the errors of the cluster API and of the disk.         *)
(***************************************************************************)
EXTENDS Naturals, FiniteSets, FiniteSetsExt

CONSTANTS
    Keys,           \* stream keys that may ever exist
    MaxPods,        \* the target's max_pods
    QueueSize,      \* Config.QueueSize
    MaxRuns,        \* bound: starts by the user
    MaxFaults,      \* bound: failing calls of the cluster API or the disk
    MaxBoots        \* bound: restarts of the server

VARIABLES
    phase,      \* the server process: "down", "boot", "up" or "exiting"
    status,     \* state.Status
    run,        \* state.RunID, 0 for ""
    op,         \* who holds the operation mutex, and where it is
    starting,   \* the run that start works on
    recovered,  \* start's parameter
    recorder,   \* "none", "open" or "closed"
    job,        \* where job.run is
    cancelled,  \* j.ctx is done
    runErr,     \* runErr # nil
    queued,     \* len(j.records)
    streams,    \* keys of j.streams
    stream,     \* where the goroutine of each key is
    pods,       \* keys the cluster would list now
    seen,       \* keys it has ever listed
    desired,    \* log-recovery.json of each run
    last,       \* runs started by the user so far
    faults, boots,
    ran,        \* history: runs whose Start returned nil
    stopAsked,  \* history: runs whose STOPPED was being persisted
    stopped,    \* history: runs the user was told are stopped
    idle        \* history: the last command of this process was a Stop that returned nil

service == <<status, run>>
streamVars == <<queued, streams, stream>>
jobVars == <<job, cancelled, runErr>>
history == <<ran, stopAsked, stopped, idle>>
bounds == <<last, faults, boots>>
vars == <<phase, service, op, starting, recovered, recorder, jobVars,
          streamVars, pods, seen, desired, bounds, history>>

Runs == 1..MaxRuns
Alive == {"open", "read", "send", "backoff"}
Fault == faults < MaxFaults /\ faults' = faults + 1
NoFault == UNCHANGED faults

-----------------------------------------------------------------------------
Init ==
    /\ phase = "up" /\ status = "STOPPED" /\ run = 0
    /\ op = "none" /\ starting = 0 /\ recovered = FALSE
    /\ recorder = "none" /\ job = "none" /\ cancelled = FALSE /\ runErr = FALSE
    /\ queued = 0 /\ streams = {} /\ stream = [k \in Keys |-> "none"]
    /\ pods \in SUBSET Keys /\ seen = pods
    /\ desired = [r \in Runs |-> "absent"]
    /\ last = 0 /\ faults = 0 /\ boots = 0
    /\ ran = {} /\ stopAsked = {} /\ stopped = {} /\ idle = FALSE

-----------------------------------------------------------------------------
\* Mutant: only a service that is RUNNING refuses a start.
StartBeginAfterFailure ==
    /\ phase = "up" /\ op = "none" /\ status \in {"STOPPED", "FAILED"}
    /\ last < MaxRuns
    /\ status' = "STARTING" /\ run' = 0
    /\ op' = "start" /\ starting' = last + 1 /\ recovered' = FALSE
    /\ last' = last + 1 /\ idle' = FALSE
    /\ UNCHANGED <<phase, recorder, jobVars, streamVars, pods, seen, desired,
                   faults, boots, ran, stopAsked, stopped>>

(* start, for a command of the user.  A service that is not STOPPED answers *)
(* AlreadyExists and changes nothing.                                       *)
StartBegin ==
    /\ phase = "up" /\ op = "none" /\ status = "STOPPED" /\ last < MaxRuns
    /\ status' = "STARTING" /\ run' = 0
    /\ op' = "start" /\ starting' = last + 1 /\ recovered' = FALSE
    /\ last' = last + 1 /\ idle' = FALSE
    /\ UNCHANGED <<phase, recorder, jobVars, streamVars, pods, seen, desired,
                   faults, boots, ran, stopAsked, stopped>>

(* startFailed, which also forgets the RunID.                               *)
Unstarted == status' = "STOPPED" /\ run' = 0 /\ op' = "none"

(* Factory.Start fails before it has persisted RUNNING, or in the rename of *)
(* writeRecovery, when the .part file that readRecovery accepts is left.    *)
StartFails ==
    /\ op = "start" /\ Fault
    /\ desired' \in {desired, [desired EXCEPT ![starting] = "RUNNING"]}
    /\ Unstarted
    /\ UNCHANGED <<phase, starting, recovered, recorder, jobVars, streamVars,
                   pods, seen, last, boots, history>>

FactoryStart ==
    /\ op = "start"
    /\ desired' = [desired EXCEPT ![starting] = "RUNNING"]
    /\ recorder' = "open" /\ op' = "reconcile"
    /\ runErr' = FALSE /\ cancelled' = FALSE
    /\ UNCHANGED <<phase, service, starting, recovered, job, streamVars, pods,
                   seen, bounds, history>>

(* reconcile: a stream for every listed container and none for others.      *)
Reconcile ==
    /\ Cardinality(pods) <= MaxPods
    /\ streams' = pods
    /\ stream' = [k \in Keys |->
                    IF k \in pods \ streams THEN "open" ELSE stream[k]]
    /\ UNCHANGED queued

StartReconcile ==
    /\ op = "reconcile"
    /\ Reconcile
    /\ status' = "RUNNING" /\ run' = starting
    /\ job' = "loop" /\ op' = "none"
    /\ ran' = ran \cup {starting}
    /\ UNCHANGED <<phase, starting, recovered, recorder, cancelled, runErr,
                   pods, seen, desired, bounds, stopAsked, stopped, idle>>

\* Mutant: a failed restore is persisted as STOPPED too.
StartReconcileForgets ==
    /\ op = "reconcile"
    /\ \/ Cardinality(pods) > MaxPods /\ NoFault
       \/ Fault
    /\ recorder' = "closed"
    /\ desired' = [desired EXCEPT ![starting] = "STOPPED"]
    /\ Unstarted
    /\ UNCHANGED <<phase, starting, recovered, jobVars, streamVars, pods, seen,
                   last, boots, history>>

(* The first reconcile fails: the recorder is closed, and a run that is not *)
(* being restored is persisted as STOPPED, an error of that ignored.        *)
StartReconcileFails ==
    /\ op = "reconcile"
    /\ \/ Cardinality(pods) > MaxPods /\ NoFault
       \/ Fault
    /\ recorder' = "closed"
    /\ desired' \in {IF recovered THEN desired
                     ELSE [desired EXCEPT ![starting] = "STOPPED"], desired}
    /\ Unstarted
    /\ UNCHANGED <<phase, starting, recovered, jobVars, streamVars, pods, seen,
                   last, boots, history>>

-----------------------------------------------------------------------------
(* stop.  In every case but the first, the RunID of a run is persisted as   *)
(* STOPPED before anything else, with s.mu held.                            *)

(* Nothing runs: the answer is OK and nothing is persisted.                 *)
StopIdle ==
    /\ phase = "up" /\ op = "none" /\ status = "STOPPED"
    /\ idle' = TRUE
    /\ UNCHANGED <<phase, service, op, starting, recovered, recorder, jobVars,
                   streamVars, pods, seen, desired, bounds, ran, stopAsked,
                   stopped>>

StopPersistFails ==
    /\ phase = "up" /\ op = "none" /\ status # "STOPPED" /\ run # 0 /\ Fault
    /\ desired' \in {desired, [desired EXCEPT ![run] = "STOPPED"]}
    /\ stopAsked' = stopAsked \cup {run}
    /\ UNCHANGED <<phase, service, op, starting, recovered, recorder, jobVars,
                   streamVars, pods, seen, last, boots, ran, stopped, idle>>

\* Mutant: the status of the service is persisted as the desired state.
PersistStatus ==
    /\ desired' = IF run = 0 THEN desired
                  ELSE [desired EXCEPT ![run] = status']
    /\ stopAsked' = stopAsked \cup ({run} \ {0})

Persist ==
    /\ desired' = IF run = 0 THEN desired
                  ELSE [desired EXCEPT ![run] = "STOPPED"]
    /\ stopAsked' = stopAsked \cup ({run} \ {0})

Acknowledge == stopped' = stopped \cup ({run} \ {0}) /\ idle' = TRUE

(* The job has failed and is gone.                                          *)
StopFailed ==
    /\ phase = "up" /\ op = "none" /\ status # "STOPPED" /\ job = "none"
    /\ status' = "STOPPED"
    /\ Persist /\ Acknowledge
    /\ UNCHANGED <<phase, run, op, starting, recovered, recorder, jobVars,
                   streamVars, pods, seen, bounds, ran>>

StopCancel ==
    /\ phase = "up" /\ op = "none" /\ status # "STOPPED" /\ job # "none"
    /\ status' = "STOPPING" /\ cancelled' = TRUE /\ op' = "wait"
    /\ Persist
    /\ UNCHANGED <<phase, run, starting, recovered, recorder, job, runErr,
                   streamVars, pods, seen, bounds, ran, stopped, idle>>

(* The job is done; or the caller's context is, which is an error.          *)
StopReturns ==
    /\ phase = "up" /\ op = "wait" /\ op' = "none"
    /\ job = "none" /\ Acknowledge
    /\ UNCHANGED <<phase, service, starting, recovered, recorder, jobVars,
                   streamVars, pods, seen, desired, bounds, ran, stopAsked>>

StopTimesOut ==
    /\ phase = "up" /\ op = "wait" /\ op' = "none" /\ Fault
    /\ UNCHANGED <<phase, service, starting, recovered, recorder, jobVars,
                   streamVars, pods, seen, desired, last, boots, history>>

-----------------------------------------------------------------------------
(* job.run                                                                  *)

JobWrite ==
    /\ job = "loop" /\ queued > 0
    /\ queued' = queued - 1
    /\ UNCHANGED <<phase, service, op, starting, recovered, recorder, jobVars,
                   streams, stream, pods, seen, desired, bounds, history>>

JobWriteFails ==
    /\ job = "loop" /\ queued > 0 /\ Fault
    /\ queued' = queued - 1
    /\ runErr' = TRUE /\ cancelled' = TRUE /\ job' = "wait"
    /\ UNCHANGED <<phase, service, op, starting, recovered, recorder, streams,
                   stream, pods, seen, desired, last, boots, history>>

(* The ticker.  An error changes nothing but the message.                   *)
JobReconcile ==
    /\ job = "loop" /\ Reconcile
    /\ UNCHANGED <<phase, service, op, starting, recovered, recorder, jobVars,
                   pods, seen, desired, bounds, history>>

JobReconcileFails ==
    /\ job = "loop" /\ Fault
    /\ UNCHANGED <<phase, service, op, starting, recovered, recorder, jobVars,
                   streamVars, pods, seen, desired, last, boots, history>>

JobCancelled ==
    /\ job = "loop" /\ cancelled
    /\ job' = "wait"
    /\ UNCHANGED <<phase, service, op, starting, recovered, recorder,
                   cancelled, runErr, streamVars, pods, seen, desired, bounds,
                   history>>

\* Mutant: the rest of the channel is drained while streams still send.
JobDoesNotWait ==
    /\ job = "wait" /\ job' = "drain"
    /\ UNCHANGED <<phase, service, op, starting, recovered, recorder,
                   cancelled, runErr, streamVars, pods, seen, desired, bounds,
                   history>>

(* streamWG.Wait                                                            *)
JobWait ==
    /\ job = "wait" /\ \A k \in Keys : stream[k] \notin Alive
    /\ job' = "drain"
    /\ UNCHANGED <<phase, service, op, starting, recovered, recorder,
                   cancelled, runErr, streamVars, pods, seen, desired, bounds,
                   history>>

(* What is left in the channel is written; after an error it is dropped.    *)
JobDrain ==
    /\ job = "drain" /\ queued > 0
    /\ queued' = queued - 1
    /\ \/ runErr' = runErr /\ NoFault
       \/ runErr' = TRUE /\ ~runErr /\ Fault
    /\ UNCHANGED <<phase, service, op, starting, recovered, recorder, job,
                   cancelled, streams, stream, pods, seen, desired, last,
                   boots, history>>

JobClose ==
    /\ job = "drain" /\ queued = 0
    /\ recorder' = "closed" /\ job' = "done"
    /\ \/ runErr' = runErr /\ NoFault
       \/ runErr' = TRUE /\ Fault
    /\ UNCHANGED <<phase, service, op, starting, recovered, cancelled,
                   streamVars, pods, seen, desired, last, boots, history>>

(* jobDone, and the close of j.done.                                        *)
JobDone ==
    /\ job = "done" /\ job' = "none"
    /\ status' = IF runErr THEN "FAILED" ELSE "STOPPED"
    /\ streams' = {} /\ stream' = [k \in Keys |-> "none"]
    /\ UNCHANGED <<phase, run, op, starting, recovered, recorder, cancelled,
                   runErr, queued, pods, seen, desired, bounds, history>>

-----------------------------------------------------------------------------
(* job.stream and waitForCurrentStream of one key.  Its context is done     *)
(* when the job's is or when reconcile has dropped the key.                 *)
StreamDone(k) == cancelled \/ k \notin streams

StreamStep(k, from, to) ==
    /\ stream[k] = from
    /\ stream' = [stream EXCEPT ![k] = to]
    /\ UNCHANGED <<phase, service, op, starting, recovered, recorder, jobVars,
                   streams, pods, seen, desired, last, boots, history>>

StreamOpen(k) == StreamStep(k, "open", "read") /\ UNCHANGED <<queued, faults>>
StreamOpenFails(k) == StreamStep(k, "open", "backoff") /\ Fault /\ UNCHANGED queued
StreamRead(k) == StreamStep(k, "read", "send") /\ UNCHANGED <<queued, faults>>

(* End of file or an error: the container ended or the connection broke.    *)
StreamEnds(k) ==
    /\ StreamStep(k, "read", "backoff") /\ UNCHANGED queued
    /\ IF k \in pods THEN Fault ELSE NoFault

StreamSend(k) ==
    /\ queued < QueueSize /\ queued' = queued + 1
    /\ StreamStep(k, "send", "read") /\ NoFault

\* Mutant: an error of ResolvePods is taken for the end of the container.
StreamVerifyGivesUp(k) ==
    /\ UNCHANGED queued
    /\ \/ k \in pods /\ StreamStep(k, "backoff", "open") /\ NoFault
       \/ k \notin pods /\ StreamStep(k, "backoff", "gone") /\ NoFault
       \/ StreamStep(k, "backoff", "gone") /\ Fault

(* waitForCurrentStream: on while the container is listed; an error of      *)
(* ResolvePods is retried.                                                  *)
StreamVerify(k) ==
    /\ UNCHANGED queued
    /\ \/ k \in pods /\ StreamStep(k, "backoff", "open") /\ NoFault
       \/ k \notin pods /\ StreamStep(k, "backoff", "gone") /\ NoFault
       \/ StreamStep(k, "backoff", "backoff") /\ Fault

\* Mutant: a line is sent without watching the context.
StreamExitsUnlessSending(k) ==
    /\ StreamDone(k)
    /\ \E s \in Alive \ {"send"} : StreamStep(k, s, "gone")
    /\ UNCHANGED <<queued, faults>>

StreamExits(k) ==
    /\ StreamDone(k)
    /\ \E s \in Alive : StreamStep(k, s, "gone")
    /\ UNCHANGED <<queued, faults>>

-----------------------------------------------------------------------------
(* The cluster: containers come and go.                                     *)
PodsChange ==
    /\ \/ \E k \in Keys \ seen : pods' = pods \cup {k} /\ seen' = seen \cup {k}
       \/ \E k \in pods : pods' = pods \ {k} /\ UNCHANGED seen
    /\ UNCHANGED <<phase, service, op, starting, recovered, recorder, jobVars,
                   streamVars, desired, bounds, history>>

(* Shutdown: stop without persisting.                                       *)
Shutdown ==
    /\ phase = "up" /\ op = "none" /\ phase' = "exiting"
    /\ status' = IF job # "none" THEN "STOPPING" ELSE "STOPPED"
    /\ cancelled' = (cancelled \/ job # "none")
    /\ UNCHANGED <<run, op, starting, recovered, recorder, job, runErr,
                   streamVars, pods, seen, desired, bounds, history>>

(* The process ends, by itself after Shutdown or killed at any point.       *)
Die ==
    /\ phase # "down" /\ boots < MaxBoots /\ phase' = "down"
    /\ status' = "STOPPED" /\ run' = 0 /\ op' = "none"
    /\ recorder' = "none" /\ job' = "none" /\ cancelled' = FALSE
    /\ runErr' = FALSE /\ queued' = 0 /\ streams' = {}
    /\ stream' = [k \in Keys |-> "none"]
    /\ UNCHANGED <<starting, recovered, pods, seen, desired, bounds, history>>

(* RecoverableRuns                                                          *)
Recoverable == {r \in Runs : desired[r] = "RUNNING"}

(* Boot: Restore of the newest run that is RUNNING on disk ...              *)
Boot ==
    /\ phase = "down" /\ phase' = "boot" /\ boots' = boots + 1
    /\ IF Recoverable = {} THEN UNCHANGED <<status, op, starting, recovered>>
       ELSE /\ status' = "STARTING" /\ op' = "start"
            /\ starting' = Max(Recoverable) /\ recovered' = TRUE
    /\ idle' = FALSE
    /\ UNCHANGED <<run, recorder, jobVars, streamVars, pods, seen, desired,
                   last, faults, ran, stopAsked, stopped>>

(* ... then every other one is made STOPPED, and the API is served.         *)
BootStale ==
    /\ phase = "boot" /\ op = "none" /\ phase' = "up"
    /\ \/ /\ desired' = [r \in Runs |->
                IF r \in Recoverable \ {starting} THEN "STOPPED" ELSE desired[r]]
          /\ NoFault
       \/ desired' = desired /\ Recoverable \ {starting} # {} /\ Fault
    /\ UNCHANGED <<service, op, starting, recovered, recorder, jobVars,
                   streamVars, pods, seen, last, boots, history>>

-----------------------------------------------------------------------------
StreamNext(k) ==
    \/ StreamOpen(k) \/ StreamOpenFails(k) \/ StreamRead(k) \/ StreamEnds(k)
    \/ StreamSend(k) \/ StreamVerify(k) \/ StreamExits(k)

Next ==
    \/ StartBegin \/ StartFails \/ FactoryStart \/ StartReconcile
    \/ StartReconcileFails
    \/ StopIdle \/ StopPersistFails \/ StopFailed \/ StopCancel \/ StopReturns
    \/ StopTimesOut
    \/ JobWrite \/ JobWriteFails \/ JobReconcile \/ JobReconcileFails
    \/ JobCancelled \/ JobWait \/ JobDrain \/ JobClose \/ JobDone
    \/ \E k \in Keys : StreamNext(k)
    \/ PodsChange \/ Shutdown \/ Die \/ Boot \/ BootStale

Spec == Init /\ [][Next]_vars

(* Every goroutine that can move does: the ticker of job.run fires, its     *)
(* select does not pass over one channel for ever, and a stream whose       *)
(* backoff has run out asks again.  Nobody has to call, and the cluster and *)
(* the disk need not fail.                                                  *)
Fairness ==
    /\ WF_vars(JobCancelled) /\ WF_vars(JobReconcile) /\ WF_vars(JobWrite)
    /\ WF_vars(JobWait) /\ WF_vars(JobDrain) /\ WF_vars(JobClose)
    /\ WF_vars(JobDone)
    /\ \A k \in Keys : WF_vars(StreamOpen(k) \/ StreamVerify(k) \/ StreamExits(k))

FairSpec == Spec /\ Fairness

-----------------------------------------------------------------------------
TypeOK ==
    /\ phase \in {"down", "boot", "up", "exiting"}
    /\ status \in {"STOPPED", "STARTING", "RUNNING", "STOPPING", "FAILED"}
    /\ run \in 0..MaxRuns /\ starting \in 0..MaxRuns
    /\ op \in {"none", "start", "reconcile", "wait"}
    /\ recovered \in BOOLEAN /\ cancelled \in BOOLEAN /\ runErr \in BOOLEAN
    /\ recorder \in {"none", "open", "closed"}
    /\ job \in {"none", "loop", "wait", "drain", "done"}
    /\ queued \in 0..QueueSize
    /\ streams \subseteq Keys /\ pods \subseteq seen /\ seen \subseteq Keys
    /\ stream \in [Keys -> Alive \cup {"none", "gone"}]
    /\ desired \in [Runs -> {"absent", "RUNNING", "STOPPED"}]
    /\ last \in 0..MaxRuns /\ faults \in 0..MaxFaults /\ boots \in 0..MaxBoots
    /\ ran \subseteq Runs /\ stopAsked \subseteq Runs /\ stopped \subseteq Runs
    /\ idle \in BOOLEAN

(* Once the recorder is closed without an error, every line a stream handed *)
(* over has been written and no stream can hand over another one: job.run   *)
(* waits for the streams before it drains the channel for the last time.    *)
SealedIsComplete ==
    recorder = "closed" /\ ~runErr =>
        queued = 0 /\ \A k \in Keys : stream[k] \notin Alive

(* When no operation is under way, a service that answers STOPPED or FAILED *)
(* has no job, no open recorder and no stream left behind, whatever failed  *)
(* on the way into or out of RUNNING.                                       *)
NothingLeftBehind ==
    op = "none" /\ status \in {"STOPPED", "FAILED"} =>
        /\ job = "none" /\ recorder # "open"
        /\ \A k \in Keys : stream[k] \notin Alive

(* A run the user was told is stopped is STOPPED on disk from then on, so   *)
(* no boot brings it back.                                                  *)
StoppedRunStaysStopped == \A r \in stopped : desired[r] = "STOPPED"

(* The latest run, if it started and nobody asked to stop it, is RUNNING on *)
(* disk through failures of the job, failed restores, shutdowns and crashes.*)
LatestRunSurvives ==
    last \in ran \ stopAsked => desired[last] = "RUNNING"

(* What the documentation promises of a stop: once the last command         *)
(* answered is a Stop, no boot restores a run that has ever run.            *)
StopPreventsRecovery == idle => Recoverable \cap ran = {}

(* A stop, even one whose caller gave up waiting, comes to an end: no       *)
(* stream blocks on a full channel that nobody reads any more.              *)
StopCompletes == status = "STOPPING" ~> status # "STOPPING"

(* While the job runs and a container stays listed, its stream is read time *)
(* and again: streams open for new pods, and a broken one reconnects.       *)
ListedIsRead ==
    \A k \in Keys :
        <>[](k \in pods /\ job = "loop" /\ Cardinality(pods) <= MaxPods
             /\ ~cancelled)
            => []<>(stream[k] \in {"read", "send"})

Promise == INSTANCE Singleton WITH worker <- job # "none"

(* The service implements the promise of a singleton capture, with the job  *)
(* as the worker: two starts, a start during a stop that timed out, or a    *)
(* job that fails while it is being stopped never make two jobs, and        *)
(* STOPPED means that there is none.                                        *)
IsSingleton == Promise!Spec

(* A job that has ended leaves nothing open and nothing unwritten.          *)
EndIsClean == SealedIsComplete /\ NothingLeftBehind

(* The next boot resumes what nobody stopped and nothing else.              *)
DesiredIsDurable == StoppedRunStaysStopped /\ LatestRunSurvives
=============================================================================
