-------------------------- MODULE LogCaptureProofs --------------------------
(***************************************************************************)
(* For any number of containers, runs, failing calls and restarts: a log   *)
(* job that has ended leaves nothing unwritten and nothing behind, the     *)
(* next boot resumes what nobody stopped and nothing else, and the service *)
(* implements Singleton, step by step.                                     *)
(*                                                                         *)
(* The invariant ties three things together: which status goes with which  *)
(* operation and which state of the job (ServiceInv), what the job's       *)
(* goroutine has seen end before it goes on (JobInv), and which runs the   *)
(* disk may still call RUNNING while an operation is half-way (DiskInv).   *)
(***************************************************************************)
EXTENDS LogCapture, SumTheorems, TLAPS

-----------------------------------------------------------------------------
(* The inductive invariant.                                                *)

\* A capacity and three bounds of the model.
BoundsAreNat ==
    MaxRuns \in Nat /\ MaxFaults \in Nat /\ MaxBoots \in Nat /\ QueueSize \in Nat

\* start and Restore before they have answered.
Busy == op \in {"start", "reconcile"}

\* Which status goes with which operation, job and recorder.
ServiceInv ==
    /\ status = "STARTING" <=> Busy
    /\ status \in {"RUNNING", "STOPPING"} <=> job # "none"
    /\ recorder = "open" <=> op = "reconcile" \/ job \in {"loop", "wait", "drain"}
    /\ op = "reconcile" => ~cancelled /\ ~runErr
    /\ phase = "down" =>
          status = "STOPPED" /\ op = "none" /\ job = "none" /\ boots < MaxBoots
    /\ op = "wait" => phase = "up"

\* job.run leaves its loop only when its context is done, which is the doing of a
\* stop or of a failed write, and goes on only when every stream has ended.
JobInv ==
    /\ job \in {"wait", "drain", "done"} => cancelled
    /\ job # "none" /\ cancelled => status = "STOPPING" \/ runErr
    /\ job \in {"drain", "done"} => \A k \in Keys : stream[k] \notin Alive
    /\ job \in {"none", "done"} => queued = 0
    /\ job = "none" => streams = {} /\ \A k \in Keys : stream[k] = "none"

\* A run is on disk, has run or is stopped only once it was started; the run that
\* is being started is nobody's yet, and the one that is being stopped is STOPPED
\* already.
DiskInv ==
    /\ run <= last /\ starting <= last
    /\ \A r \in Runs : desired[r] # "absent" => r <= last
    /\ \A r \in stopped \cup ran : r <= last
    /\ Busy => starting # 0 /\ starting \notin stopped
    /\ Busy /\ ~recovered => starting = last /\ last \notin ran
    /\ op = "reconcile" => desired[starting] = "RUNNING"
    /\ op = "wait" /\ run # 0 => desired[run] = "STOPPED"
    /\ phase = "boot" /\ last \in ran \ stopAsked => starting = last

\* TypeOK in four parts.
Labels ==
    /\ phase \in {"down", "boot", "up", "exiting"}
    /\ status \in {"STOPPED", "STARTING", "RUNNING", "STOPPING", "FAILED"}
    /\ op \in {"none", "start", "reconcile", "wait"}
    /\ recorder \in {"none", "open", "closed"}
    /\ job \in {"none", "loop", "wait", "drain", "done"}
Numbers ==
    /\ run \in 0..MaxRuns /\ starting \in 0..MaxRuns /\ queued \in 0..QueueSize
    /\ last \in 0..MaxRuns /\ faults \in 0..MaxFaults /\ boots \in 0..MaxBoots
Flags ==
    recovered \in BOOLEAN /\ cancelled \in BOOLEAN /\ runErr \in BOOLEAN /\ idle \in BOOLEAN
Sets ==
    /\ streams \subseteq Keys /\ pods \subseteq seen /\ seen \subseteq Keys
    /\ stream \in [Keys -> Alive \cup {"none", "gone"}]
    /\ desired \in [Runs -> {"absent", "RUNNING", "STOPPED"}]
    /\ ran \subseteq Runs /\ stopAsked \subseteq Runs /\ stopped \subseteq Runs

IInv == TypeOK /\ ServiceInv /\ JobInv /\ DiskInv /\ DesiredIsDurable

(* The newest of the runs that are RUNNING on disk, if there is one.        *)
LEMMA NewestRun ==
  ASSUME BoundsAreNat, Recoverable # {}
  PROVE  Max(Recoverable) \in Recoverable /\ \A r \in Recoverable : r <= Max(Recoverable)
<1>1. Recoverable \subseteq 1..MaxRuns /\ 1..MaxRuns \subseteq Nat
  BY DEF Recoverable, Runs, BoundsAreNat
<1>2. IsFiniteSet(Recoverable)
  <2>1. IsFiniteSet(1..MaxRuns)
    BY FS_Interval DEF BoundsAreNat
  <2>2. QED
    BY <1>1, <2>1, FS_Subset
<1>3. PICK n \in Recoverable : \A r \in Recoverable : r <= n
  BY <1>1, <1>2, LargestNumber
<1>4. \A r \in Recoverable : n >= r
  BY <1>1, <1>3
<1>5. Max(Recoverable) \in Recoverable /\ \A r \in Recoverable : Max(Recoverable) >= r
  BY <1>4 DEF Max
<1>6. QED
  BY <1>1, <1>5

-----------------------------------------------------------------------------
(* The invariant holds at the start ...                                    *)
LEMMA InitInv == ASSUME BoundsAreNat, Init PROVE IInv
<1> USE DEF Init, BoundsAreNat, Runs, Alive
<1>1. TypeOK
  <2>1. Labels /\ Numbers /\ Sets
    BY DEF Labels, Numbers, Sets
  <2>2. Flags
    BY Zenon DEF Flags
  <2>3. QED
    BY <2>1, <2>2 DEF TypeOK, Labels, Numbers, Flags, Sets
<1>2. ServiceInv /\ JobInv /\ DiskInv /\ DesiredIsDurable
  BY DEF ServiceInv, JobInv, DiskInv, Busy, DesiredIsDurable, StoppedRunStaysStopped,
     LatestRunSurvives
<1>3. QED
  BY <1>1, <1>2 DEF IInv

(* ... and every step of a command, of the job, of a stream, of the        *)
(* cluster or of the process keeps it.                                     *)
LEMMA StepInv == ASSUME BoundsAreNat, IInv, Next PROVE IInv'
<1> USE DEF IInv, TypeOK, ServiceInv, JobInv, DiskInv, DesiredIsDurable,
    StoppedRunStaysStopped, LatestRunSurvives, Busy, BoundsAreNat, Runs, Alive, service, streamVars, jobVars,
    history, bounds
<1>1. CASE StartBegin
  <2>1. TypeOK'
    <3>1. Labels'
      BY <1>1 DEF StartBegin, Labels
    <3>2. Numbers'
      BY <1>1 DEF StartBegin, Numbers
    <3>3. Flags'
      BY <1>1 DEF StartBegin, Flags
    <3>4. Sets'
      BY <1>1 DEF StartBegin, Sets
    <3>5. QED
      BY <3>1, <3>2, <3>3, <3>4 DEF Labels, Numbers, Flags, Sets
  <2>2. ServiceInv'
    BY <1>1 DEF StartBegin
  <2>3. JobInv'
    BY <1>1 DEF StartBegin
  <2>4. DiskInv'
    BY <1>1 DEF StartBegin
  <2>5. DesiredIsDurable'
    BY <1>1 DEF StartBegin
  <2>6. QED
    BY <2>1, <2>2, <2>3, <2>4, <2>5
<1>2. CASE StartFails
  BY <1>2 DEF StartFails, Fault, NoFault, Unstarted
<1>3. CASE FactoryStart
  <2>1. TypeOK'
    <3>1. Labels'
      BY <1>3 DEF FactoryStart, Labels
    <3>2. Numbers'
      BY <1>3 DEF FactoryStart, Numbers
    <3>3. Flags'
      BY <1>3 DEF FactoryStart, Flags
    <3>4. Sets'
      BY <1>3 DEF FactoryStart, Sets
    <3>5. QED
      BY <3>1, <3>2, <3>3, <3>4 DEF Labels, Numbers, Flags, Sets
  <2>2. ServiceInv'
    BY <1>3 DEF FactoryStart
  <2>3. JobInv'
    BY <1>3 DEF FactoryStart
  <2>4. DiskInv'
    BY <1>3 DEF FactoryStart
  <2>5. DesiredIsDurable'
    BY <1>3 DEF FactoryStart
  <2>6. QED
    BY <2>1, <2>2, <2>3, <2>4, <2>5
<1>4. CASE StartReconcile
  BY <1>4 DEF StartReconcile, Reconcile
<1>5. CASE StartReconcileFails
  BY <1>5 DEF StartReconcileFails, Fault, NoFault, Unstarted
<1>6. CASE StopIdle
  BY <1>6 DEF StopIdle
<1>7. CASE StopPersistFails
  BY <1>7 DEF StopPersistFails, Fault, NoFault
<1>8. CASE StopFailed
  BY <1>8 DEF StopFailed, Persist, Acknowledge
<1>9. CASE StopCancel
  BY <1>9 DEF StopCancel, Persist
<1>10. CASE StopReturns
  BY <1>10 DEF StopReturns, Acknowledge
<1>11. CASE StopTimesOut
  BY <1>11 DEF StopTimesOut, Fault, NoFault
<1>12. CASE JobWrite
  BY <1>12 DEF JobWrite
<1>13. CASE JobWriteFails
  BY <1>13 DEF JobWriteFails, Fault, NoFault
<1>14. CASE JobReconcile
  BY <1>14 DEF JobReconcile, Reconcile
<1>15. CASE JobReconcileFails
  BY <1>15 DEF JobReconcileFails, Fault, NoFault
<1>16. CASE JobCancelled
  BY <1>16 DEF JobCancelled
<1>17. CASE JobWait
  BY <1>17 DEF JobWait
<1>18. CASE JobDrain
  <2>1. TypeOK'
    <3>1. Labels'
      BY <1>18 DEF JobDrain, Fault, NoFault, Labels
    <3>2. Numbers'
      BY <1>18 DEF JobDrain, Fault, NoFault, Numbers
    <3>3. Flags'
      BY <1>18 DEF JobDrain, Fault, NoFault, Flags
    <3>4. Sets'
      BY <1>18 DEF JobDrain, Fault, NoFault, Sets
    <3>5. QED
      BY <3>1, <3>2, <3>3, <3>4 DEF Labels, Numbers, Flags, Sets
  <2>2. ServiceInv'
    BY <1>18 DEF JobDrain, Fault, NoFault
  <2>3. JobInv'
    BY <1>18 DEF JobDrain, Fault, NoFault
  <2>4. DiskInv'
    BY <1>18 DEF JobDrain, Fault, NoFault
  <2>5. DesiredIsDurable'
    BY <1>18 DEF JobDrain, Fault, NoFault
  <2>6. QED
    BY <2>1, <2>2, <2>3, <2>4, <2>5
<1>19. CASE JobClose
  <2>1. TypeOK'
    <3>1. Labels'
      BY <1>19 DEF JobClose, Fault, NoFault, Labels
    <3>2. Numbers'
      BY <1>19 DEF JobClose, Fault, NoFault, Numbers
    <3>3. Flags'
      BY <1>19 DEF JobClose, Fault, NoFault, Flags
    <3>4. Sets'
      BY <1>19 DEF JobClose, Fault, NoFault, Sets
    <3>5. QED
      BY <3>1, <3>2, <3>3, <3>4 DEF Labels, Numbers, Flags, Sets
  <2>2. ServiceInv'
    BY <1>19 DEF JobClose, Fault, NoFault
  <2>3. JobInv'
    BY <1>19 DEF JobClose, Fault, NoFault
  <2>4. DiskInv'
    BY <1>19 DEF JobClose, Fault, NoFault
  <2>5. DesiredIsDurable'
    BY <1>19 DEF JobClose, Fault, NoFault
  <2>6. QED
    BY <2>1, <2>2, <2>3, <2>4, <2>5
<1>20. CASE JobDone
  BY <1>20 DEF JobDone
<1>21. ASSUME NEW k \in Keys, StreamOpen(k) PROVE IInv'
  BY <1>21 DEF StreamOpen, StreamStep, Fault, NoFault
<1>22. ASSUME NEW k \in Keys, StreamOpenFails(k) PROVE IInv'
  BY <1>22 DEF StreamOpenFails, StreamStep, Fault, NoFault
<1>23. ASSUME NEW k \in Keys, StreamRead(k) PROVE IInv'
  BY <1>23 DEF StreamRead, StreamStep, Fault, NoFault
<1>24. ASSUME NEW k \in Keys, StreamEnds(k) PROVE IInv'
  BY <1>24 DEF StreamEnds, StreamStep, Fault, NoFault
<1>25. ASSUME NEW k \in Keys, StreamSend(k) PROVE IInv'
  BY <1>25 DEF StreamSend, StreamStep, Fault, NoFault
<1>26. ASSUME NEW k \in Keys, StreamVerify(k) PROVE IInv'
  <2>1. TypeOK'
    <3>1. Labels'
      BY <1>26 DEF StreamVerify, StreamStep, Fault, NoFault, Labels
    <3>2. Numbers'
      BY <1>26 DEF StreamVerify, StreamStep, Fault, NoFault, Numbers
    <3>3. Flags'
      BY <1>26 DEF StreamVerify, StreamStep, Fault, NoFault, Flags
    <3>4. Sets'
      BY <1>26 DEF StreamVerify, StreamStep, Fault, NoFault, Sets
    <3>5. QED
      BY <3>1, <3>2, <3>3, <3>4 DEF Labels, Numbers, Flags, Sets
  <2>2. ServiceInv'
    BY <1>26 DEF StreamVerify, StreamStep, Fault, NoFault
  <2>3. JobInv'
    BY <1>26 DEF StreamVerify, StreamStep, Fault, NoFault
  <2>4. DiskInv'
    BY <1>26 DEF StreamVerify, StreamStep, Fault, NoFault
  <2>5. DesiredIsDurable'
    BY <1>26 DEF StreamVerify, StreamStep, Fault, NoFault
  <2>6. QED
    BY <2>1, <2>2, <2>3, <2>4, <2>5
<1>27. ASSUME NEW k \in Keys, StreamExits(k) PROVE IInv'
  BY <1>27 DEF StreamExits, StreamStep, Fault, NoFault, StreamDone
<1>28. CASE PodsChange
  BY <1>28 DEF PodsChange
<1>29. CASE Shutdown
  BY <1>29 DEF Shutdown
<1>30. CASE Die
  <2>1. TypeOK'
    <3>1. Labels'
      BY <1>30 DEF Die, Labels
    <3>2. Numbers'
      BY <1>30 DEF Die, Numbers
    <3>3. Flags'
      BY <1>30 DEF Die, Flags
    <3>4. Sets'
      BY <1>30 DEF Die, Sets
    <3>5. QED
      BY <3>1, <3>2, <3>3, <3>4 DEF Labels, Numbers, Flags, Sets
  <2>2. ServiceInv'
    BY <1>30 DEF Die
  <2>3. JobInv'
    BY <1>30 DEF Die
  <2>4. DiskInv'
    BY <1>30 DEF Die
  <2>5. DesiredIsDurable'
    BY <1>30 DEF Die
  <2>6. QED
    BY <2>1, <2>2, <2>3, <2>4, <2>5
<1>31. CASE Boot
  <2>0. /\ starting' \in 0..MaxRuns /\ starting' <= last
        /\ op' = "start" => /\ starting' # 0 /\ desired[starting'] = "RUNNING"
                            /\ \A r \in Recoverable : r <= starting'
        /\ op' # "start" => starting' = starting /\ Recoverable = {}
        /\ op' \in {"none", "start"} /\ (op' = "start" => recovered')
    <3>1. CASE Recoverable = {}
      BY <1>31, <3>1 DEF Boot
    <3>2. CASE Recoverable # {}
      <4>1. /\ starting' \in Recoverable /\ op' = "start" /\ recovered'
            /\ \A r \in Recoverable : r <= starting'
        BY <1>31, <3>2, NewestRun DEF Boot
      <4>2. QED
        BY <4>1 DEF Recoverable
    <3>3. QED
      BY <3>1, <3>2
  <2>1. TypeOK'
    <3>1. Labels'
      BY <1>31 DEF Boot, Recoverable, Fault, NoFault, Labels
    <3>2. Numbers'
      BY <1>31, <2>0 DEF Boot, Numbers
    <3>3. Flags'
      BY <1>31 DEF Boot, Recoverable, Fault, NoFault, Flags
    <3>4. Sets'
      BY <1>31 DEF Boot, Recoverable, Fault, NoFault, Sets
    <3>5. QED
      BY <3>1, <3>2, <3>3, <3>4 DEF Labels, Numbers, Flags, Sets
  <2>2. ServiceInv'
    BY <1>31 DEF Boot, Recoverable, Fault, NoFault
  <2>3. JobInv'
    BY <1>31 DEF Boot, Recoverable, Fault, NoFault
  <2>4. DiskInv'
    <3>1. UNCHANGED <<run, last, desired, stopped, ran, stopAsked>> /\ phase' = "boot"
      BY <1>31 DEF Boot
    <3>2. op' = "start" => starting' \notin stopped
      BY <2>0
    <3>3. last \in ran \ stopAsked => starting' = last
      <4> SUFFICES ASSUME last \in ran \ stopAsked PROVE starting' = last
        OBVIOUS
      <4>1. last \in Recoverable
        BY DEF Recoverable
      <4>2. QED
        BY <2>0, <4>1
    <3>4. QED
      BY <2>0, <3>1, <3>2, <3>3
  <2>5. DesiredIsDurable'
    BY <1>31 DEF Boot, Recoverable, Fault, NoFault
  <2>6. QED
    BY <2>1, <2>2, <2>3, <2>4, <2>5
<1>32. CASE BootStale
  BY <1>32 DEF BootStale, Recoverable, Fault, NoFault
<1>33. QED
  BY <1>1, <1>2, <1>3, <1>4, <1>5, <1>6, <1>7, <1>8, <1>9, <1>10, <1>11, <1>12, <1>13, <1>14, <1>15, <1>16, <1>17, <1>18, <1>19, <1>20, <1>21, <1>22, <1>23, <1>24, <1>25, <1>26, <1>27, <1>28, <1>29, <1>30, <1>31, <1>32 DEF Next, StreamNext

LEMMA StutterInv == ASSUME IInv, UNCHANGED vars PROVE IInv'
BY DEF IInv, TypeOK, ServiceInv, JobInv, DiskInv, DesiredIsDurable,
   StoppedRunStaysStopped, LatestRunSurvives, Busy, Alive, vars, service, streamVars,
   jobVars, history, bounds

(* The invariant holds in every state the service reaches.                 *)
THEOREM Inductive == ASSUME BoundsAreNat PROVE Spec => []IInv
BY InitInv, StepInv, StutterInv, PTL DEF Spec

-----------------------------------------------------------------------------
(* What the invariant says of the service.                                 *)

(* Types; the records channel never holds more than its capacity.          *)
THEOREM TypeCorrect == ASSUME BoundsAreNat PROVE Spec => []TypeOK
<1>1. IInv => TypeOK
  BY DEF IInv
<1>2. QED
  BY <1>1, Inductive, PTL

(* A closed recorder has got every line, and a service that answers        *)
(* STOPPED or FAILED has no job, stream or open recorder left: run waits   *)
(* for its streams before it drains the channel for the last time, and     *)
(* start takes back what it opened.                                        *)
THEOREM EndClean == ASSUME BoundsAreNat PROVE Spec => []EndIsClean
<1>1. IInv => EndIsClean
  BY DEF IInv, TypeOK, ServiceInv, JobInv, Busy, Alive, EndIsClean, SealedIsComplete,
     NothingLeftBehind
<1>2. QED
  BY <1>1, Inductive, PTL

(* Through failures of the job, failed restores, shutdowns and deaths, a   *)
(* run whose stop was acknowledged is STOPPED on disk, and the latest one  *)
(* that nobody asked to stop is RUNNING on disk.                           *)
THEOREM DesiredDurable == ASSUME BoundsAreNat PROVE Spec => []DesiredIsDurable
<1>1. IInv => DesiredIsDurable
  BY DEF IInv
<1>2. QED
  BY <1>1, Inductive, PTL

-----------------------------------------------------------------------------
(* The refinement: each step is one of Singleton's, or none.               *)
LEMMA PromiseInit == Init => Promise!Init
BY DEF Init, Promise!Init

LEMMA PromiseStep == ASSUME IInv, Next PROVE [Promise!Next]_(Promise!vars)
<1> USE DEF IInv, TypeOK, ServiceInv, JobInv, Busy, Promise!Next, Promise!vars, service,
    streamVars, jobVars, history, bounds
<1>1. CASE StartBegin
  BY <1>1 DEF StartBegin, Promise!Begin
<1>2. CASE StartFails
  BY <1>2 DEF StartFails, Unstarted, Promise!Refused
<1>3. CASE FactoryStart
  BY <1>3 DEF FactoryStart
<1>4. CASE StartReconcile
  BY <1>4 DEF StartReconcile, Promise!Started
<1>5. CASE StartReconcileFails
  BY <1>5 DEF StartReconcileFails, Unstarted, Promise!Refused
<1>6. CASE StopIdle \/ StopPersistFails \/ StopReturns \/ StopTimesOut
  BY <1>6 DEF StopIdle, StopPersistFails, StopReturns, StopTimesOut
<1>7. CASE StopFailed
  BY <1>7 DEF StopFailed, Promise!Stopped
<1>8. CASE StopCancel
  BY <1>8 DEF StopCancel, Promise!AskStop
<1>9. CASE JobWrite \/ JobWriteFails \/ JobReconcile \/ JobReconcileFails \/ JobCancelled
  BY <1>9 DEF JobWrite, JobWriteFails, JobReconcile, JobReconcileFails, JobCancelled
<1>10. CASE JobWait \/ JobDrain \/ JobClose
  BY <1>10 DEF JobWait, JobDrain, JobClose
<1>11. CASE JobDone
  BY <1>11 DEF JobDone, Promise!Fail, Promise!Stopped
<1>12. ASSUME NEW k \in Keys, StreamNext(k) PROVE UNCHANGED <<status, job>>
  BY <1>12 DEF StreamNext, StreamOpen, StreamOpenFails, StreamRead, StreamEnds, StreamSend,
     StreamVerify, StreamExits, StreamStep
<1>13. CASE PodsChange
  BY <1>13 DEF PodsChange
<1>14. CASE Shutdown
  BY <1>14 DEF Shutdown, Promise!AskStop, Promise!Stopped
<1>15. CASE Die
  BY <1>15 DEF Die, Promise!Restart
<1>16. CASE Boot
  BY <1>16 DEF Boot, Promise!Begin
<1>17. CASE BootStale
  BY <1>17 DEF BootStale
<1>18. QED
  BY <1>1, <1>2, <1>3, <1>4, <1>5, <1>6, <1>7, <1>8, <1>9, <1>10, <1>11, <1>12, <1>13,
     <1>14, <1>15, <1>16, <1>17 DEF Next

(* The log capture service implements the specification of a singleton     *)
(* capture: two starts, a start during a stop that timed out, or a job     *)
(* that fails while it is being stopped never make two jobs.               *)
THEOREM Implements == ASSUME BoundsAreNat PROVE Spec => IsSingleton
<1>1. IInv /\ [Next]_vars => [Promise!Next]_(Promise!vars)
  <2>1. ASSUME UNCHANGED vars PROVE UNCHANGED Promise!vars
    BY <2>1 DEF vars, service, jobVars, Promise!vars
  <2>2. QED
    BY <2>1, PromiseStep
<1>2. QED
  BY <1>1, PromiseInit, Inductive, PTL DEF Spec, IsSingleton, Promise!Spec
=============================================================================
