------------------------- MODULE RecoveryFileProofs -------------------------
(***************************************************************************)
(* For any number of goroutines and any generation bound: a persisted stop *)
(* is final, and an undisturbed RUNNING state survives every crash of a    *)
(* process that did not boot from the .part file alone.  The last section  *)
(* carries this, and what LogCaptureProofs says of the workload log        *)
(* capture, over to the specification that the runs check.                 *)
(***************************************************************************)
EXTENDS MCRecovery, TLAPS

(* What the file operations and records are made of.                       *)
LEMMA ContentsFacts ==
    /\ Absent \in Contents /\ Torn \in Contents /\ States \subseteq Contents
    /\ \A c \in Contents : Running(c) => c \in States
    /\ \A c \in Contents : Readable(c) <=> c \in States
    /\ ~Running(Absent) /\ ~Running(Torn) /\ Torn # Absent
    /\ ~Readable(Absent) /\ ~Readable(Torn)
    /\ \A d \in Desired, g \in Nat :
          State(d, g) \in States /\ State(d, g).desired = d
    /\ \A c \in States : c # Absent /\ c.desired \in Desired
    /\ \A c \in Contents : c.gen \in Nat
BY DEF Contents, States, Absent, Torn, Running, Readable, Desired, State

(* readRecovery returns one of its two candidates, and only RUNNING ones   *)
(* make it RUNNING.                                                        *)
LEMMA ReadFacts ==
    ASSUME TypeOK
    PROVE  /\ ReadRecovery \in Contents /\ ReadRecovery \in {file, part}
           /\ (~Running(file) /\ ~Running(part)) => ~Recoverable
           /\ (/\ Running(file) \/ Running(part)
               /\ Readable(file) => Running(file)
               /\ Readable(part) => Running(part)) => Recoverable
           /\ (Recoverable /\ Readable(file) /\ (Readable(file) => Running(file)))
                 => Running(file)
BY ContentsFacts DEF TypeOK, ReadRecovery, Newest, Recoverable, Running, Readable

(* The same of a candidate read earlier and the .part file read now.       *)
LEMMA NewestFacts ==
    ASSUME TypeOK, NEW c \in Contents
    PROVE  Newest(c, part) \in Contents
BY DEF TypeOK, Newest

(* Init and every step keep the types.                                     *)
LEMMA TypeInit == Init => TypeOK
<1> SUFFICES ASSUME Init PROVE TypeOK
  OBVIOUS
<1>1. \A g \in 1..MaxGeneration : State("STOPPED", g) \in Contents
  BY GenerationAssumption, ContentsFacts DEF Desired
<1>2. file \in Contents /\ part \in Contents
  BY <1>1, ContentsFacts DEF Init
<1>3. QED
  BY <1>2, ContentsFacts DEF Init, TypeOK

LEMMA TypeStep == TypeOK /\ [Next]_vars => TypeOK'
<1> SUFFICES ASSUME TypeOK, [Next]_vars PROVE TypeOK'
  OBVIOUS
<1> USE ContentsFacts, ReadFacts DEF TypeOK, history
<1>1. CASE StartBegin
  BY <1>1 DEF StartBegin, Procs, Desired
<1>2. ASSUME NEW p \in Procs, SetDesiredBegin(p) PROVE TypeOK'
  BY <1>2 DEF SetDesiredBegin
<1>2a. ASSUME NEW p \in Procs, SetDesiredRead(p) PROVE TypeOK'
  <2>1. Newest(arg[p], part) \in Contents
    BY NewestFacts
  <2>2. State("STOPPED", Newest(arg[p], part).gen + 1) \in Contents
    BY <2>1 DEF Desired
  <2>3. QED
    BY <1>2a, <2>2 DEF SetDesiredRead
<1>2b. ASSUME NEW p \in Procs, SetDesiredError(p) PROVE TypeOK'
  BY <1>2b DEF SetDesiredError
<1>3. ASSUME NEW p \in Procs, WriteOpen(p) PROVE TypeOK'
  BY <1>3 DEF WriteOpen
<1>4. ASSUME NEW p \in Procs, WriteData(p) PROVE TypeOK'
  BY <1>4 DEF WriteData
<1>5. ASSUME NEW p \in Procs, RemoveFile(p) PROVE TypeOK'
  BY <1>5 DEF RemoveFile
<1>6. ASSUME NEW p \in Procs, RenameOk(p) PROVE TypeOK'
  BY <1>6 DEF RenameOk
<1>7. ASSUME NEW p \in Procs, RenameError(p) PROVE TypeOK'
  BY <1>7 DEF RenameError
<1>8. CASE Crash
  BY <1>8 DEF Crash
<1>9. CASE Reboot
  BY <1>9 DEF Reboot
<1>10. CASE UNCHANGED vars
  BY <1>10 DEF vars
<1>11. QED
  BY <1>1, <1>2, <1>2a, <1>2b, <1>3, <1>4, <1>5, <1>6, <1>7, <1>8, <1>9, <1>10
  DEF Next

(* The disk contents, goroutine states and histories keep their types.     *)
THEOREM TypeCorrect == Spec => []TypeOK
BY TypeInit, TypeStep, PTL DEF Spec

-----------------------------------------------------------------------------
(* The invariant that ties the phase of the process to who is writing what *)
(* and to where a RUNNING state can still be on disk is inductive.         *)
THEOREM Inductive == Spec => []IInv
<1>1. Init => IInv
  <2> SUFFICES ASSUME Init, TypeOK PROVE IInv
    BY TypeInit
  <2>1. WritersInv /\ RunInv
    BY DEF Init, WritersInv, RunInv, Starting, Procs
  <2>2. StopInv
    BY ContentsFacts DEF Init, StopInv, Starting, Writing
  <2>3. QED
    BY <2>1, <2>2 DEF IInv
<1>2. IInv /\ [Next]_vars => IInv'
  <2> SUFFICES ASSUME IInv, [Next]_vars PROVE IInv'
    OBVIOUS
  <2> USE ContentsFacts, ReadFacts, StarterAssumption
      DEF IInv, WritersInv, StopInv, RunInv, Starting, Writing, Procs, history
  <2>0. TypeOK'
    BY TypeStep
  <2>1. CASE StartBegin
    BY <2>0, <2>1 DEF StartBegin, TypeOK, Running, State, Desired
  <2>2. ASSUME NEW p \in Procs, SetDesiredBegin(p) PROVE IInv'
    BY <2>0, <2>2 DEF SetDesiredBegin, TypeOK
  <2>2a. ASSUME NEW p \in Procs, SetDesiredRead(p) PROVE IInv'
    <3>1. Newest(arg[p], part).gen + 1 \in Nat
      BY NewestFacts DEF TypeOK
    <3>2. /\ arg' = [arg EXCEPT ![p] = arg'[p]]
          /\ arg'[p] \in States /\ ~Running(arg'[p])
      BY <2>2a, <3>1 DEF SetDesiredRead, TypeOK, Running, Desired
    <3>3. /\ pc[p] = "read" /\ pc' = [pc EXCEPT ![p] = "open"] /\ stopAsked'
          /\ UNCHANGED <<file, part, phase, fd, runAcked, stopAcked, salvaged>>
      BY <2>2a DEF SetDesiredRead
    <3>4. phase \notin Starting
      BY <3>3 DEF TypeOK
    <3>5. WritersInv'
      BY <2>0, <3>2, <3>3, <3>4 DEF TypeOK
    <3>6. StopInv'
      BY <2>0, <3>2, <3>3 DEF TypeOK
    <3>7. RunInv'
      BY <2>0, <3>2, <3>3, <3>4 DEF TypeOK
    <3>8. QED
      BY <2>0, <3>5, <3>6, <3>7
  <2>2b. ASSUME NEW p \in Procs, SetDesiredError(p) PROVE IInv'
    BY <2>0, <2>2b DEF SetDesiredError, TypeOK
  <2>3. ASSUME NEW p \in Procs, WriteOpen(p) PROVE IInv'
    <3>1. ~Running(part') /\ ~Readable(part') /\ part' # Absent
      BY <2>3 DEF WriteOpen
    <3>2. WritersInv'
      BY <2>0, <2>3 DEF WriteOpen, TypeOK
    <3>3. StopInv'
      BY <2>0, <2>3, <3>1 DEF WriteOpen, TypeOK
    <3>4. RunInv'
      BY <2>0, <2>3, <3>1 DEF WriteOpen, TypeOK
    <3>5. QED
      BY <2>0, <3>2, <3>3, <3>4
  <2>4. ASSUME NEW p \in Procs, WriteData(p) PROVE IInv'
    BY <2>0, <2>4 DEF WriteData, TypeOK
  <2>5. ASSUME NEW p \in Procs, RemoveFile(p) PROVE IInv'
    BY <2>0, <2>5 DEF RemoveFile, TypeOK
  <2>6. ASSUME NEW p \in Procs, RenameOk(p) PROVE IInv'
    <3>1. /\ ~Running(part') /\ ~Readable(part')
          /\ Running(file') <=> Running(part)
      BY <2>6 DEF RenameOk, TypeOK
    <3>2. arg[p].desired = "RUNNING" \/ arg[p].desired = "STOPPED"
      BY <2>6 DEF RenameOk, Desired
    <3>3. Running(arg[p]) => p = Starter
      BY <2>6 DEF RenameOk
    <3>4. WritersInv'
      BY <2>0, <2>6, <3>2, <3>3 DEF RenameOk, TypeOK, Running
    <3>5. StopInv'
      BY <2>0, <2>6, <3>1, <3>2, <3>3 DEF RenameOk, TypeOK, Running
    <3>6. RunInv'
      <4>1. CASE Running(arg[p])
        BY <2>0, <2>6, <3>1, <3>3, <4>1 DEF RenameOk, TypeOK, Running
      <4>2. CASE ~Running(arg[p])
        <5>1. stopAsked
          BY <2>6, <4>2 DEF RenameOk, TypeOK
        <5>2. QED
          BY <2>0, <2>6, <3>1, <3>2, <4>2, <5>1 DEF RenameOk, TypeOK, Running
      <4>3. QED
        BY <4>1, <4>2
    <3>7. QED
      BY <2>0, <3>4, <3>5, <3>6
  <2>7. ASSUME NEW p \in Procs, RenameError(p) PROVE IInv'
    BY <2>0, <2>7 DEF RenameError, TypeOK
  <2>8. CASE Crash
    BY <2>0, <2>8 DEF Crash, TypeOK
  <2>9. CASE Reboot
    BY <2>0, <2>9 DEF Reboot, TypeOK
  <2>10. CASE UNCHANGED vars
    BY <2>10 DEF vars, TypeOK, Readable
  <2>11. QED
    BY <2>1, <2>2, <2>2a, <2>2b, <2>3, <2>4, <2>5, <2>6, <2>7, <2>8, <2>9, <2>10
    DEF Next
<1>3. QED
  BY <1>1, <1>2, PTL DEF Spec

(* A stop that SetSessionDesiredState acknowledged is never undone by a    *)
(* crash and a boot scan, for any number of concurrent stops.              *)
THEOREM StopDurable == Spec => []StopIsDurable
<1>1. IInv => StopIsDurable
  BY ReadFacts DEF IInv, StopInv, StopIsDurable
<1>2. QED
  BY <1>1, Inductive, PTL

(* An acknowledged Start with no stop request is found RUNNING after every *)
(* crash, unless a boot already had to read the .part file alone.          *)
THEOREM RunningDurable == Spec => []RunningSurvives
<1>1. IInv => RunningSurvives
  BY ReadFacts DEF IInv, RunInv, RunningSurvives
<1>2. QED
  BY <1>1, Inductive, PTL

(* writeRecovery's rename fails only in a race that another stop has won.  *)
THEOREM RenameRace == Spec => []LostRaceMeansStopped
<1>1. IInv => LostRaceMeansStopped
  BY DEF IInv, StopInv, LostRaceMeansStopped, Writing
<1>2. QED
  BY <1>1, Inductive, PTL
-----------------------------------------------------------------------------
(* The composition: every behaviour of it is one of the recovery file's,   *)
(* and one of the workload log capture's.                                  *)

Job == INSTANCE LogCaptureProofs WITH phase <- logPhase, stopAsked <- logStopAsked

LEMMA FilePart == RecoverySpec => Spec
<1>1. RecoveryInit => Init
  BY DEF RecoveryInit
<1>2. [RecoveryNext]_allVars => [Next]_vars
  BY DEF RecoveryNext, allVars
<1>3. QED
  BY <1>1, <1>2, PTL DEF RecoverySpec, Spec

LEMMA SameNext == Logs!Next <=> Job!Next
<1>1. Logs!StartBegin <=> Job!StartBegin
  BY DEF
     Logs!StartBegin, Job!StartBegin, Logs!service, Job!service,
     Logs!streamVars, Job!streamVars, Logs!jobVars, Job!jobVars,
     Logs!history, Job!history, Logs!bounds, Job!bounds
<1>2. Logs!StartFails <=> Job!StartFails
  BY DEF
     Logs!StartFails, Job!StartFails, Logs!Fault, Job!Fault, Logs!NoFault,
     Job!NoFault, Logs!Unstarted, Job!Unstarted, Logs!service,
     Job!service, Logs!streamVars, Job!streamVars, Logs!jobVars,
     Job!jobVars, Logs!history, Job!history, Logs!bounds, Job!bounds
<1>3. Logs!FactoryStart <=> Job!FactoryStart
  BY DEF
     Logs!FactoryStart, Job!FactoryStart, Logs!service, Job!service,
     Logs!streamVars, Job!streamVars, Logs!jobVars, Job!jobVars,
     Logs!history, Job!history, Logs!bounds, Job!bounds
<1>4. Logs!StartReconcile <=> Job!StartReconcile
  BY DEF
     Logs!StartReconcile, Job!StartReconcile, Logs!Reconcile,
     Job!Reconcile, Logs!Cardinality, Job!Cardinality, Logs!service,
     Job!service, Logs!streamVars, Job!streamVars, Logs!jobVars,
     Job!jobVars, Logs!history, Job!history, Logs!bounds, Job!bounds
<1>5. Logs!StartReconcileFails <=> Job!StartReconcileFails
  BY DEF
     Logs!StartReconcileFails, Job!StartReconcileFails, Logs!Fault,
     Job!Fault, Logs!NoFault, Job!NoFault, Logs!Unstarted, Job!Unstarted,
     Logs!Cardinality, Job!Cardinality, Logs!service, Job!service,
     Logs!streamVars, Job!streamVars, Logs!jobVars, Job!jobVars,
     Logs!history, Job!history, Logs!bounds, Job!bounds
<1>6. Logs!StopIdle <=> Job!StopIdle
  BY DEF
     Logs!StopIdle, Job!StopIdle, Logs!service, Job!service,
     Logs!streamVars, Job!streamVars, Logs!jobVars, Job!jobVars,
     Logs!history, Job!history, Logs!bounds, Job!bounds
<1>7. Logs!StopPersistFails <=> Job!StopPersistFails
  BY DEF
     Logs!StopPersistFails, Job!StopPersistFails, Logs!Fault, Job!Fault,
     Logs!NoFault, Job!NoFault, Logs!service, Job!service,
     Logs!streamVars, Job!streamVars, Logs!jobVars, Job!jobVars,
     Logs!history, Job!history, Logs!bounds, Job!bounds
<1>8. Logs!StopFailed <=> Job!StopFailed
  BY DEF
     Logs!StopFailed, Job!StopFailed, Logs!Persist, Job!Persist,
     Logs!Acknowledge, Job!Acknowledge, Logs!service, Job!service,
     Logs!streamVars, Job!streamVars, Logs!jobVars, Job!jobVars,
     Logs!history, Job!history, Logs!bounds, Job!bounds
<1>9. Logs!StopCancel <=> Job!StopCancel
  BY DEF
     Logs!StopCancel, Job!StopCancel, Logs!Persist, Job!Persist,
     Logs!service, Job!service, Logs!streamVars, Job!streamVars,
     Logs!jobVars, Job!jobVars, Logs!history, Job!history, Logs!bounds,
     Job!bounds
<1>10. Logs!StopReturns <=> Job!StopReturns
  BY DEF
     Logs!StopReturns, Job!StopReturns, Logs!Acknowledge, Job!Acknowledge,
     Logs!service, Job!service, Logs!streamVars, Job!streamVars,
     Logs!jobVars, Job!jobVars, Logs!history, Job!history, Logs!bounds,
     Job!bounds
<1>11. Logs!StopTimesOut <=> Job!StopTimesOut
  BY DEF
     Logs!StopTimesOut, Job!StopTimesOut, Logs!Fault, Job!Fault,
     Logs!NoFault, Job!NoFault, Logs!service, Job!service,
     Logs!streamVars, Job!streamVars, Logs!jobVars, Job!jobVars,
     Logs!history, Job!history, Logs!bounds, Job!bounds
<1>12. Logs!JobWrite <=> Job!JobWrite
  BY DEF
     Logs!JobWrite, Job!JobWrite, Logs!service, Job!service,
     Logs!streamVars, Job!streamVars, Logs!jobVars, Job!jobVars,
     Logs!history, Job!history, Logs!bounds, Job!bounds
<1>13. Logs!JobWriteFails <=> Job!JobWriteFails
  BY DEF
     Logs!JobWriteFails, Job!JobWriteFails, Logs!Fault, Job!Fault,
     Logs!NoFault, Job!NoFault, Logs!service, Job!service,
     Logs!streamVars, Job!streamVars, Logs!jobVars, Job!jobVars,
     Logs!history, Job!history, Logs!bounds, Job!bounds
<1>14. Logs!JobReconcile <=> Job!JobReconcile
  BY DEF
     Logs!JobReconcile, Job!JobReconcile, Logs!Reconcile, Job!Reconcile,
     Logs!Cardinality, Job!Cardinality, Logs!service, Job!service,
     Logs!streamVars, Job!streamVars, Logs!jobVars, Job!jobVars,
     Logs!history, Job!history, Logs!bounds, Job!bounds
<1>15. Logs!JobReconcileFails <=> Job!JobReconcileFails
  BY DEF
     Logs!JobReconcileFails, Job!JobReconcileFails, Logs!Fault, Job!Fault,
     Logs!NoFault, Job!NoFault, Logs!service, Job!service,
     Logs!streamVars, Job!streamVars, Logs!jobVars, Job!jobVars,
     Logs!history, Job!history, Logs!bounds, Job!bounds
<1>16. Logs!JobCancelled <=> Job!JobCancelled
  BY DEF
     Logs!JobCancelled, Job!JobCancelled, Logs!service, Job!service,
     Logs!streamVars, Job!streamVars, Logs!jobVars, Job!jobVars,
     Logs!history, Job!history, Logs!bounds, Job!bounds
<1>17. Logs!JobWait <=> Job!JobWait
  BY DEF
     Logs!JobWait, Job!JobWait, Logs!Alive, Job!Alive, Logs!service,
     Job!service, Logs!streamVars, Job!streamVars, Logs!jobVars,
     Job!jobVars, Logs!history, Job!history, Logs!bounds, Job!bounds
<1>18. Logs!JobDrain <=> Job!JobDrain
  BY DEF
     Logs!JobDrain, Job!JobDrain, Logs!Fault, Job!Fault, Logs!NoFault,
     Job!NoFault, Logs!service, Job!service, Logs!streamVars,
     Job!streamVars, Logs!jobVars, Job!jobVars, Logs!history, Job!history,
     Logs!bounds, Job!bounds
<1>19. Logs!JobClose <=> Job!JobClose
  BY DEF
     Logs!JobClose, Job!JobClose, Logs!Fault, Job!Fault, Logs!NoFault,
     Job!NoFault, Logs!service, Job!service, Logs!streamVars,
     Job!streamVars, Logs!jobVars, Job!jobVars, Logs!history, Job!history,
     Logs!bounds, Job!bounds
<1>20. Logs!JobDone <=> Job!JobDone
  BY DEF
     Logs!JobDone, Job!JobDone, Logs!service, Job!service,
     Logs!streamVars, Job!streamVars, Logs!jobVars, Job!jobVars,
     Logs!history, Job!history, Logs!bounds, Job!bounds
<1>21. Logs!PodsChange <=> Job!PodsChange
  BY DEF
     Logs!PodsChange, Job!PodsChange, Logs!service, Job!service,
     Logs!streamVars, Job!streamVars, Logs!jobVars, Job!jobVars,
     Logs!history, Job!history, Logs!bounds, Job!bounds
<1>22. Logs!Shutdown <=> Job!Shutdown
  BY DEF
     Logs!Shutdown, Job!Shutdown, Logs!service, Job!service,
     Logs!streamVars, Job!streamVars, Logs!jobVars, Job!jobVars,
     Logs!history, Job!history, Logs!bounds, Job!bounds
<1>23. Logs!Die <=> Job!Die
  BY DEF
     Logs!Die, Job!Die, Logs!service, Job!service, Logs!streamVars,
     Job!streamVars, Logs!jobVars, Job!jobVars, Logs!history, Job!history,
     Logs!bounds, Job!bounds
<1>24. Logs!Boot <=> Job!Boot
  BY DEF
     Logs!Boot, Job!Boot, Logs!Recoverable, Job!Recoverable, Logs!Fault,
     Job!Fault, Logs!NoFault, Job!NoFault, Logs!service, Job!service,
     Logs!streamVars, Job!streamVars, Logs!jobVars, Job!jobVars,
     Logs!history, Job!history, Logs!bounds, Job!bounds, Logs!Max,
     Job!Max, Logs!Runs, Job!Runs
<1>25. Logs!BootStale <=> Job!BootStale
  BY DEF
     Logs!BootStale, Job!BootStale, Logs!Recoverable, Job!Recoverable,
     Logs!Fault, Job!Fault, Logs!NoFault, Job!NoFault, Logs!service,
     Job!service, Logs!streamVars, Job!streamVars, Logs!jobVars,
     Job!jobVars, Logs!history, Job!history, Logs!bounds, Job!bounds,
     Logs!Runs, Job!Runs
<1>26. ASSUME NEW k \in Keys PROVE Logs!StreamNext(k) <=> Job!StreamNext(k)
  BY DEF
     Logs!StreamNext, Job!StreamNext, Logs!StreamOpen, Job!StreamOpen,
     Logs!StreamOpenFails, Job!StreamOpenFails, Logs!StreamRead,
     Job!StreamRead, Logs!StreamEnds, Job!StreamEnds, Logs!StreamSend,
     Job!StreamSend, Logs!StreamVerify, Job!StreamVerify,
     Logs!StreamExits, Job!StreamExits, Logs!StreamStep, Job!StreamStep,
     Logs!StreamDone, Job!StreamDone, Logs!Alive, Job!Alive, Logs!Fault,
     Job!Fault, Logs!NoFault, Job!NoFault, Logs!service, Job!service,
     Logs!streamVars, Job!streamVars, Logs!jobVars, Job!jobVars,
     Logs!history, Job!history, Logs!bounds, Job!bounds
<1>27. QED
  BY <1>1, <1>2, <1>3, <1>4, <1>5, <1>6, <1>7, <1>8, <1>9, <1>10, <1>11,
     <1>12, <1>13, <1>14, <1>15, <1>16, <1>17, <1>18, <1>19, <1>20, <1>21,
     <1>22, <1>23, <1>24, <1>25, <1>26
  DEF Logs!Next, Job!Next

LEMMA LogPart == RecoverySpec => Job!Spec
<1>1. RecoveryInit => Job!Init
  BY DEF RecoveryInit, Logs!Init, Job!Init, Logs!Runs, Job!Runs
<1>2. UNCHANGED logVars => UNCHANGED Job!vars
  BY DEF logVars, Job!vars, Job!service, Job!jobVars, Job!streamVars, Job!bounds,
     Job!history
<1>3. [RecoveryNext]_allVars => [Job!Next]_(Job!vars)
  BY <1>2, SameNext DEF RecoveryNext, allVars
<1>4. QED
  BY <1>1, <1>3, PTL DEF RecoverySpec, Job!Spec

LEMMA LogBounds == Job!BoundsAreNat
BY LogBoundsAssumption DEF Job!BoundsAreNat

(* In the composition, a log job that has ended has written every line its *)
(* streams handed over and leaves nothing open (run, start, stop).         *)
THEOREM RecoveryLogEnd == RecoverySpec => []LogEndIsClean
<1>1. Job!EndIsClean => LogEndIsClean
  BY DEF LogEndIsClean, Logs!EndIsClean, Job!EndIsClean, Logs!SealedIsComplete,
     Job!SealedIsComplete, Logs!NothingLeftBehind, Job!NothingLeftBehind, Logs!Alive,
     Job!Alive
<1>2. Job!Spec => []Job!EndIsClean
  BY LogBounds, Job!EndClean
<1>3. QED
  BY <1>1, <1>2, LogPart, PTL

(* In the composition, the next boot resumes the latest log run that nobody *)
(* asked to stop, and none whose stop was acknowledged (stop, Restore).    *)
THEOREM RecoveryLogDesired == RecoverySpec => []LogDesiredIsDurable
<1>1. Job!DesiredIsDurable => LogDesiredIsDurable
  BY DEF LogDesiredIsDurable, Logs!DesiredIsDurable, Job!DesiredIsDurable,
     Logs!StoppedRunStaysStopped, Job!StoppedRunStaysStopped, Logs!LatestRunSurvives,
     Job!LatestRunSurvives
<1>2. Job!Spec => []Job!DesiredIsDurable
  BY LogBounds, Job!DesiredDurable
<1>3. QED
  BY <1>1, <1>2, LogPart, PTL

(* In the composition, the log capture service implements the              *)
(* specification of a singleton capture.                                   *)
THEOREM RecoveryLogSingleton == RecoverySpec => LogIsSingleton
<1>1. Job!Spec => Job!IsSingleton
  BY LogBounds, Job!Implements
<1>2. Job!IsSingleton => LogIsSingleton
  <2>1. Job!Promise!Init => Logs!Promise!Init
    BY DEF Job!Promise!Init, Logs!Promise!Init
  <2>2. [Job!Promise!Next]_(Job!Promise!vars)
           => [Logs!Promise!Next]_(Logs!Promise!vars)
    BY DEF Job!Promise!Next, Logs!Promise!Next, Job!Promise!Begin,
       Logs!Promise!Begin, Job!Promise!Started, Logs!Promise!Started,
       Job!Promise!Refused, Logs!Promise!Refused, Job!Promise!AskStop,
       Logs!Promise!AskStop, Job!Promise!Fail, Logs!Promise!Fail, Job!Promise!End,
       Logs!Promise!End, Job!Promise!Stopped, Logs!Promise!Stopped,
       Job!Promise!Restart, Logs!Promise!Restart, Job!Promise!vars,
       Logs!Promise!vars
  <2>3. QED
    BY <2>1, <2>2, PTL DEF LogIsSingleton, Logs!IsSingleton, Job!IsSingleton,
       Job!Promise!Spec, Logs!Promise!Spec
<1>3. QED
  BY <1>1, <1>2, LogPart, PTL

(* Types of both parts, in every state of the composition.                 *)
THEOREM RecoveryTypes == RecoverySpec => []PartsTypeOK
<1>1. Job!TypeOK => Logs!TypeOK
  BY DEF Job!TypeOK, Logs!TypeOK, Job!Alive, Logs!Alive, Job!Runs, Logs!Runs
<1>2. TypeOK /\ Job!TypeOK => PartsTypeOK
  BY <1>1 DEF PartsTypeOK
<1>3. Job!Spec => []Job!TypeOK
  BY LogBounds, Job!TypeCorrect
<1>4. QED
  BY <1>2, <1>3, LogPart, FilePart, TypeCorrect, PTL

(* What a persisted stop and an undisturbed RUNNING state promise, in the  *)
(* composition.                                                            *)
THEOREM RecoveryStop == RecoverySpec => []StopIsDurable
BY FilePart, StopDurable, PTL

THEOREM RecoveryRunning == RecoverySpec => []RunningSurvives
BY FilePart, RunningDurable, PTL
=============================================================================
