-------------------------- MODULE ContinuousProofs --------------------------
(***************************************************************************)
(* For any number of sessions, of writes that fail and of deaths of the    *)
(* process: what the continuous capture service answers is true, and the   *)
(* service implements Singleton, step by step.                             *)
(***************************************************************************)
EXTENDS Continuous, TLAPS

-----------------------------------------------------------------------------
(* The inductive invariant.                                                *)

Types ==
    /\ status \in {"STOPPED", "STARTING", "RUNNING", "STOPPING", "FAILED"}
    /\ started \in 0..MaxStarts /\ current \in 0..started
    /\ call \in {"none", "recorder", "sources", "stop"}
    /\ session \in [Ids -> Ended \cup {"STARTING", "RUNNING", "STOPPING"}]
    /\ recorder \in [Ids -> {"none", "on", "off", "done"}]
    /\ stop \in [Procs -> {"none", "begin", "persist", "close"}]
    /\ report \in [Ids -> {"none", "persist", "update", "done"}]
    /\ file \in [owner : 0..started, desired : {"RUNNING", "STOPPED"}]
    /\ phase \in {"up", "down", "adopt"}
    /\ open \subseteq Ids
    /\ missed \in BOOLEAN /\ spoiled \in BOOLEAN /\ unsaved \in BOOLEAN

\* Which call goes with which status, and what s.state.SessionID names.
CallInv ==
    /\ status = "STARTING" <=> call \in {"recorder", "sources"}
    /\ status = "STOPPING" <=> call = "stop"
    /\ call = "stop" <=> stop[0] # "none"
    /\ status \in {"RUNNING", "STOPPING", "FAILED"} => current # 0
    /\ status = "STARTING" \/ phase # "up" => current = 0
    /\ current # 0 => file.owner = current
    /\ file.desired = "RUNNING" => file.owner # 0
    /\ phase # "up" =>
          /\ status = "STOPPED" /\ \A p \in Procs : stop[p] = "none"
          /\ \A i \in Ids : report[i] = "none"

\* A session that is not created yet, or only now, is known to nobody.
Unused(i) == stop[i] = "none" /\ report[i] = "none"

FreshInv ==
    /\ \A i \in Ids : i > started =>
          Unused(i) /\ session[i] = "none" /\ recorder[i] = "none"
    /\ call = "recorder" =>
          Unused(started) /\ started # 0 /\ session[started] = "STARTING"
    /\ call = "sources" =>
          /\ Unused(started) /\ started # 0 /\ session[started] = "STARTING"
          /\ recorder[started] \in {"on", "off"} /\ file.owner = started
          /\ file.desired = "RUNNING" \/ spoiled

\* Only the session that starts, is restored or is current has a pipeline, and
\* none does whose status is final or whose last source has failed.
OpenInv ==
    /\ \A i \in open :
          /\ session[i] \notin Ended /\ report[i] = "none"
          /\ \/ call \in {"recorder", "sources"} /\ i = started
             \/ phase = "adopt" /\ i = file.owner
             \/ phase = "up" /\ i = current
    /\ phase = "up" /\ status = "STOPPED" => open = {}

\* Behind a final status, a persisted stop or the answer STOPPED the file does
\* not ask for a recovery.
FileInv ==
    ~unsaved =>
        /\ phase # "down" /\ file.owner # 0 /\ session[file.owner] \in Ended =>
              file.desired = "STOPPED"
        /\ phase = "up" /\ status = "STOPPED" => file.desired = "STOPPED"
        /\ call = "recorder" => file.desired = "STOPPED"
        /\ file.owner # 0 /\ report[file.owner] = "update" =>
              file.desired = "STOPPED"

StopInv ==
    \A p \in Procs :
        stop[p] = "close" /\ Target(p) = file.owner => file.desired = "STOPPED"

\* What RUNNING promises, from the moment the session is restored.
Served == IF phase = "adopt" THEN file.owner ELSE current

RunInv ==
    /\ Served # 0 /\ session[Served] = "RUNNING" =>
          file.desired = "RUNNING" \/ spoiled \/ report[Served] = "update"
    /\ phase = "adopt" \/ status = "RUNNING" =>
          Served # 0 /\ (recorder[Served] = "done" => missed)

IInv ==
    Types /\ CallInv /\ FreshInv /\ OpenInv /\ FileInv /\ StopInv /\ RunInv

-----------------------------------------------------------------------------
(* The invariant holds at the start ...                                    *)
LEMMA InitInv == ASSUME MaxStarts \in Nat PROVE Init => IInv
<1> SUFFICES ASSUME Init PROVE IInv
  OBVIOUS
<1> USE DEF Init, Ids, Procs, Ended, NoFile
<1>1. Types
  <2>1. session \in [Ids -> Ended \cup {"STARTING", "RUNNING", "STOPPING"}]
    OBVIOUS
  <2>2. recorder \in [Ids -> {"none", "on", "off", "done"}]
    OBVIOUS
  <2>3. stop \in [Procs -> {"none", "begin", "persist", "close"}]
    OBVIOUS
  <2>4. report \in [Ids -> {"none", "persist", "update", "done"}]
    OBVIOUS
  <2>5. file \in [owner : 0..started, desired : {"RUNNING", "STOPPED"}]
    OBVIOUS
  <2>6. missed \in BOOLEAN /\ spoiled \in BOOLEAN /\ unsaved \in BOOLEAN
    BY Zenon
  <2>7. open \subseteq Ids
    OBVIOUS
  <2>8. started \in 0..MaxStarts /\ current \in 0..started
    OBVIOUS
  <2>9. QED
    BY <2>1, <2>2, <2>3, <2>4, <2>5, <2>6, <2>7, <2>8 DEF Types
<1>2. CallInv /\ FreshInv /\ OpenInv
  BY DEF CallInv, FreshInv, Unused, OpenInv
<1>3. FileInv /\ StopInv /\ RunInv
  BY DEF FileInv, StopInv, RunInv, Served, Target
<1>4. QED
  BY <1>1, <1>2, <1>3 DEF IInv

(* ... and every step of a goroutine, of the process or of the disk keeps  *)
(* it.                                                                     *)
LEMMA StepInv == ASSUME MaxStarts \in Nat, IInv, Next PROVE IInv'
<1> USE DEF IInv, Types, CallInv, FreshInv, Unused, OpenInv, FileInv, StopInv, RunInv,
    Served, Ids, Procs, Ended, Target, serviceVars, procVars, boundVars, history
<1>1. CASE Start
  BY <1>1 DEF Start
<1>2. CASE StartRecorder
  <2>1. Types'
    <3>1. file' \in [owner : 0..started', desired : {"RUNNING", "STOPPED"}]
      BY <1>2 DEF StartRecorder, Own
    <3>2. QED
      BY <3>1, <1>2 DEF StartRecorder
  <2>2. CallInv'
    BY <2>1, <1>2 DEF StartRecorder, Own
  <2>3. FreshInv'
    BY <2>1, <1>2 DEF StartRecorder, Own
  <2>4. OpenInv'
    BY <2>1, <1>2 DEF StartRecorder, Own
  <2>5. FileInv'
    BY <2>1, <1>2 DEF StartRecorder, Own
  <2>6. StopInv'
    BY <2>1, <1>2 DEF StartRecorder, Own
  <2>7. RunInv'
    BY <2>1, <1>2 DEF StartRecorder, Own
  <2>8. QED
    BY <2>1, <2>2, <2>3, <2>4, <2>5, <2>6, <2>7
<1>3. CASE StartRecorderFails
  BY <1>3 DEF StartRecorderFails
<1>4. CASE StartSources
  BY <1>4 DEF StartSources
<1>5. CASE StartNoSource
  <2>1. Types'
    BY <1>5 DEF StartNoSource, RecorderEnds, SaveStopped, SaveFails
  <2>2. CallInv'
    BY <2>1, <1>5 DEF StartNoSource, RecorderEnds, SaveStopped, SaveFails
  <2>3. FreshInv'
    BY <2>1, <1>5 DEF StartNoSource, RecorderEnds, SaveStopped, SaveFails
  <2>4. OpenInv'
    BY <2>1, <1>5 DEF StartNoSource, RecorderEnds, SaveStopped, SaveFails
  <2>5. FileInv'
    BY <2>1, <1>5 DEF StartNoSource, RecorderEnds, SaveStopped, SaveFails
  <2>6. StopInv'
    BY <2>1, <1>5 DEF StartNoSource, RecorderEnds, SaveStopped, SaveFails
  <2>7. RunInv'
    BY <2>1, <1>5 DEF StartNoSource, RecorderEnds, SaveStopped, SaveFails
  <2>8. QED
    BY <2>1, <2>2, <2>3, <2>4, <2>5, <2>6, <2>7
<1>6. CASE StopCalled
  BY <1>6 DEF StopCalled
<1>7. CASE Get
  BY <1>7 DEF Get
<1>8. CASE Crash
  <2>1. Types'
    <3>1. missed' \in BOOLEAN /\ spoiled' \in BOOLEAN /\ unsaved' \in BOOLEAN
      BY <1>8, Zenon DEF Crash
    <3>2. /\ session' \in [Ids -> Ended \cup {"STARTING", "RUNNING", "STOPPING"}]
          /\ recorder' \in [Ids -> {"none", "on", "off", "done"}]
          /\ stop' \in [Procs -> {"none", "begin", "persist", "close"}]
          /\ report' \in [Ids -> {"none", "persist", "update", "done"}]
      BY <1>8 DEF Crash
    <3>3. file' \in [owner : 0..started', desired : {"RUNNING", "STOPPED"}]
      BY <1>8 DEF Crash
    <3>4. QED
      BY <3>1, <3>2, <3>3, <1>8 DEF Crash
  <2>2. CallInv'
    BY <2>1, <1>8 DEF Crash
  <2>3. FreshInv'
    BY <2>1, <1>8 DEF Crash
  <2>4. OpenInv'
    BY <2>1, <1>8 DEF Crash
  <2>5. FileInv'
    BY <2>1, <1>8 DEF Crash
  <2>6. StopInv'
    BY <2>1, <1>8 DEF Crash
  <2>7. RunInv'
    BY <2>1, <1>8 DEF Crash
  <2>8. QED
    BY <2>1, <2>2, <2>3, <2>4, <2>5, <2>6, <2>7
<1>9. CASE Boot
  <2>1. Types'
    <3>1. file' \in [owner : 0..started', desired : {"RUNNING", "STOPPED"}]
      BY <1>9 DEF Boot, Own
    <3>2. file.desired = "RUNNING" => file.owner \in Ids
      BY <1>9 DEF Boot
    <3>3. CASE file.desired = "RUNNING"
      <4>1. session' \in [Ids -> Ended \cup {"STARTING", "RUNNING", "STOPPING"}]
        BY <1>9, <3>2, <3>3 DEF Boot
      <4>2. recorder' \in [Ids -> {"none", "on", "off", "done"}]
        BY <1>9, <3>2, <3>3 DEF Boot
      <4>3. open' \subseteq Ids /\ unsaved' \in BOOLEAN
        BY <1>9, <3>2, <3>3 DEF Boot
      <4>4. QED
        BY <3>1, <4>1, <4>2, <4>3, <1>9 DEF Boot
    <3>4. CASE file.desired # "RUNNING"
      BY <1>9, <3>4 DEF Boot
    <3>5. QED
      BY <3>3, <3>4
  <2>2. CallInv'
    BY <2>1, <1>9 DEF Boot, Own
  <2>3. FreshInv'
    BY <2>1, <1>9 DEF Boot, Own
  <2>4. OpenInv'
    BY <2>1, <1>9 DEF Boot, Own
  <2>5. FileInv'
    BY <2>1, <1>9 DEF Boot, Own
  <2>6. StopInv'
    BY <2>1, <1>9 DEF Boot, Own
  <2>7. RunInv'
    BY <2>1, <1>9 DEF Boot, Own
  <2>8. QED
    BY <2>1, <2>2, <2>3, <2>4, <2>5, <2>6, <2>7
<1>10. CASE Adopt
  BY <1>10 DEF Adopt
<1>11. ASSUME NEW p \in Procs, StopRead(p) PROVE IInv'
  <2>1. Types'
    BY <1>11 DEF StopRead, Answer
  <2>2. CallInv'
    BY <2>1, <1>11 DEF StopRead, Answer
  <2>3. FreshInv'
    BY <2>1, <1>11 DEF StopRead, Answer
  <2>4. OpenInv'
    BY <2>1, <1>11 DEF StopRead, Answer
  <2>5. FileInv'
    BY <2>1, <1>11 DEF StopRead, Answer
  <2>6. StopInv'
    BY <2>1, <1>11 DEF StopRead, Answer
  <2>7. RunInv'
    BY <2>1, <1>11 DEF StopRead, Answer
  <2>8. QED
    BY <2>1, <2>2, <2>3, <2>4, <2>5, <2>6, <2>7
<1>12. ASSUME NEW p \in Procs, StopPersist(p) PROVE IInv'
  <2>1. Types'
    BY <1>12 DEF StopPersist, SaveStopped
  <2>2. CallInv'
    BY <2>1, <1>12 DEF StopPersist, SaveStopped
  <2>3. FreshInv'
    <3>1. CASE p = 0
      BY <3>1, <2>1, <1>12 DEF StopPersist, SaveStopped
    <3>2. CASE p # 0
      <4>1. /\ p \in Ids /\ stop[p] # "none"
            /\ session' = [session EXCEPT ![p] = "STOPPING"]
            /\ file'.owner = file.owner /\ stop' = [stop EXCEPT ![p] = "close"]
        BY <3>2, <1>12 DEF StopPersist, SaveStopped
      <4>2. file.desired = "RUNNING" /\ file.owner # p => spoiled'
        BY <3>2, <1>12, Zenon DEF StopPersist, SaveStopped, Target
      <4>3. spoiled => spoiled'
        BY <1>12, Zenon DEF StopPersist, SaveStopped
      <4>4. UNCHANGED <<open, serviceVars, recorder, report, phase, started, missed>>
        BY <1>12 DEF StopPersist
      <4>5. QED
        BY <3>2, <2>1, <4>1, <4>2, <4>3, <4>4
    <3>3. QED
      BY <3>1, <3>2
  <2>4. OpenInv'
    BY <2>1, <1>12 DEF StopPersist, SaveStopped
  <2>5. FileInv'
    BY <2>1, <1>12 DEF StopPersist, SaveStopped
  <2>6. StopInv'
    BY <2>1, <1>12 DEF StopPersist, SaveStopped
  <2>7. RunInv'
    <3>1. CASE p = 0
      BY <3>1, <2>1, <1>12 DEF StopPersist, SaveStopped
    <3>2. CASE p # 0
      <4>1. /\ p \in Ids /\ stop[p] # "none"
            /\ session' = [session EXCEPT ![p] = "STOPPING"]
            /\ file'.owner = file.owner /\ stop' = [stop EXCEPT ![p] = "close"]
        BY <3>2, <1>12 DEF StopPersist, SaveStopped
      <4>2. file.desired = "RUNNING" /\ file.owner # p => spoiled'
        BY <3>2, <1>12, Zenon DEF StopPersist, SaveStopped, Target
      <4>3. spoiled => spoiled'
        BY <1>12, Zenon DEF StopPersist, SaveStopped
      <4>4. UNCHANGED <<open, serviceVars, recorder, report, phase, started, missed>>
        BY <1>12 DEF StopPersist
      <4>5. QED
        BY <3>2, <2>1, <4>1, <4>2, <4>3, <4>4
    <3>3. QED
      BY <3>1, <3>2
  <2>8. QED
    BY <2>1, <2>2, <2>3, <2>4, <2>5, <2>6, <2>7
<1>13. ASSUME NEW p \in Procs, StopPersistFails(p) PROVE IInv'
  BY <1>13 DEF StopPersistFails, SaveFails, Answer
<1>14. ASSUME NEW p \in Procs, StopClose(p) PROVE IInv'
  BY <1>14 DEF StopClose, RecorderEnds, Answer
<1>15. ASSUME NEW i \in Ids, RecorderFails(i) PROVE IInv'
  BY <1>15 DEF RecorderFails, RecorderEnds
<1>16. ASSUME NEW i \in Ids, RecordingCompleted(i) PROVE IInv'
  <2>1. Types'
    BY <1>16 DEF RecordingCompleted
  <2>2. CallInv'
    BY <2>1, <1>16 DEF RecordingCompleted
  <2>3. FreshInv'
    BY <2>1, <1>16 DEF RecordingCompleted
  <2>4. OpenInv'
    BY <2>1, <1>16 DEF RecordingCompleted
  <2>5. FileInv'
    BY <2>1, <1>16 DEF RecordingCompleted
  <2>6. StopInv'
    BY <2>1, <1>16 DEF RecordingCompleted
  <2>7. RunInv'
    <3>1. CASE current = i /\ status \notin {"STOPPED", "STOPPING"}
      BY <3>1, <2>1, <1>16 DEF RecordingCompleted
    <3>2. CASE ~(current = i /\ status \notin {"STOPPED", "STOPPING"})
      <4>1. /\ recorder' = [recorder EXCEPT ![i] = "done"] /\ call = "none"
            /\ UNCHANGED <<status, current, session, report, file, phase, spoiled>>
        BY <3>2, <1>16 DEF RecordingCompleted
      <4>2. (missed => missed') /\ (phase # "up" => missed')
        BY <1>16, Zenon DEF RecordingCompleted
      <4>3. QED
        BY <3>2, <2>1, <4>1, <4>2
    <3>3. QED
      BY <3>1, <3>2
  <2>8. QED
    BY <2>1, <2>2, <2>3, <2>4, <2>5, <2>6, <2>7
<1>17. ASSUME NEW i \in Ids, ReportFailed(i) PROVE IInv'
  BY <1>17 DEF ReportFailed, RecorderEnds
<1>18. ASSUME NEW i \in Ids, ReportPersist(i) PROVE IInv'
  <2>1. Types'
    BY <1>18 DEF ReportPersist, SaveStopped, SaveFails
  <2>2. CallInv'
    BY <2>1, <1>18 DEF ReportPersist, SaveStopped, SaveFails
  <2>3. FreshInv'
    BY <2>1, <1>18 DEF ReportPersist, SaveStopped, SaveFails
  <2>4. OpenInv'
    BY <2>1, <1>18 DEF ReportPersist, SaveStopped, SaveFails
  <2>5. FileInv'
    BY <2>1, <1>18 DEF ReportPersist, SaveStopped, SaveFails
  <2>6. StopInv'
    BY <2>1, <1>18 DEF ReportPersist, SaveStopped, SaveFails
  <2>7. RunInv'
    BY <2>1, <1>18 DEF ReportPersist, SaveStopped, SaveFails
  <2>8. QED
    BY <2>1, <2>2, <2>3, <2>4, <2>5, <2>6, <2>7
<1>19. ASSUME NEW i \in Ids, ReportUpdate(i) PROVE IInv'
  BY <1>19 DEF ReportUpdate
<1>20. QED
  BY <1>1, <1>2, <1>3, <1>4, <1>5, <1>6, <1>7, <1>8, <1>9, <1>10, <1>11, <1>12, <1>13, <1>14, <1>15, <1>16, <1>17, <1>18, <1>19 DEF Next

LEMMA StutterInv == ASSUME IInv, UNCHANGED vars PROVE IInv'
BY DEF IInv, Types, CallInv, FreshInv, Unused, OpenInv, FileInv, StopInv, RunInv,
   Served, Ids, Procs, Ended, Target, vars, serviceVars, procVars, boundVars, history

(* The invariant holds in every state the service reaches.                 *)
THEOREM Inductive == ASSUME MaxStarts \in Nat PROVE Spec => []IInv
BY InitInv, StepInv, StutterInv, PTL DEF Spec

-----------------------------------------------------------------------------
(* What the invariant says of the service's answers.                       *)
LEMMA InvIsTrue == ASSUME MaxStarts \in Nat, IInv PROVE TypeOK /\ StatusIsTrue
<1> USE DEF IInv, Types, CallInv, Ids, Procs, Ended
<1>1. TypeOK
  BY DEF TypeOK
<1>2. OneCapture
  <2> DEFINE s == IF call \in {"recorder", "sources"} THEN started
                  ELSE IF phase = "adopt" THEN file.owner ELSE current
  <2>1. open \subseteq {s}
    BY DEF OpenInv
  <2> HIDE DEF s
  <2>2. QED
    BY <2>1 DEF OneCapture, OpenInv
<1>3. StoppedStaysStopped
  BY DEF StoppedStaysStopped, FileInv
<1>4. RunningIsRecovered /\ RecorderEndIsNoticed
  BY DEF RunningIsRecovered, RecorderEndIsNoticed, RunInv, Served
<1>5. QED
  BY <1>1, <1>2, <1>3, <1>4 DEF StatusIsTrue

(* The service never stops a session it does not have, and the recovery    *)
(* file names a session that was created.                                  *)
THEOREM TypeCorrect == ASSUME MaxStarts \in Nat PROVE Spec => []TypeOK
BY Inductive, InvIsTrue, PTL

(* What Start, Stop, Get, Restore and RecordingCompleted leave as the      *)
(* answer agrees with the pipelines, the recovery file and the recorder,   *)
(* whatever goroutines of earlier sessions still do.                       *)
THEOREM StatusTrue == ASSUME MaxStarts \in Nat PROVE Spec => []StatusIsTrue
BY Inductive, InvIsTrue, PTL

-----------------------------------------------------------------------------
(* The refinement: each step is one of Singleton's, or none.               *)
LEMMA PromiseInit == Init => Promise!Init
BY DEF Init, Promise!Init

LEMMA PromiseStep ==
    ASSUME MaxStarts \in Nat, IInv, Next
    PROVE  [Promise!Next]_(Promise!vars)
<1> USE DEF IInv, Types, CallInv, OpenInv, Ids, Procs, Ended, Target, Promise!Next,
    Promise!vars, serviceVars, procVars, boundVars, history
<1>1. CASE Start
  BY <1>1 DEF Start, Promise!Begin
<1>2. CASE StartRecorder
  BY <1>2 DEF StartRecorder
<1>3. CASE StartRecorderFails
  <2>1. open' = {} /\ phase = "up"
    BY <1>3 DEF StartRecorderFails
  <2>2. QED
    BY <1>3, <2>1 DEF StartRecorderFails, Promise!Refused
<1>4. CASE StartSources
  BY <1>4 DEF StartSources, Promise!Started
<1>5. CASE StartNoSource
  BY <1>5 DEF StartNoSource, Promise!Started
<1>6. CASE StopCalled
  BY <1>6 DEF StopCalled, Promise!AskStop
<1>7. CASE Get
  BY <1>7 DEF Get, Promise!Fail
<1>8. CASE Crash
  BY <1>8 DEF Crash, Promise!Restart
<1>9. CASE Boot
  BY <1>9 DEF Boot, Promise!Begin
<1>10. CASE Adopt
  BY <1>10 DEF Adopt, Promise!Started
<1>11. ASSUME NEW p \in Procs, StopRead(p) PROVE [Promise!Next]_(Promise!vars)
  BY <1>11 DEF StopRead, Answer, Promise!Stopped
<1>12. ASSUME NEW p \in Procs, StopPersist(p) PROVE [Promise!Next]_(Promise!vars)
  BY <1>12 DEF StopPersist
<1>13. ASSUME NEW p \in Procs, StopPersistFails(p) PROVE [Promise!Next]_(Promise!vars)
  BY <1>13 DEF StopPersistFails, Answer, Promise!Fail
<1>14. ASSUME NEW p \in Procs, StopClose(p) PROVE [Promise!Next]_(Promise!vars)
  <2>1. CASE p = 0
    <3>1. open' = {} /\ phase = "up" /\ status = "STOPPING" /\ status' = "STOPPED"
      BY <1>14, <2>1 DEF StopClose, Answer
    <3>2. QED
      BY <1>14, <3>1 DEF StopClose, Promise!Stopped
  <2>2. CASE p # 0
    <3>1. UNCHANGED <<status, phase>> /\ open' \subseteq open
      BY <1>14, <2>2 DEF StopClose, Answer
    <3>2. QED
      BY <3>1 DEF Promise!End
  <2>3. QED
    BY <2>1, <2>2
<1>15. ASSUME NEW i \in Ids, RecorderFails(i) PROVE [Promise!Next]_(Promise!vars)
  BY <1>15 DEF RecorderFails
<1>16. ASSUME NEW i \in Ids, RecordingCompleted(i) PROVE [Promise!Next]_(Promise!vars)
  BY <1>16 DEF RecordingCompleted, Promise!Fail
<1>17. ASSUME NEW i \in Ids, ReportFailed(i) PROVE [Promise!Next]_(Promise!vars)
  BY <1>17 DEF ReportFailed, Promise!End
<1>18. ASSUME NEW i \in Ids, ReportPersist(i) PROVE [Promise!Next]_(Promise!vars)
  BY <1>18 DEF ReportPersist
<1>19. ASSUME NEW i \in Ids, ReportUpdate(i) PROVE [Promise!Next]_(Promise!vars)
  BY <1>19 DEF ReportUpdate
<1>20. QED
  BY <1>1, <1>2, <1>3, <1>4, <1>5, <1>6, <1>7, <1>8, <1>9, <1>10, <1>11, <1>12, <1>13, <1>14, <1>15, <1>16, <1>17, <1>18, <1>19 DEF Next

(* The continuous capture service implements the specification of a        *)
(* singleton capture.                                                      *)
THEOREM Implements == ASSUME MaxStarts \in Nat PROVE Spec => IsSingleton
<1>1. IInv /\ [Next]_vars => [Promise!Next]_(Promise!vars)
  <2>1. ASSUME UNCHANGED vars PROVE UNCHANGED Promise!vars
    BY <2>1 DEF vars, serviceVars, Promise!vars
  <2>2. QED
    BY <2>1, PromiseStep
<1>2. QED
  BY <1>1, PromiseInit, Inductive, PTL DEF Spec, IsSingleton, Promise!Spec
=============================================================================
