----------------------------- MODULE Continuous -----------------------------
(***************************************************************************)
(* The continuous packet capture: one capture at a time, each start a new  *)
(* session, and all of them one recording directory and one recovery file. *)
(*   src/internal/application/continuous/service.go                        *)
(*                                                                         *)
(* The service's mutex is held through Start and Stop, so one of them runs *)
(* at a time (`call`).  What does not take it: Service.Stop of the session *)
(* service, which RecordingCompleted runs in a goroutine, CaptureStatus of *)
(* a session whose last source failed, and the boot.  A step of theirs may *)
(* come when the next session is already running, and                      *)
(* SetSessionDesiredState does not look whose recovery file it rewrites.   *)
(***************************************************************************)
EXTENDS Naturals

CONSTANTS
    MaxStarts,      \* bound: sessions created
    MaxWriteFaults, \* bound: recovery files that cannot be written
    MaxBoots        \* bound: deaths of the process

VARIABLES
    status,     \* s.state.Status
    current,    \* s.state.SessionID, 0 if empty
    call,       \* who holds s.mu: "none", "recorder", "sources" (Start) or "stop"
    session,    \* status of each session in the repository
    open,       \* sessions whose packet pipeline is open: they capture
    recorder,   \* of each session: "none", "on", "off" (not yet reported), "done"
    stop,       \* where a Service.Stop of each session is; "user" for s.Stop's
    report,     \* where CaptureStatus of each session is
    file,       \* the recovery file: whose, and its desired state
    phase,      \* "up", or where the boot is: "down", "restore", "adopt"
    started, writeFaults, boots,
    missed,     \* history: a recorder ended before the boot had adopted it
    spoiled,    \* history: a stop rewrote the file of a later session
    unsaved     \* history: an error left the file RUNNING and was not reported

serviceVars == <<status, current, call>>
procVars == <<stop, report>>
boundVars == <<started, writeFaults, boots>>
history == <<missed, spoiled, unsaved>>
vars == <<serviceVars, session, open, recorder, procVars, file, phase, boundVars, history>>

Ids == 1..MaxStarts
Procs == Ids \cup {0}    \* 0 is the Stop of the service itself
Target(p) == IF p = 0 THEN current ELSE p
Ended == {"none", "STOPPED", "FAILED"}
NoFile == [owner |-> 0, desired |-> "STOPPED"]

Init ==
    /\ status = "STOPPED" /\ current = 0 /\ call = "none"
    /\ open = {} /\ session = [i \in Ids |-> "none"] /\ recorder = [i \in Ids |-> "none"]
    /\ stop = [p \in Procs |-> "none"] /\ report = [i \in Ids |-> "none"]
    /\ file = NoFile /\ phase = "up"
    /\ started = 0 /\ writeFaults = 0 /\ boots = 0
    /\ missed = FALSE /\ spoiled = FALSE /\ unsaved = FALSE

\* The pipeline of a session is closed, or its recorder fails.
RecorderEnds(i) == [recorder EXCEPT ![i] = IF @ = "on" THEN "off" ELSE @]

\* SetSessionDesiredState(i, "STOPPED") succeeds.
SaveStopped(i) ==
    /\ file' = [file EXCEPT !.desired = "STOPPED"]
    /\ spoiled' = (spoiled \/ (file.owner # i /\ file.desired = "RUNNING"))
    /\ UNCHANGED writeFaults

SaveFails == writeFaults < MaxWriteFaults /\ writeFaults' = writeFaults + 1

-----------------------------------------------------------------------------
(* Service.Start and the Create it calls.                                   *)

\* Mutant: a capture that has failed may be replaced without a stop.
StartAfterFailure ==
    /\ phase = "up" /\ call = "none" /\ status \in {"STOPPED", "FAILED"}
    /\ started < MaxStarts
    /\ started' = started + 1 /\ status' = "STARTING" /\ current' = 0
    /\ session' = [session EXCEPT ![started'] = "STARTING"] /\ call' = "recorder"
    /\ open' = open \cup {started'}
    /\ UNCHANGED <<recorder, procVars, file, phase, writeFaults, boots, history>>

\* The targets are valid and resolved; else Start answers STOPPED again.
Start ==
    /\ phase = "up" /\ call = "none" /\ status = "STOPPED" /\ started < MaxStarts
    /\ started' = started + 1 /\ status' = "STARTING" /\ current' = 0
    /\ session' = [session EXCEPT ![started'] = "STARTING"] /\ call' = "recorder"
    /\ open' = open \cup {started'}
    /\ UNCHANGED <<recorder, procVars, file, phase, writeFaults, boots, history>>

\* Manager.Start writes the recovery file of the session.
Own(i) == [owner |-> i, desired |-> "RUNNING"]

StartRecorder ==
    /\ call = "recorder"
    /\ recorder' = [recorder EXCEPT ![started] = "on"] /\ file' = Own(started)
    /\ call' = "sources" /\ spoiled' = FALSE /\ unsaved' = FALSE
    /\ UNCHANGED <<open, status, current, session, procVars, phase, boundVars,
                   missed>>

StartRecorderFails ==
    /\ call = "recorder"
    /\ session' = [session EXCEPT ![started] = "FAILED"]
    /\ status' = "STOPPED" /\ call' = "none"
    /\ open' = open \ {started}
    /\ UNCHANGED <<current, recorder, procVars, file, phase, boundVars, history>>

StartSources ==
    /\ call = "sources"
    /\ session' = [session EXCEPT ![started] = "RUNNING"]
    /\ status' = "RUNNING" /\ current' = started /\ call' = "none"
    /\ UNCHANGED <<open, recorder, procVars, file, phase, boundVars, history>>

\* No source starts: Create returns the FAILED session without an error, and
\* Start answers RUNNING; an error of setDesiredState is dropped.
StartNoSource ==
    /\ call = "sources"
    /\ session' = [session EXCEPT ![started] = "FAILED"]
    /\ recorder' = RecorderEnds(started)
    /\ status' = "RUNNING" /\ current' = started /\ call' = "none"
    /\ \/ SaveStopped(started) /\ UNCHANGED unsaved
       \/ SaveFails /\ unsaved' = TRUE /\ UNCHANGED <<file, spoiled>>
    /\ open' = open \ {started}
    /\ UNCHANGED <<procVars, phase, started, boots, missed>>

-----------------------------------------------------------------------------
(* Service.Stop, and sessions.Stop for it (0) or for RecordingCompleted.    *)

StopCalled ==
    /\ phase = "up" /\ call = "none" /\ status # "STOPPED"
    /\ status' = "STOPPING" /\ call' = "stop"
    /\ stop' = [stop EXCEPT ![0] = "begin"]
    /\ UNCHANGED <<open, current, session, recorder, report, file, phase, boundVars,
                   history>>

\* What the service makes of the answer to its sessions.Stop.
Answer(p, answer) ==
    /\ stop' = [stop EXCEPT ![p] = "none"]
    /\ status' = IF p = 0 THEN answer ELSE status
    /\ call' = IF p = 0 THEN "none" ELSE call

StopRead(p) ==
    /\ stop[p] = "begin"
    /\ \/ session[Target(p)] \in Ended /\ Answer(p, "STOPPED")
       \/ /\ session[Target(p)] \notin Ended
          /\ stop' = [stop EXCEPT ![p] = "persist"] /\ UNCHANGED <<status, call>>
    /\ UNCHANGED <<open, current, session, recorder, report, file, phase, boundVars,
                   history>>

StopPersist(p) ==
    /\ stop[p] = "persist"
    /\ SaveStopped(Target(p))
    /\ stop' = [stop EXCEPT ![p] = "close"]
    /\ session' = [session EXCEPT ![Target(p)] = "STOPPING"]
    /\ UNCHANGED <<open, serviceVars, recorder, report, phase, started, boots, missed,
                   unsaved>>

\* Mutant: the error is logged and the capture counted as stopped.
StopPersistIgnored(p) ==
    /\ stop[p] = "persist" /\ SaveFails
    /\ Answer(p, "STOPPED")
    /\ UNCHANGED <<open, current, session, recorder, report, file, phase, started, boots,
                   history>>

\* The session goes on; the service is FAILED and can be stopped again, the
\* goroutine of RecordingCompleted gives up.
StopPersistFails(p) ==
    /\ stop[p] = "persist" /\ SaveFails
    /\ Answer(p, "FAILED")
    /\ UNCHANGED <<open, current, session, recorder, report, file, phase, started, boots,
                   history>>

\* The agents are told, the pipeline is closed, the status updated.
StopClose(p) ==
    /\ stop[p] = "close"
    /\ recorder' = RecorderEnds(Target(p))
    /\ session' = [session EXCEPT ![Target(p)] = "STOPPED"]
    /\ Answer(p, "STOPPED")
    /\ open' = open \ {Target(p)}
    /\ UNCHANGED <<current, report, file, phase, boundVars, history>>

-----------------------------------------------------------------------------
(* Recorders and sources fail.                                              *)

RecorderFails(i) ==
    /\ phase # "down" /\ recorder[i] = "on" /\ recorder' = RecorderEnds(i)
    /\ UNCHANGED <<open, serviceVars, session, procVars, file, phase, boundVars, history>>

\* RecordingCompleted
RecordingCompleted(i) ==
    LET mine == current = i /\ status \notin {"STOPPED", "STOPPING"} IN
    /\ call = "none" /\ phase # "down" /\ recorder[i] = "off"
    /\ recorder' = [recorder EXCEPT ![i] = "done"]
    /\ status' = IF mine THEN "FAILED" ELSE status
    /\ stop' = IF mine THEN [stop EXCEPT ![i] = "begin"] ELSE stop
    /\ missed' = (missed \/ phase # "up")
    /\ UNCHANGED <<open, current, call, session, report, file, phase, boundVars, spoiled,
                   unsaved>>

\* CaptureStatus: the last source of a running session has failed ...
ReportFailed(i) ==
    /\ phase = "up" /\ report[i] = "none" /\ session[i] = "RUNNING"
    /\ report' = [report EXCEPT ![i] = "persist"]
    /\ recorder' = RecorderEnds(i)
    /\ open' = open \ {i}
    /\ UNCHANGED <<serviceVars, session, stop, file, phase, boundVars, history>>

\* ... the stop is persisted, an error dropped ...
ReportPersist(i) ==
    /\ report[i] = "persist" /\ report' = [report EXCEPT ![i] = "update"]
    /\ \/ SaveStopped(i) /\ UNCHANGED unsaved
       \/ SaveFails /\ unsaved' = TRUE /\ UNCHANGED <<file, spoiled>>
    /\ UNCHANGED <<open, serviceVars, session, recorder, stop, phase, started, boots,
                   missed>>

\* ... and the status updated.
ReportUpdate(i) ==
    /\ report[i] = "update" /\ report' = [report EXCEPT ![i] = "done"]
    /\ session' = [session EXCEPT ![i] = "FAILED"]
    /\ UNCHANGED <<open, serviceVars, recorder, stop, file, phase, boundVars, history>>

\* Get finds out that the session has failed.
Get ==
    /\ phase = "up" /\ call = "none" /\ status = "RUNNING"
    /\ session[current] = "FAILED" /\ status' = "FAILED"
    /\ UNCHANGED <<open, current, call, session, recorder, procVars, file, phase, boundVars,
                   history>>

-----------------------------------------------------------------------------
(* The process dies and boots.                                              *)
Crash ==
    /\ phase # "down" /\ boots < MaxBoots /\ boots' = boots + 1
    /\ phase' = "down" /\ status' = "STOPPED" /\ current' = 0 /\ call' = "none"
    /\ session' = [i \in Ids |-> "none"] /\ recorder' = [i \in Ids |-> "none"]
    /\ stop' = [p \in Procs |-> "none"] /\ report' = [i \in Ids |-> "none"]
    /\ missed' = FALSE /\ spoiled' = FALSE
    /\ unsaved' = (unsaved /\ file.desired = "RUNNING")
    /\ open' = {}
    /\ UNCHANGED <<file, started, writeFaults>>

\* sessions.Restore of what the file wants, with the same ID; if its recorder
\* cannot be started, the server goes on without the capture.
Boot ==
    /\ phase = "down"
    /\ \/ /\ file.desired # "RUNNING" /\ phase' = "up"
          /\ UNCHANGED <<session, open, recorder, file, unsaved>>
       \/ /\ file.desired = "RUNNING" /\ phase' = "adopt" /\ open' = {file.owner}
          /\ session' = [session EXCEPT ![file.owner] = "RUNNING"]
          /\ recorder' = [recorder EXCEPT ![file.owner] = "on"]
          /\ file' = Own(file.owner) /\ UNCHANGED unsaved
       \/ /\ file.desired = "RUNNING" /\ phase' = "up"
          /\ session' = [session EXCEPT ![file.owner] = "FAILED"]
          /\ unsaved' = TRUE /\ UNCHANGED <<open, recorder, file>>
    /\ UNCHANGED <<serviceVars, procVars, boundVars, missed, spoiled>>

\* Service.Restore, without a look at the session; agents report only after it.
Adopt ==
    /\ phase = "adopt" /\ phase' = "up"
    /\ status' = "RUNNING" /\ current' = file.owner
    /\ UNCHANGED <<open, call, session, recorder, procVars, file, boundVars, history>>

Next ==
    \/ Start \/ StartRecorder \/ StartRecorderFails \/ StartSources \/ StartNoSource
    \/ StopCalled \/ Get \/ Crash \/ Boot \/ Adopt
    \/ \E p \in Procs :
        StopRead(p) \/ StopPersist(p) \/ StopPersistFails(p) \/ StopClose(p)
    \/ \E i \in Ids :
        \/ RecorderFails(i) \/ RecordingCompleted(i)
        \/ ReportFailed(i) \/ ReportPersist(i) \/ ReportUpdate(i)

Spec == Init /\ [][Next]_vars

-----------------------------------------------------------------------------
\* Types; the service never calls sessions.Stop without a session, and the
\* recovery file names a session that was created.
TypeOK ==
    /\ status \in {"STOPPED", "STARTING", "RUNNING", "STOPPING", "FAILED"}
    /\ current \in 0..started /\ file.owner \in 0..started
    /\ call \in {"none", "recorder", "sources", "stop"}
    /\ session \in [Ids -> Ended \cup {"STARTING", "RUNNING", "STOPPING"}]
    /\ stop[0] # "none" => call = "stop" /\ current # 0
    /\ status = "RUNNING" => current # 0

\* At most one session captures, and none behind a service that answers STOPPED:
\* a start after a failure, a stop that could not be persisted or a late stop
\* of the previous session never leave a session nobody can stop.
OneCapture ==
    /\ \A i, j \in open : i = j
    /\ phase = "up" /\ status = "STOPPED" => open = {}

\* "intentionally stopped jobs are not recovered": behind STOPPED the file does
\* not ask for a recovery, unless an error was dropped on the way (the recovery
\* failed, or STOPPED could not be saved for a session that had no sources).
StoppedStaysStopped ==
    phase = "up" /\ status = "STOPPED" /\ ~unsaved => file.desired # "RUNNING"

\* A capture that runs is recovered after a crash: its file is its own and asks
\* for it, unless a stop of an earlier session, begun before this one started,
\* has rewritten it, or it is being stopped.
RunningIsRecovered ==
    phase = "up" /\ status = "RUNNING" /\ session[current] = "RUNNING" =>
        /\ file.owner = current
        /\ \/ file.desired = "RUNNING" \/ spoiled
           \/ report[current] = "update"

\* The end of the recorder of a running capture never goes unnoticed, unless it
\* came between the restore of the session and that of the service.
RecorderEndIsNoticed ==
    phase = "up" /\ status = "RUNNING" /\ recorder[current] = "done" => missed

\* While it starts or is restored, a capture is not the clients' yet.
Promise == INSTANCE Singleton WITH
    status <- IF phase = "adopt" THEN "STARTING" ELSE status,
    worker <- phase = "up" /\ status # "STARTING" /\ open # {}

\* The service implements the promise of a singleton capture (see Singleton).
IsSingleton == Promise!Spec

\* What the service answers is so: STOPPED means that nothing captures or will be
\* recovered, RUNNING that one session does, with its recorder, and that a boot
\* would go on with it.
StatusIsTrue ==
    OneCapture /\ StoppedStaysStopped /\ RunningIsRecovered /\ RecorderEndIsNoticed
=============================================================================
