---------------------------- MODULE MCReconnect -----------------------------
(***************************************************************************)
(* What has to happen in the end, on the server: a session whose agents    *)
(* come back captures again and one that is stopped ends; a stream emits   *)
(* what it accepted and its recording is finalized.  The two share no      *)
(* state; each behaviour is one of them at work, chosen at the start.      *)
(***************************************************************************)
EXTENDS Session

VARIABLES
    part,
    refused, \* history: nodes whose connection did not take a stop
    now, fed, looked, heap, recvAt, acceptedIn, life, runNow, holder, cut, batch,
    log, subs, queue, closes, dropped, cancelled, taken, start, sawDrop, written,
    recording

\* Two packets of one node that arrive out of order, one to a batch, and the
\* recorder alone: the second batch may find its channel full.
Packet == {"p1", "p2"}
Pipeline == INSTANCE Stream WITH
    Packets <- Packet,
    Timestamp <- [p \in Packet |-> IF p = "p1" THEN 1 ELSE 0],
    SequenceNumber <- [p \in Packet |-> IF p = "p1" THEN 1 ELSE 2],
    Size <- [p \in Packet |-> 1],
    Nodes <- {"a"}, Feed <- [n \in {"a"} |-> <<{"p1"}, {"p2"}>>],
    Subscribers <- {"rec"}, LossAware <- {"rec"}, Recorder <- "rec",
    Window <- 1, MaxDelay <- 0, MaxPackets <- 1, MaxBytes <- 2, QueueSize <- 1,
    SessionLimit <- 2, MaxTime <- 2, status <- recording

pipelineVars == <<now, fed, looked, heap, recvAt, acceptedIn, life, runNow, holder,
                  cut, batch, log, subs, queue, closes, dropped, cancelled, taken,
                  start, sawDrop, written, recording>>

\* The nodes that a step of Stop or of the reconcile loop tells to stop.
Told ==
    UNION {CASE At(h, "send") /\ act'[h].at = "stopClose" -> act[h].todo
             [] At(h, "prune") /\ act'[h].at = "start" -> act[h].who
             [] OTHER -> {} : h \in Handlers}

\* Registry.Send has no room in the channel and the caller ignores the error.  A
\* later stop may get through; an agent that loses its connection stops anyway.
NoteRefusals ==
    refused' = {n \in refused \cup Told :
                   /\ registered[n] # 0 /\ link'[n] # 0
                   /\ n \in Told => cmds'[n] = cmds[n]}

\* A part that is not at work has one initial state.
ReconnectInit ==
    /\ part \in {"session", "stream"} /\ refused = {}
    /\ Init /\ (part # "session" => kind = "normal" /\ origin = "create")
    /\ Pipeline!Init

ReconnectNext ==
    /\ UNCHANGED part
    /\ \/ part = "session" /\ UNCHANGED pipelineVars /\ Next /\ NoteRefusals
       \/ part = "stream" /\ UNCHANGED <<vars, refused>> /\ Pipeline!Next

\* The fairness of each part, see there, while it is at work.
Of(p, A) == part = p /\ A

\* Of the Fairness of module Session what the properties rest on: they need no dial,
\* no boot and no report to happen, only that what has begun goes on.
SessionFairness ==
    /\ \A h \in Handlers :
          /\ WF_vars(Of("session", Continue(h)))
          /\ SF_vars(Of("session", ConnectedBegin(h)))
    /\ \A n \in Nodes :
          /\ WF_vars(Of("session", AgentNotices(n)))
          /\ WF_vars(Of("session", Deliver(n)))
StreamFairness ==
    /\ WF_pipelineVars(Of("stream", Pipeline!Tick))
    /\ WF_pipelineVars(Of("stream", Pipeline!RunWake))
    /\ SF_pipelineVars(Of("stream", Pipeline!RunLock))
    /\ WF_pipelineVars(Of("stream", Pipeline!Emit))
    /\ SF_pipelineVars(Of("stream", Pipeline!Close))
    /\ WF_pipelineVars(Of("stream", Pipeline!RecorderStep))

ReconnectSpec ==
    /\ ReconnectInit /\ [][ReconnectNext]_<<part, refused, vars, pipelineVars>>
    /\ SessionFairness /\ StreamFairness

\* A session that reaches STOPPED ends up captured nowhere: Stop takes the sources
\* before it forgets them and each agent executes what is in its channel, in order.
\* The exception: a stop that a full command channel refused (AgentRegistry.Send) is
\* lost, because Stop and the reconcile loop ignore the error and nothing retries;
\* that node goes on for as long as its connection holds.
StopEndsCapture == status = "STOPPED" ~> capturing \subseteq refused

\* Every packet the pipeline accepted while it was open is emitted, and a closed
\* pipeline leads to a finalized recording (pipeline.run, emitUntil, CloseSession,
\* recorder).
NothingIsHeld == part = "stream" => Pipeline!NothingIsHeld
=============================================================================
