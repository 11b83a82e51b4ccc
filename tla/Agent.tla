------------------------------- MODULE Agent --------------------------------
(***************************************************************************)
(* A capture agent: the capture service                                    *)
(* (src/internal/application/agent/service.go), the reporter with its      *)
(* bounded outbound queue and the transport loop                           *)
(* (src/internal/adapter/grpcclient/agent.go), and the reconnecting main   *)
(* loop (src/cmd/capmesh-agent/main.go), for one session and one source.   *)
(*                                                                         *)
(* Goroutines: the transport loop, which alone drains the outbound queue   *)
(* and also executes the server's commands; and one forwardBatches         *)
(* goroutine per capture.  Captures are numbered by their Start.  The      *)
(* reporter's "connected" test and the enqueue that follows are two steps, *)
(* because send releases the lock in between.                              *)
(***************************************************************************)
EXTENDS Naturals, Sequences

CONSTANTS
    QueueSize,   \* capacity of the outbound queue
    MaxStarts,   \* bound: captures started
    MaxCommands, \* bound: commands the server sends
    MaxDials     \* bound: connections the agent makes

ASSUME QueueAssumption == QueueSize \in Nat \ {0}
ASSUME AgentBounds ==
    MaxStarts \in Nat /\ MaxCommands \in Nat /\ MaxDials \in Nat

VARIABLES
    pc,        \* where the transport goroutine is
    up,        \* the stream to the server works
    dials,     \* connections made so far
    inbox,     \* commands the server has sent on this stream
    commands,  \* commands the server has sent so far
    connected, \* Reporter.connected
    outbound,  \* Reporter.outbound
    slot,      \* captures[session][source]: the tracked capture, 0 if none
    starts,    \* captures started so far
    fwd,       \* where each capture's forwardBatches goroutine is
    cancelled, \* captures whose context is cancelled
    overlap    \* history: a capture started while an older one was unwinding

queueVars == <<connected, outbound>>
captureVars == <<slot, starts, fwd, cancelled, overlap>>
streamVars == <<up, dials, inbox, commands>>
vars == <<pc, streamVars, queueVars, captureVars>>

Captures == 1..MaxStarts
Messages == [kind : {"RUNNING", "FAILED", "STOPPED", "batch"}, gen : 0..MaxStarts]
Message(k, g) == [kind |-> k, gen |-> g]
Full == Len(outbound) = QueueSize

\* The channel send: possible when there is room.
Enqueue(m) == ~Full /\ outbound' = Append(outbound, m)

Init ==
    /\ pc = "idle" /\ up = FALSE /\ dials = 0 /\ inbox = <<>> /\ commands = 0
    /\ connected = FALSE /\ outbound = <<>>
    /\ slot = 0 /\ starts = 0 /\ fwd = [g \in Captures |-> "none"]
    /\ cancelled = {} /\ overlap = FALSE

-----------------------------------------------------------------------------
(* The transport goroutine: Dial, Connect and its select loop.             *)

Dial ==
    /\ pc = "idle" /\ dials < MaxDials
    /\ dials' = dials + 1 /\ up' = TRUE /\ inbox' = <<>>
    /\ connected' = TRUE /\ pc' = "select"
    /\ UNCHANGED <<commands, outbound, captureVars>>

\* A queued message goes to the server; on a broken stream Connect returns.
Transmit ==
    /\ pc = "select" /\ outbound # <<>>
    /\ outbound' = Tail(outbound)
    /\ pc' = IF up THEN "select" ELSE "returning"
    /\ UNCHANGED <<streamVars, connected, captureVars>>

\* Recv or the heartbeat fails.
StreamFails ==
    /\ pc = "select" /\ ~up
    /\ pc' = "returning"
    /\ UNCHANGED <<streamVars, queueVars, captureVars>>

\* Service.Start: a tracked source is left alone, and a pod whose interface
\* does not resolve is an error before that; otherwise the source is tracked and
\* the engine started, and untracked again when the engine refuses.
HandleStart ==
    /\ pc = "select" /\ inbox # <<>> /\ Head(inbox) = "start"
    /\ inbox' = Tail(inbox)
    /\ \/ /\ slot # 0 /\ UNCHANGED <<pc, captureVars>>
       \/ /\ pc' = "failed" /\ UNCHANGED captureVars
       \/ /\ slot = 0 /\ starts < MaxStarts
          /\ starts' = starts + 1
          /\ overlap' = (overlap \/ \E g \in 1..starts : fwd[g] # "done")
          /\ \/ pc' = "running" /\ slot' = starts + 1 /\ UNCHANGED fwd
             \/ /\ pc' = "failed" /\ UNCHANGED slot
                /\ fwd' = [fwd EXCEPT ![starts + 1] = "done"]
          /\ UNCHANGED cancelled
    /\ UNCHANGED <<up, dials, commands, queueVars>>

\* The RUNNING status is queued, blocking, and forwardBatches begins.
StartReports ==
    /\ pc = "running"
    /\ Enqueue(Message("RUNNING", starts))
    /\ fwd' = [fwd EXCEPT ![starts] = "run"]
    /\ pc' = "select"
    /\ UNCHANGED <<streamVars, connected, slot, starts, cancelled, overlap>>

\* Connect reports a start that failed.
StartFailedReports ==
    /\ pc = "failed"
    /\ Enqueue(Message("FAILED", starts))
    /\ pc' = "select"
    /\ UNCHANGED <<streamVars, connected, captureVars>>

\* Mutant: the entry is removed but its context is not cancelled.
HandleStopUncancelled ==
    /\ pc = "select" /\ inbox # <<>> /\ Head(inbox) = "stop"
    /\ inbox' = Tail(inbox)
    /\ slot' = 0
    /\ pc' = "stopped"
    /\ UNCHANGED <<up, dials, commands, queueVars, starts, fwd, cancelled, overlap>>

\* Service.Stop, then its blocking STOPPED status.
HandleStop ==
    /\ pc = "select" /\ inbox # <<>> /\ Head(inbox) = "stop"
    /\ inbox' = Tail(inbox)
    /\ cancelled' = cancelled \cup ({slot} \ {0}) /\ slot' = 0
    /\ pc' = "stopped"
    /\ UNCHANGED <<up, dials, commands, queueVars, starts, fwd, overlap>>

StopReports ==
    /\ pc = "stopped"
    /\ Enqueue(Message("STOPPED", 0))
    /\ pc' = "select"
    /\ UNCHANGED <<streamVars, connected, captureVars>>

\* Connect's deferred setConnected(FALSE): the flag, then the drain.
SetDisconnected ==
    /\ pc = "returning"
    /\ connected' = FALSE /\ pc' = "draining"
    /\ UNCHANGED <<streamVars, outbound, captureVars>>

Drain ==
    /\ pc = "draining"
    /\ outbound' = <<>> /\ pc' = "stopping"
    /\ UNCHANGED <<streamVars, connected, captureVars>>

\* The main loop's StopAll, before the next attempt.
StopAll ==
    /\ pc = "stopping"
    /\ cancelled' = cancelled \cup ({slot} \ {0}) /\ slot' = 0
    /\ pc' = "idle"
    /\ UNCHANGED <<streamVars, queueVars, starts, fwd, overlap>>

-----------------------------------------------------------------------------
(* forwardBatches of capture g.                                            *)

Moves(g, l) == fwd' = [fwd EXCEPT ![g] = l]

\* Mutant: ErrQueueFull is passed on as a failure.
BatchOverflowFails(g) ==
    /\ fwd[g] = "run"
    /\ IF Full THEN Moves(g, "sendError")
       ELSE IF connected THEN Moves(g, "put") ELSE Moves(g, "sendError")
    /\ UNCHANGED <<pc, streamVars, queueVars, slot, starts, cancelled, overlap>>

\* A batch arrives.  SendBatch drops it when the queue is full, which the
\* metrics decorator turns into success, and fails without a connection.
Batch(g) ==
    /\ fwd[g] = "run"
    /\ ~Full
    /\ IF connected THEN Moves(g, "put") ELSE Moves(g, "sendError")
    /\ UNCHANGED <<pc, streamVars, queueVars, slot, starts, cancelled, overlap>>

\* The non-blocking enqueue after the connected test.
BatchPut(g) ==
    /\ fwd[g] = "put"
    /\ Moves(g, "run")
    /\ \/ Enqueue(Message("batch", g))
       \/ Full /\ UNCHANGED outbound
    /\ UNCHANGED <<pc, streamVars, connected, slot, starts, cancelled, overlap>>

\* The engine ends with an error, or closes its channels without one.
EngineEnds(g) ==
    /\ fwd[g] = "run"
    /\ Moves(g, "engineError") \/ Moves(g, "exit")
    /\ UNCHANGED <<pc, streamVars, queueVars, slot, starts, cancelled, overlap>>

\* SendStatus(FAILED): given up without a connection, else queued, blocking.
FailTest(g) ==
    /\ fwd[g] \in {"sendError", "engineError"}
    /\ IF connected THEN Moves(g, "report") ELSE Moves(g, "exit")
    /\ UNCHANGED <<pc, streamVars, queueVars, slot, starts, cancelled, overlap>>

FailReport(g) ==
    /\ fwd[g] = "report"
    /\ Enqueue(Message("FAILED", g))
    /\ Moves(g, "exit")
    /\ UNCHANGED <<pc, streamVars, connected, slot, starts, cancelled, overlap>>

\* ctx.Done is chosen.
ContextDone(g) ==
    /\ fwd[g] = "run" /\ g \in cancelled
    /\ Moves(g, "exit")
    /\ UNCHANGED <<pc, streamVars, queueVars, slot, starts, cancelled, overlap>>

\* The deferred remove deletes the source's entry, whichever capture it is.
Remove(g) ==
    /\ fwd[g] = "exit"
    /\ Moves(g, "done")
    /\ slot' = 0
    /\ UNCHANGED <<pc, streamVars, queueVars, starts, cancelled, overlap>>

-----------------------------------------------------------------------------
(* The server and the network.                                             *)

Command(c) ==
    /\ up /\ commands < MaxCommands
    /\ commands' = commands + 1 /\ inbox' = Append(inbox, c)
    /\ UNCHANGED <<pc, up, dials, queueVars, captureVars>>

\* Commands not yet received are lost with the stream.
Cut ==
    /\ up /\ up' = FALSE /\ inbox' = <<>>
    /\ UNCHANGED <<pc, dials, commands, queueVars, captureVars>>

Transport ==
    \/ Transmit \/ StreamFails \/ HandleStart \/ StartReports \/ StartFailedReports
    \/ HandleStop \/ StopReports \/ SetDisconnected \/ Drain \/ StopAll

Unwind(g) == FailTest(g) \/ FailReport(g) \/ ContextDone(g) \/ Remove(g)
Forward(g) == Batch(g) \/ BatchPut(g) \/ EngineEnds(g) \/ Unwind(g)

Next ==
    \/ Transport \/ Dial \/ Cut
    \/ \E g \in Captures : Forward(g)
    \/ \E c \in {"start", "stop"} : Command(c)

Spec == Init /\ [][Next]_vars

(* The transport and the forwarding goroutines are scheduled and a lost    *)
(* connection is dialled again; select picks among its ready cases at      *)
(* random, so queued messages are not passed over for ever.                *)
FairSpec ==
    /\ Spec /\ WF_vars(Transport) /\ SF_vars(Transmit) /\ WF_vars(Dial)
    /\ \A g \in Captures : WF_vars(Unwind(g)) /\ WF_vars(BatchPut(g))

-----------------------------------------------------------------------------
(* Properties.                                                             *)

Forwarding(g) == fwd[g] \in {"run", "put"}

\* Types; the queue respects its capacity and the transport is at a step.
TypeOK ==
    /\ pc \in {"idle", "select", "running", "failed", "stopped", "returning",
               "draining", "stopping"}
    /\ up \in BOOLEAN /\ connected \in BOOLEAN /\ overlap \in BOOLEAN
    /\ dials \in 0..MaxDials /\ commands \in 0..MaxCommands
    /\ inbox \in Seq({"start", "stop"})
    /\ outbound \in Seq(Messages)
    /\ Len(outbound) <= QueueSize
    /\ slot \in 0..starts /\ starts \in 0..MaxStarts
    /\ fwd \in [Captures -> {"none", "run", "put", "sendError", "engineError",
                             "report", "exit", "done"}]
    /\ cancelled \subseteq Captures

\* Service.Start passes over a source that is tracked: what is tracked has not
\* been cancelled and has not finished, so a start is only ignored while the
\* capture it asks for still exists (running, or about to be removed).
TrackedIsAlive == slot # 0 => slot \notin cancelled /\ fwd[slot] # "done"

\* A capture that forwards packets and was not cancelled is tracked, so that
\* Stop and StopAll reach it, unless some capture was started while an older
\* one was still unwinding: the older one's deferred remove then deletes the
\* entry of the newer one.
TrackedUnlessOverlap ==
    ~overlap => \A g \in Captures : Forwarding(g) /\ g \notin cancelled => slot = g

\* The inductive strengthening: the newest capture is the only one that can be
\* tracked, captures beyond it have not begun, a capture being started is
\* tracked and alone, and without an overlap every older capture is done.
NewestInv ==
    /\ slot \in {0, starts}
    /\ cancelled \subseteq 1..starts
    /\ \A g \in Captures : g > starts => fwd[g] = "none"
    /\ pc = "running" => starts > 0 /\ starts \notin cancelled
    /\ \A g \in 1..starts : fwd[g] = "none" <=> pc = "running" /\ g = starts
OverlapInv ==
    ~overlap => /\ \A g \in 1..starts : g < starts => fwd[g] = "done"
                /\ pc = "running" => slot = starts
TrackInv ==
    TypeOK /\ NewestInv /\ TrackedIsAlive /\ OverlapInv /\ TrackedUnlessOverlap

\* A full outbound queue never ends a capture: SendBatch fails only when the
\* reporter is not connected.
OverflowKeepsCapture ==
    [][\A g \in Captures :
          fwd[g] # "sendError" /\ fwd'[g] = "sendError" => ~connected]_vars

\* Over a stream that works, a full outbound queue is drained sooner or later,
\* so that what is captured after an overload reaches the server again.
FullQueueDrains == Full /\ up ~> ~Full \/ ~up
=============================================================================
