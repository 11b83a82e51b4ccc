----------------------------- MODULE MCCapture ------------------------------
(***************************************************************************)
(* The agent, and what has to happen in the end along the way of a packet: *)
(* one capture on the agent, a session that follows a workload with its    *)
(* agents, and the client that writes the output.  They share no state;    *)
(* each behaviour is one of them at work, chosen at the start.             *)
(***************************************************************************)
EXTENDS Agent

CONSTANTS Sizes, MaxRead, MaxChanges, MaxBatches

ASSUME ReaderAssumption == MaxBatches \in Nat

VARIABLES
    part,
    engine, ended, stopped, fault, unsent, headless, reader, read, packets,
    packetsClosed, readDone, builder, batch, pending, due, batches, batchesClosed,
    errs, errsClosed, relay, watched, carried, out, outClosed, outErrs,
    outErrsClosed, forward, delivered, report,
    kind, others, exists, current, replicas, pods, changes, phase, joined, proc,
    runtime, cmds, captured, reports, trouble,
    session, emitted, wire, streamEnd, client, code, interrupted, held, done,
    interfaces, buffer, file, unflushed, stopFailed

Pipeline == INSTANCE CapturePipeline WITH
    Engines <- {"dumpcap", "afpacket"}, BatchPackets <- 2, BatchBytes <- 3,
    ChannelSize <- 1, cancelled <- ended

\* One pod at a time, with an agent that may connect late.
Followed == INSTANCE Workload WITH
    Shapes <- {<<"deployment", {}>>, <<"statefulset", {"node"}>>},
    Uids <- {"pod"}, Nodes <- {"node"}, Joined <- {{}, {"node"}},
    Interfaces <- {"node"}, MaxPods <- 2, SessionPods <- 2, NodeSources <- 4,
    MaxOwners <- 2, connected <- joined

Reader == INSTANCE Client WITH
    Keys <- {"x", "y"}, LinkTypes <- {1, 2}, FlushPackets <- 2,
    pc <- client, ended <- streamEnd

pipelineVars ==
    <<engine, ended, stopped, fault, unsent, headless, reader, read, packets,
      packetsClosed, readDone, builder, batch, pending, due, batches,
      batchesClosed, errs, errsClosed, relay, watched, carried, out, outClosed,
      outErrs, outErrsClosed, forward, delivered, report>>
followedVars == <<kind, others, exists, current, replicas, pods, changes, phase,
                  joined, proc, runtime, cmds, captured, reports, trouble>>
clientVars == <<session, emitted, wire, streamEnd, client, code, interrupted, held,
                done, interfaces, buffer, file, unflushed, stopFailed>>

\* A part that is not at work has one initial state.
CaptureInit ==
    /\ part \in {"agent", "capture", "workload", "client"}
    /\ Init
    /\ Pipeline!Init /\ (part # "capture" => engine = "dumpcap")
    /\ Followed!Init
    /\ part # "workload" => /\ kind = "deployment" /\ joined = {}
                            /\ pods["pod"].state = "none"
    /\ Reader!Init

CaptureNext ==
    /\ UNCHANGED part
    /\ \/ /\ part = "agent" /\ Next
          /\ UNCHANGED <<pipelineVars, followedVars, clientVars>>
       \/ /\ part = "capture" /\ Pipeline!Next
          /\ UNCHANGED <<vars, followedVars, clientVars>>
       \/ /\ part = "workload" /\ Followed!Next
          /\ UNCHANGED <<vars, pipelineVars, clientVars>>
       \/ /\ part = "client" /\ Reader!Next
          /\ UNCHANGED <<vars, pipelineVars, followedVars>>

\* The fairness of each part, see there, while it is at work.
Of(p, A) == part = p /\ A

CaptureFairness ==
    /\ WF_pipelineVars(Of("capture", Pipeline!ReaderMoves))
    /\ WF_pipelineVars(Of("capture", Pipeline!Builds))
    /\ WF_pipelineVars(Of("capture", Pipeline!Relays))
    /\ WF_pipelineVars(Of("capture", Pipeline!Forwards))
    /\ WF_pipelineVars(Of("capture", Pipeline!Elapse))
WorkloadFairness ==
    /\ WF_followedVars(Of("workload", Followed!LoopMoves))
    /\ WF_followedVars(Of("workload", Followed!CaptureStatus))
    /\ WF_followedVars(Of("workload", Followed!ReplayMoves("node")))
    /\ WF_followedVars(Of("workload", Followed!Deliver("node")))
ClientFairness ==
    /\ WF_clientVars(Of("client", Reader!Moves))
    /\ WF_clientVars(Of("client", Reader!Tick))
    /\ WF_clientVars(Of("client", Reader!Receive))
    /\ WF_clientVars(Of("client", client = "gone" /\ Reader!Expire))

CaptureSpec ==
    /\ CaptureInit
    /\ [][CaptureNext]_<<part, vars, pipelineVars, followedVars, clientVars>>
    /\ CaptureFairness /\ WorkloadFairness /\ ClientFairness

\* Types; the queue is within its capacity, an interface is declared once.
PartsTypeOK == TypeOK /\ (part = "client" => Reader!TypeOK)

\* The pipeline of a capture always catches up, an engine that fails is reported
\* FAILED unless the capture is stopped, and a capture that ended leaves no
\* goroutine behind (captureLoop, the batcher, the relay of the metrics
\* decorator, forwardBatches).
CaptureProgresses == part = "capture" => Pipeline!CaptureProgresses

\* Once the cluster is quiet, a running session has the pods of its workload on
\* connected nodes, and no others (reconcileLoop, reconcile, Resolve).
FollowConverges == part = "workload" => Followed!FollowConverges

\* The client's output can be read up to any point; a client that returned has
\* written what it was sent and stopped its session (WritePacket,
\* ensureInterface, the deferred StopSession).
OutputIsWhole == part = "client" => Reader!OutputIsWhole

\* What the writer buffers is flushed while the stream is idle, and a session
\* whose client is gone ends by its TTL (flushTicker, Create's timer).
ClientLeavesNothing == part = "client" => Reader!ClientLeavesNothing
=============================================================================
