----------------------------- MODULE MCPackets ------------------------------
(***************************************************************************)
(* The way of the packets: captures started on an agent, the pipeline of   *)
(* one running capture, and the server's stream behind it.  They share no  *)
(* state; each behaviour is one of the three at work, chosen at the start. *)
(***************************************************************************)
EXTENDS MCStream

CONSTANTS
    BatchPackets, BatchBytes, Sizes, ChannelSize, MaxRead,
    Interfaces, Filters, RingSize, RingBudget, MaxCache, MaxCaptures

\* The checks at the top of Dumpcap.Capture; its channels are buffered.
ASSUME PipelineAssumption ==
    /\ BatchPackets \in Nat \ {0} /\ BatchBytes \in Nat \ {0} /\ Sizes \subseteq Nat
    /\ ChannelSize \in Nat \ {0} /\ MaxRead \in Nat

\* AFPacketConfig.Validate and NewRingBudget; maxFilterCacheEntries is 256.
ASSUME StartAssumption ==
    /\ RingSize \in Nat \ {0} /\ RingBudget \in Nat \ {0}
    /\ MaxCache \in Nat \ {0} /\ MaxCaptures \in Nat

VARIABLES
    part,
    engine, done, stopped, fault, unsent, headless, reader, read, packets,
    packetsClosed, readDone, builder, building, pending, due, batches,
    batchesClosed, errs, errsClosed, relay, watched, carried, out, outClosed,
    outErrs, outErrsClosed, forward, delivered, report,
    mode, linux, misfit, step, starts, requests, state, attached, rings, used, cache

Pipeline == INSTANCE CapturePipeline WITH
    Engines <- {"dumpcap", "afpacket"}, cancelled <- done, batch <- building
Starting == INSTANCE CaptureStart WITH
    NoFilter <- "", BadFilters <- {"bad"}, Snaplens <- {64}

pipelineVars ==
    <<engine, done, stopped, fault, unsent, headless, reader, read, packets,
      packetsClosed, readDone, builder, building, pending, due, batches,
      batchesClosed, errs, errsClosed, relay, watched, carried, out, outClosed,
      outErrs, outErrsClosed, forward, delivered, report>>
startVars ==
    <<mode, linux, misfit, step, starts, requests, state, attached, rings, used, cache>>

\* A part that is not at work has one initial state.
PacketsInit ==
    /\ part \in {"stream", "capture", "start"}
    /\ Init
    /\ Pipeline!Init /\ (part # "capture" => engine = "dumpcap")
    /\ Starting!Init /\ (part # "start" => mode = "auto" /\ linux /\ misfit)

PacketsNext ==
    /\ UNCHANGED part
    /\ \/ part = "stream" /\ Next /\ UNCHANGED <<pipelineVars, startVars>>
       \/ part = "capture" /\ Pipeline!Next /\ UNCHANGED <<vars, startVars>>
       \/ part = "start" /\ Starting!Next /\ UNCHANGED <<vars, pipelineVars>>

PacketsSpec ==
    PacketsInit /\ [][PacketsNext]_<<part, vars, pipelineVars, startVars>>

\* Types; channels are within their capacity and the filter cache in its limit.
PartsTypeOK ==
    /\ TypeOK
    /\ part = "capture" => Pipeline!TypeOK
    /\ part = "start" => Starting!TypeOK

\* What is forwarded is what was read, from the first packet on, in order and in
\* batches within their limits, and all of it when the engine ends without an
\* error; a cancelled capture is not reported FAILED (batchPackets, captureLoop,
\* relay, forwardBatches).
ForwardedIsWhole == part = "capture" => Pipeline!ForwardedIsWhole

\* Open rings are within what is reserved, and that within the budget, and every
\* way out of a start or a capture returns its reservation (RingBudget,
\* AFPacket.Capture).
BudgetIsKept == part = "start" => Starting!BudgetIsKept

\* A ring filters with its own request's program, and a filter that does not
\* compile is refused (DumpcapFilterCompiler, Selector, fallbackEligible).
FiltersAreRight == part = "start" => Starting!FiltersAreRight
=============================================================================
