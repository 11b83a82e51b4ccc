--------------------------- MODULE CapturePipeline ---------------------------
(***************************************************************************)
(* One running capture on an agent, from the interface to the reporter:    *)
(*   the engine, either dumpcap with its reader and its batcher            *)
(*   (src/internal/adapter/capture/dumpcap.go) or the AF_PACKET loop       *)
(*   (afpacket_linux.go); the metrics decorator that relays its channels   *)
(*   (src/internal/adapter/metrics/agent.go, CaptureEngine); and           *)
(*   forwardBatches (src/internal/application/agent/service.go).           *)
(*                                                                         *)
(* Every goroutine has a program counter, every Go channel is a bounded    *)
(* sequence with a closed flag, and a select is a choice among its ready   *)
(* cases.  Packets are numbered as they are read and have a size; due says *)
(* that the batch under construction is older than MaxDelay.  The agent's  *)
(* queue behind SendBatch is the module Agent.                             *)
(***************************************************************************)
EXTENDS Naturals, Sequences, FiniteSets, SequencesExt

CONSTANTS
    Engines,      \* engines considered: "dumpcap", "afpacket"
    BatchPackets, \* request.MaxPackets
    BatchBytes,   \* request.MaxBytes
    Sizes,        \* captured lengths considered
    ChannelSize,  \* capacity of packets (256 in the code), batches and out (16)
    MaxRead       \* bound: packets read

VARIABLES
    engine,
    cancelled,  \* the capture's context is done
    stopped,    \* history: cancelled from outside forwardBatches
    fault,      \* history: the engine failed by itself
    unsent,     \* history: SendBatch failed
    headless,   \* history: dumpcap was killed before it wrote its header
    reader,     \* where dumpcap's reading goroutine is
    read,       \* sizes of the packets read so far
    packets, packetsClosed, \* the channel from the reader to the batcher
    readDone,   \* the reader's result, "empty" before
    builder,    \* where the goroutine that builds batches is
    batch,      \* the batch under construction
    pending,    \* the packet to add after a flush, 0 if none
    due,
    batches, batchesClosed, errs, errsClosed, \* the engine's channels
    relay,      \* where the decorator's goroutine is
    watched,    \* the channels the relay still selects on
    carried,    \* the batch in the relay's hands
    out, outClosed, outErrs, outErrsClosed,   \* the decorator's channels
    forward,    \* where forwardBatches is
    delivered,  \* packets handed to SendBatch
    report      \* the last status sent for the source

ctxVars == <<cancelled, stopped, fault, unsent, headless>>
readVars == <<reader, read, packets, packetsClosed, readDone>>
buildVars == <<builder, batch, pending, due>>
chanVars == <<batches, batchesClosed, errs, errsClosed>>
relayVars == <<relay, watched, carried>>
outVars == <<out, outClosed, outErrs, outErrsClosed>>
forwardVars == <<forward, delivered, report>>
vars == <<engine, ctxVars, readVars, buildVars, chanVars, relayVars, outVars,
          forwardVars>>

Bytes(b) == SumFunction([i \in DOMAIN b |-> read[b[i]]])
Room(c) == Len(c) < ChannelSize

Init ==
    /\ engine \in Engines
    /\ cancelled = FALSE /\ stopped = FALSE /\ fault = FALSE /\ unsent = FALSE
    /\ headless = FALSE
    /\ reader = IF engine = "dumpcap" THEN "header" ELSE "none"
    /\ read = <<>> /\ packets = <<>> /\ packetsClosed = FALSE /\ readDone = "empty"
    /\ builder = IF engine = "dumpcap" THEN "select" ELSE "loop"
    /\ batch = <<>> /\ pending = 0 /\ due = FALSE
    /\ batches = <<>> /\ batchesClosed = FALSE /\ errs = <<>> /\ errsClosed = FALSE
    /\ relay = "select" /\ watched = {"batches", "errs"} /\ carried = <<>>
    /\ out = <<>> /\ outClosed = FALSE /\ outErrs = <<>> /\ outErrsClosed = FALSE
    /\ forward = "starting" /\ delivered = <<>> /\ report = "none"

-----------------------------------------------------------------------------
(* dumpcap: the goroutine that reads the process's output.                 *)

\* The reader's last step: its result, then the deferred close.
ReaderEnds(result) ==
    /\ readDone' = result /\ packetsClosed' = TRUE /\ reader' = "done"

\* newPacketReader.  Without a header the process is killed and the error is
\* the result, whether or not the context was cancelled.
ReadHeader ==
    /\ reader = "header"
    /\ \/ reader' = "read" /\ UNCHANGED <<readDone, packetsClosed, fault, headless>>
       \/ /\ ReaderEnds("error")
          /\ \/ cancelled /\ headless' = TRUE /\ UNCHANGED fault
             \/ fault' = TRUE /\ UNCHANGED headless
    /\ UNCHANGED <<engine, cancelled, stopped, unsent, read, packets, buildVars,
                   chanVars, relayVars, outVars, forwardVars>>

ReadPacket(s) ==
    /\ reader = "read" /\ Len(read) < MaxRead
    /\ read' = Append(read, s) /\ reader' = "send"
    /\ UNCHANGED <<engine, ctxVars, packets, packetsClosed, readDone, buildVars,
                   chanVars, relayVars, outVars, forwardVars>>

\* A read error that is not the end of the output.
ReadError ==
    /\ reader = "read" /\ ~cancelled
    /\ ReaderEnds("error") /\ fault' = TRUE
    /\ UNCHANGED <<engine, cancelled, stopped, unsent, headless, read, packets,
                   buildVars, chanVars, relayVars, outVars, forwardVars>>

\* The end of the output, or any error once the context is done.
ReadEOF ==
    /\ reader = "read" /\ reader' = "wait"
    /\ UNCHANGED <<engine, ctxVars, read, packets, packetsClosed, readDone, buildVars,
                   chanVars, relayVars, outVars, forwardVars>>

ReaderSend ==
    /\ reader = "send"
    /\ \/ /\ Room(packets) /\ packets' = Append(packets, Len(read))
          /\ reader' = "read" /\ UNCHANGED <<packetsClosed, readDone>>
       \/ cancelled /\ ReaderEnds("cancelled") /\ UNCHANGED packets
    /\ UNCHANGED <<engine, ctxVars, read, buildVars, chanVars, relayVars, outVars,
                   forwardVars>>

\* cmd.Wait: a failed exit is an error unless the context is done.
Exited ==
    /\ reader = "wait"
    /\ \/ ReaderEnds("nil") /\ UNCHANGED fault
       \/ ~cancelled /\ ReaderEnds("error") /\ fault' = TRUE
    /\ UNCHANGED <<engine, cancelled, stopped, unsent, headless, read, packets,
                   buildVars, chanVars, relayVars, outVars, forwardVars>>

-----------------------------------------------------------------------------
(* Building batches: batchCapturedPackets and captureLoop.                 *)

Idle == IF engine = "dumpcap" THEN "select" ELSE "loop"

\* Adding packet p to batch b: a batch that reaches a limit is flushed.
Add(b, p) ==
    LET full == Append(b, p) IN
    /\ batch' = full /\ pending' = 0
    /\ due' = (due /\ b # <<>>)
    /\ builder' = IF Len(full) >= BatchPackets \/ (Bytes(b) + read'[p]) >= BatchBytes
                  THEN "flush" ELSE Idle

\* A packet that does not fit is added after the batch is flushed.
Take(p) ==
    IF batch # <<>> /\ Bytes(batch) + read'[p] > BatchBytes
    THEN builder' = "flush" /\ pending' = p /\ UNCHANGED <<batch, due>>
    ELSE Add(batch, p)

BatchPacket ==
    /\ builder = "select" /\ packets # <<>>
    /\ packets' = Tail(packets) /\ UNCHANGED <<reader, read, packetsClosed, readDone>>
    /\ Take(Head(packets))
    /\ UNCHANGED <<engine, ctxVars, chanVars, relayVars, outVars, forwardVars>>

\* packets is closed: the last flush, then the reader's result.
BatchEnd ==
    /\ builder = "select" /\ packets = <<>> /\ packetsClosed
    /\ builder' = "last"
    /\ UNCHANGED <<engine, ctxVars, readVars, batch, pending, due, chanVars, relayVars,
                   outVars, forwardVars>>

BatchTimeout ==
    /\ builder = "select" /\ batch # <<>> /\ due
    /\ builder' = "flush"
    /\ UNCHANGED <<engine, ctxVars, readVars, batch, pending, due, chanVars, relayVars,
                   outVars, forwardVars>>

\* ctx.Done: in the batcher's select, and at the top of captureLoop.
BuilderDone ==
    /\ builder \in {"select", "loop"} /\ cancelled
    /\ builder' = "closeErrs"
    /\ UNCHANGED <<engine, ctxVars, readVars, batch, pending, due, chanVars, relayVars,
                   outVars, forwardVars>>

LoopBegins ==
    /\ builder = "loop" /\ ~cancelled
    /\ builder' = "ring"
    /\ UNCHANGED <<engine, ctxVars, readVars, batch, pending, due, chanVars, relayVars,
                   outVars, forwardVars>>

\* The poll timed out: a batch that is old enough is flushed.
RingTimeout ==
    /\ builder = "ring"
    /\ builder' = IF batch # <<>> /\ due THEN "flush" ELSE "loop"
    /\ UNCHANGED <<engine, ctxVars, readVars, batch, pending, due, chanVars, relayVars,
                   outVars, forwardVars>>

\* A packet from the ring; a batch that is too old or too small goes first.
RingPacket(s) ==
    /\ builder = "ring" /\ Len(read) < MaxRead
    /\ read' = Append(read, s)
    /\ IF batch # <<>> /\ due
       THEN builder' = "flush" /\ pending' = Len(read') /\ UNCHANGED <<batch, due>>
       ELSE Take(Len(read'))
    /\ UNCHANGED <<engine, ctxVars, reader, packets, packetsClosed, readDone, chanVars,
                   relayVars, outVars, forwardVars>>

\* The ring fails: the last flush, then the error, cancelled or not.
RingError ==
    /\ builder = "ring"
    /\ fault' = TRUE /\ builder' = "last" /\ readDone' = "error"
    /\ UNCHANGED <<engine, cancelled, stopped, unsent, headless, reader, read, packets,
                   packetsClosed, batch, pending, due, chanVars, relayVars, outVars,
                   forwardVars>>

\* flush: the batch is sent, or given up with the context; the packet that did
\* not fit begins the next one.
Flush ==
    /\ builder = "flush"
    /\ \/ /\ Room(batches) /\ batches' = Append(batches, batch)
          /\ IF pending = 0
             THEN builder' = Idle /\ batch' = <<>> /\ UNCHANGED <<pending, due>>
             ELSE UNCHANGED read /\ Add(<<>>, pending)
       \/ /\ cancelled /\ builder' = "closeErrs"
          /\ UNCHANGED <<batch, pending, due, batches>>
    /\ UNCHANGED <<engine, ctxVars, readVars, batchesClosed, errs, errsClosed, relayVars,
                   outVars, forwardVars>>

\* Mutant: what is left in the batch at the end is not flushed.
LastFlushSkipped ==
    /\ builder = "last"
    /\ builder' = "result" /\ batch' = <<>>
    /\ UNCHANGED <<engine, ctxVars, readVars, pending, due, chanVars, relayVars, outVars,
                   forwardVars>>

\* flush("capture_end"), whose result is ignored.
LastFlush ==
    /\ builder = "last"
    /\ \/ batch = <<>> /\ UNCHANGED batches
       \/ batch # <<>> /\ Room(batches) /\ batches' = Append(batches, batch)
       \/ batch # <<>> /\ cancelled /\ UNCHANGED batches
    /\ builder' = "result" /\ batch' = <<>>
    /\ UNCHANGED <<engine, ctxVars, readVars, pending, due, batchesClosed, errs,
                   errsClosed, relayVars, outVars, forwardVars>>

\* The reader's result, or the loop's, goes to the error channel.
Result ==
    /\ builder = "result" /\ readDone # "empty"
    /\ errs' = IF readDone = "error" THEN Append(errs, "error") ELSE errs
    /\ builder' = "closeErrs"
    /\ UNCHANGED <<engine, ctxVars, readVars, batch, pending, due, batches,
                   batchesClosed, errsClosed, relayVars, outVars, forwardVars>>

\* The deferred closes, the error channel first.
CloseErrs ==
    /\ builder = "closeErrs"
    /\ errsClosed' = TRUE /\ builder' = "closeBatches"
    /\ UNCHANGED <<engine, ctxVars, readVars, batch, pending, due, batches,
                   batchesClosed, errs, relayVars, outVars, forwardVars>>

CloseBatches ==
    /\ builder = "closeBatches"
    /\ batchesClosed' = TRUE /\ builder' = "done"
    /\ UNCHANGED <<engine, ctxVars, readVars, batch, pending, due, batches, errs,
                   errsClosed, relayVars, outVars, forwardVars>>

\* MaxDelay has passed since the batch was begun.
Elapse ==
    /\ batch # <<>> /\ ~due /\ builder # "done"
    /\ due' = TRUE
    /\ UNCHANGED <<engine, ctxVars, readVars, builder, batch, pending, chanVars,
                   relayVars, outVars, forwardVars>>

-----------------------------------------------------------------------------
(* The metrics decorator relays batches and errors.                        *)

RelayBatch ==
    /\ relay = "select" /\ "batches" \in watched /\ batches # <<>>
    /\ carried' = Head(batches) /\ batches' = Tail(batches) /\ relay' = "put"
    /\ UNCHANGED <<engine, ctxVars, readVars, buildVars, batchesClosed, errs,
                   errsClosed, watched, outVars, forwardVars>>

RelayPut ==
    /\ relay = "put"
    /\ \/ Room(out) /\ out' = Append(out, carried) /\ relay' = "select"
       \/ cancelled /\ UNCHANGED out /\ relay' = "closeErrs"
    /\ carried' = <<>>
    /\ UNCHANGED <<engine, ctxVars, readVars, buildVars, chanVars, watched, outClosed,
                   outErrs, outErrsClosed, forwardVars>>

\* A closed channel is not watched any more; without any the relay ends.
Unwatch(c) ==
    /\ watched' = watched \ {c}
    /\ relay' = IF watched' = {} THEN "closeErrs" ELSE "select"

\* Mutant: the relay ends with the batches.
RelayBatchesClosedEnds ==
    /\ relay = "select" /\ "batches" \in watched /\ batches = <<>> /\ batchesClosed
    /\ watched' = watched \ {"batches"} /\ relay' = "closeErrs"
    /\ UNCHANGED <<engine, ctxVars, readVars, buildVars, chanVars, carried, outVars,
                   forwardVars>>

RelayBatchesClosed ==
    /\ relay = "select" /\ "batches" \in watched /\ batches = <<>> /\ batchesClosed
    /\ Unwatch("batches")
    /\ UNCHANGED <<engine, ctxVars, readVars, buildVars, chanVars, carried, outVars,
                   forwardVars>>

RelayErrsClosed ==
    /\ relay = "select" /\ "errs" \in watched /\ errs = <<>> /\ errsClosed
    /\ Unwatch("errs")
    /\ UNCHANGED <<engine, ctxVars, readVars, buildVars, chanVars, carried, outVars,
                   forwardVars>>

\* An error is passed on, or given up when the context is done.
RelayError ==
    /\ relay = "select" /\ "errs" \in watched /\ errs # <<>>
    /\ errs' = Tail(errs)
    /\ \/ outErrs' = Append(outErrs, Head(errs)) /\ UNCHANGED relay
       \/ cancelled /\ relay' = "closeErrs" /\ UNCHANGED outErrs
    /\ UNCHANGED <<engine, ctxVars, readVars, buildVars, batches, batchesClosed,
                   errsClosed, watched, carried, out, outClosed, outErrsClosed,
                   forwardVars>>

RelayDone ==
    /\ relay = "select" /\ cancelled
    /\ relay' = "closeErrs"
    /\ UNCHANGED <<engine, ctxVars, readVars, buildVars, chanVars, watched, carried,
                   outVars, forwardVars>>

RelayCloses ==
    /\ \/ relay = "closeErrs" /\ outErrsClosed' = TRUE /\ UNCHANGED outClosed
          /\ relay' = "closeOut"
       \/ relay = "closeOut" /\ outClosed' = TRUE /\ UNCHANGED outErrsClosed
          /\ relay' = "done"
    /\ UNCHANGED <<engine, ctxVars, readVars, buildVars, chanVars, watched, carried,
                   out, outErrs, forwardVars>>

-----------------------------------------------------------------------------
(* The capture service.                                                    *)

\* The RUNNING status is sent and forwardBatches begins; when it cannot be sent
\* the capture is cancelled.
Started ==
    /\ forward = "starting"
    /\ \/ forward' = "select" /\ report' = "RUNNING" /\ UNCHANGED <<cancelled, stopped>>
       \/ forward' = "done" /\ cancelled' = TRUE /\ stopped' = TRUE /\ UNCHANGED report
    /\ UNCHANGED <<engine, fault, unsent, headless, readVars, buildVars, chanVars,
                   relayVars, outVars, delivered>>

\* Stop, StopAll or the end of the agent cancels the context.
Cancel ==
    /\ ~stopped /\ forward \notin {"starting", "done"}
    /\ cancelled' = TRUE /\ stopped' = TRUE
    /\ UNCHANGED <<engine, fault, unsent, headless, readVars, buildVars, chanVars,
                   relayVars, outVars, forwardVars>>

ForwardDone ==
    /\ forward = "select" /\ cancelled
    /\ forward' = "end"
    /\ UNCHANGED <<engine, ctxVars, readVars, buildVars, chanVars, relayVars, outVars,
                   delivered, report>>

\* A batch goes to SendBatch; its error is reported and ends the source.
ForwardBatch ==
    /\ forward = "select" /\ out # <<>>
    /\ out' = Tail(out)
    /\ \/ delivered' = delivered \o Head(out) /\ UNCHANGED <<forward, report, unsent>>
       \/ unsent' = TRUE /\ report' = "FAILED" /\ forward' = "end" /\ UNCHANGED delivered
    /\ UNCHANGED <<engine, cancelled, stopped, fault, headless, readVars, buildVars,
                   chanVars, relayVars, outClosed, outErrs, outErrsClosed>>

\* The batches have ended: an error that is there is reported.
ForwardEnded ==
    /\ forward = "select" /\ out = <<>> /\ outClosed
    /\ report' = IF outErrs # <<>> THEN "FAILED" ELSE report
    /\ outErrs' = <<>> /\ forward' = "end"
    /\ UNCHANGED <<engine, ctxVars, readVars, buildVars, chanVars, relayVars, out,
                   outClosed, outErrsClosed, delivered>>

\* An error is reported at once, whatever batches are still queued.
ForwardError ==
    /\ forward = "select" /\ outErrs # <<>>
    /\ outErrs' = <<>> /\ report' = "FAILED" /\ forward' = "end"
    /\ UNCHANGED <<engine, ctxVars, readVars, buildVars, chanVars, relayVars, out,
                   outClosed, outErrsClosed, delivered>>

\* forwardBatches has returned: the deferred cancel.
ForwardReturns ==
    /\ forward = "end"
    /\ cancelled' = TRUE /\ forward' = "done"
    /\ UNCHANGED <<engine, stopped, fault, unsent, headless, readVars, buildVars,
                   chanVars, relayVars, outVars, delivered, report>>

-----------------------------------------------------------------------------
Reads ==
    ReadHeader \/ ReadError \/ ReadEOF \/ ReaderSend \/ Exited
        \/ \E s \in Sizes : ReadPacket(s)
Builds ==
    \/ BatchPacket \/ BatchEnd \/ BatchTimeout \/ BuilderDone \/ LoopBegins
    \/ RingTimeout \/ Flush \/ LastFlush \/ Result \/ CloseErrs \/ CloseBatches
Relays ==
    \/ RelayBatch \/ RelayPut \/ RelayBatchesClosed \/ RelayErrsClosed \/ RelayError
    \/ RelayDone \/ RelayCloses
Forwards ==
    Started \/ ForwardDone \/ ForwardBatch \/ ForwardEnded \/ ForwardError
        \/ ForwardReturns

Next ==
    \/ Reads \/ Builds \/ Relays \/ Forwards \/ Elapse \/ Cancel \/ RingError
    \/ \E s \in Sizes : RingPacket(s)

Spec == Init /\ [][Next]_vars

\* dumpcap goes on without its reader's help only until its context is done:
\* then it is killed and its output ends.
ReaderMoves ==
    ReaderSend \/ Exited \/ (cancelled /\ (ReadHeader \/ ReadEOF))

-----------------------------------------------------------------------------
(* Properties.                                                             *)

\* Types, and every channel is within its capacity.
TypeOK ==
    /\ engine \in {"dumpcap", "afpacket"}
    /\ {cancelled, stopped, fault, unsent, headless, due, packetsClosed,
        batchesClosed, errsClosed, outClosed, outErrsClosed} \subseteq BOOLEAN
    /\ reader \in {"none", "header", "read", "send", "wait", "done"}
    /\ readDone \in {"empty", "nil", "error", "cancelled"}
    /\ builder \in {"select", "loop", "ring", "flush", "last", "result", "closeErrs",
                    "closeBatches", "done"}
    /\ relay \in {"select", "put", "closeErrs", "closeOut", "done"}
    /\ forward \in {"starting", "select", "end", "done"}
    /\ report \in {"none", "RUNNING", "FAILED"}
    /\ watched \subseteq {"batches", "errs"}
    /\ read \in Seq(Sizes) /\ pending \in 0..Len(read)
    /\ {Len(packets), Len(batches), Len(out)} \subseteq 0..ChannelSize
    /\ Len(errs) <= 1 /\ Len(outErrs) <= 1

\* What reaches SendBatch is every packet from the first on, in the order read:
\* flushing, relaying and ending never skip, repeat or swap one.
DeliveredIsPrefix == \A i \in 1..Len(delivered) : delivered[i] = i

\* A batch in flight is not empty and is within both limits; only a packet that
\* alone exceeds the byte limit travels in a batch of its own.
BatchLimits ==
    \A b \in ToSet(batches) \cup ToSet(out) :
        /\ b # <<>> /\ Len(b) <= BatchPackets
        /\ Len(b) = 1 \/ Bytes(b) <= BatchBytes

\* When dumpcap ends by itself without an error, everything it read has been
\* forwarded by the time forwardBatches returns.  (After an error this is not
\* so: forwardBatches may take the error before the batches queued ahead of it.)
CleanEndIsComplete ==
    forward \in {"end", "done"} /\ ~stopped /\ report # "FAILED" =>
        Len(delivered) = Len(read)

\* FAILED is reported only for a source that did fail: cancelling a capture is
\* not a failure, except while dumpcap has not yet written its header, where the
\* reader does not look at the context.
FailedIsGenuine == report = "FAILED" => fault \/ unsent \/ headless

\* The pipeline always catches up: whatever was read is forwarded without the
\* help of another packet, unless the capture ends first.
PacketsAreForwarded == []<>(Len(delivered) = Len(read) \/ cancelled \/ fault)

\* An engine that fails while nobody stops the capture is reported FAILED.
FailureIsReported == fault ~> report = "FAILED" \/ stopped

\* Once forwardBatches has returned or the capture was cancelled, every goroutine
\* of the capture ends, whatever it was blocked on.
CaptureUnwinds ==
    forward = "done" \/ cancelled ~>
        reader \in {"none", "done"} /\ builder = "done" /\ relay = "done"

\* What was read is forwarded in order and in proper batches, all of it when the
\* capture ends without an error, and what is reported FAILED did fail.
ForwardedIsWhole ==
    DeliveredIsPrefix /\ BatchLimits /\ CleanEndIsComplete /\ FailedIsGenuine

\* A capture never hangs: what it read is forwarded, its failure is reported, and
\* in the end no goroutine of it stays behind.
CaptureProgresses == PacketsAreForwarded /\ FailureIsReported /\ CaptureUnwinds
=============================================================================
