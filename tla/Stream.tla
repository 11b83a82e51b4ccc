------------------------------- MODULE Stream -------------------------------
(***************************************************************************)
(* One session's packet pipeline                                           *)
(* (src/internal/application/stream/service.go, heap.go) and the consumers *)
(* of its output: live subscribers and the loss-aware recorder             *)
(* (sessionRecorder.run in src/internal/adapter/recording/manager.go).     *)
(*                                                                         *)
(* Each connected node publishes batches; packets wait in a heap ordered   *)
(* by (timestamp, sequence number) until the reorder window has passed,    *)
(* are regrouped into batches of one node and sent, without blocking, to   *)
(* every subscriber's bounded channel.  `holder` is the goroutine inside   *)
(* emitUntil, which keeps p.mu for the whole pass: publishers, new         *)
(* subscribers and removals wait for it, consumers do not.                 *)
(***************************************************************************)
EXTENDS Integers, Sequences, FiniteSets

CONSTANTS
    Packets,        \* packet identities
    Timestamp,      \* [Packets -> Nat], the capture time
    SequenceNumber, \* [Packets -> Nat], per source
    Size,           \* [Packets -> Nat], CapturedLength
    Nodes,          \* one publishing stream per node
    Feed,           \* [Nodes -> Seq(SUBSET Packets)], the batches it sends
    Subscribers,    \* subscription identities
    LossAware,      \* the subscriptions made with disconnectOnDrop
    Recorder,       \* the loss-aware subscription of the recorder
    Window,         \* reorder window
    MaxDelay,       \* RebatchConfig.MaxDelay
    MaxPackets,     \* RebatchConfig.MaxPackets
    MaxBytes,       \* RebatchConfig.MaxBytes
    QueueSize,      \* capacity of a subscriber's channel, in batches
    SessionLimit,   \* packets the recorder may write before it truncates
    MaxTime         \* bound on the clock

ASSUME PacketAssumption ==
    /\ Timestamp \in [Packets -> Nat] /\ SequenceNumber \in [Packets -> Nat]
    /\ Size \in [Packets -> Nat]
ASSUME FeedAssumption == Feed \in [Nodes -> Seq(SUBSET Packets)]
ASSUME SubscriberAssumption ==
    LossAware \subseteq Subscribers /\ Recorder \in LossAware
ASSUME BoundAssumption ==
    /\ Window \in Nat /\ MaxDelay \in Nat /\ MaxTime \in Nat
    /\ MaxPackets \in Nat \ {0} /\ MaxBytes \in Nat \ {0}
    /\ QueueSize \in Nat \ {0} /\ SessionLimit \in Nat \ {0}

VARIABLES
    now,        \* the server's clock
    fed,        \* batches of each node's Feed handed to Publish so far
    looked,     \* nodes whose Publish found the pipeline and has not pushed
    heap,       \* packets waiting for the reorder window
    recvAt,     \* receivedAt of each packet
    acceptedIn, \* history: life stage in which each packet was pushed
    life,       \* "open", "closing" (off the map), "flushed", "closed"
    runNow,     \* time.Now() read by run before it asks for p.mu, or -1
    holder,     \* "none", "run" or "close": who is inside emitUntil
    cut,        \* the cutoff time of the current pass
    batch,      \* the batch under construction
    log,        \* history: every batch emitted
    subs,       \* p.subscribers
    queue,      \* each subscriber's channel
    closes,     \* how often each subscriber's Batches channel was closed
    dropped,    \* subscribers whose Dropped channel is closed
    cancelled,  \* subscribers whose context is done
    taken,      \* batches each consumer received
    start,      \* history: Len(log) when it subscribed
    sawDrop,    \* the recorder's local `dropped`
    written,    \* packets the recorder wrote
    status      \* the recorder's outcome

publishVars == <<fed, looked>>
heapVars == <<heap, recvAt, acceptedIn>>
emitVars == <<runNow, holder, cut, batch, log>>
subVars == <<subs, queue, closes, dropped>>
consumerVars == <<taken, start>>
recorderVars == <<sawDrop, written, status>>
vars == <<now, publishVars, heapVars, life, emitVars, subVars, cancelled,
          consumerVars, recorderVars>>

Unlocked == holder = "none"

(* OpenSession, followed by recorder.Start before any source is started:   *)
(* the recorder is subscribed before the first packet can arrive.          *)
Init ==
    /\ now = 0
    /\ fed = [n \in Nodes |-> 0] /\ looked = {}
    /\ heap = {} /\ recvAt = [p \in Packets |-> -1]
    /\ acceptedIn = [p \in Packets |-> "never"]
    /\ life = "open"
    /\ runNow = -1 /\ holder = "none" /\ cut = 0 /\ batch = <<>> /\ log = <<>>
    /\ subs = {Recorder} /\ queue = [s \in Subscribers |-> <<>>]
    /\ closes = [s \in Subscribers |-> 0] /\ dropped = {} /\ cancelled = {}
    /\ taken = [s \in Subscribers |-> <<>>]
    /\ start = [s \in Subscribers |-> IF s = Recorder THEN 0 ELSE -1]
    /\ sawDrop = FALSE /\ written = <<>> /\ status = "RECORDING"

Tick ==
    /\ now < MaxTime
    /\ now' = now + 1
    /\ UNCHANGED <<publishVars, heapVars, life, emitVars, subVars, cancelled,
                   consumerVars, recorderVars>>

-----------------------------------------------------------------------------
(* Publish: the pipeline is looked up under s.mu, then pushed to under     *)
(* p.mu; CloseSession may run in between.                                  *)
PublishLookup(n) ==
    /\ n \notin looked /\ fed[n] < Len(Feed[n])
    /\ fed' = [fed EXCEPT ![n] = @ + 1]
    /\ looked' = IF life = "open" THEN looked \cup {n} ELSE looked
    /\ UNCHANGED <<now, heapVars, life, emitVars, subVars, cancelled,
                   consumerVars, recorderVars>>

PublishPush(n) ==
    LET arrived == Feed[n][fed[n]] IN
    /\ n \in looked /\ Unlocked
    /\ looked' = looked \ {n}
    /\ \/ /\ life = "closed"
          /\ UNCHANGED heapVars
       \/ /\ life # "closed"
          /\ heap' = heap \cup arrived
          /\ recvAt' = [p \in Packets |-> IF p \in arrived THEN now ELSE recvAt[p]]
          /\ acceptedIn' = [p \in Packets |->
                               IF p \in arrived THEN life ELSE acceptedIn[p]]
    /\ UNCHANGED <<now, fed, life, emitVars, subVars, cancelled, consumerVars,
                   recorderVars>>

-----------------------------------------------------------------------------
(* emitUntil.                                                              *)
\* packetHeap.Less
Before(p, q) ==
    \/ Timestamp[p] < Timestamp[q]
    \/ Timestamp[p] = Timestamp[q] /\ SequenceNumber[p] < SequenceNumber[q]

\* The packets that may be at the top of the heap.
Tops == {p \in heap : \A q \in heap : ~Before(q, p)}

\* Mutant: the watermark is the current time.
DueWithoutWindow(p) ==
    holder = "close" \/ (Timestamp[p] <= cut /\ recvAt[p] <= cut - MaxDelay)

Due(p) ==
    holder = "close" \/ (Timestamp[p] <= cut - Window /\ recvAt[p] <= cut - MaxDelay)

NodeOf(p) == CHOOSE n \in Nodes : \E i \in 1..Len(Feed[n]) : p \in Feed[n][i]

Bytes(b) ==
    LET sum[i \in 0..Len(b)] == IF i = 0 THEN 0 ELSE sum[i - 1] + Size[b[i]]
    IN  sum[Len(b)]

\* The inner loop takes p into the batch under construction.
Joins(p) ==
    /\ Due(p)
    /\ batch # <<>> => /\ NodeOf(p) = NodeOf(batch[1])
                       /\ Len(batch) < MaxPackets
                       /\ Bytes(batch) < MaxBytes
                       /\ Bytes(batch) + Size[p] <= MaxBytes

\* Mutant: the ticker case is missing, only Publish wakes run.
RunWakeWithoutTicker ==
    /\ life # "closed" /\ runNow = -1 /\ holder # "run" /\ looked # {}
    /\ runNow' = now
    /\ UNCHANGED <<now, publishVars, heapVars, life, holder, cut, batch, log,
                   subVars, cancelled, consumerVars, recorderVars>>

\* run: the ticker or the wake channel fires and the cutoffs are computed
\* before emitUntil asks for the lock.
RunWake ==
    /\ life # "closed" /\ runNow = -1 /\ holder # "run"
    /\ runNow' = now
    /\ UNCHANGED <<now, publishVars, heapVars, life, holder, cut, batch, log,
                   subVars, cancelled, consumerVars, recorderVars>>

RunLock ==
    /\ runNow # -1 /\ Unlocked
    /\ holder' = "run" /\ cut' = runNow /\ runNow' = -1
    /\ UNCHANGED <<now, publishVars, heapVars, life, batch, log, subVars,
                   cancelled, consumerVars, recorderVars>>

PopPacket ==
    /\ ~Unlocked
    /\ \E p \in Tops :
          /\ Joins(p)
          /\ heap' = heap \ {p}
          /\ batch' = Append(batch, p)
    /\ UNCHANGED <<now, publishVars, recvAt, acceptedIn, life, runNow, holder,
                   cut, log, subVars, cancelled, consumerVars, recorderVars>>

\* The subscribers whose channel is full when the batch is sent.
Full == {s \in subs : Len(queue[s]) = QueueSize}

\* A loss-aware subscriber that misses a batch is disconnected.
Disconnected == Full \cap LossAware

SendBatch ==
    /\ batch # <<>>
    /\ heap = {} \/ \E p \in Tops : ~Joins(p)
    /\ log' = Append(log, batch)
    /\ batch' = <<>>
    /\ queue' = [s \in Subscribers |->
                    IF s \in subs \ Full THEN Append(queue[s], batch) ELSE queue[s]]
    /\ dropped' = dropped \cup Disconnected
    /\ closes' = [s \in Subscribers |->
                    IF s \in Disconnected THEN closes[s] + 1 ELSE closes[s]]
    /\ subs' = subs \ Disconnected
    /\ UNCHANGED <<now, publishVars, heapVars, life, runNow, holder, cut,
                   cancelled, consumerVars, recorderVars>>

\* emitUntil returns: nothing left is due.  The flush of close ends here too.
EmitDone ==
    /\ ~Unlocked /\ batch = <<>>
    /\ heap = {} \/ \E p \in Tops : ~Due(p)
    /\ life' = IF holder = "close" THEN "flushed" ELSE life
    /\ holder' = "none" /\ cut' = 0
    /\ UNCHANGED <<now, publishVars, heapVars, runNow, batch, log, subVars,
                   cancelled, consumerVars, recorderVars>>

-----------------------------------------------------------------------------
(* Subscriptions.  subscribe looks the pipeline up before it takes p.mu,   *)
(* so it may still succeed while the pipeline is being closed.             *)
Subscribe(s) ==
    /\ start[s] = -1 /\ life # "closed" /\ Unlocked
    /\ subs' = subs \cup {s}
    /\ start' = [start EXCEPT ![s] = Len(log)]
    /\ UNCHANGED <<now, publishVars, heapVars, life, emitVars, queue, closes,
                   dropped, cancelled, taken, recorderVars>>

\* The subscriber's context ends: a client leaves, Manager.Shutdown runs.
Cancel(s) ==
    /\ start[s] # -1 /\ s \notin cancelled
    /\ cancelled' = cancelled \cup {s}
    /\ UNCHANGED <<now, publishVars, heapVars, life, emitVars, subVars,
                   consumerVars, recorderVars>>

\* Mutant: the map is not consulted before the channel is closed.
RemoveUnconditionally(s) ==
    /\ s \in cancelled /\ Unlocked /\ life # "closed" /\ closes[s] < 2
    /\ subs' = subs \ {s}
    /\ closes' = [closes EXCEPT ![s] = @ + 1]
    /\ UNCHANGED <<now, publishVars, heapVars, life, emitVars, queue, dropped,
                   cancelled, consumerVars, recorderVars>>

\* removeSubscriber, from the goroutine that waits for the context.
RemoveSubscriber(s) ==
    /\ s \in cancelled /\ s \in subs /\ Unlocked
    /\ subs' = subs \ {s}
    /\ closes' = [closes EXCEPT ![s] = @ + 1]
    /\ UNCHANGED <<now, publishVars, heapVars, life, emitVars, queue, dropped,
                   cancelled, consumerVars, recorderVars>>

-----------------------------------------------------------------------------
(* CloseSession takes the pipeline off the map, then close flushes it and, *)
(* in a second critical section, closes every remaining channel.           *)
CloseBegin ==
    /\ life = "open"
    /\ life' = "closing"
    /\ UNCHANGED <<now, publishVars, heapVars, emitVars, subVars, cancelled,
                   consumerVars, recorderVars>>

CloseFlush ==
    /\ life = "closing" /\ Unlocked
    /\ holder' = "close"
    /\ UNCHANGED <<now, publishVars, heapVars, life, runNow, cut, batch, log,
                   subVars, cancelled, consumerVars, recorderVars>>

CloseFinish ==
    /\ life = "flushed" /\ Unlocked
    /\ life' = "closed"
    /\ closes' = [s \in Subscribers |-> IF s \in subs THEN closes[s] + 1 ELSE closes[s]]
    /\ subs' = {}
    /\ UNCHANGED <<now, publishVars, heapVars, emitVars, queue, dropped,
                   cancelled, consumerVars, recorderVars>>

-----------------------------------------------------------------------------
(* Consumers.                                                              *)
\* A live subscriber's gRPC handler receives the next batch.
Receive(s) ==
    /\ s # Recorder /\ s \notin cancelled /\ queue[s] # <<>>
    /\ queue' = [queue EXCEPT ![s] = Tail(@)]
    /\ taken' = [taken EXCEPT ![s] = Append(@, Head(queue[s]))]
    /\ UNCHANGED <<now, publishVars, heapVars, life, emitVars, subs, closes,
                   dropped, cancelled, start, recorderVars>>

\* complete: the status becomes FAILED when the last segment cannot be
\* finished; the deferred cancel ends the subscription.
Complete(outcome) ==
    /\ status' \in {outcome, "FAILED"}
    /\ cancelled' = cancelled \cup {Recorder}

\* sessionRecorder.run, case batch: written whole, up to the size limit, or
\* up to a write error.
RecorderWrite ==
    LET b == Head(queue[Recorder])
        room == SessionLimit - Len(written)
    IN
    /\ status = "RECORDING" /\ queue[Recorder] # <<>>
    /\ queue' = [queue EXCEPT ![Recorder] = Tail(@)]
    /\ taken' = [taken EXCEPT ![Recorder] = Append(@, b)]
    /\ \/ /\ Len(b) < room
          /\ written' = written \o b
          /\ UNCHANGED <<status, cancelled>>
       \/ /\ Len(b) >= room
          /\ written' = written \o SubSeq(b, 1, room)
          /\ Complete("TRUNCATED")
       \/ /\ \E k \in 0..(Len(b) - 1) : written' = written \o SubSeq(b, 1, k)
          /\ Complete("FAILED")
    /\ UNCHANGED <<now, publishVars, heapVars, life, emitVars, subs, closes,
                   dropped, start, sawDrop>>

\* case <-droppedChannel
RecorderSeesDrop ==
    /\ status = "RECORDING" /\ Recorder \in dropped /\ ~sawDrop
    /\ sawDrop' = TRUE
    /\ UNCHANGED <<now, publishVars, heapVars, life, emitVars, subVars,
                   cancelled, consumerVars, written, status>>

\* Mutant: the closed channel is taken for a normal end.
OutcomeAtEndIgnoresDrop ==
    IF Recorder \in cancelled THEN "PARTIAL" ELSE "COMPLETED"

\* The closed Batches channel is drained: an interrupted context and an
\* overflow, noticed now or before, make the recording partial.
OutcomeAtEnd ==
    IF Recorder \in cancelled \/ sawDrop \/ Recorder \in dropped
    THEN "PARTIAL" ELSE "COMPLETED"

RecorderEnd ==
    /\ status = "RECORDING" /\ queue[Recorder] = <<>> /\ closes[Recorder] > 0
    /\ Complete(OutcomeAtEnd)
    /\ UNCHANGED <<now, publishVars, heapVars, life, emitVars, subVars,
                   consumerVars, sawDrop, written>>

\* case <-r.context.Done()
RecorderInterrupted ==
    /\ status = "RECORDING" /\ Recorder \in cancelled
    /\ Complete("PARTIAL")
    /\ UNCHANGED <<now, publishVars, heapVars, life, emitVars, subVars,
                   consumerVars, sawDrop, written>>

\* A flush, sync or rotation fails.
RecorderFails ==
    /\ status = "RECORDING"
    /\ Complete("FAILED")
    /\ UNCHANGED <<now, publishVars, heapVars, life, emitVars, subVars,
                   consumerVars, sawDrop, written>>

RecorderStep ==
    RecorderWrite \/ RecorderSeesDrop \/ RecorderEnd \/ RecorderInterrupted

Emit == PopPacket \/ SendBatch \/ EmitDone

Close == CloseFlush \/ CloseFinish

Next ==
    \/ Tick
    \/ \E n \in Nodes : PublishLookup(n) \/ PublishPush(n)
    \/ RunWake \/ RunLock \/ Emit
    \/ \E s \in Subscribers :
          Subscribe(s) \/ Cancel(s) \/ RemoveSubscriber(s) \/ Receive(s)
    \/ CloseBegin \/ Close
    \/ RecorderStep \/ RecorderFails

(* The pipeline's goroutines are scheduled, time passes, and a goroutine   *)
(* that waits for p.mu gets it: sync.Mutex hands the lock over to a waiter *)
(* after 1ms, so waiting for it is strongly fair.                          *)
Fairness ==
    /\ WF_vars(Tick) /\ WF_vars(RunWake) /\ SF_vars(RunLock) /\ WF_vars(Emit)
    /\ SF_vars(Close) /\ WF_vars(RecorderStep)

Spec == Init /\ [][Next]_vars

FairSpec == Spec /\ Fairness

-----------------------------------------------------------------------------
Statuses == {"RECORDING", "COMPLETED", "PARTIAL", "TRUNCATED", "FAILED"}

(* Types; only subscribers made with disconnectOnDrop have their Dropped   *)
(* channel closed by emitUntil.                                            *)
TypeOK ==
    /\ now \in Nat
    /\ fed \in [Nodes -> Nat] /\ looked \subseteq Nodes
    /\ heap \subseteq Packets
    /\ recvAt \in [Packets -> Nat \cup {-1}]
    /\ acceptedIn \in [Packets -> {"never", "open", "closing", "flushed"}]
    /\ life \in {"open", "closing", "flushed", "closed"}
    /\ runNow \in Nat \cup {-1} /\ holder \in {"none", "run", "close"}
    /\ cut \in Nat /\ batch \in Seq(Packets) /\ log \in Seq(Seq(Packets))
    /\ subs \subseteq Subscribers /\ dropped \subseteq LossAware
    /\ cancelled \subseteq Subscribers
    /\ queue \in [Subscribers -> Seq(Seq(Packets))]
    /\ taken \in [Subscribers -> Seq(Seq(Packets))]
    /\ closes \in [Subscribers -> Nat]
    /\ start \in [Subscribers -> Nat \cup {-1}]
    /\ sawDrop \in BOOLEAN /\ written \in Seq(Packets) /\ status \in Statuses

(* No channel is closed twice and none is closed while emitUntil may still *)
(* send on it (either would panic the server), over every order of         *)
(* overflow, context cancellation and CloseSession.                        *)
ChannelDiscipline ==
    \A s \in Subscribers : closes[s] <= 1 /\ (s \in subs => closes[s] = 0)

(* What a loss-aware subscriber received and has queued is an unbroken run *)
(* of the emitted batches from its subscription on: an overflow ends the   *)
(* run and never leaves a hole in it, and a connected one misses nothing.  *)
LossAwareHasNoHole ==
    \A s \in LossAware : start[s] # -1 =>
       LET have == taken[s] \o queue[s] IN
       /\ start[s] + Len(have) <= Len(log)
       /\ have = SubSeq(log, start[s] + 1, start[s] + Len(have))
       /\ s \in subs => start[s] + Len(have) = Len(log)

(* A recording finalized as COMPLETED holds every packet that Publish      *)
(* accepted before CloseSession's flush began.                             *)
CompletedIsWhole ==
    status = "COMPLETED" =>
       \A p \in Packets : acceptedIn[p] \in {"open", "closing"} =>
          \E i \in 1..Len(written) : written[i] = p

(* Before the close's flush, a packet that reached the server within the   *)
(* reorder window of its timestamp is never emitted after a younger one,   *)
(* in one pass of emitUntil or across passes.                              *)
OrderedWithinWindow ==
    life \in {"open", "closing"} /\ holder # "close" =>
       \A i, j \in 1..Len(log) : i <= j =>
          \A k \in 1..Len(log[i]), m \in 1..Len(log[j]) :
             (i < j \/ k < m) =>
                \/ Timestamp[log[i][k]] <= Timestamp[log[j][m]]
                \/ recvAt[log[j][m]] > Timestamp[log[j][m]] + Window

(* Every packet Publish accepts is emitted, unless the session is closed   *)
(* first: neither the reorder window, nor the rebatch delay, nor a younger *)
(* head of the heap holds it back for ever.                                *)
AcceptedIsEmitted ==
    \A p \in Packets : (p \in heap) ~> (p \notin heap \/ life = "closed")

(* Closing a session finalizes its recording, with whatever outcome.       *)
CloseFinalizesRecording == (life = "closing") ~> (status # "RECORDING")

(* The recorder has an unbroken run of what was emitted, and a recording   *)
(* that says COMPLETED has all of it.                                      *)
RecordedIsWhole == LossAwareHasNoHole /\ CompletedIsWhole

(* Nothing is held for ever: neither a packet nor an open recording.       *)
NothingIsHeld == AcceptedIsEmitted /\ CloseFinalizesRecording
=============================================================================
