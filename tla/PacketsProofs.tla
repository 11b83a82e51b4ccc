---------------------------- MODULE PacketsProofs ----------------------------
(***************************************************************************)
(* Proofs about the way of the packets (module MCPackets), for every set   *)
(* of packets, nodes and subscribers and every window, delay, queue, batch *)
(* limit, channel size and ring budget.  The first part is one session's   *)
(* stream on the server (module Stream):                                   *)
(*                                                                         *)
(*   ChannelsKept  no channel is closed twice or sent on when closed;      *)
(*   Whole         a loss-aware subscriber has an unbroken run of what was *)
(*                 emitted, and a COMPLETED recording all that was         *)
(*                 accepted before the flush;                              *)
(*   Ordered       a packet that is not late is never emitted after a      *)
(*                 younger one.                                            *)
(*                                                                         *)
(* None of the three is inductive.  IInv adds who is subscribed while the  *)
(* pipeline is open (ChannelInv, RecorderInv), what each consumer took and *)
(* what waits in its channel, position by position (HoleInv), where an     *)
(* accepted packet is before it is written (WholeInv), that the clocks     *)
(* which were read are past (ClockInv), and that whatever left the heap is *)
(* in order with whatever is still in it and older than the window, so     *)
(* that a packet pushed later and older is late (OrderInv).  Each part has *)
(* a lemma that a step keeps it, with one case per action that touches it. *)
(*                                                                         *)
(* The second part is the start of a capture (StartInv, module             *)
(* CaptureStart) and the third a running one (PipeInv, module              *)
(* CapturePipeline); each says at its head what its invariant has.         *)
(***************************************************************************)
EXTENDS MCPackets, SumTheorems, SequenceTheorems, FiniteSetTheorems, TLAPS

(* The batches fed so far are some of the node's; the rest of the types.   *)
FeedTypes ==
    \A n \in Nodes : fed[n] <= Len(Feed[n]) /\ (n \in looked => fed[n] > 0)
Types == TypeOK /\ FeedTypes

(* Channels: who has been closed, subscribed and locked.                   *)
ChannelInv ==
    /\ \A s \in Subscribers :
          /\ closes[s] <= 1
          /\ s \in subs => closes[s] = 0 /\ start[s] # -1
          /\ start[s] = -1 => closes[s] = 0 /\ taken[s] = <<>> /\ queue[s] = <<>>
    /\ life = "closed" => subs = {}
    /\ holder = "close" => life = "closing"

(* What a loss-aware subscriber has and waits for, batch by batch.         *)
Has(s) == start[s] + Len(taken[s])
Unbroken(s) ==
    /\ Has(s) + Len(queue[s]) <= Len(log)
    /\ \A i \in 1..Len(taken[s]) : taken[s][i] = log[start[s] + i]
    /\ \A i \in 1..Len(queue[s]) : queue[s][i] = log[Has(s) + i]
    /\ s \in subs => Has(s) + Len(queue[s]) = Len(log)
HoleInv == \A s \in LossAware : start[s] # -1 => Unbroken(s)

(* The recorder is subscribed from the start to the end of the pipeline,   *)
(* unless it was dropped or cancelled, and writes what it takes.           *)
In(p, b) == \E k \in 1..Len(b) : b[k] = p
InSome(p, bs) == \E i \in 1..Len(bs) : In(p, bs[i])
Undisturbed == Recorder \notin dropped \cup cancelled
RecorderInv ==
    /\ start[Recorder] = 0
    /\ Undisturbed /\ life # "closed" => Recorder \in subs
    /\ status # "RECORDING" => Recorder \in cancelled
    /\ status = "RECORDING" =>
          \A p \in Packets : InSome(p, taken[Recorder]) => In(p, written)

(* Where a packet is that was accepted before the flush.                   *)
Early(p) == acceptedIn[p] \in {"open", "closing"}
WholeInv ==
    /\ \A p \in Packets : Early(p) => p \in heap \/ In(p, batch) \/ InSome(p, log)
    /\ life \in {"flushed", "closed"} => \A p \in Packets : Early(p) => InSome(p, log)
    /\ life = "closed" /\ Undisturbed =>
          \A p \in Packets : Early(p) =>
             InSome(p, taken[Recorder]) \/ InSome(p, queue[Recorder])
    /\ status = "COMPLETED" =>
          life = "closed" /\ \A p \in Packets : Early(p) => In(p, written)

(* The clocks read are past.                                               *)
ClockInv ==
    /\ runNow <= now /\ cut <= now
    /\ \A p \in Packets : recvAt[p] <= now

(* Until the close's flush, packets leave the heap in order, and only once *)
(* the window has passed, so that a packet that arrives later and is older *)
(* is late.                                                                *)
Ordering == life \in {"open", "closing"} /\ holder # "close"
InOrder(p, q) ==
    Timestamp[p] <= Timestamp[q] \/ recvAt[q] > Timestamp[q] + Window
Out(p) == In(p, batch) \/ InSome(p, log)
Old(p) == Timestamp[p] + Window <= now
HeapOrder ==
    \A p \in Packets : Out(p) => Old(p) /\ \A q \in heap : InOrder(p, q)
BatchOrder == \A k, m \in 1..Len(batch) : k < m => InOrder(batch[k], batch[m])
NextOrder == \A p, q \in Packets : InSome(p, log) /\ In(q, batch) => InOrder(p, q)
LogOrder ==
    \A i, j \in 1..Len(log) :
       \A k \in 1..Len(log[i]), m \in 1..Len(log[j]) :
          i < j \/ (i = j /\ k < m) => InOrder(log[i][k], log[j][m])
OrderInv == Ordering => HeapOrder /\ BatchOrder /\ NextOrder /\ LogOrder

IInv ==
    /\ Types /\ ChannelInv /\ HoleInv /\ RecorderInv /\ WholeInv
    /\ ClockInv /\ OrderInv

-----------------------------------------------------------------------------
(* The outcomes of RecorderWrite: the whole batch is written, the limit    *)
(* ends the recording, or an error does.                                   *)
Taken ==
    /\ status = "RECORDING" /\ queue[Recorder] # <<>>
    /\ queue' = [queue EXCEPT ![Recorder] = Tail(queue[Recorder])]
    /\ taken' =
          [taken EXCEPT ![Recorder] = Append(taken[Recorder], Head(queue[Recorder]))]
    /\ UNCHANGED <<now, publishVars, heapVars, life, emitVars, subs, closes,
                   dropped, start, sawDrop>>
WriteAll ==
    /\ Taken
    /\ written' = written \o Head(queue[Recorder])
    /\ UNCHANGED <<status, cancelled>>
WriteFull ==
    /\ Taken
    /\ SessionLimit - Len(written) <= Len(Head(queue[Recorder]))
    /\ written' = written \o SubSeq(Head(queue[Recorder]), 1, SessionLimit - Len(written))
    /\ Complete("TRUNCATED")
WriteBreaks ==
    /\ Taken
    /\ \E k \in 0..(Len(Head(queue[Recorder])) - 1) :
          written' = written \o SubSeq(Head(queue[Recorder]), 1, k)
    /\ Complete("FAILED")

(* A step is one of the actions, those with several outcomes told apart.   *)
LEMMA StepCases ==
  ASSUME Next
  PROVE  \/ Tick \/ RunWake \/ RunLock \/ PopPacket \/ SendBatch \/ EmitDone
         \/ \E n \in Nodes : PublishLookup(n) \/ PublishPush(n)
         \/ \E s \in Subscribers :
               Subscribe(s) \/ Cancel(s) \/ RemoveSubscriber(s) \/ Receive(s)
         \/ CloseBegin \/ CloseFlush \/ CloseFinish
         \/ WriteAll \/ WriteFull \/ WriteBreaks
         \/ RecorderSeesDrop \/ RecorderEnd \/ RecorderInterrupted \/ RecorderFails
<1>1. ASSUME RecorderWrite PROVE WriteAll \/ WriteFull \/ WriteBreaks
  BY <1>1 DEF RecorderWrite, Taken, WriteAll, WriteFull, WriteBreaks
<1>2. QED
  BY <1>1 DEF Next, Emit, Close, RecorderStep

(* A step feeds a node's batches one by one.                               *)
LEMMA FeedStep ==
  ASSUME Types, FeedTypes, Next
  PROVE  FeedTypes'
<1>1. ASSUME
             \/ (\E s \in Subscribers : Subscribe(s))
             \/ (\E s \in Subscribers : Cancel(s))
             \/ (\E s \in Subscribers : RemoveSubscriber(s))
             \/ (\E s \in Subscribers : Receive(s)) \/ Tick \/ RunWake
             \/ RunLock \/ PopPacket \/ SendBatch \/ EmitDone \/ CloseBegin
             \/ CloseFlush \/ CloseFinish \/ WriteAll \/ WriteFull
             \/ WriteBreaks \/ RecorderSeesDrop \/ RecorderEnd
             \/ RecorderInterrupted \/ RecorderFails
      PROVE  FeedTypes'
  <2>1. UNCHANGED <<fed, looked>>
    BY <1>1 DEF Subscribe, Cancel, RemoveSubscriber, Receive, Tick, RunWake,
       RunLock, PopPacket, SendBatch, EmitDone, CloseBegin, CloseFlush,
       CloseFinish, WriteAll, Taken, WriteFull, Complete, WriteBreaks,
       RecorderSeesDrop, RecorderEnd, RecorderInterrupted, RecorderFails,
       publishVars, heapVars, emitVars, subVars, consumerVars, recorderVars
  <2>2. QED
    BY <2>1 DEF FeedTypes
<1>2. ASSUME NEW n \in Nodes, PublishLookup(n) PROVE FeedTypes'
  <2>1. fed[n] \in Nat /\ Len(Feed[n]) \in Nat
    BY FeedAssumption DEF Types, TypeOK
  <2>2. fed'[n] = fed[n] + 1 /\ fed[n] < Len(Feed[n])
    BY <1>2 DEF PublishLookup, Types, TypeOK
  <2>3. \A m \in Nodes : m # n => fed'[m] = fed[m] /\ (m \in looked' => m \in looked)
    BY <1>2 DEF PublishLookup, Types, TypeOK
  <2>4. QED
    BY <2>1, <2>2, <2>3 DEF FeedTypes
<1>3. ASSUME NEW n \in Nodes, PublishPush(n) PROVE FeedTypes'
  BY <1>3 DEF PublishPush, FeedTypes, publishVars
<1>4. QED
  BY <1>1, <1>2, <1>3, StepCases

(* What a Publish hands over is a set of packets.                          *)
LEMMA Arrived ==
  ASSUME Types, NEW n \in Nodes, PublishPush(n)
  PROVE  Feed[n][fed[n]] \subseteq Packets
<1>1. Feed[n] \in Seq(SUBSET Packets) /\ fed[n] \in Nat
  BY FeedAssumption DEF Types, TypeOK
<1>2. fed[n] \in 1..Len(Feed[n])
  BY <1>1 DEF PublishPush, Types, FeedTypes
<1>3. QED
  BY <1>1, <1>2, ElementOfSeq

(* A first part of a batch consists of packets.                            *)
LEMMA Prefix ==
  ASSUME NEW b \in Seq(Packets), NEW k \in Int, k <= Len(b)
  PROVE  SubSeq(b, 1, k) \in Seq(Packets)
<1>1. \A i \in 1..k : b[i] \in Packets
  BY ElementOfSeq, LenProperties
<1>2. QED
  BY <1>1, SubSeqProperties

(* A step keeps the types.                                                 *)
LEMMA TypeStep ==
  ASSUME Types, Next
  PROVE  TypeOK'
<1> USE DEF Types, TypeOK
<1>1. ASSUME NEW n \in Nodes, PublishLookup(n) PROVE TypeOK'
  BY <1>1 DEF PublishLookup, publishVars, heapVars, emitVars, subVars,
     consumerVars, recorderVars
<1>2. ASSUME NEW n \in Nodes, PublishPush(n) PROVE TypeOK'
  <2>1. Feed[n][fed[n]] \subseteq Packets
    BY <1>2, Arrived
  <2>2. QED
    BY <1>2, <2>1 DEF PublishPush, publishVars, heapVars, emitVars, subVars,
       consumerVars, recorderVars
<1>3. ASSUME NEW s \in Subscribers, Subscribe(s) PROVE TypeOK'
  BY <1>3 DEF Subscribe, publishVars, heapVars, emitVars, subVars,
     consumerVars, recorderVars
<1>4. ASSUME NEW s \in Subscribers, Cancel(s) PROVE TypeOK'
  BY <1>4 DEF Cancel, publishVars, heapVars, emitVars, subVars, consumerVars,
     recorderVars
<1>5. ASSUME NEW s \in Subscribers, RemoveSubscriber(s) PROVE TypeOK'
  BY <1>5 DEF RemoveSubscriber, publishVars, heapVars, emitVars, subVars,
     consumerVars, recorderVars
<1>6. ASSUME NEW s \in Subscribers, Receive(s) PROVE TypeOK'
  BY <1>6 DEF Receive, publishVars, heapVars, emitVars, subVars,
     consumerVars, recorderVars
<1>7. ASSUME Tick PROVE TypeOK'
  BY <1>7 DEF Tick, publishVars, heapVars, emitVars, subVars, consumerVars,
     recorderVars
<1>8. ASSUME RunWake PROVE TypeOK'
  BY <1>8 DEF RunWake, publishVars, heapVars, emitVars, subVars,
     consumerVars, recorderVars
<1>9. ASSUME RunLock PROVE TypeOK'
  BY <1>9 DEF RunLock, Unlocked, publishVars, heapVars, emitVars, subVars,
     consumerVars, recorderVars
<1>10. ASSUME PopPacket PROVE TypeOK'
  BY <1>10 DEF PopPacket, publishVars, heapVars, emitVars, subVars,
     consumerVars, recorderVars, Tops
<1>11. ASSUME SendBatch PROVE TypeOK'
  <2>1. log' \in Seq(Seq(Packets))
    BY <1>11 DEF SendBatch
  <2>2. queue' \in [Subscribers -> Seq(Seq(Packets))]
    BY <1>11 DEF SendBatch
  <2>3. closes' \in [Subscribers -> Nat]
    BY <1>11 DEF SendBatch
  <2>4. dropped' \subseteq LossAware /\ subs' \subseteq Subscribers
    BY <1>11 DEF SendBatch, Disconnected
  <2>5. QED
    BY <1>11, <2>1, <2>2, <2>3, <2>4 DEF SendBatch, publishVars, heapVars,
       emitVars, subVars, consumerVars, recorderVars
<1>12. ASSUME EmitDone PROVE TypeOK'
  BY <1>12 DEF EmitDone, publishVars, heapVars, emitVars, subVars,
     consumerVars, recorderVars
<1>13. ASSUME CloseBegin PROVE TypeOK'
  BY <1>13 DEF CloseBegin, publishVars, heapVars, emitVars, subVars,
     consumerVars, recorderVars
<1>14. ASSUME CloseFlush PROVE TypeOK'
  BY <1>14 DEF CloseFlush, publishVars, heapVars, emitVars, subVars,
     consumerVars, recorderVars
<1>15. ASSUME CloseFinish PROVE TypeOK'
  BY <1>15 DEF CloseFinish, publishVars, heapVars, emitVars, subVars,
     consumerVars, recorderVars
<1>16. ASSUME WriteAll PROVE TypeOK'
  <2>1. Head(queue[Recorder]) \in Seq(Packets)
        /\ Tail(queue[Recorder]) \in Seq(Seq(Packets))
    BY <1>16, SubscriberAssumption, HeadTailProperties DEF WriteAll, Taken,
       Types, TypeOK
  <2>2. written' \in Seq(Packets)
    BY <1>16, <2>1, ConcatProperties DEF WriteAll, Types, TypeOK
  <2>3. /\ queue' \in [Subscribers -> Seq(Seq(Packets))]
        /\ taken' \in [Subscribers -> Seq(Seq(Packets))]
    <3>1. queue' \in [Subscribers -> Seq(Seq(Packets))]
      BY <1>16, <2>1, SubscriberAssumption DEF WriteAll, Taken, Types, TypeOK
    <3>2. Append(taken[Recorder], Head(queue[Recorder])) \in Seq(Seq(Packets))
      BY <2>1, SubscriberAssumption, AppendProperties DEF Types, TypeOK
    <3>3. taken' \in [Subscribers -> Seq(Seq(Packets))]
      BY <1>16, <3>2, SubscriberAssumption DEF WriteAll, Taken, Types, TypeOK
    <3>4. QED
      BY <3>1, <3>3
  <2>4. status' \in Statuses /\ cancelled' \subseteq Subscribers
    BY <1>16, SubscriberAssumption DEF WriteAll, Complete, Types, TypeOK, Statuses
  <2>5. QED
    BY <1>16, <2>2, <2>3, <2>4 DEF WriteAll, Taken, Types, TypeOK, publishVars,
       heapVars, emitVars
<1>17. ASSUME WriteFull PROVE TypeOK'
  <2>1. Head(queue[Recorder]) \in Seq(Packets)
        /\ Tail(queue[Recorder]) \in Seq(Seq(Packets))
    BY <1>17, SubscriberAssumption, HeadTailProperties DEF WriteFull, Taken,
       Types, TypeOK
  <2>2. written' \in Seq(Packets)
    <3>1. SessionLimit - Len(written) \in Int
      BY BoundAssumption DEF Types, TypeOK
    <3>2. SubSeq(Head(queue[Recorder]), 1, SessionLimit - Len(written)) \in Seq(Packets)
      BY <1>17, <2>1, <3>1, Prefix DEF WriteFull
    <3>3. QED
      BY <1>17, <3>2, ConcatProperties DEF WriteFull, Types, TypeOK
  <2>3. /\ queue' \in [Subscribers -> Seq(Seq(Packets))]
        /\ taken' \in [Subscribers -> Seq(Seq(Packets))]
    <3>1. queue' \in [Subscribers -> Seq(Seq(Packets))]
      BY <1>17, <2>1, SubscriberAssumption DEF WriteFull, Taken, Types, TypeOK
    <3>2. Append(taken[Recorder], Head(queue[Recorder])) \in Seq(Seq(Packets))
      BY <2>1, SubscriberAssumption, AppendProperties DEF Types, TypeOK
    <3>3. taken' \in [Subscribers -> Seq(Seq(Packets))]
      BY <1>17, <3>2, SubscriberAssumption DEF WriteFull, Taken, Types, TypeOK
    <3>4. QED
      BY <3>1, <3>3
  <2>4. status' \in Statuses /\ cancelled' \subseteq Subscribers
    BY <1>17, SubscriberAssumption DEF WriteFull, Complete, Types, TypeOK, Statuses
  <2>5. QED
    BY <1>17, <2>2, <2>3, <2>4 DEF WriteFull, Taken, Types, TypeOK, publishVars,
       heapVars, emitVars
<1>18. ASSUME WriteBreaks PROVE TypeOK'
  <2>1. Head(queue[Recorder]) \in Seq(Packets)
        /\ Tail(queue[Recorder]) \in Seq(Seq(Packets))
    BY <1>18, SubscriberAssumption, HeadTailProperties DEF WriteBreaks, Taken,
       Types, TypeOK
  <2>2. written' \in Seq(Packets)
    <3>1. PICK k \in 0..(Len(Head(queue[Recorder])) - 1) :
             written' = written \o SubSeq(Head(queue[Recorder]), 1, k)
      BY <1>18 DEF WriteBreaks
    <3>2. SubSeq(Head(queue[Recorder]), 1, k) \in Seq(Packets)
      BY <2>1, Prefix
    <3>3. QED
      BY <3>1, <3>2, ConcatProperties DEF Types, TypeOK
  <2>3. /\ queue' \in [Subscribers -> Seq(Seq(Packets))]
        /\ taken' \in [Subscribers -> Seq(Seq(Packets))]
    <3>1. queue' \in [Subscribers -> Seq(Seq(Packets))]
      BY <1>18, <2>1, SubscriberAssumption DEF WriteBreaks, Taken, Types, TypeOK
    <3>2. Append(taken[Recorder], Head(queue[Recorder])) \in Seq(Seq(Packets))
      BY <2>1, SubscriberAssumption, AppendProperties DEF Types, TypeOK
    <3>3. taken' \in [Subscribers -> Seq(Seq(Packets))]
      BY <1>18, <3>2, SubscriberAssumption DEF WriteBreaks, Taken, Types, TypeOK
    <3>4. QED
      BY <3>1, <3>3
  <2>4. status' \in Statuses /\ cancelled' \subseteq Subscribers
    BY <1>18, SubscriberAssumption DEF WriteBreaks, Complete, Types, TypeOK, Statuses
  <2>5. QED
    BY <1>18, <2>2, <2>3, <2>4 DEF WriteBreaks, Taken, Types, TypeOK,
       publishVars, heapVars, emitVars
<1>19. ASSUME RecorderSeesDrop PROVE TypeOK'
  BY <1>19 DEF RecorderSeesDrop, publishVars, heapVars, emitVars, subVars,
     consumerVars, recorderVars
<1>20. ASSUME RecorderEnd PROVE TypeOK'
  BY <1>20, SubscriberAssumption DEF RecorderEnd, Complete, OutcomeAtEnd,
     Statuses, publishVars, heapVars, emitVars, subVars, consumerVars,
     recorderVars
<1>21. ASSUME RecorderInterrupted PROVE TypeOK'
  BY <1>21, SubscriberAssumption DEF RecorderInterrupted, Complete, Statuses,
     publishVars, heapVars, emitVars, subVars, consumerVars, recorderVars
<1>22. ASSUME RecorderFails PROVE TypeOK'
  BY <1>22, SubscriberAssumption DEF RecorderFails, Complete, Statuses,
     publishVars, heapVars, emitVars, subVars, consumerVars, recorderVars
<1>23. QED
  BY <1>1, <1>2, <1>3, <1>4, <1>5, <1>6, <1>7, <1>8, <1>9, <1>10, <1>11,
     <1>12, <1>13, <1>14, <1>15, <1>16, <1>17, <1>18, <1>19, <1>20, <1>21,
     <1>22, StepCases

(* A step closes a channel at most once, of a subscriber, which it         *)
(* removes.                                                                *)
LEMMA ChannelStep ==
  ASSUME Types, ChannelInv, Next
  PROVE  ChannelInv'
<1> USE DEF Types, TypeOK, ChannelInv
<1>1. ASSUME
             \/ Tick \/ (\E n \in Nodes : PublishLookup(n))
             \/ (\E n \in Nodes : PublishPush(n)) \/ RunWake \/ PopPacket
             \/ (\E s \in Subscribers : Cancel(s)) \/ RecorderSeesDrop
             \/ RecorderEnd \/ RecorderInterrupted \/ RecorderFails
      PROVE  ChannelInv'
  <2>1. UNCHANGED <<closes, subs, start, taken, queue, life, holder>>
    BY <1>1 DEF Tick, PublishLookup, PublishPush, RunWake, PopPacket, Cancel,
       RecorderSeesDrop, RecorderEnd, Complete, RecorderInterrupted,
       RecorderFails, publishVars, heapVars, emitVars, subVars, consumerVars,
       recorderVars
  <2>2. QED
    BY <2>1 DEF ChannelInv
<1>2. ASSUME NEW s \in Subscribers, Subscribe(s) PROVE ChannelInv'
  BY <1>2 DEF Subscribe, publishVars, heapVars, emitVars, subVars,
     consumerVars, recorderVars, Unlocked
<1>3. ASSUME NEW s \in Subscribers, RemoveSubscriber(s) PROVE ChannelInv'
  BY <1>3 DEF RemoveSubscriber, publishVars, heapVars, emitVars, subVars,
     consumerVars, recorderVars, Unlocked
<1>4. ASSUME NEW s \in Subscribers, Receive(s) PROVE ChannelInv'
  <2>1. start[s] # -1
    BY <1>4 DEF Receive
  <2>2. QED
    BY <1>4, <2>1 DEF Receive, emitVars
<1>5. ASSUME RunLock PROVE ChannelInv'
  BY <1>5 DEF RunLock, Unlocked, publishVars, heapVars, emitVars, subVars,
     consumerVars, recorderVars, Unlocked
<1>6. ASSUME SendBatch PROVE ChannelInv'
  <2>1. ASSUME NEW s \in Subscribers PROVE
           /\ closes'[s] <= 1
           /\ s \in subs' => closes'[s] = 0 /\ start[s] # -1
           /\ start[s] = -1 => closes'[s] = 0 /\ queue'[s] = <<>>
    BY <1>6 DEF SendBatch, Disconnected, Full
  <2>2. QED
    BY <1>6, <2>1 DEF SendBatch, consumerVars
<1>7. ASSUME EmitDone PROVE ChannelInv'
  BY <1>7 DEF EmitDone, publishVars, heapVars, emitVars, subVars,
     consumerVars, recorderVars, Unlocked
<1>8. ASSUME CloseBegin PROVE ChannelInv'
  BY <1>8 DEF CloseBegin, publishVars, heapVars, emitVars, subVars,
     consumerVars, recorderVars, Unlocked
<1>9. ASSUME CloseFlush PROVE ChannelInv'
  BY <1>9 DEF CloseFlush, publishVars, heapVars, emitVars, subVars,
     consumerVars, recorderVars, Unlocked
<1>10. ASSUME CloseFinish PROVE ChannelInv'
  BY <1>10 DEF CloseFinish, publishVars, heapVars, emitVars, subVars,
     consumerVars, recorderVars, Unlocked
<1>11. ASSUME WriteAll \/ WriteFull \/ WriteBreaks
      PROVE  ChannelInv'
  <2>1. start[Recorder] # -1 /\ Recorder \in Subscribers
    BY <1>11, SubscriberAssumption DEF WriteAll, WriteFull, WriteBreaks, Taken
  <2>2. \A s \in Subscribers : s # Recorder => taken'[s] = taken[s]
        /\ queue'[s] = queue[s]
    BY <1>11 DEF WriteAll, WriteFull, WriteBreaks, Taken
  <2>3. UNCHANGED <<closes, subs, start, life, holder>>
    BY <1>11 DEF WriteAll, WriteFull, WriteBreaks, Taken, emitVars
  <2>4. QED
    BY <2>1, <2>2, <2>3
<1>12. QED
  BY <1>1, <1>2, <1>3, <1>4, <1>5, <1>6, <1>7, <1>8, <1>9, <1>10, <1>11,
     StepCases

(* Receiving the next batch leaves what is received and queued unbroken.   *)
LEMMA NextBatch ==
  ASSUME NEW S, NEW t \in Seq(S), NEW q \in Seq(S), q # <<>>
  PROVE  /\ Len(Append(t, Head(q))) = Len(t) + 1 /\ Len(Tail(q)) = Len(q) - 1
         /\ Len(q) \in Nat \ {0} /\ Len(t) \in Nat
         /\ \A i \in 1..Len(t) : Append(t, Head(q))[i] = t[i]
         /\ Append(t, Head(q))[Len(t) + 1] = q[1]
         /\ \A i \in 1..(Len(q) - 1) : Tail(q)[i] = q[i + 1]
<1>1. Head(q) \in S /\ Head(q) = q[1]
  BY HeadTailProperties
<1>2. QED
  BY <1>1, AppendProperties, HeadTailProperties, EmptySeq, LenProperties

(* One batch more received is one less queued.                             *)
LEMMA Shift ==
  ASSUME NEW a \in Nat, NEW b \in Nat, NEW c \in Nat \ {0}
  PROVE  a + (b + 1) + (c - 1) = a + b + c /\ a + (b + 1) = a + b + 1
OBVIOUS

(* A position in a part of a sequence is one in the sequence.              *)
LEMMA Within ==
  ASSUME NEW a \in Nat, NEW b \in Nat, NEW c \in Nat, NEW n \in Nat,
         a + b + c <= n, NEW i \in 1..b
  PROVE  a + i \in 1..n
OBVIOUS

(* Receive and RecorderWrite take the next batch.                          *)
LEMMA TakenKeepsWhole ==
  ASSUME Types, NEW s \in Subscribers, start[s] # -1, Unbroken(s), queue[s] # <<>>,
         UNCHANGED <<log, start, subs>>, queue'[s] = Tail(queue[s]),
         taken'[s] = Append(taken[s], Head(queue[s]))
  PROVE  Unbroken(s)'
<1> DEFINE t == taken[s]
           q == queue[s]
           tt == taken'[s]
           qq == queue'[s]
<1>1. /\ Len(tt) = Len(t) + 1 /\ Len(qq) = Len(q) - 1
      /\ Len(q) \in Nat \ {0} /\ Len(t) \in Nat
      /\ \A i \in 1..Len(t) : tt[i] = t[i]
      /\ tt[Len(t) + 1] = q[1]
      /\ \A i \in 1..(Len(q) - 1) : qq[i] = q[i + 1]
  BY NextBatch DEF Types, TypeOK
<1>2. start[s] \in Nat /\ Len(log) \in Nat
  BY LenProperties DEF Types, TypeOK
<1>3. /\ start[s] + Len(t) + Len(q) <= Len(log)
      /\ \A i \in 1..Len(t) : t[i] = log[start[s] + i]
      /\ \A i \in 1..Len(q) : q[i] = log[start[s] + Len(t) + i]
      /\ s \in subs => start[s] + Len(t) + Len(q) = Len(log)
  BY DEF Unbroken, Has
<1> HIDE DEF t, q, tt, qq
<1>0. /\ Len(tt) = Len(t) + 1 /\ Len(qq) = Len(q) - 1
      /\ Len(q) \in Nat \ {0} /\ Len(t) \in Nat /\ start[s] \in Nat
  BY <1>1, <1>2
<1>4. start[s] + Len(tt) + Len(qq) = start[s] + Len(t) + Len(q)
  <2>1. start[s] + (Len(t) + 1) + (Len(q) - 1) = start[s] + Len(t) + Len(q)
    BY <1>0, Shift
  <2>2. QED
    BY <1>0, <2>1, Zenon
<1>5. ASSUME NEW i \in 1..Len(tt) PROVE tt[i] = log[start[s] + i]
  <2>1. CASE i \in 1..Len(t)
    BY <1>1, <1>3, <2>1
  <2>2. CASE i = Len(t) + 1
    <3>1. q[1] = log[start[s] + Len(t) + 1]
      BY <1>1, <1>3
    <3>2. start[s] + i = start[s] + Len(t) + 1
      BY <1>0, <2>2, Shift
    <3>3. QED
      BY <1>1, <2>2, <3>1, <3>2
  <2>3. QED
    BY <1>1, <2>1, <2>2
<1>6. ASSUME NEW i \in 1..Len(qq) PROVE qq[i] = log[start[s] + Len(tt) + i]
  <2>1. i \in 1..(Len(q) - 1) /\ i + 1 \in 1..Len(q)
    BY <1>1
  <2>2. start[s] + Len(t) + (i + 1) = start[s] + Len(tt) + i
    BY <1>1, <1>2, <2>1
  <2>3. qq[i] = q[i + 1] /\ q[i + 1] = log[start[s] + Len(t) + (i + 1)]
    BY <1>1, <1>3, <2>1
  <2>4. QED
    BY <2>2, <2>3
<1>7. QED
  BY <1>3, <1>4, <1>5, <1>6 DEF Unbroken, Has, tt, qq

(* One subscriber takes a batch and the others are not concerned.          *)
LEMMA OthersKeepWhole ==
  ASSUME Types, ChannelInv, HoleInv, NEW c \in Subscribers, queue[c] # <<>>,
         queue' = [queue EXCEPT ![c] = Tail(queue[c])],
         taken' = [taken EXCEPT ![c] = Append(taken[c], Head(queue[c]))],
         UNCHANGED <<log, start, subs>>
  PROVE  HoleInv'
<1> SUFFICES ASSUME NEW s \in LossAware, start[s] # -1 PROVE Unbroken(s)'
  BY DEF HoleInv
<1>1. s \in Subscribers /\ Unbroken(s)
  BY SubscriberAssumption DEF HoleInv
<1>2. CASE s = c
  <2>1. queue'[s] = Tail(queue[s]) /\ taken'[s] = Append(taken[s], Head(queue[s]))
    BY <1>2 DEF Types, TypeOK
  <2>2. QED
    BY <1>1, <1>2, <2>1, TakenKeepsWhole
<1>3. CASE s # c
  <2>1. queue'[s] = queue[s] /\ taken'[s] = taken[s]
    BY <1>3, <1>1 DEF Types, TypeOK
  <2>2. QED
    BY <1>1, <2>1 DEF Unbroken, Has
<1>4. QED
  BY <1>2, <1>3

(* A step keeps what a loss-aware subscriber has unbroken: it misses a     *)
(* batch only when it is removed.                                          *)
LEMMA HoleStep ==
  ASSUME Types, ChannelInv, HoleInv, Next
  PROVE  HoleInv'
<1>1. ASSUME
             \/ (\E n \in Nodes : PublishLookup(n))
             \/ (\E n \in Nodes : PublishPush(n))
             \/ (\E s \in Subscribers : Cancel(s)) \/ Tick \/ RunWake
             \/ RunLock \/ PopPacket \/ EmitDone \/ CloseBegin \/ CloseFlush
             \/ RecorderSeesDrop \/ RecorderEnd \/ RecorderInterrupted
             \/ RecorderFails
      PROVE  HoleInv'
  <2>1. UNCHANGED <<log, start, subs, taken, queue>>
    BY <1>1 DEF PublishLookup, PublishPush, Cancel, Tick, RunWake, RunLock,
       PopPacket, EmitDone, CloseBegin, CloseFlush, RecorderSeesDrop,
       RecorderEnd, Complete, RecorderInterrupted, RecorderFails,
       publishVars, heapVars, emitVars, subVars, consumerVars, recorderVars
  <2>2. QED
    BY <2>1 DEF HoleInv, Unbroken, Has
<1>2. ASSUME NEW s \in Subscribers, Subscribe(s) PROVE HoleInv'
  <2>1. UNCHANGED <<log, taken, queue>>
        /\ start[s] = -1 /\ start' = [start EXCEPT ![s] = Len(log)]
        /\ subs' = subs \cup {s}
    BY <1>2 DEF Subscribe, emitVars
  <2> SUFFICES ASSUME NEW c \in LossAware, start'[c] # -1 PROVE Unbroken(c)'
    BY DEF HoleInv
  <2>2. c \in Subscribers
    BY SubscriberAssumption
  <2>3. CASE c = s
    <3>1. taken'[c] = <<>> /\ queue'[c] = <<>> /\ start'[c] = Len(log)
      BY <2>1, <2>2, <2>3 DEF ChannelInv, Types, TypeOK
    <3>2. Len(taken'[c]) = 0 /\ Len(queue'[c]) = 0 /\ Len(log) \in Nat
      BY <3>1, EmptySeq, LenProperties DEF Types, TypeOK
    <3>3. QED
      BY <2>1, <3>1, <3>2 DEF Unbroken, Has
  <2>4. CASE c # s
    <3>1. start'[c] = start[c] /\ (c \in subs' => c \in subs)
      BY <2>1, <2>2, <2>4 DEF Types, TypeOK
    <3>2. Unbroken(c)
      BY <3>1 DEF HoleInv
    <3>3. QED
      BY <2>1, <3>1, <3>2 DEF Unbroken, Has
  <2>5. QED
    BY <2>3, <2>4
<1>3. ASSUME NEW s \in Subscribers, RemoveSubscriber(s) PROVE HoleInv'
  <2>1. UNCHANGED <<log, start, taken, queue>> /\ subs' \subseteq subs
    BY <1>3 DEF RemoveSubscriber, emitVars, consumerVars
  <2>2. QED
    BY <2>1 DEF HoleInv, Unbroken, Has
<1>4. ASSUME NEW s \in Subscribers, Receive(s) PROVE HoleInv'
  <2>1. queue[s] # <<>> /\ queue' = [queue EXCEPT ![s] = Tail(queue[s])]
        /\ taken' = [taken EXCEPT ![s] = Append(taken[s], Head(queue[s]))]
        /\ UNCHANGED <<log, start, subs>>
    BY <1>4 DEF Receive, Taken, emitVars
  <2>2. QED
    BY <2>1, OthersKeepWhole
<1>5. ASSUME SendBatch PROVE HoleInv'
  <2> SUFFICES ASSUME NEW s \in LossAware, start[s] # -1 PROVE Unbroken(s)'
    BY <1>5 DEF HoleInv, SendBatch, consumerVars
  <2>1. s \in Subscribers /\ Unbroken(s)
    BY SubscriberAssumption DEF HoleInv
  <2> DEFINE q == queue[s]
  <2>2. q \in Seq(Seq(Packets)) /\ batch \in Seq(Packets) /\ log \in Seq(Seq(Packets))
        /\ start[s] \in Nat /\ Len(taken[s]) \in Nat
    BY <2>1, LenProperties DEF Types, TypeOK
  <2>3. /\ log' = Append(log, batch) /\ UNCHANGED <<taken, start>>
        /\ subs' = subs \ Disconnected
    BY <1>5 DEF SendBatch, consumerVars
  <2>4. /\ Len(log) \in Nat /\ Len(log') = Len(log) + 1 /\ log'[Len(log) + 1] = batch
        /\ \A i \in 1..Len(log) : log'[i] = log[i]
    BY <2>2, <2>3, AppendProperties, LenProperties
  <2>5. Len(q) \in Nat /\ Has(s) \in Nat /\ Has(s)' = Has(s)
    BY <2>2, <2>3, LenProperties DEF Has
  <2>6. /\ Has(s) + Len(q) <= Len(log)
        /\ \A i \in 1..Len(taken[s]) : taken[s][i] = log[start[s] + i]
        /\ \A i \in 1..Len(q) : q[i] = log[Has(s) + i]
        /\ s \in subs => Has(s) + Len(q) = Len(log)
    BY <2>1 DEF Unbroken
  <2>7. \A i \in 1..Len(taken[s]) : taken'[s][i] = log'[start'[s] + i]
    <3> SUFFICES ASSUME NEW i \in 1..Len(taken[s])
        PROVE  taken[s][i] = log'[start[s] + i]
      BY <2>3
    <3>1. start[s] + i \in 1..Len(log)
      <4>1. start[s] + Len(taken[s]) + Len(q) <= Len(log)
        BY <2>6 DEF Has
      <4> HIDE DEF q
      <4>2. Len(log) \in Nat
        BY <2>4
      <4>3. QED
        BY <2>2, <2>5, <4>1, <4>2, Within
    <3>2. QED
      BY <2>4, <2>6, <3>1
  <2>8. CASE s \in subs \ Full
    <3>1. queue'[s] = Append(q, batch) /\ s \in subs
      BY <1>5, <2>1, <2>8 DEF SendBatch
    <3>2. /\ Len(queue'[s]) = Len(q) + 1 /\ queue'[s][Len(q) + 1] = batch
          /\ \A i \in 1..Len(q) : queue'[s][i] = q[i]
      BY <2>2, <3>1, AppendProperties
    <3> HIDE DEF q
    <3>3. ASSUME NEW i \in 1..Len(queue'[s]) PROVE queue'[s][i] = log'[Has(s) + i]
      <4>1. CASE i = Len(q) + 1
        <5>1. Has(s) + i = Len(log) + 1
          BY <2>4, <2>5, <2>6, <3>1, <4>1
        <5>2. QED
          BY <2>4, <3>2, <4>1, <5>1
      <4>2. CASE i \in 1..Len(q)
        <5>1. Has(s) + i \in 1..Len(log)
          BY <2>4, <2>5, <2>6, <4>2
        <5>2. QED
          BY <2>4, <2>6, <3>2, <4>2, <5>1
      <4>3. QED
        BY <2>5, <3>2, <4>1, <4>2
    <3>4. Has(s) + Len(queue'[s]) = Len(log')
      BY <2>4, <2>5, <2>6, <3>1, <3>2
    <3>5. Has(s)' + Len(queue'[s]) <= Len(log')
      BY <2>4, <2>5, <3>4
    <3>6. QED
      BY <2>3, <2>5, <2>7, <3>3, <3>4, <3>5 DEF Unbroken
  <2>9. CASE s \notin subs \ Full
    <3>1. queue'[s] = q /\ s \notin subs'
      BY <1>5, <2>1, <2>3, <2>9 DEF SendBatch, Disconnected
    <3> HIDE DEF q
    <3>2. \A i \in 1..Len(q) : Has(s) + i \in 1..Len(log)
      BY <2>4, <2>5, <2>6
    <3>3. Has(s)' + Len(queue'[s]) <= Len(log')
      BY <2>4, <2>5, <2>6, <3>1
    <3>4. \A i \in 1..Len(queue'[s]) : queue'[s][i] = log'[Has(s)' + i]
      BY <2>4, <2>5, <2>6, <3>1, <3>2
    <3>5. QED
      BY <2>3, <2>7, <3>1, <3>3, <3>4 DEF Unbroken
  <2>10. QED
    BY <2>8, <2>9
<1>6. ASSUME CloseFinish PROVE HoleInv'
  <2>1. UNCHANGED <<log, start, taken, queue>> /\ subs' \subseteq subs
    BY <1>6 DEF CloseFinish, emitVars, consumerVars
  <2>2. QED
    BY <2>1 DEF HoleInv, Unbroken, Has
<1>7. ASSUME WriteAll \/ WriteFull \/ WriteBreaks
      PROVE  HoleInv'
  <2>1. queue[Recorder] # <<>>
        /\ queue' = [queue EXCEPT ![Recorder] = Tail(queue[Recorder])]
        /\ taken' =
              [taken EXCEPT ![Recorder] = Append(taken[Recorder], Head(queue[Recorder]))]
        /\ UNCHANGED <<log, start, subs>>
    BY <1>7 DEF WriteAll, WriteFull, WriteBreaks, Taken, emitVars
  <2>2. QED
    BY <2>1, SubscriberAssumption, OthersKeepWhole
<1>8. QED
  BY <1>1, <1>2, <1>3, <1>4, <1>5, <1>6, <1>7, StepCases

(* Packets of sequences that grow.                                         *)
LEMMA InAppended ==
  ASSUME NEW b \in Seq(Packets), NEW q \in Packets, NEW p
  PROVE  In(p, Append(b, q)) <=> In(p, b) \/ p = q
<1>1. /\ Len(b) \in Nat /\ Len(Append(b, q)) = Len(b) + 1
      /\ Append(b, q)[Len(b) + 1] = q
      /\ \A i \in 1..Len(b) : Append(b, q)[i] = b[i]
  BY AppendProperties, LenProperties
<1>2. \A i \in 1..(Len(b) + 1) : i \in 1..Len(b) \/ i = Len(b) + 1
  BY <1>1
<1>3. 1..Len(b) \subseteq 1..(Len(b) + 1) /\ Len(b) + 1 \in 1..(Len(b) + 1)
  BY <1>1
<1>4. QED
  BY <1>1, <1>2, <1>3 DEF In

LEMMA InSomeAppended ==
  ASSUME NEW bs \in Seq(Seq(Packets)), NEW b \in Seq(Packets), NEW p
  PROVE  InSome(p, Append(bs, b)) <=> InSome(p, bs) \/ In(p, b)
<1>1. /\ Len(bs) \in Nat /\ Len(Append(bs, b)) = Len(bs) + 1
      /\ Append(bs, b)[Len(bs) + 1] = b
      /\ \A i \in 1..Len(bs) : Append(bs, b)[i] = bs[i]
  BY AppendProperties, LenProperties
<1>2. \A i \in 1..(Len(bs) + 1) : i \in 1..Len(bs) \/ i = Len(bs) + 1
  BY <1>1
<1>3. 1..Len(bs) \subseteq 1..(Len(bs) + 1) /\ Len(bs) + 1 \in 1..(Len(bs) + 1)
  BY <1>1
<1>4. QED
  BY <1>1, <1>2, <1>3 DEF InSome

LEMMA InHeadOrTail ==
  ASSUME NEW bs \in Seq(Seq(Packets)), bs # <<>>, NEW p
  PROVE  InSome(p, bs) <=> In(p, Head(bs)) \/ InSome(p, Tail(bs))
<1>1. /\ Len(bs) \in Nat \ {0} /\ Head(bs) = bs[1] /\ Len(Tail(bs)) = Len(bs) - 1
      /\ \A i \in 1..(Len(bs) - 1) : Tail(bs)[i] = bs[i + 1]
  BY HeadTailProperties, EmptySeq, LenProperties
<1> DEFINE n == Len(bs)
<1>2. n \in Nat \ {0}
  BY <1>1
<1>3. ASSUME InSome(p, bs) PROVE In(p, Head(bs)) \/ InSome(p, Tail(bs))
  <2>1. PICK i \in 1..n : In(p, bs[i])
    BY <1>3 DEF InSome
  <2>2. CASE i = 1
    BY <1>1, <2>1, <2>2
  <2>3. CASE i # 1
    <3> HIDE DEF n
    <3>1. i - 1 \in 1..(n - 1) /\ (i - 1) + 1 = i
      BY <1>2, <2>3
    <3>2. QED
      BY <1>1, <2>1, <3>1 DEF InSome, n
  <2>4. QED
    BY <2>2, <2>3
<1>4. ASSUME In(p, Head(bs)) \/ InSome(p, Tail(bs)) PROVE InSome(p, bs)
  <2>1. CASE In(p, Head(bs))
    <3>1. 1 \in 1..n
      BY <1>2
    <3>2. QED
      BY <1>1, <2>1, <3>1 DEF InSome
  <2>2. CASE InSome(p, Tail(bs))
    <3>1. PICK i \in 1..(n - 1) : In(p, Tail(bs)[i])
      BY <1>1, <2>2 DEF InSome
    <3> HIDE DEF n
    <3>2. i + 1 \in 1..n
      BY <1>2
    <3>3. QED
      BY <1>1, <3>1, <3>2 DEF InSome, n
  <2>3. QED
    BY <1>4, <2>1, <2>2
<1>5. QED
  BY <1>3, <1>4

LEMMA InJoined ==
  ASSUME NEW b \in Seq(Packets), NEW c \in Seq(Packets), NEW p
  PROVE  In(p, b) \/ In(p, c) => In(p, b \o c)
<1>1. /\ Len(b) \in Nat /\ Len(c) \in Nat /\ Len(b \o c) = Len(b) + Len(c)
      /\ \A i \in 1..(Len(b) + Len(c)) :
            (b \o c)[i] = IF i <= Len(b) THEN b[i] ELSE c[i - Len(b)]
  BY ConcatProperties, LenProperties
<1>2. ASSUME NEW i \in 1..Len(b) PROVE i \in 1..Len(b \o c) /\ (b \o c)[i] = b[i]
  BY <1>1
<1>3. ASSUME NEW i \in 1..Len(c)
      PROVE  Len(b) + i \in 1..Len(b \o c) /\ (b \o c)[Len(b) + i] = c[i]
  <2>1. Len(b) + i \in 1..(Len(b) + Len(c)) /\ ~(Len(b) + i <= Len(b))
        /\ (Len(b) + i) - Len(b) = i
    BY <1>1
  <2>2. QED
    BY <1>1, <2>1
<1>4. QED
  BY <1>2, <1>3 DEF In

(* A step keeps the recorder subscribed and writing what it takes.         *)
LEMMA RecorderStepInv ==
  ASSUME Types, ChannelInv, RecorderInv, Next
  PROVE  RecorderInv'
<1>1. ASSUME
             \/ Tick \/ (\E n \in Nodes : PublishLookup(n))
             \/ (\E n \in Nodes : PublishPush(n)) \/ RunWake \/ RunLock
             \/ PopPacket \/ RecorderSeesDrop
      PROVE  RecorderInv'
  <2>1. UNCHANGED <<start, dropped, cancelled, life, subs, status, taken,
     written>>
    BY <1>1 DEF Tick, PublishLookup, PublishPush, RunWake, RunLock,
       PopPacket, RecorderSeesDrop, publishVars, heapVars, emitVars, subVars,
       consumerVars, recorderVars
  <2>2. QED
    BY <2>1 DEF RecorderInv, Undisturbed
<1>2. ASSUME NEW s \in Subscribers, Subscribe(s) PROVE RecorderInv'
  <2>1. UNCHANGED <<dropped, cancelled, life, status, taken, written>>
        /\ subs \subseteq subs'
    BY <1>2 DEF Subscribe, recorderVars
  <2>2. start'[Recorder] = 0
    BY <1>2, SubscriberAssumption DEF Subscribe, RecorderInv, Types, TypeOK
  <2>3. QED
    BY <2>1, <2>2 DEF RecorderInv, Undisturbed
<1>3. ASSUME NEW s \in Subscribers, Cancel(s) PROVE RecorderInv'
  BY <1>3 DEF Cancel, publishVars, heapVars, emitVars, subVars, consumerVars,
     recorderVars, RecorderInv, Undisturbed
<1>4. ASSUME NEW s \in Subscribers, RemoveSubscriber(s) PROVE RecorderInv'
  BY <1>4 DEF RemoveSubscriber, publishVars, heapVars, emitVars, subVars,
     consumerVars, recorderVars, RecorderInv, Undisturbed
<1>5. ASSUME NEW s \in Subscribers, Receive(s) PROVE RecorderInv'
  <2>1. UNCHANGED <<start, dropped, cancelled, life, subs, status, written>>
    BY <1>5 DEF Receive, recorderVars
  <2>2. taken'[Recorder] = taken[Recorder]
    BY <1>5, SubscriberAssumption DEF Receive, Types, TypeOK
  <2>3. QED
    BY <2>1, <2>2 DEF RecorderInv, Undisturbed
<1>6. ASSUME SendBatch PROVE RecorderInv'
  <2>1. UNCHANGED <<start, cancelled, life, status, taken, written>>
    BY <1>6 DEF SendBatch, consumerVars, recorderVars
  <2>2. Recorder \in subs => Recorder \in subs' \/ Recorder \in dropped'
    BY <1>6, SubscriberAssumption DEF SendBatch, Disconnected
  <2>3. dropped \subseteq dropped'
    BY <1>6 DEF SendBatch
  <2>4. QED
    BY <2>1, <2>2, <2>3 DEF RecorderInv, Undisturbed
<1>7. ASSUME EmitDone PROVE RecorderInv'
  <2>1. UNCHANGED <<start, dropped, cancelled, subs, status, taken, written>>
    BY <1>7 DEF EmitDone, subVars, consumerVars, recorderVars
  <2>2. life' # "closed" => life # "closed"
    BY <1>7 DEF EmitDone, ChannelInv
  <2>3. QED
    BY <2>1, <2>2 DEF RecorderInv, Undisturbed
<1>8. ASSUME CloseBegin PROVE RecorderInv'
  BY <1>8 DEF CloseBegin, publishVars, heapVars, emitVars, subVars,
     consumerVars, recorderVars, RecorderInv, Undisturbed
<1>9. ASSUME CloseFlush PROVE RecorderInv'
  BY <1>9 DEF CloseFlush, publishVars, heapVars, emitVars, subVars,
     consumerVars, recorderVars, RecorderInv, Undisturbed
<1>10. ASSUME CloseFinish PROVE RecorderInv'
  BY <1>10 DEF CloseFinish, publishVars, heapVars, emitVars, subVars,
     consumerVars, recorderVars, RecorderInv, Undisturbed
<1>11. ASSUME WriteAll PROVE RecorderInv'
  <2>1. UNCHANGED <<start, dropped, cancelled, life, subs, status>>
        /\ status = "RECORDING"
    BY <1>11 DEF WriteAll, Taken
  <2>2. /\ Head(queue[Recorder]) \in Seq(Packets)
        /\ taken[Recorder] \in Seq(Seq(Packets))
        /\ written \in Seq(Packets)
    BY <1>11, SubscriberAssumption, HeadTailProperties DEF WriteAll, Taken,
       Types, TypeOK
  <2>3. /\ taken'[Recorder] = Append(taken[Recorder], Head(queue[Recorder]))
        /\ written' = written \o Head(queue[Recorder])
    BY <1>11, SubscriberAssumption DEF WriteAll, Taken, Types, TypeOK
  <2>4. ASSUME NEW p \in Packets, InSome(p, taken'[Recorder]) PROVE In(p, written')
    <3>1. InSome(p, taken[Recorder]) \/ In(p, Head(queue[Recorder]))
      BY <2>2, <2>3, <2>4, InSomeAppended
    <3>2. In(p, written) \/ In(p, Head(queue[Recorder]))
      BY <2>1, <3>1 DEF RecorderInv
    <3>3. QED
      BY <2>2, <2>3, <3>2, InJoined
  <2>5. QED
    BY <2>1, <2>4 DEF RecorderInv, Undisturbed
<1>12. ASSUME WriteFull \/ WriteBreaks
      PROVE  RecorderInv'
  <2>1. status' # "RECORDING" /\ cancelled' = cancelled \cup {Recorder}
        /\ UNCHANGED <<start, dropped, life, subs>>
    BY <1>12 DEF WriteFull, WriteBreaks, Taken, Complete
  <2>2. QED
    BY <2>1 DEF RecorderInv, Undisturbed
<1>13. ASSUME RecorderEnd \/ RecorderInterrupted \/ RecorderFails
      PROVE  RecorderInv'
  <2>1. status' # "RECORDING" /\ cancelled' = cancelled \cup {Recorder}
        /\ UNCHANGED <<start, dropped, life, subs>>
    BY <1>13 DEF RecorderEnd, RecorderInterrupted, RecorderFails, OutcomeAtEnd,
       Complete, subVars, consumerVars
  <2>2. QED
    BY <2>1 DEF RecorderInv, Undisturbed
<1>14. QED
  BY <1>1, <1>2, <1>3, <1>4, <1>5, <1>6, <1>7, <1>8, <1>9, <1>10, <1>11,
     <1>12, <1>13, StepCases

(* What the recorder has when the pipeline is closed is all that was       *)
(* emitted.                                                                *)
LEMMA AllReceived ==
  ASSUME Types, HoleInv, RecorderInv, Recorder \in subs, NEW p, InSome(p, log)
  PROVE  InSome(p, taken[Recorder]) \/ InSome(p, queue[Recorder])
<1> DEFINE t == taken[Recorder]
           q == queue[Recorder]
<1>1. /\ start[Recorder] = 0 /\ Recorder \in LossAware /\ Recorder \in Subscribers
      /\ Len(t) \in Nat /\ Len(q) \in Nat /\ Len(log) \in Nat
  BY SubscriberAssumption, LenProperties DEF RecorderInv, Types, TypeOK
<1>2. Unbroken(Recorder)
  BY <1>1 DEF HoleInv
<1>3. /\ \A i \in 1..Len(t) : t[i] = log[0 + i]
      /\ \A i \in 1..Len(q) : q[i] = log[(0 + Len(t)) + i]
      /\ (0 + Len(t)) + Len(q) = Len(log)
  BY <1>1, <1>2 DEF Unbroken, Has
<1>4. PICK i \in 1..Len(log) : In(p, log[i])
  BY DEF InSome
<1> HIDE DEF t, q
<1>5. CASE i <= Len(t)
  <2>1. i \in 1..Len(t) /\ 0 + i = i
    BY <1>1, <1>5
  <2>2. QED
    BY <1>3, <1>4, <2>1 DEF InSome, t
<1>6. CASE ~(i <= Len(t))
  <2>1. i - Len(t) \in 1..Len(q) /\ (0 + Len(t)) + (i - Len(t)) = i
    BY <1>1, <1>3, <1>6
  <2>2. QED
    BY <1>3, <1>4, <2>1 DEF InSome, q
<1>7. QED
  BY <1>5, <1>6

(* A step keeps an early packet in the heap, in the batch or in the log,   *)
(* and at the end in what the recorder writes.                             *)
LEMMA WholeStep ==
  ASSUME Types, ChannelInv, HoleInv, RecorderInv, WholeInv, Next
  PROVE  WholeInv'
<1>1. ASSUME
             \/ Tick \/ (\E n \in Nodes : PublishLookup(n)) \/ RunWake
             \/ RunLock \/ RecorderSeesDrop
             \/ (\E s \in Subscribers : Subscribe(s)) \/ CloseFlush
      PROVE  WholeInv'
  <2>1. UNCHANGED <<heap, batch, log, life, acceptedIn, dropped, cancelled,
     taken, queue, status, written>>
    BY <1>1 DEF Tick, PublishLookup, RunWake, RunLock, RecorderSeesDrop,
       Subscribe, CloseFlush, publishVars, heapVars, emitVars, subVars,
       consumerVars, recorderVars
  <2>2. QED
    BY <2>1 DEF WholeInv, Early, In, InSome, Undisturbed
<1>2. ASSUME NEW n \in Nodes, PublishPush(n) PROVE WholeInv'
  <2>1. UNCHANGED <<batch, log, life, dropped, cancelled, taken, queue, status,
                    written>>
    BY <1>2 DEF PublishPush, emitVars, subVars, consumerVars, recorderVars
  <2>2. CASE life = "closed"
    <3>1. UNCHANGED <<heap, acceptedIn>>
      BY <1>2, <2>2 DEF PublishPush, heapVars
    <3>2. QED
      BY <2>1, <3>1 DEF WholeInv, Early, In, InSome, Undisturbed
  <2>3. CASE life # "closed"
    <3>1. heap \subseteq heap'
          /\ \A p \in Packets :
                \/ acceptedIn'[p] = acceptedIn[p]
                \/ acceptedIn'[p] = life /\ p \in heap'
      BY <1>2, <2>3 DEF PublishPush
    <3>2. \A p \in Packets : Early(p)' /\ ~Early(p) => p \in heap'
          /\ life \notin {"flushed", "closed"}
      BY <3>1 DEF Early
    <3>3. \A p : (In(p, batch)' <=> In(p, batch))
          /\ (InSome(p, log)' <=> InSome(p, log))
                 /\ (In(p, written)' <=> In(p, written))
      BY <2>1 DEF In, InSome
    <3>4. status # "COMPLETED"
      BY <2>3 DEF WholeInv
    <3>5. QED
      BY <2>1, <2>3, <3>1, <3>2, <3>3, <3>4 DEF WholeInv
  <2>4. QED
    BY <2>2, <2>3
<1>3. ASSUME NEW s \in Subscribers, Cancel(s) PROVE WholeInv'
  <2>1. UNCHANGED <<heap, batch, log, life, acceptedIn, dropped, taken, queue,
                    status, written>>
        /\ cancelled \subseteq cancelled'
    BY <1>3 DEF Cancel, heapVars, emitVars, subVars, consumerVars, recorderVars
  <2>2. QED
    BY <2>1 DEF WholeInv, Early, In, InSome, Undisturbed
<1>4. ASSUME NEW s \in Subscribers, RemoveSubscriber(s) PROVE WholeInv'
  <2>1. UNCHANGED <<heap, batch, log, life, acceptedIn, dropped, cancelled, taken,
                    queue, status, written>>
    BY <1>4 DEF RemoveSubscriber, heapVars, emitVars, consumerVars, recorderVars
  <2>2. QED
    BY <2>1 DEF WholeInv, Early, In, InSome, Undisturbed
<1>5. ASSUME NEW s \in Subscribers, Receive(s) PROVE WholeInv'
  <2>1. UNCHANGED <<heap, batch, log, life, acceptedIn, dropped, cancelled, status,
                    written>>
    BY <1>5 DEF Receive, heapVars, emitVars, recorderVars
  <2>2. taken'[Recorder] = taken[Recorder] /\ queue'[Recorder] = queue[Recorder]
    BY <1>5, SubscriberAssumption DEF Receive, Types, TypeOK
  <2>3. QED
    BY <2>1, <2>2 DEF WholeInv, Early, In, InSome, Undisturbed
<1>6. ASSUME PopPacket PROVE WholeInv'
  <2>1. UNCHANGED <<log, life, acceptedIn, dropped, cancelled, taken, queue, status,
                    written>>
    BY <1>6 DEF PopPacket, subVars, consumerVars, recorderVars
  <2>2. PICK p \in Tops : heap' = heap \ {p} /\ batch' = Append(batch, p)
    BY <1>6 DEF PopPacket
  <2>3. p \in Packets /\ batch \in Seq(Packets)
    BY DEF Tops, Types, TypeOK
  <2>4. \A q : In(q, batch') <=> In(q, batch) \/ q = p
    BY <2>2, <2>3, InAppended
  <2>5. \A q \in Packets : q \in heap \/ In(q, batch) => q \in heap' \/ In(q, batch')
    BY <2>2, <2>4
  <2>6. QED
    BY <2>1, <2>5 DEF WholeInv, Early, InSome, Undisturbed
<1>7. ASSUME SendBatch PROVE WholeInv'
  <2>1. UNCHANGED <<heap, life, acceptedIn, cancelled, taken, status, written>>
        /\ dropped \subseteq dropped'
    BY <1>7 DEF SendBatch, heapVars, consumerVars, recorderVars
  <2>2. log' = Append(log, batch) /\ log \in Seq(Seq(Packets)) /\ batch \in Seq(Packets)
    BY <1>7 DEF SendBatch, Types, TypeOK
  <2>3. \A p : InSome(p, log') <=> InSome(p, log) \/ In(p, batch)
    BY <2>2, InSomeAppended
  <2>4. life = "closed" => queue'[Recorder] = queue[Recorder]
    BY <1>7, SubscriberAssumption DEF SendBatch, ChannelInv, Types, TypeOK
  <2>5. \A p : Early(p)' <=> Early(p)
    BY <2>1 DEF Early
  <2>6. Undisturbed' => Undisturbed
    BY <2>1 DEF Undisturbed
  <2>7. \A p \in Packets : Early(p) => p \in heap \/ InSome(p, log')
    BY <2>3 DEF WholeInv
  <2>8. \A p : InSome(p, taken[Recorder])' <=> InSome(p, taken[Recorder])
    BY <2>1 DEF In, InSome
  <2>9. life = "closed" =>
           \A p : InSome(p, queue[Recorder])' <=> InSome(p, queue[Recorder])
    BY <2>4 DEF In, InSome
  <2>10. \A p : In(p, written)' <=> In(p, written)
    BY <2>1 DEF In
  <2>11. \A p : InSome(p, log)' <=> InSome(p, log) \/ In(p, batch)
    BY <2>3 DEF In, InSome
  <2>12. QED
    BY <2>1, <2>5, <2>6, <2>7, <2>8, <2>9, <2>10, <2>11 DEF WholeInv
<1>8. ASSUME EmitDone PROVE WholeInv'
  <2>1. UNCHANGED <<heap, batch, log, acceptedIn, dropped, cancelled, taken, queue,
                    status, written>>
        /\ batch = <<>>
    BY <1>8 DEF EmitDone, heapVars, subVars, consumerVars, recorderVars
  <2>2. CASE holder # "close"
    <3>1. life' = life
      BY <1>8, <2>2 DEF EmitDone
    <3>2. QED
      BY <2>1, <3>1 DEF WholeInv, Early, In, InSome, Undisturbed
  <2>3. CASE holder = "close"
    <3>1. life' = "flushed" /\ heap = {} /\ life = "closing"
      BY <1>8, <2>3 DEF EmitDone, Due, ChannelInv
    <3>2. \A p : ~In(p, batch)
      BY <2>1, EmptySeq DEF In
    <3>3. QED
      BY <2>1, <3>1, <3>2 DEF WholeInv, Early, InSome, Undisturbed, In
  <2>4. QED
    BY <2>2, <2>3
<1>9. ASSUME CloseBegin PROVE WholeInv'
  <2>1. UNCHANGED <<heap, batch, log, acceptedIn, dropped, cancelled, taken, queue,
                    status, written>>
        /\ life = "open" /\ life' = "closing"
    BY <1>9 DEF CloseBegin, heapVars, emitVars, subVars, consumerVars, recorderVars
  <2>2. QED
    BY <2>1 DEF WholeInv, Early, In, InSome, Undisturbed
<1>10. ASSUME CloseFinish PROVE WholeInv'
  <2>1. UNCHANGED <<heap, batch, log, acceptedIn, dropped, cancelled, taken, queue,
                    status, written>>
        /\ life = "flushed" /\ life' = "closed"
    BY <1>10 DEF CloseFinish, heapVars, emitVars, consumerVars, recorderVars
  <2>2. ASSUME Undisturbed, NEW p \in Packets, Early(p)
        PROVE  InSome(p, taken[Recorder]) \/ InSome(p, queue[Recorder])
    <3>1. Recorder \in subs
      BY <2>1, <2>2 DEF RecorderInv
    <3>2. InSome(p, log)
      BY <2>1, <2>2 DEF WholeInv
    <3>3. QED
      BY <3>1, <3>2, AllReceived
  <2>3. status # "COMPLETED"
    BY <2>1 DEF WholeInv
  <2>4. QED
    BY <2>1, <2>2, <2>3 DEF WholeInv, Early, In, InSome, Undisturbed
<1>11. ASSUME WriteAll \/ WriteFull \/ WriteBreaks
      PROVE  WholeInv'
  <2>1. /\ UNCHANGED <<heap, batch, log, life, acceptedIn, dropped>>
        /\ cancelled \subseteq cancelled'
        /\ status # "COMPLETED" /\ status' # "COMPLETED"
    BY <1>11 DEF WriteAll, WriteFull, WriteBreaks, Taken, Complete, heapVars, emitVars
  <2>2. /\ queue[Recorder] # <<>> /\ queue[Recorder] \in Seq(Seq(Packets))
        /\ taken[Recorder] \in Seq(Seq(Packets))
        /\ queue'[Recorder] = Tail(queue[Recorder])
        /\ taken'[Recorder] = Append(taken[Recorder], Head(queue[Recorder]))
    BY <1>11, SubscriberAssumption DEF WriteAll, WriteFull, WriteBreaks, Taken,
       Types, TypeOK
  <2>3. Head(queue[Recorder]) \in Seq(Packets)
    BY <2>2, HeadTailProperties
  <2>4. \A p \in Packets :
           InSome(p, taken[Recorder]) \/ InSome(p, queue[Recorder]) =>
              InSome(p, taken'[Recorder]) \/ InSome(p, queue'[Recorder])
    BY <2>2, <2>3, InSomeAppended, InHeadOrTail
  <2>5. Undisturbed' => Undisturbed
    BY <2>1 DEF Undisturbed
  <2>6. \A p : Early(p)' <=> Early(p)
    BY <2>1 DEF Early
  <2>7. \A p : (In(p, batch)' <=> In(p, batch)) /\ (InSome(p, log)' <=> InSome(p, log))
    BY <2>1 DEF In, InSome
  <2>8. QED
    BY <2>1, <2>4, <2>5, <2>6, <2>7 DEF WholeInv
<1>12. ASSUME RecorderEnd PROVE WholeInv'
  <2>1. UNCHANGED <<heap, batch, log, life, acceptedIn, dropped, taken, queue, written>>
        /\ cancelled \subseteq cancelled' /\ status = "RECORDING"
    BY <1>12 DEF RecorderEnd, Complete, heapVars, emitVars, subVars, consumerVars
  <2>2. ASSUME status' = "COMPLETED"
        PROVE  life = "closed" /\ \A p \in Packets : Early(p) => In(p, written)
    <3>1. Undisturbed /\ queue[Recorder] = <<>> /\ closes[Recorder] > 0
      BY <1>12, <2>2 DEF RecorderEnd, Complete, OutcomeAtEnd, Undisturbed
    <3>2. Recorder \notin subs
      BY <3>1, SubscriberAssumption DEF ChannelInv
    <3>3. life = "closed"
      BY <3>1, <3>2 DEF RecorderInv
    <3>4. \A p : ~InSome(p, queue[Recorder])
      BY <3>1, EmptySeq DEF InSome
    <3>5. QED
      BY <2>1, <3>1, <3>3, <3>4 DEF WholeInv, RecorderInv
  <2>3. Undisturbed' => Undisturbed
    BY <2>1 DEF Undisturbed
  <2>4. QED
    BY <2>1, <2>2, <2>3 DEF WholeInv, Early, In, InSome
<1>13. ASSUME RecorderInterrupted \/ RecorderFails
      PROVE  WholeInv'
  <2>1. UNCHANGED <<heap, batch, log, life, acceptedIn, dropped, taken, queue, written>>
        /\ cancelled \subseteq cancelled' /\ status' # "COMPLETED"
    BY <1>13 DEF RecorderInterrupted, RecorderFails, Complete, heapVars,
       emitVars, subVars, consumerVars
  <2>2. QED
    BY <2>1 DEF WholeInv, Early, In, InSome, Undisturbed
<1>14. QED
  BY <1>1, <1>2, <1>3, <1>4, <1>5, <1>6, <1>7, <1>8, <1>9, <1>10, <1>11,
     <1>12, <1>13, StepCases


(* The clock never goes back, and the packets that wait or were emitted    *)
(* before the flush were handled before it.                                *)
LEMMA Clocks ==
  ASSUME Types, ChannelInv, Next
  PROVE  /\ now \in Nat /\ now' \in Nat /\ now <= now'
         /\ Ordering' => Ordering
<1> USE DEF Types, TypeOK, Ordering
<1>1. ASSUME
             \/ (\E n \in Nodes : PublishLookup(n))
             \/ (\E n \in Nodes : PublishPush(n))
             \/ (\E s \in Subscribers : Subscribe(s))
             \/ (\E s \in Subscribers : Cancel(s))
             \/ (\E s \in Subscribers : RemoveSubscriber(s))
             \/ (\E s \in Subscribers : Receive(s)) \/ RunWake \/ PopPacket
             \/ SendBatch \/ WriteAll \/ WriteFull \/ WriteBreaks
             \/ RecorderSeesDrop \/ RecorderEnd \/ RecorderInterrupted
             \/ RecorderFails
      PROVE  now <= now' /\ (Ordering' => Ordering)
  <2>1. UNCHANGED <<now, life, holder>>
    BY <1>1 DEF PublishLookup, PublishPush, Subscribe, Cancel,
       RemoveSubscriber, Receive, RunWake, PopPacket, SendBatch, WriteAll,
       Taken, WriteFull, Complete, WriteBreaks, RecorderSeesDrop,
       RecorderEnd, RecorderInterrupted, RecorderFails, publishVars,
       heapVars, emitVars, subVars, consumerVars, recorderVars
  <2>2. QED
    BY <2>1
<1>2. ASSUME Tick PROVE now <= now' /\ (Ordering' => Ordering)
  BY <1>2 DEF Tick, publishVars, heapVars, emitVars, subVars, consumerVars,
     recorderVars, ChannelInv
<1>3. ASSUME RunLock PROVE now <= now' /\ (Ordering' => Ordering)
  BY <1>3 DEF RunLock, Unlocked, publishVars, heapVars, emitVars, subVars,
     consumerVars, recorderVars, ChannelInv
<1>4. ASSUME EmitDone PROVE now <= now' /\ (Ordering' => Ordering)
  BY <1>4 DEF EmitDone, publishVars, heapVars, emitVars, subVars,
     consumerVars, recorderVars, ChannelInv
<1>5. ASSUME CloseBegin PROVE now <= now' /\ (Ordering' => Ordering)
  BY <1>5 DEF CloseBegin, publishVars, heapVars, emitVars, subVars,
     consumerVars, recorderVars, ChannelInv
<1>6. ASSUME CloseFlush PROVE now <= now' /\ (Ordering' => Ordering)
  BY <1>6 DEF CloseFlush, publishVars, heapVars, emitVars, subVars,
     consumerVars, recorderVars, ChannelInv
<1>7. ASSUME CloseFinish PROVE now <= now' /\ (Ordering' => Ordering)
  BY <1>7 DEF CloseFinish, publishVars, heapVars, emitVars, subVars,
     consumerVars, recorderVars, ChannelInv
<1>8. now \in Nat /\ now' \in Nat
  BY TypeStep
<1>9. QED
  BY <1>8, <1>1, <1>2, <1>3, <1>4, <1>5, <1>6, <1>7, StepCases

(* A step reads the clock or lets time pass.                               *)
LEMMA ClockStep ==
  ASSUME Types, ClockInv, Next
  PROVE  ClockInv'
<1> USE DEF Types, TypeOK
<1>1. ASSUME
             \/ (\E n \in Nodes : PublishLookup(n))
             \/ (\E s \in Subscribers : Subscribe(s))
             \/ (\E s \in Subscribers : Cancel(s))
             \/ (\E s \in Subscribers : RemoveSubscriber(s))
             \/ (\E s \in Subscribers : Receive(s)) \/ PopPacket
             \/ SendBatch \/ CloseBegin \/ CloseFlush \/ CloseFinish
             \/ WriteAll \/ WriteFull \/ WriteBreaks \/ RecorderSeesDrop
             \/ RecorderEnd \/ RecorderInterrupted \/ RecorderFails
      PROVE  ClockInv'
  <2>1. UNCHANGED <<now, runNow, cut, recvAt>>
    BY <1>1 DEF PublishLookup, Subscribe, Cancel, RemoveSubscriber, Receive,
       PopPacket, SendBatch, CloseBegin, CloseFlush, CloseFinish, WriteAll,
       Taken, WriteFull, Complete, WriteBreaks, RecorderSeesDrop,
       RecorderEnd, RecorderInterrupted, RecorderFails, publishVars,
       heapVars, emitVars, subVars, consumerVars, recorderVars
  <2>2. QED
    BY <2>1 DEF ClockInv
<1>2. ASSUME NEW n \in Nodes, PublishPush(n) PROVE ClockInv'
  <2>1. UNCHANGED <<now, runNow, cut>>
    BY <1>2 DEF PublishPush, emitVars
  <2>2. \A p \in Packets : recvAt'[p] = recvAt[p] \/ recvAt'[p] = now
    BY <1>2 DEF PublishPush, heapVars
  <2>3. ASSUME NEW p \in Packets PROVE recvAt'[p] <= now
    <3>1. recvAt[p] <= now /\ now <= now
      BY DEF ClockInv
    <3>2. QED
      BY <2>2, <3>1
  <2>4. QED
    BY <2>1, <2>3 DEF ClockInv
<1>3. ASSUME Tick PROVE ClockInv'
  <2>1. now' = now + 1 /\ UNCHANGED <<runNow, cut, recvAt>>
    BY <1>3 DEF Tick, heapVars, emitVars
  <2>2. \A p \in Packets : recvAt[p] \in Int /\ recvAt[p] <= now
    BY DEF ClockInv
  <2>3. QED
    BY <2>1, <2>2 DEF ClockInv
<1>4. ASSUME RunWake PROVE ClockInv'
  BY <1>4 DEF RunWake, publishVars, heapVars, emitVars, subVars,
     consumerVars, recorderVars, ClockInv
<1>5. ASSUME RunLock PROVE ClockInv'
  BY <1>5 DEF RunLock, Unlocked, publishVars, heapVars, emitVars, subVars,
     consumerVars, recorderVars, ClockInv
<1>6. ASSUME EmitDone PROVE ClockInv'
  <2>1. UNCHANGED <<now, runNow, recvAt>> /\ cut' = 0
    BY <1>6 DEF EmitDone, heapVars
  <2>2. QED
    BY <2>1 DEF ClockInv
<1>7. QED
  BY <1>1, <1>2, <1>3, <1>4, <1>5, <1>6, StepCases

(* A packet that the window has passed is not older than one that arrives  *)
(* now, unless that one is late.                                           *)
LEMMA Later ==
  ASSUME NEW s \in Nat, NEW t \in Nat, NEW w \in Nat, NEW c \in Nat, s + w <= c
  PROVE  s <= t \/ c > t + w
OBVIOUS

(* A step keeps what leaves the heap in order.                             *)
LEMMA OrderStep ==
  ASSUME Types, FeedTypes, ChannelInv, ClockInv, OrderInv, Next
  PROVE  OrderInv'
<1> DEFINE All == HeapOrder /\ BatchOrder /\ NextOrder /\ LogOrder
<1> SUFFICES ASSUME Ordering, Ordering', All PROVE All'
  BY Clocks DEF OrderInv
<1>1. ASSUME
             \/ Tick \/ (\E n \in Nodes : PublishLookup(n)) \/ RunWake
             \/ RunLock \/ EmitDone \/ (\E s \in Subscribers : Subscribe(s))
             \/ (\E s \in Subscribers : Cancel(s))
             \/ (\E s \in Subscribers : RemoveSubscriber(s))
             \/ (\E s \in Subscribers : Receive(s)) \/ CloseBegin
             \/ CloseFlush \/ CloseFinish \/ WriteAll \/ WriteFull
             \/ WriteBreaks \/ RecorderSeesDrop \/ RecorderEnd
             \/ RecorderInterrupted \/ RecorderFails
      PROVE  All'
  <2>1. UNCHANGED <<heap, recvAt, batch, log>>
    BY <1>1 DEF Tick, PublishLookup, RunWake, RunLock, EmitDone, Subscribe,
       Cancel, RemoveSubscriber, Receive, CloseBegin, CloseFlush,
       CloseFinish, WriteAll, Taken, WriteFull, Complete, WriteBreaks,
       RecorderSeesDrop, RecorderEnd, RecorderInterrupted, RecorderFails,
       publishVars, heapVars, emitVars, subVars, consumerVars, recorderVars
  <2>2. \A p : Old(p) /\ p \in Packets => Old(p)'
    BY Clocks, PacketAssumption, BoundAssumption DEF Old
  <2>3. \A x, y : InOrder(x, y)' <=> InOrder(x, y)
    BY <2>1 DEF InOrder
  <2>4. \A p : (In(p, batch)' <=> In(p, batch)) /\ (InSome(p, log)' <=> InSome(p, log))
    BY <2>1 DEF In, InSome
  <2>5. HeapOrder' /\ NextOrder'
    BY <2>1, <2>2, <2>3, <2>4 DEF HeapOrder, NextOrder, Out
  <2>6. BatchOrder' /\ LogOrder'
    BY <2>1, <2>3 DEF BatchOrder, LogOrder
  <2>7. QED
    BY <2>5, <2>6
<1>2. ASSUME NEW n \in Nodes, PublishPush(n) PROVE All'
  <2>1. UNCHANGED <<now, batch, log>>
    BY <1>2 DEF PublishPush, emitVars
  <2>2. PICK arrived \in SUBSET Packets :
           /\ heap' = heap \cup arrived
           /\ \A p \in Packets :
                 recvAt'[p] = IF p \in arrived THEN now ELSE recvAt[p]
    <3>1. CASE life = "closed"
      <4>1. /\ heap' = heap \cup {}
            /\ \A p \in Packets : recvAt'[p] = IF p \in {} THEN now ELSE recvAt[p]
        BY <1>2, <3>1 DEF PublishPush, heapVars
      <4>2. {} \in SUBSET Packets
        OBVIOUS
      <4>3. QED
        BY <4>1, <4>2
    <3>2. CASE life # "closed"
      <4>1. Feed[n][fed[n]] \in SUBSET Packets
        BY <1>2, Arrived DEF PublishPush
      <4>2. /\ heap' = heap \cup Feed[n][fed[n]]
            /\ \A p \in Packets :
                  recvAt'[p] = IF p \in Feed[n][fed[n]] THEN now ELSE recvAt[p]
        BY <1>2, <3>2 DEF PublishPush
      <4>3. QED
        BY <4>1, <4>2
    <3>3. QED
      BY <3>1, <3>2
  <2>3. /\ Timestamp \in [Packets -> Nat] /\ Window \in Nat /\ now \in Nat
        /\ recvAt \in [Packets -> Int] /\ heap \subseteq Packets
        /\ batch \in Seq(Packets) /\ log \in Seq(Seq(Packets))
    BY PacketAssumption, BoundAssumption DEF Types, TypeOK
  <2>4. \A p : Out(p)' <=> Out(p)
    BY <2>1 DEF Out, In, InSome
  <2>5. ASSUME NEW p, NEW q \in Packets, InOrder(p, q), Timestamp[p] \in Nat
        PROVE  InOrder(p, q)'
    <3>1. recvAt[q] \in Int /\ recvAt'[q] \in Int /\ recvAt[q] <= recvAt'[q]
      <4>1. recvAt'[q] = now \/ recvAt'[q] = recvAt[q]
        BY <2>2
      <4>2. recvAt[q] \in Int /\ recvAt[q] <= now
        BY <2>3 DEF ClockInv
      <4>3. QED
        BY <2>3, <4>1, <4>2
    <3>2. Timestamp[q] + Window \in Int
      BY <2>3
    <3>3. recvAt[q] > Timestamp[q] + Window => recvAt'[q] > Timestamp[q] + Window
      BY <3>1, <3>2
    <3>4. QED
      BY <2>5, <3>3 DEF InOrder
  <2>6. ASSUME NEW p \in Packets, NEW q \in arrived, Old(p) PROVE InOrder(p, q)'
    <3>1. recvAt'[q] = now
      BY <2>2
    <3>2. Timestamp[p] <= Timestamp[q] \/ now > Timestamp[q] + Window
      BY <2>3, <2>6, Later DEF Old
    <3>3. QED
      BY <3>1, <3>2 DEF InOrder
  <2>7. HeapOrder'
    <3>1. \A p \in Packets : Timestamp[p] \in Nat
      BY <2>3
    <3>2. \A p \in Packets : Old(p)' <=> Old(p)
      BY <2>1 DEF Old
    <3>3. \A q \in heap' : q \in heap \/ q \in arrived
      BY <2>2
    <3>4. \A q \in heap : q \in Packets
      BY <2>3
    <3>5. QED
      BY <2>4, <2>5, <2>6, <3>1, <3>2, <3>3, <3>4 DEF HeapOrder
  <2>8. BatchOrder'
    <3>1. \A k \in 1..Len(batch) : batch[k] \in Packets /\ Timestamp[batch[k]] \in Nat
      BY <2>3
    <3>2. QED
      BY <2>1, <2>5, <3>1 DEF BatchOrder, InOrder
  <2>9. NextOrder'
    <3>1. \A p : (In(p, batch)' <=> In(p, batch))
          /\ (InSome(p, log)' <=> InSome(p, log))
      BY <2>1 DEF In, InSome
    <3>2. \A p \in Packets : Timestamp[p] \in Nat
      BY <2>3
    <3>3. QED
      BY <2>5, <3>1, <3>2 DEF NextOrder
  <2>10. LogOrder'
    <3>1. \A i \in 1..Len(log) : log[i] \in Seq(Packets)
      BY <2>3
    <3>2. \A i \in 1..Len(log) : \A k \in 1..Len(log[i]) :
             log[i][k] \in Packets /\ Timestamp[log[i][k]] \in Nat
      BY <2>3, <3>1
    <3> SUFFICES ASSUME NEW i \in 1..Len(log), NEW j \in 1..Len(log),
                        NEW k \in 1..Len(log[i]), NEW m \in 1..Len(log[j]),
                        i < j \/ (i = j /\ k < m)
                 PROVE  InOrder(log[i][k], log[j][m])'
      BY <2>1 DEF LogOrder, InOrder
    <3>3. InOrder(log[i][k], log[j][m])
      BY DEF LogOrder
    <3> DEFINE x == log[i][k]
               y == log[j][m]
    <3>4. InOrder(x, y) /\ y \in Packets /\ Timestamp[x] \in Nat
      BY <3>2, <3>3
    <3>5. Timestamp[x] <= Timestamp[y] \/ recvAt'[y] > Timestamp[y] + Window
      <4> HIDE DEF x, y
      <4>1. QED
        BY <2>5, <3>4 DEF InOrder
    <3>6. QED
      BY <2>1, <3>5 DEF InOrder
  <2>11. QED
    BY <2>7, <2>8, <2>9, <2>10
<1>3. ASSUME PopPacket PROVE All'
  <2>1. UNCHANGED <<now, recvAt, log, holder, cut>> /\ holder # "none"
    BY <1>3 DEF PopPacket, Unlocked
  <2>2. PICK p \in Tops : /\ Due(p)
                          /\ heap' = heap \ {p} /\ batch' = Append(batch, p)
    BY <1>3 DEF PopPacket, Joins
  <2>3. /\ p \in heap /\ p \in Packets /\ heap \subseteq Packets
        /\ batch \in Seq(Packets)
        /\ now \in Nat /\ cut \in Nat /\ Window \in Nat
        /\ \A q \in Packets : Timestamp[q] \in Nat /\ recvAt[q] \in Int
    BY PacketAssumption, BoundAssumption DEF Tops, Types, TypeOK
  <2>4. Old(p)
    <3>1. Timestamp[p] <= cut - Window /\ cut <= now
      BY <2>2 DEF Due, Ordering, ClockInv
    <3>2. QED
      BY <2>3, <3>1 DEF Old
  <2>5. \A q \in heap : InOrder(p, q)
    BY <2>3 DEF Tops, Before, InOrder
  <2>6. \A q : In(q, batch)' <=> In(q, batch) \/ q = p
    <3>1. \A q : In(q, batch') <=> In(q, batch) \/ q = p
      BY <2>2, <2>3, InAppended
    <3>2. QED
      BY <3>1 DEF In
  <2>7. \A q : InSome(q, log)' <=> InSome(q, log)
    BY <2>1 DEF In, InSome
  <2>8. \A x, y : (InOrder(x, y)' <=> InOrder(x, y)) /\ (Old(x)' <=> Old(x))
    BY <2>1 DEF InOrder, Old
  <2>9. HeapOrder'
    <3>1. \A q : Out(q)' => Out(q) \/ q = p
      BY <2>6, <2>7 DEF Out
    <3>2. QED
      BY <2>2, <2>4, <2>5, <2>8, <3>1 DEF HeapOrder
  <2>10. BatchOrder'
    <3>1. /\ Len(batch) \in Nat /\ Len(batch') = Len(batch) + 1
          /\ batch'[Len(batch) + 1] = p
          /\ \A i \in 1..Len(batch) : batch'[i] = batch[i]
      BY <2>2, <2>3, AppendProperties, LenProperties
    <3>2. \A k \in 1..Len(batch) : batch[k] \in Packets /\ Out(batch[k])
      BY <2>3 DEF Out, In
    <3> SUFFICES ASSUME NEW k \in 1..Len(batch'), NEW m \in 1..Len(batch'), k < m
                 PROVE  InOrder(batch'[k], batch'[m])
      BY <2>8 DEF BatchOrder
    <3>3. k \in 1..Len(batch) /\ (m \in 1..Len(batch) \/ m = Len(batch) + 1)
      BY <3>1
    <3>4. CASE m \in 1..Len(batch)
      BY <3>1, <3>3, <3>4 DEF BatchOrder
    <3>5. CASE m = Len(batch) + 1
      BY <2>3, <3>1, <3>2, <3>3, <3>5 DEF HeapOrder
    <3>6. QED
      BY <3>3, <3>4, <3>5
  <2>11. NextOrder'
    <3>1. \A x \in Packets : InSome(x, log) => InOrder(x, p)
      BY <2>3 DEF HeapOrder, Out
    <3>2. QED
      BY <2>6, <2>7, <2>8, <3>1 DEF NextOrder
  <2>12. LogOrder'
    BY <2>1, <2>8 DEF LogOrder
  <2>13. QED
    BY <2>9, <2>10, <2>11, <2>12
<1>4. ASSUME SendBatch PROVE All'
  <2>1. UNCHANGED <<now, recvAt, heap>> /\ log' = Append(log, batch) /\ batch' = <<>>
    BY <1>4 DEF SendBatch, heapVars
  <2>2. log \in Seq(Seq(Packets)) /\ batch \in Seq(Packets)
    BY DEF Types, TypeOK
  <2>3. \A x, y : (InOrder(x, y)' <=> InOrder(x, y)) /\ (Old(x)' <=> Old(x))
    BY <2>1 DEF InOrder, Old
  <2>4. \A q : ~In(q, batch)'
    BY <2>1, EmptySeq DEF In
  <2>5. \A q : InSome(q, log)' <=> InSome(q, log) \/ In(q, batch)
    <3>1. \A q : InSome(q, log') <=> InSome(q, log) \/ In(q, batch)
      BY <2>1, <2>2, InSomeAppended
    <3>2. QED
      BY <3>1 DEF In, InSome
  <2>6. HeapOrder'
    <3>1. \A q : Out(q)' => Out(q)
      BY <2>4, <2>5 DEF Out
    <3>2. QED
      BY <2>1, <2>3, <3>1 DEF HeapOrder
  <2>7. BatchOrder'
    BY <2>1, EmptySeq DEF BatchOrder
  <2>8. NextOrder'
    BY <2>4 DEF NextOrder
  <2>9. LogOrder'
    <3>1. /\ Len(log) \in Nat /\ Len(log') = Len(log) + 1 /\ log'[Len(log) + 1] = batch
          /\ \A i \in 1..Len(log) : log'[i] = log[i]
      BY <2>1, <2>2, AppendProperties, LenProperties
    <3>2. \A i \in 1..Len(log) : \A k \in 1..Len(log[i]) :
             log[i][k] \in Packets /\ InSome(log[i][k], log)
      BY <2>2 DEF In, InSome
    <3>3. \A m \in 1..Len(batch) : batch[m] \in Packets /\ In(batch[m], batch)
      BY <2>2 DEF In
    <3> SUFFICES ASSUME NEW i \in 1..Len(log'), NEW j \in 1..Len(log'),
                        NEW k \in 1..Len(log'[i]), NEW m \in 1..Len(log'[j]),
                        i < j \/ (i = j /\ k < m)
                 PROVE  InOrder(log'[i][k], log'[j][m])
      BY <2>3 DEF LogOrder
    <3>4. \/ i \in 1..Len(log) /\ j \in 1..Len(log)
          \/ i \in 1..Len(log) /\ j = Len(log) + 1
          \/ i = Len(log) + 1 /\ j = Len(log) + 1
      BY <3>1
    <3>5. CASE i \in 1..Len(log) /\ j \in 1..Len(log)
      BY <3>1, <3>5 DEF LogOrder
    <3>6. CASE i \in 1..Len(log) /\ j = Len(log) + 1
      BY <3>1, <3>2, <3>3, <3>6 DEF NextOrder
    <3>7. CASE i = Len(log) + 1 /\ j = Len(log) + 1
      <4>1. k < m
        BY <3>1, <3>7
      <4>2. QED
        BY <3>1, <3>7, <4>1 DEF BatchOrder
    <3>8. QED
      BY <3>4, <3>5, <3>6, <3>7
  <2>10. QED
    BY <2>6, <2>7, <2>8, <2>9
<1>5. QED
  BY <1>1, <1>2, <1>3, <1>4, StepCases

-----------------------------------------------------------------------------
(* The invariant holds at the start, is kept by every step, and gives the  *)
(* properties of the pipeline.                                             *)

(* The invariant holds in the initial states.                              *)
LEMMA InitInv == ASSUME Init PROVE IInv
<1>1. /\ now = 0 /\ fed = [n \in Nodes |-> 0] /\ looked = {} /\ heap = {}
      /\ recvAt = [p \in Packets |-> -1] /\ acceptedIn = [p \in Packets |-> "never"]
      /\ life = "open" /\ runNow = -1 /\ holder = "none" /\ cut = 0
      /\ batch = <<>> /\ log = <<>>
  BY DEF Init
<1>2. /\ subs = {Recorder} /\ queue = [s \in Subscribers |-> <<>>]
      /\ closes = [s \in Subscribers |-> 0] /\ dropped = {} /\ cancelled = {}
      /\ taken = [s \in Subscribers |-> <<>>]
      /\ start = [s \in Subscribers |-> IF s = Recorder THEN 0 ELSE -1]
      /\ sawDrop = FALSE /\ written = <<>> /\ status = "RECORDING"
  BY DEF Init
<1>3. Recorder \in LossAware /\ LossAware \subseteq Subscribers
  BY SubscriberAssumption
<1>4. \A S : <<>> \in Seq(S) /\ Len(<<>>) = 0
  BY EmptySeq
<1>5. TypeOK
  <2>1. sawDrop \in BOOLEAN
    BY <1>2, Zenon
  <2>2. /\ now \in Nat /\ fed \in [Nodes -> Nat] /\ looked \subseteq Nodes
        /\ heap \subseteq Packets /\ recvAt \in [Packets -> Nat \cup {-1}]
        /\ acceptedIn \in [Packets -> {"never", "open", "closing", "flushed"}]
        /\ life \in {"open", "closing", "flushed", "closed"}
        /\ runNow \in Nat \cup {-1} /\ holder \in {"none", "run", "close"}
        /\ cut \in Nat
    BY <1>1
  <2>3. batch \in Seq(Packets) /\ log \in Seq(Seq(Packets)) /\ written \in Seq(Packets)
    BY <1>1, <1>2, <1>4
  <2>4. /\ subs \subseteq Subscribers /\ dropped \subseteq LossAware
        /\ cancelled \subseteq Subscribers /\ closes \in [Subscribers -> Nat]
        /\ start \in [Subscribers -> Nat \cup {-1}] /\ status \in Statuses
    BY <1>2, <1>3 DEF Statuses
  <2>5. queue \in [Subscribers -> Seq(Seq(Packets))]
        /\ taken \in [Subscribers -> Seq(Seq(Packets))]
    BY <1>2, <1>4
  <2>6. QED
    BY <2>1, <2>2, <2>3, <2>4, <2>5 DEF TypeOK
<1>6. FeedTypes
  <2>1. ASSUME NEW n \in Nodes PROVE fed[n] = 0 /\ Len(Feed[n]) \in Nat
    BY <1>1, FeedAssumption, LenProperties
  <2>2. QED
    BY <1>1, <2>1 DEF FeedTypes
<1>7. ChannelInv
  BY <1>1, <1>2, <1>3 DEF ChannelInv
<1>8. HoleInv
  <2>1. ASSUME NEW s \in LossAware, start[s] # -1
        PROVE  s = Recorder /\ start[s] = 0 /\ taken[s] = <<>> /\ queue[s] = <<>>
    BY <1>2, <1>3, <2>1
  <2>2. QED
    BY <1>1, <1>4, <2>1 DEF HoleInv, Unbroken, Has
<1>9. RecorderInv
  <2>1. taken[Recorder] = <<>> /\ start[Recorder] = 0
    BY <1>2, <1>3
  <2>2. \A p : ~InSome(p, taken[Recorder])
    BY <1>4, <2>1 DEF InSome
  <2>3. QED
    BY <1>2, <2>1, <2>2 DEF RecorderInv
<1>10. WholeInv
  BY <1>1, <1>2 DEF WholeInv, Early
<1>11. ClockInv
  BY <1>1 DEF ClockInv
<1>12. OrderInv
  <2>1. \A p : ~In(p, batch) /\ ~InSome(p, log)
    BY <1>1, <1>4 DEF In, InSome
  <2>2. QED
    BY <1>1, <1>4, <2>1 DEF OrderInv, HeapOrder, Out, BatchOrder, NextOrder, LogOrder
<1>13. QED
  BY <1>5, <1>6, <1>7, <1>8, <1>9, <1>10, <1>11, <1>12 DEF IInv, Types

(* Every step keeps the invariant.                                         *)
LEMMA StepInv == ASSUME IInv, Next PROVE IInv'
<1> USE DEF IInv
<1>1. FeedTypes
  BY DEF Types
<1>2. Types'
  BY <1>1, TypeStep, FeedStep DEF Types
<1>3. ChannelInv' /\ HoleInv' /\ RecorderInv' /\ WholeInv'
  BY ChannelStep, HoleStep, RecorderStepInv, WholeStep
<1>4. ClockInv' /\ OrderInv'
  BY <1>1, ClockStep, OrderStep
<1>5. QED
  BY <1>2, <1>3, <1>4

(* A step of something else keeps the invariant.                           *)
LEMMA StutterInv == ASSUME IInv, UNCHANGED vars PROVE IInv'
<1> USE DEF vars, publishVars, heapVars, emitVars, subVars, consumerVars, recorderVars
<1>1. Types' /\ ChannelInv'
  BY DEF IInv, Types, TypeOK, FeedTypes, ChannelInv
<1>2. HoleInv' /\ RecorderInv'
  BY DEF IInv, HoleInv, Unbroken, Has, RecorderInv, Undisturbed, In, InSome
<1>3. WholeInv' /\ ClockInv'
  BY DEF IInv, WholeInv, Early, Undisturbed, In, InSome, ClockInv
<1>4. OrderInv'
  BY DEF IInv, OrderInv, Ordering, HeapOrder, Out, Old, InOrder, BatchOrder,
     NextOrder,
         LogOrder, In, InSome
<1>5. QED
  BY <1>1, <1>2, <1>3, <1>4 DEF IInv

(* The types are part of the invariant, and so are the channels'.          *)
LEMMA TypesFollow == IInv => TypeOK
BY DEF IInv, Types

LEMMA ChannelsAreKept == IInv => ChannelDiscipline
BY DEF IInv, ChannelInv, ChannelDiscipline

(* What a loss-aware subscriber has is the same run of batches, taken and  *)
(* queued together or one after the other.                                 *)
LEMMA NoHole == IInv => LossAwareHasNoHole
<1> SUFFICES ASSUME IInv, NEW s \in LossAware, start[s] # -1
             PROVE  LET have == taken[s] \o queue[s] IN
                    /\ start[s] + Len(have) <= Len(log)
                    /\ have = SubSeq(log, start[s] + 1, start[s] + Len(have))
                    /\ s \in subs => start[s] + Len(have) = Len(log)
  BY DEF LossAwareHasNoHole
<1> DEFINE t == taken[s]
           q == queue[s]
           have == t \o q
           a == start[s]
<1>1. /\ a \in Nat /\ t \in Seq(Seq(Packets)) /\ q \in Seq(Seq(Packets))
      /\ log \in Seq(Seq(Packets))
  BY SubscriberAssumption DEF IInv, Types, TypeOK
<1>2. /\ (a + Len(t)) + Len(q) <= Len(log)
      /\ \A i \in 1..Len(t) : t[i] = log[a + i]
      /\ \A i \in 1..Len(q) : q[i] = log[(a + Len(t)) + i]
      /\ s \in subs => (a + Len(t)) + Len(q) = Len(log)
  BY DEF IInv, HoleInv, Unbroken, Has
<1> HIDE DEF t, q, a
<1>3. Len(t) \in Nat /\ Len(q) \in Nat /\ Len(log) \in Nat
  BY <1>1, LenProperties
<1>4. /\ have \in Seq(Seq(Packets)) /\ Len(have) = Len(t) + Len(q)
      /\ \A i \in 1..(Len(t) + Len(q)) :
            have[i] = IF i <= Len(t) THEN t[i] ELSE q[i - Len(t)]
  BY <1>1, ConcatProperties
<1> HIDE DEF have
<1>5. a + Len(have) <= Len(log) /\ (s \in subs => a + Len(have) = Len(log))
  BY <1>1, <1>2, <1>3, <1>4
<1>6. ASSUME NEW i \in 1..Len(have) PROVE have[i] = log[a + i]
  <2>1. CASE i <= Len(t)
    <3>1. i \in 1..Len(t) /\ i \in 1..(Len(t) + Len(q))
      BY <1>3, <1>4, <2>1
    <3>2. QED
      BY <1>2, <1>4, <2>1, <3>1
  <2>2. CASE ~(i <= Len(t))
    <3>1. /\ i - Len(t) \in 1..Len(q) /\ i \in 1..(Len(t) + Len(q))
          /\ (a + Len(t)) + (i - Len(t)) = a + i
      BY <1>1, <1>3, <1>4, <2>2
    <3>2. QED
      BY <1>2, <1>4, <2>2, <3>1
  <2>3. QED
    BY <2>1, <2>2
<1> DEFINE run == SubSeq(log, a + 1, a + Len(have))
<1>7. Len(have) \in Nat
  BY <1>3, <1>4
<1>8. /\ run \in Seq(Seq(Packets)) /\ Len(run) = Len(have)
      /\ \A i \in 1..Len(have) : run[i] = log[a + i]
  <2>1. a + 1 \in 1..(Len(log) + 1) /\ a + Len(have) \in a..Len(log)
    BY <1>1, <1>3, <1>5, <1>7
  <2>2. /\ run \in Seq(Seq(Packets))
        /\ Len(run) = IF a + 1 <= a + Len(have) THEN (a + Len(have)) - (a + 1) + 1 ELSE 0
        /\ \A i \in 1..((a + Len(have)) - (a + 1) + 1) : run[i] = log[(a + 1) + i - 1]
    BY <1>1, <2>1, SubSeqProperties
  <2> HIDE DEF run
  <2>3. (a + Len(have)) - (a + 1) + 1 = Len(have)
    BY <1>1, <1>7
  <2>4. Len(run) = Len(have)
    BY <1>1, <1>7, <2>2, <2>3
  <2>5. ASSUME NEW i \in 1..Len(have) PROVE (a + 1) + i - 1 = a + i
    BY <1>1, <1>7
  <2>6. QED
    BY <2>2, <2>3, <2>4, <2>5
<1> HIDE DEF run
<1>9. have = run
  <2>1. \A i \in 1..Len(have) : have[i] = run[i]
    BY <1>6, <1>8
  <2>2. have \in Seq(Seq(Packets)) /\ run \in Seq(Seq(Packets)) /\ Len(have) = Len(run)
    BY <1>4, <1>8
  <2>3. QED
    BY <2>1, <2>2, SeqEqual
<1>10. QED
  BY <1>5, <1>9 DEF run, have, t, q, a

(* What is written is whole when the recording says so.                    *)
LEMMA WholeFollows == IInv => RecordedIsWhole
<1>1. IInv => CompletedIsWhole
  BY DEF IInv, WholeInv, Early, In, CompletedIsWhole
<1>2. QED
  BY <1>1, NoHole DEF RecordedIsWhole

(* The order of the log is the property.                                   *)
LEMMA OrderFollows == IInv => OrderedWithinWindow
<1> SUFFICES ASSUME IInv, Ordering, NEW i \in 1..Len(log), NEW j \in 1..Len(log), i <= j,
                    NEW k \in 1..Len(log[i]), NEW m \in 1..Len(log[j]), i < j \/ k < m
             PROVE  InOrder(log[i][k], log[j][m])
  BY DEF OrderedWithinWindow, Ordering, InOrder
<1>1. i < j \/ (i = j /\ k < m)
  OBVIOUS
<1>2. QED
  BY <1>1 DEF IInv, OrderInv, LogOrder

(* The invariant holds in every reachable state of a pipeline.             *)
THEOREM Inductive == Spec => []IInv
<1>1. Init => IInv
  BY InitInv
<1>2. IInv /\ [Next]_vars => IInv'
  BY StepInv, StutterInv
<1>3. QED
  BY <1>1, <1>2, PTL DEF Spec

(* Types: emitUntil disconnects only subscribers made with                 *)
(* disconnectOnDrop, and what is queued, taken and written is packets.     *)
THEOREM TypeCorrect == Spec => []TypeOK
BY Inductive, TypesFollow, PTL

(* No Batches channel is closed twice, or closed while emitUntil may still *)
(* send on it, in whatever order overflow, removeSubscriber and            *)
(* CloseSession come, for any number of subscribers and any queue size.    *)
THEOREM ChannelsKept == Spec => []ChannelDiscipline
BY Inductive, ChannelsAreKept, PTL

(* A loss-aware subscriber has an unbroken run of what emitUntil sent, and *)
(* a recording that sessionRecorder.run completes has every packet that    *)
(* Publish accepted before the flush of CloseSession.                      *)
THEOREM Whole == Spec => []RecordedIsWhole
BY Inductive, WholeFollows, PTL

(* Before the flush, emitUntil never emits a packet that arrived within    *)
(* the reorder window after a younger one, in one pass or across passes.   *)
THEOREM Ordered == Spec => []OrderedWithinWindow
BY Inductive, OrderFollows, PTL

(* The same of the composed specification that the runs check, in which    *)
(* the pipeline is one of three independent parts.                         *)
THEOREM StreamInductive == PacketsSpec => []IInv
<1>1. PacketsInit => IInv
  BY InitInv DEF PacketsInit
<1>2. IInv /\ [PacketsNext]_<<part, vars, pipelineVars, startVars>> => IInv'
  <2> SUFFICES ASSUME IInv, [PacketsNext]_<<part, vars, pipelineVars, startVars>>
      PROVE  IInv'
    OBVIOUS
  <2>1. Next \/ UNCHANGED vars
    BY DEF PacketsNext
  <2>2. QED
    BY <2>1, StepInv, StutterInv
<1>3. QED
  BY <1>1, <1>2, PTL DEF PacketsSpec

(* Channels, recordings and order, of the composed specification.          *)
THEOREM Together ==
  PacketsSpec => [](ChannelDiscipline /\ RecordedIsWhole /\ OrderedWithinWindow)
BY StreamInductive, ChannelsAreKept, WholeFollows, OrderFollows, PTL

-----------------------------------------------------------------------------
(***************************************************************************)
(* Starting a capture (module CaptureStart), for every budget, ring size,  *)
(* cache limit and number of starts.  StartInv has what holds while a      *)
(* start is half-way (StageInv), whose rings are open and how many rings   *)
(* are reserved for the captures that have one (RingInv), that the cache   *)
(* has each request's own program and no bad one (CacheInv), and that what *)
(* is attached on the way to a ring is the request's (FilterInv).          *)
(***************************************************************************)
Reserving == step \in {"open", "attach", "promiscuous"}
Holders == {c \in Starting!Captures : state[c] \in {"afpacket", "closed"}}
StageInv ==
    /\ step # "idle" => starts \in Starting!Captures /\ state[starts] = "none"
    /\ \A c \in Starting!Captures : c > starts => state[c] = "none"
    /\ step \notin {"idle", "dumpcap"} => mode # "dumpcap"
    /\ step \notin {"idle", "dumpcap", "afpacket"} => linux
RingInv ==
    /\ \A c \in rings :
          state[c] = "afpacket" \/ (c = starts /\ step \in {"attach", "promiscuous"})
    /\ Starting!BudgetIsReturned
    /\ used <= RingBudget
CacheInv ==
    /\ IsFiniteSet(DOMAIN cache)
    /\ \A k \in DOMAIN cache : cache[k] = k /\ k[3] # "bad"
FilterInv ==
    /\ DOMAIN attached = Starting!Captures
    /\ step = "acquire" \/ Reserving =>
          /\ attached[starts] = Starting!Program(requests[starts])
          /\ requests[starts].filter # "bad"
    /\ Starting!FiltersAreRight
StartInv == Starting!TypeOK /\ StageInv /\ RingInv /\ CacheInv /\ FilterInv

(* The size of a set is the same in every module.                          *)
LEMMA SameSize == \A S : Starting!Cardinality(S) = Cardinality(S)
BY DEF Starting!Cardinality, Cardinality

(* What the budget does with one reservation more.                         *)
LEMMA Distribute ==
  ASSUME NEW a \in Nat, NEW n \in Int PROVE a * (n + 1) = a * n + a
OBVIOUS

(* Fewer rings need no more of the budget.                                 *)
LEMMA Monotone ==
  ASSUME NEW a \in Nat, NEW m \in Nat, NEW n \in Nat, m <= n PROVE a * m <= a * n
<1>1. PICK d \in Nat : n = m + d
  <2>1. n - m \in Nat /\ n = m + (n - m)
    OBVIOUS
  <2>2. QED
    BY <2>1
<1>2. a * n = a * m + a * d
  BY <1>1
<1>3. a * d \in Nat /\ a * m \in Nat
  OBVIOUS
<1>4. QED
  BY <1>2, <1>3

(* The captures that have a reservation are finitely many.                 *)
LEMMA HoldersFinite == IsFiniteSet(Holders) /\ Cardinality(Holders) \in Nat
<1>1. IsFiniteSet(1..MaxCaptures) /\ Holders \subseteq 1..MaxCaptures
  BY StartAssumption, FS_Interval DEF Holders, Starting!Captures
<1>2. QED
  BY <1>1, FS_Subset, FS_CardinalityType

(* What is reserved, with the holders counted in this module.              *)
LEMMA Reserved ==
  Starting!BudgetIsReturned <=>
     used = RingSize * (Cardinality(Holders) + IF Reserving THEN 1 ELSE 0)
BY SameSize DEF Starting!BudgetIsReturned, Holders, Reserving

StartLabels ==
    /\ mode \in {"dumpcap", "afpacket", "auto"}
    /\ linux \in BOOLEAN /\ misfit \in BOOLEAN
    /\ step \in {"idle", "afpacket", "compile", "acquire", "open", "attach",
                 "promiscuous", "dumpcap"}
    /\ starts \in 0..MaxCaptures
StartStates ==
    state \in [Starting!Captures -> {"none", "refused", "dumpcap", "afpacket", "closed",
                               "ended"}]
StartRequests ==
    requests \in [Starting!Captures -> Starting!Requests \cup {Starting!NoRequest}]


(* A start goes through its stages and no other.                           *)
LEMMA LabelStep == ASSUME StartInv, Starting!Next PROVE StartLabels'
<1> USE StartAssumption DEF StartInv, StageInv, Starting!TypeOK, Starting!Captures,
    Starting!config, Starting!Fails, Starting!FallbackEligible, StartLabels
<1>1. ASSUME NEW r \in Starting!Requests, Starting!Capture(r)
      PROVE StartLabels'
  BY <1>1 DEF Starting!Capture
<1>2. CASE Starting!Validate
  BY <1>2 DEF Starting!Validate
<1>3. CASE Starting!Compile
  BY <1>3 DEF Starting!Compile
<1>4. CASE Starting!Acquire
  BY <1>4 DEF Starting!Acquire
<1>5. CASE Starting!Open
  BY <1>5 DEF Starting!Open
<1>6. CASE Starting!SetUp
  BY <1>6 DEF Starting!SetUp
<1>7. CASE Starting!StartDumpcap
  BY <1>7 DEF Starting!StartDumpcap
<1>8. ASSUME NEW c \in Starting!Captures, Starting!End(c)
      PROVE StartLabels'
  BY <1>8 DEF Starting!End
<1>9. QED
  BY <1>1, <1>2, <1>3, <1>4, <1>5, <1>6, <1>7, <1>8 DEF Starting!Next

(* A capture has one state, from none to ended.                            *)
LEMMA StateStep == ASSUME StartInv, Starting!Next PROVE StartStates'
<1> USE StartAssumption DEF StartInv, StageInv, Starting!TypeOK, Starting!Captures,
    Starting!config, Starting!Fails, Starting!FallbackEligible, StartStates
<1>1. ASSUME NEW r \in Starting!Requests, Starting!Capture(r)
      PROVE StartStates'
  BY <1>1 DEF Starting!Capture
<1>2. CASE Starting!Validate
  BY <1>2 DEF Starting!Validate
<1>3. CASE Starting!Compile
  BY <1>3 DEF Starting!Compile
<1>4. CASE Starting!Acquire
  BY <1>4 DEF Starting!Acquire
<1>5. CASE Starting!Open
  BY <1>5 DEF Starting!Open
<1>6. CASE Starting!SetUp
  BY <1>6 DEF Starting!SetUp
<1>7. CASE Starting!StartDumpcap
  BY <1>7 DEF Starting!StartDumpcap
<1>8. ASSUME NEW c \in Starting!Captures, Starting!End(c)
      PROVE StartStates'
  BY <1>8 DEF Starting!End
<1>9. QED
  BY <1>1, <1>2, <1>3, <1>4, <1>5, <1>6, <1>7, <1>8 DEF Starting!Next

(* A request is kept as it was made.                                       *)
LEMMA RequestStep == ASSUME StartInv, Starting!Next PROVE StartRequests'
<1> USE StartAssumption DEF StartInv, StageInv, Starting!TypeOK, Starting!Captures,
    Starting!config, Starting!Fails, Starting!FallbackEligible, StartRequests
<1>1. ASSUME NEW r \in Starting!Requests, Starting!Capture(r)
      PROVE StartRequests'
  BY <1>1 DEF Starting!Capture
<1>2. CASE Starting!Validate
  BY <1>2 DEF Starting!Validate
<1>3. CASE Starting!Compile
  BY <1>3 DEF Starting!Compile
<1>4. CASE Starting!Acquire
  BY <1>4 DEF Starting!Acquire
<1>5. CASE Starting!Open
  BY <1>5 DEF Starting!Open
<1>6. CASE Starting!SetUp
  BY <1>6 DEF Starting!SetUp
<1>7. CASE Starting!StartDumpcap
  BY <1>7 DEF Starting!StartDumpcap
<1>8. ASSUME NEW c \in Starting!Captures, Starting!End(c)
      PROVE StartRequests'
  BY <1>8 DEF Starting!End
<1>9. QED
  BY <1>1, <1>2, <1>3, <1>4, <1>5, <1>6, <1>7, <1>8 DEF Starting!Next

(* Only captures that were started have a ring.                            *)
LEMMA RingsStep == ASSUME StartInv, Starting!Next PROVE (rings \subseteq 1..starts)'
<1> USE StartAssumption DEF StartInv, StageInv, Starting!TypeOK, Starting!Captures,
    Starting!config, Starting!Fails, Starting!FallbackEligible
<1>1. ASSUME NEW r \in Starting!Requests, Starting!Capture(r)
      PROVE (rings \subseteq 1..starts)'
  BY <1>1 DEF Starting!Capture
<1>2. CASE Starting!Validate
  BY <1>2 DEF Starting!Validate
<1>3. CASE Starting!Compile
  BY <1>3 DEF Starting!Compile
<1>4. CASE Starting!Acquire
  BY <1>4 DEF Starting!Acquire
<1>5. CASE Starting!Open
  <2>1. starts \in 1..starts /\ rings' \subseteq rings \cup {starts} /\ starts' = starts
    BY <1>5 DEF Starting!Open
  <2>2. QED
    BY <2>1
<1>6. CASE Starting!SetUp
  BY <1>6 DEF Starting!SetUp
<1>7. CASE Starting!StartDumpcap
  BY <1>7 DEF Starting!StartDumpcap
<1>8. ASSUME NEW c \in Starting!Captures, Starting!End(c)
      PROVE (rings \subseteq 1..starts)'
  BY <1>8 DEF Starting!End
<1>9. QED
  BY <1>1, <1>2, <1>3, <1>4, <1>5, <1>6, <1>7, <1>8 DEF Starting!Next

(* A half-way start has no capture yet, and is where its mode lets it be.  *)
LEMMA StageStep == ASSUME StartInv, Starting!Next PROVE StageInv'
<1> USE StartAssumption DEF StartInv, StageInv, Starting!TypeOK, Starting!Captures,
    Starting!config, Starting!Fails, Starting!FallbackEligible
<1>1. ASSUME NEW r \in Starting!Requests, Starting!Capture(r)
      PROVE StageInv'
  BY <1>1 DEF Starting!Capture
<1>2. CASE Starting!Validate
  BY <1>2 DEF Starting!Validate
<1>3. CASE Starting!Compile
  <2>1. /\ step = "compile" /\ UNCHANGED <<mode, linux, starts>>
        /\ \/ step' = "acquire" /\ UNCHANGED state
           \/ Starting!Fails("filter")
    BY <1>3 DEF Starting!Compile
  <2>2. step' \in {"acquire", "idle"} /\ (step' = "acquire" => UNCHANGED state)
    BY <2>1
  <2>3. \A c \in Starting!Captures : c > starts => state'[c] = "none"
    BY <2>1
  <2>4. QED
    BY <2>1, <2>2, <2>3
<1>4. CASE Starting!Acquire
  BY <1>4 DEF Starting!Acquire
<1>5. CASE Starting!Open
  BY <1>5 DEF Starting!Open
<1>6. CASE Starting!SetUp
  BY <1>6 DEF Starting!SetUp
<1>7. CASE Starting!StartDumpcap
  BY <1>7 DEF Starting!StartDumpcap
<1>8. ASSUME NEW c \in Starting!Captures, Starting!End(c)
      PROVE StageInv'
  BY <1>8 DEF Starting!End
<1>9. QED
  BY <1>1, <1>2, <1>3, <1>4, <1>5, <1>6, <1>7, <1>8 DEF Starting!Next

(* The reservations follow the captures: a step that changes what is       *)
(* reserved changes who has it.                                            *)
Claims == Cardinality(Holders) + IF Reserving THEN 1 ELSE 0

LEMMA ClaimStep ==
  ASSUME StartInv, Starting!Next
  PROVE  \/ used' = used /\ Claims' = Claims
         \/ used' = used + RingSize /\ used' <= RingBudget /\ Claims' = Claims + 1
         \/ used' = used - RingSize /\ Claims' = Claims - 1
<1> DEFINE Goal == \/ used' = used /\ Claims' = Claims
                   \/ used' = used + RingSize /\ used' <= RingBudget /\ Claims' = Claims + 1
                   \/ used' = used - RingSize /\ Claims' = Claims - 1
<1> USE StartAssumption DEF StartInv, StageInv, Starting!TypeOK, Starting!Captures,
    Starting!config, Starting!FallbackEligible, Reserving
<1>0. Cardinality(Holders) \in Nat /\ IsFiniteSet(Holders)
  BY HoldersFinite
<1>a. ASSUME NEW c \in Starting!Captures, state[c] \notin {"afpacket", "closed"},
             NEW s, s \notin {"afpacket", "closed"},
             state' = [state EXCEPT ![c] = s]
      PROVE  Holders' = Holders
  BY <1>a DEF Holders
<1>b. ASSUME UNCHANGED state PROVE Holders' = Holders
  BY <1>b DEF Holders
<1>f. ASSUME NEW e, Starting!Fails(e), step # "idle"
      PROVE  Holders' = Holders /\ step' \in {"dumpcap", "idle"}
  <2>1. starts \in Starting!Captures /\ state[starts] = "none"
    BY <1>f
  <2>2. CASE UNCHANGED state
    BY <1>f, <2>2, <1>b DEF Starting!Fails
  <2>3. CASE ~UNCHANGED state
    <3>1. state' = [state EXCEPT ![starts] = "refused"]
      BY <1>f, <2>3 DEF Starting!Fails
    <3>2. QED
      BY <1>f, <1>a, <2>1, <3>1 DEF Starting!Fails
  <2>4. QED
    BY <2>2, <2>3
<1>1. ASSUME NEW r \in Starting!Requests, Starting!Capture(r) PROVE Goal
  <2>1. Holders' = Holders /\ used' = used /\ ~Reserving /\ ~Reserving'
    BY <1>1, <1>b DEF Starting!Capture
  <2>2. QED
    BY <2>1 DEF Claims
<1>2. CASE Starting!Validate
  <2>1. Holders' = Holders /\ used' = used /\ ~Reserving /\ ~Reserving'
    BY <1>2, <1>b, <1>f DEF Starting!Validate
  <2>2. QED
    BY <2>1 DEF Claims
<1>3. CASE Starting!Compile
  <2>1. Holders' = Holders /\ used' = used /\ ~Reserving /\ ~Reserving'
    BY <1>3, <1>b, <1>f DEF Starting!Compile
  <2>2. QED
    BY <2>1 DEF Claims
<1>4. CASE Starting!Acquire
  <2>1. Holders' = Holders /\ ~Reserving
    BY <1>4, <1>b, <1>f DEF Starting!Acquire
  <2>2. \/ used' = used /\ ~Reserving'
        \/ used' = used + RingSize /\ used' <= RingBudget /\ Reserving'
    BY <1>4, <1>f DEF Starting!Acquire
  <2>3. QED
    BY <1>0, <2>1, <2>2 DEF Claims
<1>5. CASE Starting!Open
  <2>1. Holders' = Holders /\ Reserving
    BY <1>5, <1>b, <1>f DEF Starting!Open
  <2>2. \/ used' = used /\ Reserving'
        \/ used' = used - RingSize /\ ~Reserving'
    BY <1>5, <1>f DEF Starting!Open
  <2>3. QED
    BY <1>0, <2>1, <2>2 DEF Claims
<1>6. CASE Starting!SetUp
  <2>0. Reserving /\ starts \in Starting!Captures /\ state[starts] = "none"
    BY <1>6 DEF Starting!SetUp
  <2>1. CASE UNCHANGED <<used, state>> /\ step' = "promiscuous"
    BY <2>0, <2>1, <1>b DEF Claims
  <2>2. CASE /\ UNCHANGED used /\ step' = "idle"
             /\ state' = [state EXCEPT ![starts] = "afpacket"]
    <3>1. Holders' = Holders \cup {starts} /\ starts \notin Holders
      BY <2>0, <2>2 DEF Holders
    <3>2. Cardinality(Holders') = Cardinality(Holders) + 1
      BY <1>0, <3>1, FS_AddElement
    <3>3. QED
      BY <1>0, <2>0, <2>2, <3>2 DEF Claims
  <2>3. CASE used' = used - RingSize /\ Starting!Fails("initialize")
    <3>1. Holders' = Holders /\ ~Reserving'
      BY <2>0, <2>3, <1>f
    <3>2. QED
      BY <1>0, <2>0, <2>3, <3>1 DEF Claims
  <2>4. QED
    BY <1>6, <2>1, <2>2, <2>3 DEF Starting!SetUp
<1>7. CASE Starting!StartDumpcap
  <2>1. Holders' = Holders /\ used' = used /\ ~Reserving /\ ~Reserving'
    BY <1>7, <1>a DEF Starting!StartDumpcap
  <2>2. QED
    BY <2>1 DEF Claims
<1>8. ASSUME NEW c \in Starting!Captures, Starting!End(c) PROVE Goal
  <2>0. Reserving' = Reserving
    BY <1>8 DEF Starting!End
  <2>1. CASE used' = used /\ state[c] = "afpacket" /\ state' = [state EXCEPT ![c] = "closed"]
    <3>1. Holders' = Holders
      BY <2>1 DEF Holders
    <3>2. QED
      BY <2>0, <2>1, <3>1 DEF Claims
  <2>2. CASE /\ used' = used - RingSize /\ state[c] = "closed"
             /\ state' = [state EXCEPT ![c] = "ended"]
    <3>1. Holders' = Holders \ {c} /\ c \in Holders
      BY <2>2 DEF Holders
    <3>2. Cardinality(Holders') = Cardinality(Holders) - 1
      BY <1>0, <3>1, FS_RemoveElement
    <3>3. QED
      BY <1>0, <2>0, <2>2, <3>2 DEF Claims
  <2>3. QED
    BY <1>8, <2>1, <2>2 DEF Starting!End
<1>9. QED
  BY <1>1, <1>2, <1>3, <1>4, <1>5, <1>6, <1>7, <1>8 DEF Starting!Next

(* Claims are counted, and what they come to.                              *)
LEMMA ClaimFacts ==
  ASSUME StartInv
  PROVE  Claims \in Nat /\ used = RingSize * Claims
BY HoldersFinite, Reserved DEF StartInv, RingInv, Claims

(* Nothing is reserved beyond the budget, nothing is left behind, and an   *)
(* open ring belongs to a capture that has a reservation.                  *)
LEMMA RingStep == ASSUME StartInv, Starting!Next PROVE RingInv' /\ used' \in Nat
<1> USE StartAssumption
<1>1. Claims \in Nat /\ used = RingSize * Claims /\ used <= RingBudget /\ used \in Nat
  BY ClaimFacts DEF StartInv, RingInv, Starting!TypeOK
<1>2. Claims' \in Nat
  <2>1. StartStates'
    BY StateStep
  <2>2. Cardinality(Holders)' \in Nat
    <3>1. IsFiniteSet(1..MaxCaptures) /\ Holders' \subseteq 1..MaxCaptures
      BY FS_Interval DEF Holders, Starting!Captures
    <3>2. QED
      BY <3>1, FS_Subset, FS_CardinalityType
  <2>3. QED
    BY <2>2 DEF Claims
<1>3. used' = RingSize * Claims' /\ used' <= RingBudget
  <2>1. CASE used' = used /\ Claims' = Claims
    BY <1>1, <2>1
  <2>2. CASE used' = used + RingSize /\ used' <= RingBudget /\ Claims' = Claims + 1
    BY <1>1, <2>2, Distribute
  <2>3. CASE used' = used - RingSize /\ Claims' = Claims - 1
    <3>1. Claims' + 1 = Claims /\ Claims' \in Int
      BY <1>1, <2>3
    <3>2. RingSize * Claims = RingSize * Claims' + RingSize
      BY <3>1, Distribute
    <3>3. RingSize * Claims' \in Int
      BY <3>1
    <3>4. QED
      BY <1>1, <2>3, <3>2, <3>3
  <2>4. QED
    BY <2>1, <2>2, <2>3, ClaimStep
<1>4. Starting!BudgetIsReturned'
  BY <1>3, SameSize DEF Starting!BudgetIsReturned, Holders, Reserving, Claims
<1>5. used' \in Nat
  <2>1. \A a, b \in Nat : a * b \in Nat
    OBVIOUS
  <2>2. QED
    BY <1>2, <1>3, <2>1
<1>6. ASSUME NEW c \in rings'
      PROVE  (state[c] = "afpacket" \/ (c = starts /\ step \in {"attach", "promiscuous"}))'
  <2> USE DEF Starting!config, Starting!Fails
  <2>0. /\ \A d \in rings :
              /\ d \in Starting!Captures
              /\ state[d] = "afpacket" \/ (d = starts /\ step \in {"attach", "promiscuous"})
        /\ step # "idle" => starts \in Starting!Captures /\ state[starts] = "none"
        /\ DOMAIN state = Starting!Captures
    BY DEF StartInv, StageInv, RingInv, Starting!TypeOK, Starting!Captures
  <2>1. CASE \E r \in Starting!Requests : Starting!Capture(r)
    BY <1>6, <2>0, <2>1 DEF Starting!Capture
  <2>2. CASE Starting!Validate
    BY <1>6, <2>0, <2>2 DEF Starting!Validate
  <2>3. CASE Starting!Compile
    BY <1>6, <2>0, <2>3 DEF Starting!Compile
  <2>4. CASE Starting!Acquire
    BY <1>6, <2>0, <2>4 DEF Starting!Acquire
  <2>5. CASE Starting!Open
    BY <1>6, <2>0, <2>5 DEF Starting!Open
  <2>6. CASE Starting!SetUp
    BY <1>6, <2>0, <2>6 DEF Starting!SetUp
  <2>7. CASE Starting!StartDumpcap
    BY <1>6, <2>0, <2>7 DEF Starting!StartDumpcap
  <2>8. CASE \E d \in Starting!Captures : Starting!End(d)
    BY <1>6, <2>0, <2>8 DEF Starting!End
  <2>9. QED
    BY <2>1, <2>2, <2>3, <2>4, <2>5, <2>6, <2>7, <2>8 DEF Starting!Next
<1>7. QED
  BY <1>3, <1>4, <1>5, <1>6 DEF RingInv

(* The cache is within its limit and has each request's own program.       *)
LEMMA CacheStep ==
  ASSUME StartInv, Starting!Next
  PROVE  CacheInv' /\ (Starting!Cardinality(DOMAIN cache) <= MaxCache)'
<1> USE StartAssumption
<1>1. /\ IsFiniteSet(DOMAIN cache) /\ Cardinality(DOMAIN cache) <= MaxCache
      /\ \A k \in DOMAIN cache : cache[k] = k /\ k[3] # "bad"
  BY SameSize DEF StartInv, CacheInv, Starting!TypeOK
<1>2. CASE UNCHANGED cache
  BY <1>1, <1>2, SameSize DEF CacheInv
<1>3. CASE ~UNCHANGED cache
  <2> DEFINE r == requests[starts]
             new == Starting!Key(r)
             kept == IF Cardinality(DOMAIN cache) >= MaxCache THEN <<>> ELSE cache
  <2>1. /\ Starting!Compile /\ r.filter # "" /\ r.filter # "bad"
        /\ cache' = Starting!Store(Starting!Program(r))
        /\ new \notin DOMAIN cache
    BY <1>3 DEF Starting!Next, Starting!Capture, Starting!Validate, Starting!Compile,
       Starting!Acquire, Starting!Open, Starting!SetUp, Starting!StartDumpcap,
       Starting!End, Starting!request
  <2>2. Starting!Program(r) = new /\ new[3] = r.filter
    BY <2>1 DEF Starting!Program, Starting!Key
  <2>3. cache' = [k \in DOMAIN kept \cup {new} |-> IF k = new THEN new ELSE kept[k]]
    BY <2>1, <2>2, SameSize DEF Starting!Store, Starting!request
  <2>4. /\ IsFiniteSet(DOMAIN kept) /\ Cardinality(DOMAIN kept) < MaxCache
        /\ \A k \in DOMAIN kept : kept[k] = k /\ k[3] # "bad"
    <3>1. CASE Cardinality(DOMAIN cache) >= MaxCache
      <4>1. kept = <<>> /\ DOMAIN kept = {}
        BY <3>1
      <4>2. QED
        BY <4>1, FS_EmptySet
    <3>2. CASE ~(Cardinality(DOMAIN cache) >= MaxCache)
      <4>1. kept = cache /\ Cardinality(DOMAIN cache) \in Nat
        BY <1>1, <3>2, FS_CardinalityType
      <4>2. QED
        BY <1>1, <3>2, <4>1
    <3>3. QED
      BY <3>1, <3>2
  <2> HIDE DEF kept, new
  <2>5. DOMAIN cache' = DOMAIN kept \cup {new}
    BY <2>3
  <2>6. /\ IsFiniteSet(DOMAIN cache')
        /\ Cardinality(DOMAIN cache') <= Cardinality(DOMAIN kept) + 1
        /\ Cardinality(DOMAIN kept) \in Nat
    <3>1. Cardinality(DOMAIN kept) \in Nat
      BY <2>4, FS_CardinalityType
    <3>2. /\ IsFiniteSet(DOMAIN kept \cup {new})
          /\ \/ Cardinality(DOMAIN kept \cup {new}) = Cardinality(DOMAIN kept)
             \/ Cardinality(DOMAIN kept \cup {new}) = Cardinality(DOMAIN kept) + 1
      BY <2>4, FS_AddElement
    <3>3. QED
      BY <2>5, <3>1, <3>2
  <2>7. \A k \in DOMAIN cache' : cache'[k] = k /\ k[3] # "bad"
    BY <2>1, <2>2, <2>3, <2>4, <2>5
  <2>8. Cardinality(DOMAIN cache') <= MaxCache
    BY <2>4, <2>6, FS_CardinalityType
  <2>9. QED
    BY <2>6, <2>7, <2>8, SameSize DEF CacheInv
<1>4. QED
  BY <1>2, <1>3

(* A ring gets its own request's program, and a filter that does not       *)
(* compile gets no capture.                                                *)
LEMMA FilterStep == ASSUME StartInv, Starting!Next PROVE FilterInv'
<1> USE StartAssumption DEF StartInv, StageInv, FilterInv, Starting!TypeOK,
    Starting!Captures, Starting!config, Starting!FallbackEligible, Reserving,
    Starting!FiltersAreRight, Starting!OwnFilter, Starting!BadFilterIsRefused
<1>1. ASSUME NEW r \in Starting!Requests, Starting!Capture(r) PROVE FilterInv'
  <2>1. /\ starts' = starts + 1 /\ starts' \in Starting!Captures /\ starts \in Nat
        /\ requests' = [requests EXCEPT ![starts'] = r]
        /\ step' = IF mode = "dumpcap" THEN "dumpcap" ELSE "afpacket"
        /\ UNCHANGED <<mode, linux, state, attached>>
    BY <1>1 DEF Starting!Capture
  <2>2. state[starts'] = "none"
    BY <2>1
  <2>3. \A c \in Starting!Captures : c # starts' => requests'[c] = requests[c]
    BY <2>1
  <2>4. Starting!OwnFilter'
    BY <2>1, <2>2, <2>3 DEF Starting!Program
  <2>5. Starting!BadFilterIsRefused'
    BY <2>1, <2>2, <2>3
  <2>6. QED
    BY <2>1, <2>4, <2>5
<1>2. CASE Starting!Validate
  BY <1>2 DEF Starting!Validate, Starting!Fails, Starting!Program
<1>3. CASE Starting!Compile
  <2> DEFINE r == requests[starts]
  <2>1. /\ starts \in Starting!Captures /\ state[starts] = "none"
        /\ mode # "dumpcap" /\ linux /\ step = "compile"
        /\ UNCHANGED <<mode, linux, starts, requests>>
    BY <1>3 DEF Starting!Compile
  <2>2. CASE /\ step' = "acquire" /\ UNCHANGED state /\ r.filter # "bad"
             /\ attached' = [attached EXCEPT ![starts] = Starting!Program(r)]
    <3>1. /\ attached'[starts] = Starting!Program(r) /\ DOMAIN attached' = DOMAIN attached
          /\ \A c \in Starting!Captures : c # starts => attached'[c] = attached[c]
      BY <2>1, <2>2
    <3>2. Starting!OwnFilter'
      BY <2>1, <2>2, <3>1 DEF Starting!Program
    <3>3. Starting!BadFilterIsRefused'
      BY <2>1, <2>2
    <3>4. (step = "acquire" \/ Reserving =>
             /\ attached[starts] = Starting!Program(requests[starts])
             /\ requests[starts].filter # "bad")'
      BY <2>1, <2>2, <3>1 DEF Starting!Program
    <3>5. QED
      BY <3>1, <3>2, <3>3, <3>4
  <2>3. CASE Starting!Fails("filter") /\ UNCHANGED attached
    <3>1. step' = "idle" /\ state' = [state EXCEPT ![starts] = "refused"]
      BY <2>3 DEF Starting!Fails
    <3>2. \A c \in Starting!Captures :
             /\ state'[c] # state[c] => state'[c] = "refused"
             /\ state'[c] = "afpacket" => state[c] = "afpacket"
      BY <2>1, <3>1
    <3>3. Starting!OwnFilter'
      BY <2>1, <2>3, <3>2 DEF Starting!Program
    <3>4. Starting!BadFilterIsRefused'
      BY <2>1, <3>1, <3>2
    <3>5. QED
      BY <2>1, <2>3, <3>1, <3>3, <3>4
  <2>4. ASSUME r.filter = "" \/ Starting!Key(r) \in DOMAIN cache
        PROVE  /\ r.filter # "bad"
               /\ (IF r.filter = "" THEN Starting!Program(r)
                   ELSE cache[Starting!Key(r)]) = Starting!Program(r)
    <3>1. Starting!Key(r)[3] = r.filter
      BY DEF Starting!Key
    <3>2. r.filter # "" => Starting!Program(r) = Starting!Key(r)
      BY DEF Starting!Program, Starting!Key
    <3>3. QED
      BY <2>4, <3>1, <3>2 DEF CacheInv
  <2>5. QED
    BY <1>3, <2>2, <2>3, <2>4 DEF Starting!Compile, Starting!request
<1>4. CASE Starting!Acquire
  BY <1>4 DEF Starting!Acquire, Starting!Fails, Starting!Program
<1>5. CASE Starting!Open
  BY <1>5 DEF Starting!Open, Starting!Fails, Starting!Program
<1>6. CASE Starting!SetUp
  BY <1>6 DEF Starting!SetUp, Starting!Fails, Starting!Program
<1>7. CASE Starting!StartDumpcap
  BY <1>7 DEF Starting!StartDumpcap, Starting!Program
<1>8. ASSUME NEW c \in Starting!Captures, Starting!End(c) PROVE FilterInv'
  BY <1>8 DEF Starting!End, Starting!Program
<1>9. QED
  BY <1>1, <1>2, <1>3, <1>4, <1>5, <1>6, <1>7, <1>8 DEF Starting!Next

(* No capture was started and nothing is reserved or cached.               *)
LEMMA StartInit == ASSUME Starting!Init PROVE StartInv
<1> USE StartAssumption DEF Starting!Init, Starting!Captures
<1>1. Starting!Cardinality({}) = 0 /\ IsFiniteSet({}) /\ Cardinality({}) = 0
  BY SameSize, FS_EmptySet
<1>2. DOMAIN cache = {}
  OBVIOUS
<1>3. Starting!TypeOK
  <2>1. linux \in BOOLEAN /\ misfit \in BOOLEAN
    OBVIOUS
  <2>2. StartLabels /\ StartStates /\ StartRequests
    BY <2>1 DEF StartLabels, StartStates, StartRequests
  <2>3. QED
    BY <1>1, <1>2, <2>1, <2>2
       DEF StartLabels, StartStates, StartRequests, Starting!TypeOK
<1>4. StageInv /\ CacheInv /\ FilterInv
  BY <1>1, <1>2 DEF StageInv, CacheInv, FilterInv, Reserving,
     Starting!FiltersAreRight,
     Starting!OwnFilter, Starting!BadFilterIsRefused, Starting!NoRequest
<1>5. RingInv
  <2>1. Holders = {} /\ ~Reserving
    BY DEF Holders, Reserving
  <2>2. Cardinality(Holders) + (IF Reserving THEN 1 ELSE 0) = 0
    BY <1>1, <2>1
  <2>3. RingSize * 0 = 0
    OBVIOUS
  <2>4. Starting!BudgetIsReturned
    BY <2>2, <2>3, Reserved
  <2>5. QED
    BY <2>4 DEF RingInv
<1>6. QED
  BY <1>3, <1>4, <1>5 DEF StartInv

(* Every step of a start or an end keeps the invariant.                    *)
LEMMA StartStep == ASSUME StartInv, Starting!Next PROVE StartInv'
<1>1. Starting!TypeOK'
  BY LabelStep, StateStep, RequestStep, RingsStep, RingStep, CacheStep
     DEF Starting!TypeOK, StartLabels, StartStates, StartRequests
<1>2. QED
  BY <1>1, StageStep, RingStep, CacheStep, FilterStep DEF StartInv

(* The invariant looks at nothing else than the state of the starts.       *)
LEMMA StartStutter == ASSUME StartInv, UNCHANGED startVars PROVE StartInv'
BY DEF startVars, StartInv, Starting!TypeOK, StageInv, RingInv, CacheInv, FilterInv,
   Reserving, Holders, Starting!BudgetIsReturned, Starting!FiltersAreRight,
   Starting!OwnFilter, Starting!BadFilterIsRefused, Starting!Program, Starting!Captures

(* Open rings are among those with a reservation, so they fit what is      *)
(* reserved.                                                               *)
LEMMA BudgetFollows == StartInv => Starting!BudgetIsKept
<1> SUFFICES ASSUME StartInv PROVE Starting!RingsFitBudget
  BY DEF StartInv, RingInv, Starting!BudgetIsKept
<1> DEFINE owners == Holders \cup (IF Reserving THEN {starts} ELSE {})
<1>1. rings \subseteq owners
  <2>1. 1..starts \subseteq Starting!Captures /\ rings \subseteq 1..starts
    BY StartAssumption DEF StartInv, Starting!TypeOK, Starting!Captures
  <2>2. ASSUME NEW c \in rings PROVE c \in owners
    <3>1. c \in Starting!Captures
      BY <2>1
    <3>2. CASE state[c] = "afpacket"
      BY <3>1, <3>2 DEF Holders
    <3>3. CASE state[c] # "afpacket"
      <4>1. c = starts /\ Reserving
        BY <3>3 DEF StartInv, RingInv, Reserving
      <4>2. QED
        BY <4>1
    <3>4. QED
      BY <3>2, <3>3
  <2>3. QED
    BY <2>2
<1>2. IsFiniteSet(owners) /\ Cardinality(owners) <= Claims /\ Claims \in Nat
  <2>1. CASE Reserving
    <3>1. starts \notin Holders
      BY <2>1 DEF StartInv, StageInv, Holders, Reserving
    <3>2. IsFiniteSet(owners) /\ Cardinality(owners) = Cardinality(Holders) + 1
      BY <2>1, <3>1, HoldersFinite, FS_AddElement
    <3>3. QED
      BY <2>1, <3>2, HoldersFinite DEF Claims
  <2>2. CASE ~Reserving
    <3>1. owners = Holders
      BY <2>2
    <3>2. QED
      BY <2>2, <3>1, HoldersFinite DEF Claims
  <2>3. QED
    BY <2>1, <2>2
<1> HIDE DEF owners
<1>3. IsFiniteSet(rings) /\ Cardinality(rings) <= Cardinality(owners)
  BY <1>1, <1>2, FS_Subset
<1>4. Cardinality(rings) \in Nat /\ Cardinality(owners) \in Nat
  BY <1>2, <1>3, FS_CardinalityType
<1>5. Cardinality(rings) <= Claims
  BY <1>2, <1>3, <1>4
<1>6. RingSize * Cardinality(rings) <= RingSize * Claims
  BY <1>2, <1>4, <1>5, Monotone, StartAssumption
<1>7. QED
  BY <1>6, ClaimFacts, SameSize DEF Starting!RingsFitBudget, StartInv, RingInv

(* The inductive invariant of the starts, in the composition the runs      *)
(* check: Capture, its stages and the ends of running captures.            *)
THEOREM StartInductive == PacketsSpec => []StartInv
<1>1. PacketsInit => StartInv
  BY StartInit DEF PacketsInit
<1>2. StartInv /\ [PacketsNext]_<<part, vars, pipelineVars, startVars>> => StartInv'
  <2> SUFFICES ASSUME StartInv, [PacketsNext]_<<part, vars, pipelineVars, startVars>>
      PROVE  StartInv'
    OBVIOUS
  <2>1. Starting!Next \/ UNCHANGED startVars
    BY DEF PacketsNext
  <2>2. QED
    BY <2>1, StartStep, StartStutter
<1>3. QED
  BY <1>1, <1>2, PTL DEF PacketsSpec

(* However starts fail and captures end, the rings that AFPacket.Capture   *)
(* has open fit what RingBudget.acquire reserved, that fits the budget,    *)
(* and what is reserved is what starts and captures have: none is lost.    *)
THEOREM Budget == PacketsSpec => []BudgetIsKept
<1>1. StartInv => BudgetIsKept
  BY BudgetFollows DEF BudgetIsKept
<1>2. QED
  BY <1>1, StartInductive, PTL

(* Whatever DumpcapFilterCompiler has in its cache, a ring that Selector   *)
(* starts filters with its own request's program, and a request whose      *)
(* filter does not compile gets no capture, of neither engine.             *)
THEOREM RightFilters == PacketsSpec => []FiltersAreRight
<1>1. StartInv => FiltersAreRight
  BY DEF StartInv, FilterInv, FiltersAreRight
<1>2. QED
  BY <1>1, StartInductive, PTL

-----------------------------------------------------------------------------
(***************************************************************************)
(* One running capture (module CapturePipeline), for every batch limit,    *)
(* channel size and number of packets, with either engine.  PipeInv has    *)
(* the stage of each goroutine and what its channels show of it            *)
(* (StagesInv), where an error is until it is reported (FaultInv), which   *)
(* batches are within the limits and which have room (LimitInv), that the  *)
(* packets from SendBatch back to the interface are in a row as long as    *)
(* nobody gave up (RowInv), and that a clean end is a complete one         *)
(* (EndInv).  A row of batches is described by the number at which each of *)
(* them ends (Line), which needs no recursion.                             *)
(***************************************************************************)
(* The bytes of the packets of a batch.                                    *)
Weight(r, b) == SumFunctionOnSet([i \in DOMAIN b |-> r[b[i]]], DOMAIN b)

(* The bytes of a batch are the weight of its packets.                     *)
LEMMA BytesAre ==
  /\ \A b : Pipeline!Bytes(b) = Weight(read, b)
  /\ \A b : (Pipeline!Bytes(b))' = Weight(read', b')
BY DEF Pipeline!Bytes, Weight, SumFunctionOnSet, FoldFunctionOnSet, MapThenFoldSet,
       Pipeline!SumFunction, Pipeline!SumFunctionOnSet, Pipeline!FoldFunctionOnSet,
       Pipeline!MapThenFoldSet

(* What adding a packet does to the weight, and that a packet read later   *)
(* does not change that of an earlier batch.                               *)
LEMMA WeightType ==
  ASSUME NEW r \in Seq(Nat), NEW b \in Seq(1..Len(r)) PROVE Weight(r, b) \in Nat
<1>1. DOMAIN b = 1..Len(b) /\ IsFiniteSet(1..Len(b))
  BY FS_Interval
<1>2. \A i \in 1..Len(b) : r[b[i]] \in Nat
  OBVIOUS
<1>3. QED
  BY <1>1, <1>2, SumType DEF Weight

(* An empty batch weighs nothing.                                          *)
LEMMA WeightNil == \A r : Weight(r, <<>>) = 0
<1>1. DOMAIN <<>> = {}
  OBVIOUS
<1>2. QED
  BY <1>1, SumEmpty DEF Weight

(* A packet more adds its bytes.                                           *)
LEMMA WeightAppend ==
  ASSUME NEW r \in Seq(Nat), NEW b \in Seq(1..Len(r)), NEW p \in 1..Len(r)
  PROVE  Weight(r, Append(b, p)) = Weight(r, b) + r[p]
<1> DEFINE c == Append(b, p)
           n == Len(b) + 1
           u == [i \in DOMAIN c |-> r[c[i]]]
           v == [i \in DOMAIN b |-> r[b[i]]]
<1>0. /\ c \in Seq(1..Len(r)) /\ Len(c) = n
      /\ \A i \in 1..Len(b) : c[i] = b[i]
      /\ c[n] = p
  BY AppendProperties
<1> HIDE DEF c
<1>a. Len(b) \in Nat /\ DOMAIN b = 1..Len(b) /\ DOMAIN c = 1..Len(c)
  BY <1>0, LenProperties
<1>b. 1..Len(c) = (1..Len(b)) \cup {n} /\ n \notin 1..Len(b)
  BY <1>0, <1>a
<1>c. IsFiniteSet(1..Len(b))
  BY <1>a, FS_Interval
<1>1. DOMAIN b = 1..Len(b) /\ DOMAIN c = (1..Len(b)) \cup {n} /\ n \notin 1..Len(b)
      /\ IsFiniteSet(1..Len(b))
  BY <1>a, <1>b, <1>c
<1>2. \A i \in (1..Len(b)) \cup {n} : u[i] \in Nat
  BY <1>0, <1>1
<1>3. u[n] = r[p]
  <2>1. n \in DOMAIN c
    BY <1>1
  <2>2. QED
    BY <1>0, <2>1
<1>9. \A i \in 1..Len(b) : u[i] = v[i]
  BY <1>0, <1>1
<1> HIDE DEF u, v
<1>4. SumFunctionOnSet(u, (1..Len(b)) \cup {n}) = u[n] + SumFunctionOnSet(u, 1..Len(b))
  BY <1>1, <1>2, SumAdd
<1>5. SumFunctionOnSet(u, 1..Len(b)) = SumFunctionOnSet(v, 1..Len(b))
  BY <1>c, <1>9, SumSame
<1>6. Weight(r, c) = SumFunctionOnSet(u, (1..Len(b)) \cup {n})
      /\ Weight(r, b) = SumFunctionOnSet(v, 1..Len(b))
  BY <1>1 DEF Weight, u, v
<1>7. Weight(r, b) \in Nat /\ r[p] \in Nat
  BY WeightType
<1>8. Weight(r, c) = r[p] + Weight(r, b)
  BY <1>3, <1>4, <1>5, <1>6
<1>d. Weight(r, c) = Weight(r, b) + r[p]
  BY <1>7, <1>8
<1>e. QED
  BY <1>d DEF c

(* Packets read later do not change the weight of a batch.                 *)
LEMMA WeightKept ==
  ASSUME NEW r \in Seq(Nat), NEW s \in Nat, NEW b \in Seq(1..Len(r))
  PROVE  Weight(Append(r, s), b) = Weight(r, b)
<1> DEFINE u == [i \in DOMAIN b |-> Append(r, s)[b[i]]]
           v == [i \in DOMAIN b |-> r[b[i]]]
<1>1. DOMAIN b = 1..Len(b) /\ IsFiniteSet(1..Len(b))
  BY FS_Interval
<1>2. \A i \in 1..Len(b) : u[i] = v[i]
  BY <1>1
<1> HIDE DEF u, v
<1>3. SumFunctionOnSet(u, 1..Len(b)) = SumFunctionOnSet(v, 1..Len(b))
  BY <1>1, <1>2, SumSame
<1>4. QED
  BY <1>1, <1>3 DEF Weight, u, v

(* A batch that may travel: its packets have been read and are within the  *)
(* limits, a packet that exceeds the bytes being alone.                    *)
Proper(r, b) ==
    /\ b \in Seq(1..Len(r)) /\ b # <<>> /\ Len(b) <= BatchPackets
    /\ Len(b) = 1 \/ Weight(r, b) <= BatchBytes
(* A batch to which another packet may be added.                           *)
Begun(r, b) ==
    /\ b \in Seq(1..Len(r))
    /\ b # <<>> => Len(b) < BatchPackets /\ Weight(r, b) < BatchBytes

(* Nor do they make a proper batch improper or a begun one full.           *)
LEMMA ProperKept ==
  ASSUME NEW r \in Seq(Nat), NEW s \in Nat, NEW b
  PROVE  /\ Proper(r, b) => Proper(Append(r, s), b)
         /\ Begun(r, b) => Begun(Append(r, s), b)
<1>1. Len(Append(r, s)) = Len(r) + 1
  OBVIOUS
<1>2. b \in Seq(1..Len(r)) => b \in Seq(1..Len(Append(r, s)))
  BY <1>1
<1>3. b \in Seq(1..Len(r)) => Weight(Append(r, s), b) = Weight(r, b)
  BY WeightKept
<1>4. QED
  BY <1>2, <1>3 DEF Proper, Begun

(* Adding a packet to a begun batch, when it fits.                         *)
LEMMA AddedIsProper ==
  ASSUME NEW r \in Seq(Nat), NEW b, Begun(r, b), NEW p \in 1..Len(r),
         b = <<>> \/ Weight(r, b) + r[p] <= BatchBytes
  PROVE  /\ Proper(r, Append(b, p))
         /\ ~(Len(Append(b, p)) >= BatchPackets \/ Weight(r, b) + r[p] >= BatchBytes) =>
               Begun(r, Append(b, p))
<1> USE PipelineAssumption DEF Begun, Proper
<1>0. b \in Seq(1..Len(r)) /\ Len(b) \in Nat
  OBVIOUS
<1>1. Append(b, p) \in Seq(1..Len(r)) /\ Len(Append(b, p)) = Len(b) + 1
  BY <1>0, AppendProperties
<1>2. Weight(r, Append(b, p)) = Weight(r, b) + r[p]
  BY <1>0, WeightAppend
<1>3. Weight(r, b) \in Nat /\ r[p] \in Nat
  BY <1>0, WeightType
<1>4. Len(b) + 1 <= BatchPackets /\ (b = <<>> => Len(b) = 0)
  BY <1>0
<1> HIDE DEF Begun
<1>6. Append(b, p) # <<>>
  BY <1>0, AppendProperties
<1>7. b = <<>> => Len(Append(b, p)) = 1
  BY <1>1, <1>4
<1> DEFINE c == Append(b, p)
           w == Weight(r, c)
<1>8. w = Weight(r, b) + r[p] /\ w \in Nat /\ Len(c) \in Nat
  BY <1>1, <1>2, <1>3, <1>0
<1>9. b = <<>> \/ w <= BatchBytes
  BY <1>8
<1> HIDE DEF c
<1>a. c \in Seq(1..Len(r)) /\ c # <<>> /\ Len(c) <= BatchPackets /\ (b = <<>> => Len(c) = 1)
  BY <1>1, <1>4, <1>6, <1>7 DEF c
<1>b. Proper(r, c)
  BY <1>9, <1>a
<1>d. ASSUME ~(Len(c) >= BatchPackets \/ w >= BatchBytes) PROVE Begun(r, c)
  <2>1. Len(c) < BatchPackets /\ w < BatchBytes
    BY <1>8, <1>d
  <2>2. QED
    BY <1>a, <2>1 DEF Begun
<1>e. QED
  BY <1>2, <1>b, <1>d DEF c

(* Packets k+1, k+2, ... in a row, and batches of them in a row.           *)
Run(b, k) == \A i \in 1..Len(b) : b[i] = k + i
Line(bs, k, e) ==
    \E at \in [0..Len(bs) -> Nat] :
        /\ at[0] = k /\ at[Len(bs)] = e
        /\ \A i \in 1..Len(bs) : at[i] = at[i - 1] + Len(bs[i]) /\ Run(bs[i], at[i - 1])

(* No batches lead nowhere.                                                *)
LEMMA LineEmpty ==
  /\ \A k \in Nat : Line(<<>>, k, k)
  /\ \A k, e : Line(<<>>, k, e) => e = k
<1>1. Len(<<>>) = 0
  OBVIOUS
<1>2. ASSUME NEW k \in Nat PROVE Line(<<>>, k, k)
  <2> DEFINE at == [j \in 0..0 |-> k]
  <2>1. at \in [0..0 -> Nat] /\ at[0] = k
    OBVIOUS
  <2>2. \A i \in 1..0 : FALSE
    OBVIOUS
  <2> HIDE DEF at
  <2>3. QED
    BY <1>1, <2>1, <2>2 DEF Line
<1>3. QED
  BY <1>1, <1>2 DEF Line

(* A batch that goes on where the row ends makes it longer.                *)
LEMMA LineAppend ==
  ASSUME NEW bs \in Seq(Seq(Nat)), NEW k \in Nat, NEW e \in Nat, Line(bs, k, e),
         NEW b \in Seq(Nat), Run(b, e)
  PROVE  Line(Append(bs, b), k, e + Len(b))
<1> DEFINE n == Len(bs)
           cs == Append(bs, b)
<1>1. PICK at \in [0..n -> Nat] :
        /\ at[0] = k /\ at[n] = e
        /\ \A i \in 1..n : at[i] = at[i - 1] + Len(bs[i]) /\ Run(bs[i], at[i - 1])
  BY DEF Line
<1>2. /\ n \in Nat /\ Len(cs) = n + 1 /\ cs[n + 1] = b
      /\ \A i \in 1..n : cs[i] = bs[i]
      /\ Len(b) \in Nat
  BY AppendProperties
<1> DEFINE up == [j \in 0..n + 1 |-> IF j = n + 1 THEN e + Len(b) ELSE at[j]]
<1> HIDE DEF n, cs
<1>3. /\ up \in [0..n + 1 -> Nat]
      /\ up[0] = k /\ up[n + 1] = e + Len(b) /\ up[n] = e
      /\ \A i \in 1..n : up[i] = at[i] /\ up[i - 1] = at[i - 1]
  BY <1>1, <1>2
<1> HIDE DEF up
<1>4. ASSUME NEW i \in 1..n + 1
      PROVE  up[i] = up[i - 1] + Len(cs[i]) /\ Run(cs[i], up[i - 1])
  <2>1. CASE i \in 1..n
    BY <1>1, <1>2, <1>3, <2>1
  <2>2. CASE i = n + 1
    <3>1. i - 1 = n
      BY <1>2, <2>2
    <3>2. QED
      BY <1>2, <1>3, <2>2, <3>1
  <2>3. QED
    BY <1>2, <2>1, <2>2
<1>5. QED
  BY <1>2, <1>3, <1>4 DEF Line, cs

(* Without its first batch a row begins where that batch ends.             *)
LEMMA LineHead ==
  ASSUME NEW bs \in Seq(Seq(Nat)), NEW k \in Nat, NEW e \in Nat, Line(bs, k, e),
         bs # <<>>
  PROVE  Run(Head(bs), k) /\ Line(Tail(bs), k + Len(Head(bs)), e)
<1> DEFINE n == Len(bs)
           cs == Tail(bs)
<1>1. PICK at \in [0..n -> Nat] :
        /\ at[0] = k /\ at[n] = e
        /\ \A i \in 1..n : at[i] = at[i - 1] + Len(bs[i]) /\ Run(bs[i], at[i - 1])
  BY DEF Line
<1>2. /\ n \in Nat \ {0} /\ Len(cs) = n - 1 /\ Head(bs) = bs[1]
      /\ \A i \in 1..n - 1 : cs[i] = bs[i + 1]
  BY HeadTailProperties, EmptySeq
<1> DEFINE up == [j \in 0..n - 1 |-> at[j + 1]]
<1> HIDE DEF n, cs
<1>3. /\ up \in [0..n - 1 -> Nat]
      /\ up[0] = at[1] /\ up[n - 1] = e
      /\ \A i \in 1..n - 1 : up[i] = at[i + 1] /\ up[i - 1] = at[i]
  BY <1>1, <1>2
<1> HIDE DEF up
<1>4. at[1] = k + Len(Head(bs)) /\ Run(Head(bs), k)
  <2>1. 1 \in 1..n /\ 1 - 1 = 0
    BY <1>2
  <2>2. QED
    BY <1>1, <1>2, <2>1
<1>5. ASSUME NEW i \in 1..n - 1
      PROVE  up[i] = up[i - 1] + Len(cs[i]) /\ Run(cs[i], up[i - 1])
  <2>1. i + 1 \in 1..n /\ (i + 1) - 1 = i
    BY <1>2
  <2>2. QED
    BY <1>1, <1>2, <1>3, <2>1
<1>6. QED
  BY <1>2, <1>3, <1>4, <1>5 DEF Line, cs

(* Where each goroutine is, and what its channels show of it.              *)
Past == {"result", "closeErrs", "closeBatches", "done"}
StagesInv ==
    /\ engine = "afpacket" => reader = "none" /\ builder # "select" /\ packets = <<>>
    /\ engine = "dumpcap" => reader # "none" /\ builder \notin {"loop", "ring"}
    /\ reader # "none" => (packetsClosed <=> reader = "done")
    /\ reader # "none" => (readDone # "empty" <=> reader = "done")
    /\ readDone = "cancelled" => done
    /\ builder \in {"last", "result"} =>
          reader \in {"none", "done"} /\ packets = <<>> /\ readDone # "empty"
    /\ builder \in {"closeErrs", "closeBatches", "done"} /\ ~done =>
          reader \in {"none", "done"} /\ packets = <<>> /\ readDone \in {"nil", "error"}
    /\ reader = "none" => readDone \in {"empty", "error"}
    /\ reader = "none" /\ readDone = "error" => builder \in {"last"} \cup Past
    /\ errsClosed <=> builder \in {"closeBatches", "done"}
    /\ batchesClosed <=> builder = "done"
    /\ outClosed <=> relay = "done"
    /\ pending # 0 => builder \in {"flush"} \cup Past
    /\ relay # "put" => carried = <<>>
    /\ "batches" \notin watched => batchesClosed /\ batches = <<>>
    /\ "errs" \notin watched => errsClosed /\ errs = <<>>
    /\ relay \in {"select", "put"} => watched # {}
    /\ relay \notin {"select", "put"} /\ ~done => watched = {}
    /\ forward \in {"starting", "select"} /\ done => stopped

(* What the engine, its error channel and the report say of a failure.     *)
FaultInv ==
    /\ Len(errs) + Len(outErrs) <= 1
    /\ builder \notin {"closeErrs", "closeBatches", "done"} => errs = <<>> /\ outErrs = <<>>
    /\ readDone = "error" \/ errs # <<>> \/ outErrs # <<>> => fault \/ headless
    /\ readDone = "error" /\ builder \in {"closeErrs", "closeBatches", "done"} /\ ~done =>
          errs # <<>> \/ outErrs # <<>> \/ report = "FAILED"
    /\ forward = "starting" => report = "none"
    /\ Pipeline!FailedIsGenuine

AllProper(r, bs) == \A i \in 1..Len(bs) : Proper(r, bs[i])

(* The batches under way are proper, and the next packet is in the batch   *)
(* that is full, or in one that has room.                                  *)
LimitInv ==
    /\ AllProper(read, batches) /\ AllProper(read, out)
    /\ relay = "put" => Proper(read, carried)
    /\ builder = "flush" => building # <<>>
    /\ building # <<>> => Proper(read, building)
    /\ builder \in {"select", "loop", "ring"} => Begun(read, building)
    /\ packets \in Seq(1..Len(read))
    /\ reader = "send" => read # <<>>

(* The packets between the interface and SendBatch, without a gap as long  *)
(* as nobody gave up.                                                      *)
Known(e) == e + Len(building) + (IF pending = 0 THEN 0 ELSE 1)
Behind(e) ==
    /\ Run(building, e)
    /\ pending # 0 => pending = e + Len(building) + 1
    /\ Run(packets, Known(e))
    /\ readDone # "cancelled" =>
          Len(read) = Known(e) + Len(packets) + (IF reader = "send" THEN 1 ELSE 0)
Ahead(o, e) ==
    /\ Line(out, Len(delivered), o)
    /\ relay \in {"select", "put"} => Run(carried, o) /\ Line(batches, o + Len(carried), e)
    /\ relay \in {"select", "put"} /\ builder \notin Past => Behind(e)
    /\ relay \in {"select", "put"} /\ builder \in Past /\ ~done => Len(read) = e
    /\ relay \notin {"select", "put"} /\ ~done => Len(read) = o
RowInv ==
    /\ Run(delivered, 0)
    /\ forward \in {"starting", "select"} => \E o \in Nat, e \in Nat : Ahead(o, e)

(* A capture that ended by itself without an error has forwarded it all.   *)
Finished ==
    /\ builder = "done" /\ reader \in {"none", "done"} /\ relay = "done"
    /\ out = <<>> /\ errs = <<>> /\ outErrs = <<>>
EndInv ==
    forward \in {"end", "done"} /\ ~stopped /\ report # "FAILED" =>
        Finished /\ Len(delivered) = Len(read)

PipeData ==
    /\ building \in Seq(Nat) /\ carried \in Seq(Nat)
    /\ delivered \in Seq(Nat) /\ packets \in Seq(Nat)
    /\ batches \in Seq(Seq(Nat)) /\ out \in Seq(Seq(Nat))
    /\ errs \in Seq({"error"}) /\ outErrs \in Seq({"error"})

(* A goroutine goes on as its channels allow.                              *)
LEMMA PipeStages ==
  ASSUME Pipeline!TypeOK, PipeData, StagesInv, FaultInv, Pipeline!Next
  PROVE  StagesInv'
<1> USE DEF Pipeline!ctxVars, Pipeline!readVars, Pipeline!buildVars,
        Pipeline!chanVars, Pipeline!relayVars, Pipeline!outVars, Pipeline!forwardVars,
        Pipeline!TypeOK, PipeData, StagesInv, Past, Pipeline!Idle
<1>1. CASE Pipeline!ReadHeader
  BY <1>1 DEF Pipeline!ReadHeader, Pipeline!ReaderEnds
<1>2. CASE Pipeline!ReadError
  BY <1>2 DEF Pipeline!ReadError, Pipeline!ReaderEnds
<1>3. CASE Pipeline!ReadEOF
  BY <1>3 DEF Pipeline!ReadEOF
<1>4. CASE Pipeline!ReaderSend
  BY <1>4 DEF Pipeline!ReaderSend, Pipeline!ReaderEnds, Pipeline!Room
<1>5. CASE Pipeline!Exited
  BY <1>5 DEF Pipeline!Exited, Pipeline!ReaderEnds
<1>6. CASE Pipeline!BatchPacket
  BY <1>6 DEF Pipeline!BatchPacket, Pipeline!Take, Pipeline!Add
<1>7. CASE Pipeline!BatchEnd
  BY <1>7 DEF Pipeline!BatchEnd
<1>8. CASE Pipeline!BatchTimeout
  BY <1>8 DEF Pipeline!BatchTimeout
<1>9. CASE Pipeline!BuilderDone
  BY <1>9 DEF Pipeline!BuilderDone
<1>10. CASE Pipeline!LoopBegins
  BY <1>10 DEF Pipeline!LoopBegins
<1>11. CASE Pipeline!RingTimeout
  BY <1>11 DEF Pipeline!RingTimeout
<1>12. CASE Pipeline!Flush
  BY <1>12 DEF Pipeline!Flush, Pipeline!Add, Pipeline!Room
<1>13. CASE Pipeline!LastFlush
  BY <1>13 DEF Pipeline!LastFlush, Pipeline!Room
<1>14. CASE Pipeline!Result
  BY <1>14 DEF Pipeline!Result
<1>15. CASE Pipeline!CloseErrs
  BY <1>15 DEF Pipeline!CloseErrs
<1>16. CASE Pipeline!CloseBatches
  BY <1>16 DEF Pipeline!CloseBatches
<1>17. CASE Pipeline!RelayBatch
  BY <1>17 DEF Pipeline!RelayBatch
<1>18. CASE Pipeline!RelayPut
  BY <1>18 DEF Pipeline!RelayPut, Pipeline!Room
<1>19. CASE Pipeline!RelayBatchesClosed
  BY <1>19 DEF Pipeline!RelayBatchesClosed, Pipeline!Unwatch
<1>20. CASE Pipeline!RelayErrsClosed
  BY <1>20 DEF Pipeline!RelayErrsClosed, Pipeline!Unwatch
<1>21. CASE Pipeline!RelayError
  BY <1>21 DEF Pipeline!RelayError
<1>22. CASE Pipeline!RelayDone
  BY <1>22 DEF Pipeline!RelayDone
<1>23. CASE Pipeline!RelayCloses
  BY <1>23 DEF Pipeline!RelayCloses
<1>24. CASE Pipeline!Started
  BY <1>24 DEF Pipeline!Started
<1>25. CASE Pipeline!ForwardDone
  BY <1>25 DEF Pipeline!ForwardDone
<1>26. CASE Pipeline!ForwardBatch
  BY <1>26 DEF Pipeline!ForwardBatch
<1>27. CASE Pipeline!ForwardEnded
  BY <1>27 DEF Pipeline!ForwardEnded
<1>28. CASE Pipeline!ForwardError
  BY <1>28 DEF Pipeline!ForwardError
<1>29. CASE Pipeline!ForwardReturns
  BY <1>29 DEF Pipeline!ForwardReturns
<1>30. CASE Pipeline!Elapse
  BY <1>30 DEF Pipeline!Elapse
<1>31. CASE Pipeline!Cancel
  BY <1>31 DEF Pipeline!Cancel
<1>32. CASE Pipeline!RingError
  BY <1>32 DEF Pipeline!RingError
<1>33. ASSUME NEW s \in Sizes, Pipeline!ReadPacket(s) PROVE StagesInv'
  BY <1>33 DEF Pipeline!ReadPacket
<1>34. ASSUME NEW s \in Sizes, Pipeline!RingPacket(s) PROVE StagesInv'
  BY <1>34 DEF Pipeline!RingPacket, Pipeline!Take, Pipeline!Add
<1>35. QED
  BY <1>1, <1>2, <1>3, <1>4, <1>5, <1>6, <1>7, <1>8, <1>9, <1>10, <1>11,
     <1>12, <1>13, <1>14, <1>15, <1>16, <1>17, <1>18, <1>19, <1>20, <1>21,
     <1>22, <1>23, <1>24, <1>25, <1>26, <1>27, <1>28, <1>29, <1>30, <1>31,
     <1>32, <1>33, <1>34 DEF Pipeline!Next, Pipeline!Reads, Pipeline!Builds,
     Pipeline!Relays, Pipeline!Forwards

(* An error goes one way, and is reported unless the capture ends.         *)
LEMMA PipeFaults ==
  ASSUME Pipeline!TypeOK, PipeData, StagesInv, FaultInv, Pipeline!Next
  PROVE  FaultInv'
<1> USE DEF Pipeline!ctxVars, Pipeline!readVars, Pipeline!buildVars,
        Pipeline!chanVars, Pipeline!relayVars, Pipeline!outVars, Pipeline!forwardVars,
        Pipeline!TypeOK, PipeData, StagesInv, FaultInv, Past, Pipeline!Idle,
        Pipeline!FailedIsGenuine
<1>1. CASE Pipeline!ReadHeader
  BY <1>1 DEF Pipeline!ReadHeader, Pipeline!ReaderEnds
<1>2. CASE Pipeline!ReadError
  BY <1>2 DEF Pipeline!ReadError, Pipeline!ReaderEnds
<1>3. CASE Pipeline!ReadEOF
  BY <1>3 DEF Pipeline!ReadEOF
<1>4. CASE Pipeline!ReaderSend
  BY <1>4 DEF Pipeline!ReaderSend, Pipeline!ReaderEnds, Pipeline!Room
<1>5. CASE Pipeline!Exited
  BY <1>5 DEF Pipeline!Exited, Pipeline!ReaderEnds
<1>6. CASE Pipeline!BatchPacket
  BY <1>6 DEF Pipeline!BatchPacket, Pipeline!Take, Pipeline!Add
<1>7. CASE Pipeline!BatchEnd
  BY <1>7 DEF Pipeline!BatchEnd
<1>8. CASE Pipeline!BatchTimeout
  BY <1>8 DEF Pipeline!BatchTimeout
<1>9. CASE Pipeline!BuilderDone
  BY <1>9 DEF Pipeline!BuilderDone
<1>10. CASE Pipeline!LoopBegins
  BY <1>10 DEF Pipeline!LoopBegins
<1>11. CASE Pipeline!RingTimeout
  BY <1>11 DEF Pipeline!RingTimeout
<1>12. CASE Pipeline!Flush
  BY <1>12 DEF Pipeline!Flush, Pipeline!Add, Pipeline!Room
<1>13. CASE Pipeline!LastFlush
  BY <1>13 DEF Pipeline!LastFlush, Pipeline!Room
<1>14. CASE Pipeline!Result
  <2>0. errs = <<>> /\ Len(errs) = 0 /\ Len(outErrs) = 0
    BY <1>14 DEF Pipeline!Result
  <2>1. Len(Append(errs, "error")) = 1 /\ Append(errs, "error") # <<>>
    BY <2>0, AppendProperties
  <2>2. QED
    BY <1>14, <2>0, <2>1 DEF Pipeline!Result
<1>15. CASE Pipeline!CloseErrs
  BY <1>15 DEF Pipeline!CloseErrs
<1>16. CASE Pipeline!CloseBatches
  BY <1>16 DEF Pipeline!CloseBatches
<1>17. CASE Pipeline!RelayBatch
  BY <1>17 DEF Pipeline!RelayBatch
<1>18. CASE Pipeline!RelayPut
  BY <1>18 DEF Pipeline!RelayPut, Pipeline!Room
<1>19. CASE Pipeline!RelayBatchesClosed
  BY <1>19 DEF Pipeline!RelayBatchesClosed, Pipeline!Unwatch
<1>20. CASE Pipeline!RelayErrsClosed
  BY <1>20 DEF Pipeline!RelayErrsClosed, Pipeline!Unwatch
<1>21. CASE Pipeline!RelayError
  BY <1>21 DEF Pipeline!RelayError
<1>22. CASE Pipeline!RelayDone
  BY <1>22 DEF Pipeline!RelayDone
<1>23. CASE Pipeline!RelayCloses
  BY <1>23 DEF Pipeline!RelayCloses
<1>24. CASE Pipeline!Started
  BY <1>24 DEF Pipeline!Started
<1>25. CASE Pipeline!ForwardDone
  BY <1>25 DEF Pipeline!ForwardDone
<1>26. CASE Pipeline!ForwardBatch
  BY <1>26 DEF Pipeline!ForwardBatch
<1>27. CASE Pipeline!ForwardEnded
  BY <1>27 DEF Pipeline!ForwardEnded
<1>28. CASE Pipeline!ForwardError
  <2>1. Len(errs) \in Nat /\ Len(outErrs) \in Nat /\ Len(outErrs') = 0 /\ errs' = errs
    BY <1>28 DEF Pipeline!ForwardError
  <2>2. QED
    BY <1>28, <2>1 DEF Pipeline!ForwardError
<1>29. CASE Pipeline!ForwardReturns
  BY <1>29 DEF Pipeline!ForwardReturns
<1>30. CASE Pipeline!Elapse
  BY <1>30 DEF Pipeline!Elapse
<1>31. CASE Pipeline!Cancel
  BY <1>31 DEF Pipeline!Cancel
<1>32. CASE Pipeline!RingError
  BY <1>32 DEF Pipeline!RingError
<1>33. ASSUME NEW s \in Sizes, Pipeline!ReadPacket(s) PROVE FaultInv'
  BY <1>33 DEF Pipeline!ReadPacket
<1>34. ASSUME NEW s \in Sizes, Pipeline!RingPacket(s) PROVE FaultInv'
  BY <1>34 DEF Pipeline!RingPacket, Pipeline!Take, Pipeline!Add
<1>35. QED
  BY <1>1, <1>2, <1>3, <1>4, <1>5, <1>6, <1>7, <1>8, <1>9, <1>10, <1>11,
     <1>12, <1>13, <1>14, <1>15, <1>16, <1>17, <1>18, <1>19, <1>20, <1>21,
     <1>22, <1>23, <1>24, <1>25, <1>26, <1>27, <1>28, <1>29, <1>30, <1>31,
     <1>32, <1>33, <1>34 DEF Pipeline!Next, Pipeline!Reads, Pipeline!Builds,
     Pipeline!Relays, Pipeline!Forwards

(* The words for where everything is, the booleans, and the numbers.       *)
PipeWords ==
    /\ engine \in {"dumpcap", "afpacket"}
    /\ reader \in {"none", "header", "read", "send", "wait", "done"}
    /\ readDone \in {"empty", "nil", "error", "cancelled"}
    /\ builder \in {"select", "loop", "ring", "flush", "last", "result", "closeErrs",
                    "closeBatches", "done"}
    /\ relay \in {"select", "put", "closeErrs", "closeOut", "done"}
    /\ forward \in {"starting", "select", "end", "done"}
    /\ report \in {"none", "RUNNING", "FAILED"}
    /\ watched \subseteq {"batches", "errs"}
PipeFlags ==
    /\ done \in BOOLEAN /\ stopped \in BOOLEAN /\ fault \in BOOLEAN
    /\ unsent \in BOOLEAN /\ headless \in BOOLEAN /\ due \in BOOLEAN
    /\ packetsClosed \in BOOLEAN /\ batchesClosed \in BOOLEAN /\ errsClosed \in BOOLEAN
    /\ outClosed \in BOOLEAN /\ outErrsClosed \in BOOLEAN
PipeCounts ==
    /\ read \in Seq(Sizes) /\ pending \in 0..Len(read)
    /\ Len(packets) <= ChannelSize /\ Len(batches) <= ChannelSize
    /\ Len(out) <= ChannelSize

PipeInv ==
    /\ PipeWords /\ PipeFlags /\ PipeCounts /\ PipeData
    /\ StagesInv /\ FaultInv /\ LimitInv /\ RowInv /\ EndInv

(* The four parts of the types are the model's type invariant.             *)
LEMMA PipeTypes ==
  ASSUME PipeData, FaultInv
  PROVE  Pipeline!TypeOK <=> PipeWords /\ PipeFlags /\ PipeCounts
<1>1. /\ Len(packets) \in Nat /\ Len(batches) \in Nat /\ Len(out) \in Nat
      /\ Len(errs) \in Nat /\ Len(outErrs) \in Nat
  BY DEF PipeData
<1>2. Len(errs) <= 1 /\ Len(outErrs) <= 1
  BY <1>1 DEF FaultInv
<1>3. PipeFlags <=>
        {done, stopped, fault, unsent, headless, due, packetsClosed,
         batchesClosed, errsClosed, outClosed, outErrsClosed} \subseteq BOOLEAN
  BY DEF PipeFlags
<1>4. {Len(packets), Len(batches), Len(out)} \subseteq 0..ChannelSize <=>
        /\ Len(packets) <= ChannelSize /\ Len(batches) <= ChannelSize
        /\ Len(out) <= ChannelSize
  BY <1>1, PipelineAssumption
<1>5. QED
  BY <1>2, <1>3, <1>4 DEF Pipeline!TypeOK, PipeWords, PipeCounts

(* A goroutine goes from one of its stages to another.                     *)
LEMMA PipeWordStep ==
  ASSUME PipeWords, Pipeline!Next
  PROVE  PipeWords'
<1> USE DEF Pipeline!ctxVars, Pipeline!readVars, Pipeline!buildVars,
        Pipeline!chanVars, Pipeline!relayVars, Pipeline!outVars, Pipeline!forwardVars,
        PipeWords, Pipeline!Idle
<1>1. CASE Pipeline!ReadHeader
  BY <1>1 DEF Pipeline!ReadHeader, Pipeline!ReaderEnds
<1>2. CASE Pipeline!ReadError
  BY <1>2 DEF Pipeline!ReadError, Pipeline!ReaderEnds
<1>3. CASE Pipeline!ReadEOF
  BY <1>3 DEF Pipeline!ReadEOF
<1>4. CASE Pipeline!ReaderSend
  BY <1>4 DEF Pipeline!ReaderSend, Pipeline!ReaderEnds, Pipeline!Room
<1>5. CASE Pipeline!Exited
  BY <1>5 DEF Pipeline!Exited, Pipeline!ReaderEnds
<1>6. CASE Pipeline!BatchPacket
  BY <1>6 DEF Pipeline!BatchPacket, Pipeline!Take, Pipeline!Add
<1>7. CASE Pipeline!BatchEnd
  BY <1>7 DEF Pipeline!BatchEnd
<1>8. CASE Pipeline!BatchTimeout
  BY <1>8 DEF Pipeline!BatchTimeout
<1>9. CASE Pipeline!BuilderDone
  BY <1>9 DEF Pipeline!BuilderDone
<1>10. CASE Pipeline!LoopBegins
  BY <1>10 DEF Pipeline!LoopBegins
<1>11. CASE Pipeline!RingTimeout
  BY <1>11 DEF Pipeline!RingTimeout
<1>12. CASE Pipeline!Flush
  BY <1>12 DEF Pipeline!Flush, Pipeline!Add, Pipeline!Room
<1>13. CASE Pipeline!LastFlush
  BY <1>13 DEF Pipeline!LastFlush, Pipeline!Room
<1>14. CASE Pipeline!Result
  BY <1>14 DEF Pipeline!Result
<1>15. CASE Pipeline!CloseErrs
  BY <1>15 DEF Pipeline!CloseErrs
<1>16. CASE Pipeline!CloseBatches
  BY <1>16 DEF Pipeline!CloseBatches
<1>17. CASE Pipeline!RelayBatch
  BY <1>17 DEF Pipeline!RelayBatch
<1>18. CASE Pipeline!RelayPut
  BY <1>18 DEF Pipeline!RelayPut, Pipeline!Room
<1>19. CASE Pipeline!RelayBatchesClosed
  BY <1>19 DEF Pipeline!RelayBatchesClosed, Pipeline!Unwatch
<1>20. CASE Pipeline!RelayErrsClosed
  BY <1>20 DEF Pipeline!RelayErrsClosed, Pipeline!Unwatch
<1>21. CASE Pipeline!RelayError
  BY <1>21 DEF Pipeline!RelayError
<1>22. CASE Pipeline!RelayDone
  BY <1>22 DEF Pipeline!RelayDone
<1>23. CASE Pipeline!RelayCloses
  BY <1>23 DEF Pipeline!RelayCloses
<1>24. CASE Pipeline!Started
  BY <1>24 DEF Pipeline!Started
<1>25. CASE Pipeline!ForwardDone
  BY <1>25 DEF Pipeline!ForwardDone
<1>26. CASE Pipeline!ForwardBatch
  BY <1>26 DEF Pipeline!ForwardBatch
<1>27. CASE Pipeline!ForwardEnded
  BY <1>27 DEF Pipeline!ForwardEnded
<1>28. CASE Pipeline!ForwardError
  BY <1>28 DEF Pipeline!ForwardError
<1>29. CASE Pipeline!ForwardReturns
  BY <1>29 DEF Pipeline!ForwardReturns
<1>30. CASE Pipeline!Elapse
  BY <1>30 DEF Pipeline!Elapse
<1>31. CASE Pipeline!Cancel
  BY <1>31 DEF Pipeline!Cancel
<1>32. CASE Pipeline!RingError
  BY <1>32 DEF Pipeline!RingError
<1>33. ASSUME NEW s \in Sizes, Pipeline!ReadPacket(s) PROVE PipeWords'
  BY <1>33 DEF Pipeline!ReadPacket
<1>34. ASSUME NEW s \in Sizes, Pipeline!RingPacket(s) PROVE PipeWords'
  BY <1>34 DEF Pipeline!RingPacket, Pipeline!Take, Pipeline!Add
<1>35. QED
  BY <1>1, <1>2, <1>3, <1>4, <1>5, <1>6, <1>7, <1>8, <1>9, <1>10, <1>11,
     <1>12, <1>13, <1>14, <1>15, <1>16, <1>17, <1>18, <1>19, <1>20, <1>21,
     <1>22, <1>23, <1>24, <1>25, <1>26, <1>27, <1>28, <1>29, <1>30, <1>31,
     <1>32, <1>33, <1>34 DEF Pipeline!Next, Pipeline!Reads, Pipeline!Builds,
     Pipeline!Relays, Pipeline!Forwards

(* A flag is set or kept.                                                  *)
LEMMA PipeFlagStep ==
  ASSUME PipeFlags, Pipeline!Next
  PROVE  PipeFlags'
<1> USE DEF Pipeline!ctxVars, Pipeline!readVars, Pipeline!buildVars,
        Pipeline!chanVars, Pipeline!relayVars, Pipeline!outVars, Pipeline!forwardVars,
        PipeFlags
<1>1. CASE Pipeline!ReadHeader
  BY <1>1 DEF Pipeline!ReadHeader, Pipeline!ReaderEnds
<1>2. CASE Pipeline!ReadError
  BY <1>2 DEF Pipeline!ReadError, Pipeline!ReaderEnds
<1>3. CASE Pipeline!ReadEOF
  BY <1>3 DEF Pipeline!ReadEOF
<1>4. CASE Pipeline!ReaderSend
  BY <1>4 DEF Pipeline!ReaderSend, Pipeline!ReaderEnds, Pipeline!Room
<1>5. CASE Pipeline!Exited
  BY <1>5 DEF Pipeline!Exited, Pipeline!ReaderEnds
<1>6. CASE Pipeline!BatchPacket
  BY <1>6 DEF Pipeline!BatchPacket, Pipeline!Take, Pipeline!Add
<1>7. CASE Pipeline!BatchEnd
  BY <1>7 DEF Pipeline!BatchEnd
<1>8. CASE Pipeline!BatchTimeout
  BY <1>8 DEF Pipeline!BatchTimeout
<1>9. CASE Pipeline!BuilderDone
  BY <1>9 DEF Pipeline!BuilderDone
<1>10. CASE Pipeline!LoopBegins
  BY <1>10 DEF Pipeline!LoopBegins
<1>11. CASE Pipeline!RingTimeout
  BY <1>11 DEF Pipeline!RingTimeout
<1>12. CASE Pipeline!Flush
  BY <1>12 DEF Pipeline!Flush, Pipeline!Add, Pipeline!Room
<1>13. CASE Pipeline!LastFlush
  BY <1>13 DEF Pipeline!LastFlush, Pipeline!Room
<1>14. CASE Pipeline!Result
  BY <1>14 DEF Pipeline!Result
<1>15. CASE Pipeline!CloseErrs
  BY <1>15 DEF Pipeline!CloseErrs
<1>16. CASE Pipeline!CloseBatches
  BY <1>16 DEF Pipeline!CloseBatches
<1>17. CASE Pipeline!RelayBatch
  BY <1>17 DEF Pipeline!RelayBatch
<1>18. CASE Pipeline!RelayPut
  BY <1>18 DEF Pipeline!RelayPut, Pipeline!Room
<1>19. CASE Pipeline!RelayBatchesClosed
  BY <1>19 DEF Pipeline!RelayBatchesClosed, Pipeline!Unwatch
<1>20. CASE Pipeline!RelayErrsClosed
  BY <1>20 DEF Pipeline!RelayErrsClosed, Pipeline!Unwatch
<1>21. CASE Pipeline!RelayError
  BY <1>21 DEF Pipeline!RelayError
<1>22. CASE Pipeline!RelayDone
  BY <1>22 DEF Pipeline!RelayDone
<1>23. CASE Pipeline!RelayCloses
  BY <1>23 DEF Pipeline!RelayCloses
<1>24. CASE Pipeline!Started
  BY <1>24 DEF Pipeline!Started
<1>25. CASE Pipeline!ForwardDone
  BY <1>25 DEF Pipeline!ForwardDone
<1>26. CASE Pipeline!ForwardBatch
  BY <1>26 DEF Pipeline!ForwardBatch
<1>27. CASE Pipeline!ForwardEnded
  BY <1>27 DEF Pipeline!ForwardEnded
<1>28. CASE Pipeline!ForwardError
  BY <1>28 DEF Pipeline!ForwardError
<1>29. CASE Pipeline!ForwardReturns
  BY <1>29 DEF Pipeline!ForwardReturns
<1>30. CASE Pipeline!Elapse
  BY <1>30 DEF Pipeline!Elapse
<1>31. CASE Pipeline!Cancel
  BY <1>31 DEF Pipeline!Cancel
<1>32. CASE Pipeline!RingError
  BY <1>32 DEF Pipeline!RingError
<1>33. ASSUME NEW s \in Sizes, Pipeline!ReadPacket(s) PROVE PipeFlags'
  BY <1>33 DEF Pipeline!ReadPacket
<1>34. ASSUME NEW s \in Sizes, Pipeline!RingPacket(s) PROVE PipeFlags'
  BY <1>34 DEF Pipeline!RingPacket, Pipeline!Take, Pipeline!Add
<1>35. QED
  BY <1>1, <1>2, <1>3, <1>4, <1>5, <1>6, <1>7, <1>8, <1>9, <1>10, <1>11,
     <1>12, <1>13, <1>14, <1>15, <1>16, <1>17, <1>18, <1>19, <1>20, <1>21,
     <1>22, <1>23, <1>24, <1>25, <1>26, <1>27, <1>28, <1>29, <1>30, <1>31,
     <1>32, <1>33, <1>34 DEF Pipeline!Next, Pipeline!Reads, Pipeline!Builds,
     Pipeline!Relays, Pipeline!Forwards

(* Packets are numbered as they are read, channels have their capacity.    *)
LEMMA PipeCountStep ==
  ASSUME PipeCounts, PipeData, LimitInv, Pipeline!Next
  PROVE  PipeCounts'
<1> USE PipelineAssumption DEF Pipeline!ctxVars, Pipeline!readVars, Pipeline!buildVars,
        Pipeline!chanVars, Pipeline!relayVars, Pipeline!outVars, Pipeline!forwardVars,
        PipeData, PipeCounts
<1>1. CASE Pipeline!ReadHeader
  BY <1>1 DEF Pipeline!ReadHeader, Pipeline!ReaderEnds
<1>2. CASE Pipeline!ReadError
  BY <1>2 DEF Pipeline!ReadError, Pipeline!ReaderEnds
<1>3. CASE Pipeline!ReadEOF
  BY <1>3 DEF Pipeline!ReadEOF
<1>4. CASE Pipeline!ReaderSend
  BY <1>4 DEF Pipeline!ReaderSend, Pipeline!ReaderEnds, Pipeline!Room
<1>5. CASE Pipeline!Exited
  BY <1>5 DEF Pipeline!Exited, Pipeline!ReaderEnds
<1>6. CASE Pipeline!BatchPacket
  <2>1. Head(packets) \in 1..Len(read) /\ Len(Tail(packets)) = Len(packets) - 1
    BY <1>6, HeadTailProperties DEF LimitInv, Pipeline!BatchPacket
  <2>2. /\ UNCHANGED <<read, batches, out>> /\ packets' = Tail(packets)
        /\ pending' \in {0, Head(packets)}
    BY <1>6 DEF Pipeline!BatchPacket, Pipeline!Take, Pipeline!Add
  <2>3. Len(packets) \in Nat
    OBVIOUS
  <2>4. QED
    BY <2>1, <2>2, <2>3
<1>7. CASE Pipeline!BatchEnd
  BY <1>7 DEF Pipeline!BatchEnd
<1>8. CASE Pipeline!BatchTimeout
  BY <1>8 DEF Pipeline!BatchTimeout
<1>9. CASE Pipeline!BuilderDone
  BY <1>9 DEF Pipeline!BuilderDone
<1>10. CASE Pipeline!LoopBegins
  BY <1>10 DEF Pipeline!LoopBegins
<1>11. CASE Pipeline!RingTimeout
  BY <1>11 DEF Pipeline!RingTimeout
<1>12. CASE Pipeline!Flush
  <2>1. /\ UNCHANGED <<read, packets, out>> /\ pending' \in {0, pending}
        /\ \/ batches' = batches
           \/ batches' = Append(batches, building) /\ Len(batches) < ChannelSize
    BY <1>12 DEF Pipeline!Flush, Pipeline!Add, Pipeline!Room
  <2>2. Len(Append(batches, building)) = Len(batches) + 1 /\ Len(batches) \in Nat
    BY AppendProperties
  <2>3. QED
    BY <2>1, <2>2
<1>13. CASE Pipeline!LastFlush
  BY <1>13 DEF Pipeline!LastFlush, Pipeline!Room
<1>14. CASE Pipeline!Result
  BY <1>14 DEF Pipeline!Result
<1>15. CASE Pipeline!CloseErrs
  BY <1>15 DEF Pipeline!CloseErrs
<1>16. CASE Pipeline!CloseBatches
  BY <1>16 DEF Pipeline!CloseBatches
<1>17. CASE Pipeline!RelayBatch
  BY <1>17 DEF Pipeline!RelayBatch
<1>18. CASE Pipeline!RelayPut
  BY <1>18 DEF Pipeline!RelayPut, Pipeline!Room
<1>19. CASE Pipeline!RelayBatchesClosed
  BY <1>19 DEF Pipeline!RelayBatchesClosed, Pipeline!Unwatch
<1>20. CASE Pipeline!RelayErrsClosed
  BY <1>20 DEF Pipeline!RelayErrsClosed, Pipeline!Unwatch
<1>21. CASE Pipeline!RelayError
  BY <1>21 DEF Pipeline!RelayError
<1>22. CASE Pipeline!RelayDone
  BY <1>22 DEF Pipeline!RelayDone
<1>23. CASE Pipeline!RelayCloses
  BY <1>23 DEF Pipeline!RelayCloses
<1>24. CASE Pipeline!Started
  BY <1>24 DEF Pipeline!Started
<1>25. CASE Pipeline!ForwardDone
  BY <1>25 DEF Pipeline!ForwardDone
<1>26. CASE Pipeline!ForwardBatch
  BY <1>26 DEF Pipeline!ForwardBatch
<1>27. CASE Pipeline!ForwardEnded
  BY <1>27 DEF Pipeline!ForwardEnded
<1>28. CASE Pipeline!ForwardError
  BY <1>28 DEF Pipeline!ForwardError
<1>29. CASE Pipeline!ForwardReturns
  BY <1>29 DEF Pipeline!ForwardReturns
<1>30. CASE Pipeline!Elapse
  BY <1>30 DEF Pipeline!Elapse
<1>31. CASE Pipeline!Cancel
  BY <1>31 DEF Pipeline!Cancel
<1>32. CASE Pipeline!RingError
  BY <1>32 DEF Pipeline!RingError
<1>33. ASSUME NEW s \in Sizes, Pipeline!ReadPacket(s) PROVE PipeCounts'
  BY <1>33 DEF Pipeline!ReadPacket
<1>34. ASSUME NEW s \in Sizes, Pipeline!RingPacket(s) PROVE PipeCounts'
  <2>1. /\ UNCHANGED <<packets, batches, out>> /\ read' = Append(read, s)
        /\ pending' \in {0, pending, Len(read')}
    BY <1>34 DEF Pipeline!RingPacket, Pipeline!Take, Pipeline!Add
  <2>2. read' \in Seq(Sizes) /\ Len(read') = Len(read) + 1 /\ Len(read) \in Nat
    BY <2>1, AppendProperties
  <2>3. QED
    BY <2>1, <2>2
<1>35. QED
  BY <1>1, <1>2, <1>3, <1>4, <1>5, <1>6, <1>7, <1>8, <1>9, <1>10, <1>11,
     <1>12, <1>13, <1>14, <1>15, <1>16, <1>17, <1>18, <1>19, <1>20, <1>21,
     <1>22, <1>23, <1>24, <1>25, <1>26, <1>27, <1>28, <1>29, <1>30, <1>31,
     <1>32, <1>33, <1>34 DEF Pipeline!Next, Pipeline!Reads, Pipeline!Builds,
     Pipeline!Relays, Pipeline!Forwards

(* Everywhere there are packets, or batches of them, in a sequence.        *)
LEMMA PipeDataStep ==
  ASSUME PipeCounts, PipeData, LimitInv, Pipeline!Next
  PROVE  PipeData'
<1> USE DEF Pipeline!ctxVars, Pipeline!readVars, Pipeline!buildVars,
        Pipeline!chanVars, Pipeline!relayVars, Pipeline!outVars, Pipeline!forwardVars,
        PipeCounts, PipeData
<1>1. CASE Pipeline!ReadHeader
  BY <1>1 DEF Pipeline!ReadHeader, Pipeline!ReaderEnds
<1>2. CASE Pipeline!ReadError
  BY <1>2 DEF Pipeline!ReadError, Pipeline!ReaderEnds
<1>3. CASE Pipeline!ReadEOF
  BY <1>3 DEF Pipeline!ReadEOF
<1>4. CASE Pipeline!ReaderSend
  <2>1. /\ UNCHANGED <<building, carried, delivered, batches, out, errs, outErrs>>
        /\ packets' \in {packets, Append(packets, Len(read))}
    BY <1>4 DEF Pipeline!ReaderSend
  <2>2. Append(packets, Len(read)) \in Seq(Nat)
    BY AppendProperties
  <2>3. QED
    BY <2>1, <2>2
<1>5. CASE Pipeline!Exited
  BY <1>5 DEF Pipeline!Exited, Pipeline!ReaderEnds
<1>6. CASE Pipeline!BatchPacket
  <2>1. Head(packets) \in Nat /\ Tail(packets) \in Seq(Nat)
    BY <1>6, HeadTailProperties DEF Pipeline!BatchPacket
  <2>2. /\ UNCHANGED <<carried, delivered, batches, out, errs, outErrs>>
        /\ packets' = Tail(packets)
        /\ building' \in {building, Append(building, Head(packets))}
    BY <1>6 DEF Pipeline!BatchPacket, Pipeline!Take, Pipeline!Add
  <2>3. Append(building, Head(packets)) \in Seq(Nat)
    BY <2>1, AppendProperties
  <2>4. QED
    BY <2>1, <2>2, <2>3
<1>7. CASE Pipeline!BatchEnd
  BY <1>7 DEF Pipeline!BatchEnd
<1>8. CASE Pipeline!BatchTimeout
  BY <1>8 DEF Pipeline!BatchTimeout
<1>9. CASE Pipeline!BuilderDone
  BY <1>9 DEF Pipeline!BuilderDone
<1>10. CASE Pipeline!LoopBegins
  BY <1>10 DEF Pipeline!LoopBegins
<1>11. CASE Pipeline!RingTimeout
  BY <1>11 DEF Pipeline!RingTimeout
<1>12. CASE Pipeline!Flush
  <2>1. /\ UNCHANGED <<carried, delivered, packets, out, errs, outErrs>>
        /\ batches' \in {batches, Append(batches, building)}
        /\ building' \in {building, <<>>, Append(<<>>, pending)}
    BY <1>12 DEF Pipeline!Flush, Pipeline!Add
  <2>2. Append(batches, building) \in Seq(Seq(Nat))
    BY AppendProperties
  <2>3. <<>> \in Seq(Nat) /\ pending \in Nat
    BY EmptySeq
  <2>4. Append(<<>>, pending) \in Seq(Nat)
    BY <2>3, AppendProperties
  <2>5. QED
    BY <2>1, <2>2, <2>3, <2>4
<1>13. CASE Pipeline!LastFlush
  <2>1. /\ UNCHANGED <<carried, delivered, packets, out, errs, outErrs>>
        /\ batches' \in {batches, Append(batches, building)} /\ building' = <<>>
    BY <1>13 DEF Pipeline!LastFlush
  <2>2. Append(batches, building) \in Seq(Seq(Nat)) /\ <<>> \in Seq(Nat)
    BY AppendProperties, EmptySeq
  <2>3. QED
    BY <2>1, <2>2
<1>14. CASE Pipeline!Result
  BY <1>14 DEF Pipeline!Result
<1>15. CASE Pipeline!CloseErrs
  BY <1>15 DEF Pipeline!CloseErrs
<1>16. CASE Pipeline!CloseBatches
  BY <1>16 DEF Pipeline!CloseBatches
<1>17. CASE Pipeline!RelayBatch
  BY <1>17 DEF Pipeline!RelayBatch
<1>18. CASE Pipeline!RelayPut
  <2>1. /\ UNCHANGED <<building, delivered, packets, batches, errs, outErrs>>
        /\ out' \in {out, Append(out, carried)} /\ carried' = <<>>
    BY <1>18 DEF Pipeline!RelayPut
  <2>2. Append(out, carried) \in Seq(Seq(Nat)) /\ <<>> \in Seq(Nat)
    BY AppendProperties, EmptySeq
  <2>3. QED
    BY <2>1, <2>2
<1>19. CASE Pipeline!RelayBatchesClosed
  BY <1>19 DEF Pipeline!RelayBatchesClosed, Pipeline!Unwatch
<1>20. CASE Pipeline!RelayErrsClosed
  BY <1>20 DEF Pipeline!RelayErrsClosed, Pipeline!Unwatch
<1>21. CASE Pipeline!RelayError
  <2>1. /\ UNCHANGED <<building, carried, delivered, packets, batches, out>>
        /\ errs' = Tail(errs) /\ outErrs' \in {outErrs, Append(outErrs, Head(errs))}
    BY <1>21 DEF Pipeline!RelayError
  <2>2. Head(errs) \in {"error"} /\ Tail(errs) \in Seq({"error"})
    BY <1>21, HeadTailProperties DEF Pipeline!RelayError
  <2>3. Append(outErrs, Head(errs)) \in Seq({"error"})
    BY <2>2, AppendProperties
  <2>4. QED
    BY <2>1, <2>2, <2>3
<1>22. CASE Pipeline!RelayDone
  BY <1>22 DEF Pipeline!RelayDone
<1>23. CASE Pipeline!RelayCloses
  BY <1>23 DEF Pipeline!RelayCloses
<1>24. CASE Pipeline!Started
  BY <1>24 DEF Pipeline!Started
<1>25. CASE Pipeline!ForwardDone
  BY <1>25 DEF Pipeline!ForwardDone
<1>26. CASE Pipeline!ForwardBatch
  <2>1. /\ UNCHANGED <<building, carried, packets, batches, errs, outErrs>>
        /\ out' = Tail(out) /\ delivered' \in {delivered, delivered \o Head(out)}
    BY <1>26 DEF Pipeline!ForwardBatch
  <2>2. Head(out) \in Seq(Nat) /\ Tail(out) \in Seq(Seq(Nat))
    BY <1>26, HeadTailProperties DEF Pipeline!ForwardBatch
  <2>3. delivered \o Head(out) \in Seq(Nat)
    BY <2>2, ConcatProperties
  <2>4. QED
    BY <2>1, <2>2, <2>3
<1>27. CASE Pipeline!ForwardEnded
  BY <1>27 DEF Pipeline!ForwardEnded
<1>28. CASE Pipeline!ForwardError
  BY <1>28 DEF Pipeline!ForwardError
<1>29. CASE Pipeline!ForwardReturns
  BY <1>29 DEF Pipeline!ForwardReturns
<1>30. CASE Pipeline!Elapse
  BY <1>30 DEF Pipeline!Elapse
<1>31. CASE Pipeline!Cancel
  BY <1>31 DEF Pipeline!Cancel
<1>32. CASE Pipeline!RingError
  BY <1>32 DEF Pipeline!RingError
<1>33. ASSUME NEW s \in Sizes, Pipeline!ReadPacket(s) PROVE PipeData'
  BY <1>33 DEF Pipeline!ReadPacket
<1>34. ASSUME NEW s \in Sizes, Pipeline!RingPacket(s) PROVE PipeData'
  <2>1. /\ UNCHANGED <<carried, delivered, packets, batches, out, errs, outErrs>>
        /\ building' \in {building, Append(building, Len(read'))}
        /\ Len(read') \in Nat
    BY <1>34 DEF Pipeline!RingPacket, Pipeline!Take, Pipeline!Add
  <2>2. Append(building, Len(read')) \in Seq(Nat)
    BY <2>1, AppendProperties
  <2>3. QED
    BY <2>1, <2>2
<1>35. QED
  BY <1>1, <1>2, <1>3, <1>4, <1>5, <1>6, <1>7, <1>8, <1>9, <1>10, <1>11,
     <1>12, <1>13, <1>14, <1>15, <1>16, <1>17, <1>18, <1>19, <1>20, <1>21,
     <1>22, <1>23, <1>24, <1>25, <1>26, <1>27, <1>28, <1>29, <1>30, <1>31,
     <1>32, <1>33, <1>34 DEF Pipeline!Next, Pipeline!Reads, Pipeline!Builds,
     Pipeline!Relays, Pipeline!Forwards

(* What Add and Take do to the batch under construction.                   *)
Added(b, p) ==
    /\ building' = Append(b, p) /\ pending' = 0 /\ Proper(read', building')
    /\ builder' = "flush" \/ (builder' = Pipeline!Idle /\ Begun(read', building'))

(* Add makes a proper batch: full, or with room for another packet.        *)
LEMMA AddStep ==
  ASSUME read' \in Seq(Nat), NEW b, Begun(read', b), NEW p \in 1..Len(read'),
         Weight(read', b) = Weight(read, b),
         b = <<>> \/ Weight(read, b) + read'[p] <= BatchBytes,
         Pipeline!Add(b, p)
  PROVE  Added(b, p)
<1>1. PICK r : r = read'
  OBVIOUS
<1>2. /\ building' = Append(b, p) /\ pending' = 0
      /\ builder' = IF Len(Append(b, p)) >= BatchPackets
                       \/ (Weight(r, b) + r[p]) >= BatchBytes
                    THEN "flush" ELSE Pipeline!Idle
  BY <1>1, BytesAre DEF Pipeline!Add
<1>3. /\ r \in Seq(Nat) /\ Begun(r, b) /\ p \in 1..Len(r)
      /\ b = <<>> \/ Weight(r, b) + r[p] <= BatchBytes
  BY <1>1
<1>4. /\ Proper(r, Append(b, p))
      /\ ~(Len(Append(b, p)) >= BatchPackets \/ Weight(r, b) + r[p] >= BatchBytes) =>
            Begun(r, Append(b, p))
  BY <1>3, AddedIsProper
<1>5. builder' = "flush" \/ (builder' = Pipeline!Idle /\ Begun(r, building'))
  BY <1>2, <1>4
<1>6. QED
  BY <1>1, <1>2, <1>4, <1>5 DEF Added

TakenBy(p) ==
    \/ Added(building, p)
    \/ /\ builder' = "flush" /\ pending' = p /\ building' = building
       /\ building # <<>>

(* Take adds the packet, or has it wait for the flush.                     *)
LEMMA TakeStep ==
  ASSUME read' \in Seq(Nat), Begun(read', building), NEW p \in 1..Len(read'),
         Weight(read', building) = Weight(read, building),
         Pipeline!Take(p)
  PROVE  TakenBy(p)
<1>1. Weight(read', building) \in Nat /\ read'[p] \in Nat
  BY WeightType DEF Begun
<1>2. CASE building # <<>> /\ Weight(read, building) + read'[p] > BatchBytes
  BY <1>2, BytesAre DEF Pipeline!Take, TakenBy
<1>3. CASE ~(building # <<>> /\ Weight(read, building) + read'[p] > BatchBytes)
  <2>1. building = <<>> \/ Weight(read, building) + read'[p] <= BatchBytes
    BY <1>1, <1>3, PipelineAssumption
  <2>2. Pipeline!Add(building, p)
    BY <1>3, BytesAre DEF Pipeline!Take
  <2>3. QED
    BY <2>1, <2>2, AddStep DEF TakenBy
<1>4. QED
  BY <1>2, <1>3

(* Batches that are queued and taken stay proper.                          *)
LEMMA AllProperFacts ==
  ASSUME NEW r, NEW bs \in Seq(Seq(Nat)), AllProper(r, bs)
  PROVE  /\ \A b \in Seq(Nat) : Proper(r, b) => AllProper(r, Append(bs, b))
         /\ bs # <<>> => AllProper(r, Tail(bs)) /\ Proper(r, Head(bs))
<1>1. ASSUME NEW b \in Seq(Nat), Proper(r, b) PROVE AllProper(r, Append(bs, b))
  <2>1. /\ Len(Append(bs, b)) = Len(bs) + 1 /\ Append(bs, b)[Len(bs) + 1] = b
        /\ Len(bs) \in Nat
        /\ \A i \in 1..Len(bs) : Append(bs, b)[i] = bs[i]
    BY AppendProperties
  <2> DEFINE cs == Append(bs, b)
  <2> HIDE DEF cs
  <2>2. QED
    BY <1>1, <2>1 DEF AllProper, cs
<1>2. ASSUME bs # <<>> PROVE AllProper(r, Tail(bs)) /\ Proper(r, Head(bs))
  <2>1. /\ Len(Tail(bs)) = Len(bs) - 1 /\ Len(bs) \in Nat \ {0} /\ Head(bs) = bs[1]
        /\ \A i \in 1..Len(Tail(bs)) : Tail(bs)[i] = bs[i + 1]
    BY <1>2, HeadTailProperties, EmptySeq
  <2> DEFINE cs == Tail(bs)
             b == Head(bs)
  <2> HIDE DEF cs, b
  <2>2. \A i \in 1..Len(cs) : i + 1 \in 1..Len(bs)
    BY <2>1 DEF cs
  <2>3. QED
    BY <2>1, <2>2 DEF AllProper, cs, b
<1>3. QED
  BY <1>1, <1>2

(* Captured lengths are numbers.                                           *)
LEMMA ReadNumbers == ASSUME PipeCounts PROVE read \in Seq(Nat)
BY PipelineAssumption, SeqMonotonic DEF PipeCounts

(* Another packet read leaves the earlier ones and their batches as they   *)
(* are.                                                                    *)
LEMMA ReadOn ==
  ASSUME PipeCounts, PipeData, LimitInv, NEW s \in Sizes, read' = Append(read, s)
  PROVE  /\ read' \in Seq(Nat) /\ Len(read') = Len(read) + 1 /\ Len(read) \in Nat
         /\ read' # <<>>
         /\ AllProper(read', batches) /\ AllProper(read', out)
         /\ relay = "put" => Proper(read', carried)
         /\ building # <<>> => Proper(read', building)
         /\ builder \in {"select", "loop", "ring"} => Begun(read', building)
         /\ packets \in Seq(1..Len(read'))
         /\ Begun(read, building) => Weight(read', building) = Weight(read, building)
<1>1. s \in Nat /\ read \in Seq(Nat)
  BY PipelineAssumption, ReadNumbers
<1>2. PICK r : r = read'
  OBVIOUS
<1>3. r = Append(read, s) /\ r \in Seq(Nat) /\ Len(r) = Len(read) + 1 /\ Len(read) \in Nat
      /\ r # <<>>
  BY <1>1, <1>2, AppendProperties
<1>4. \A b : (Proper(read, b) => Proper(r, b)) /\ (Begun(read, b) => Begun(r, b))
  BY <1>1, <1>3, ProperKept
<1>5. packets \in Seq(1..Len(r))
  <2>1. 1..Len(read) \subseteq 1..Len(r)
    BY <1>3
  <2>2. QED
    BY <2>1, SeqMonotonic DEF LimitInv
<1>6. Begun(read, building) => Weight(r, building) = Weight(read, building)
  BY <1>1, <1>3, WeightKept DEF Begun
<1>7. AllProper(r, batches) /\ AllProper(r, out)
  BY <1>4 DEF AllProper, LimitInv
<1>8. QED
  BY <1>2, <1>3, <1>4, <1>5, <1>6, <1>7 DEF LimitInv

(* A batch is sent when it is full, and a packet that does not fit waits.  *)
LEMMA PipeLimitStep ==
  ASSUME PipeCounts, PipeData, StagesInv, LimitInv, Pipeline!Next
  PROVE  LimitInv'
<1> USE DEF Pipeline!ctxVars, Pipeline!readVars, Pipeline!buildVars,
        Pipeline!chanVars, Pipeline!relayVars, Pipeline!outVars, Pipeline!forwardVars,
        PipeData, PipeCounts, LimitInv, Pipeline!Idle
<1>0. read \in Seq(Nat)
  BY ReadNumbers
<1>1. CASE Pipeline!ReadHeader
  BY <1>1 DEF Pipeline!ReadHeader, Pipeline!ReaderEnds
<1>2. CASE Pipeline!ReadError
  BY <1>2 DEF Pipeline!ReadError, Pipeline!ReaderEnds
<1>3. CASE Pipeline!ReadEOF
  BY <1>3 DEF Pipeline!ReadEOF
<1>4. CASE Pipeline!ReaderSend
  <2>1. /\ UNCHANGED <<batches, out, relay, carried, builder, building, read>>
        /\ packets' \in {packets, Append(packets, Len(read))}
        /\ reader = "send" /\ reader' # "send"
    BY <1>4 DEF Pipeline!ReaderSend, Pipeline!ReaderEnds
  <2>4. Len(read) \in 1..Len(read)
    BY <1>0, <2>1, EmptySeq
  <2>2. Append(packets, Len(read)) \in Seq(1..Len(read))
    BY <2>4, AppendProperties
  <2>3. QED
    BY <2>1, <2>2
<1>5. CASE Pipeline!Exited
  BY <1>5 DEF Pipeline!Exited, Pipeline!ReaderEnds
<1>6. CASE Pipeline!BatchPacket
  <2>1. /\ UNCHANGED <<reader, batches, out, relay, carried, read>> /\ packets' = Tail(packets)
        /\ builder = "select" /\ packets # <<>> /\ Pipeline!Take(Head(packets))
    BY <1>6 DEF Pipeline!BatchPacket
  <2>2. Head(packets) \in 1..Len(read) /\ Tail(packets) \in Seq(1..Len(read))
    BY <2>1, HeadTailProperties
  <2>3. TakenBy(Head(packets))
    BY <1>0, <2>1, <2>2, TakeStep
  <2>4. QED
    BY <2>1, <2>2, <2>3 DEF TakenBy, Added, Proper, Begun
<1>7. CASE Pipeline!BatchEnd
  BY <1>7 DEF Pipeline!BatchEnd
<1>8. CASE Pipeline!BatchTimeout
  BY <1>8 DEF Pipeline!BatchTimeout
<1>9. CASE Pipeline!BuilderDone
  BY <1>9 DEF Pipeline!BuilderDone
<1>10. CASE Pipeline!LoopBegins
  BY <1>10 DEF Pipeline!LoopBegins
<1>11. CASE Pipeline!RingTimeout
  BY <1>11 DEF Pipeline!RingTimeout
<1>12. CASE Pipeline!Flush
  <2>1. UNCHANGED <<reader, out, relay, carried, read, packets>> /\ builder = "flush"
    BY <1>12 DEF Pipeline!Flush
  <2>2. Proper(read, building) /\ AllProper(read, Append(batches, building))
    BY <2>1, AllProperFacts
  <2>3. \/ /\ batches' = Append(batches, building) /\ pending = 0
           /\ builder' = Pipeline!Idle /\ building' = <<>>
        \/ /\ batches' = Append(batches, building) /\ pending # 0
           /\ Pipeline!Add(<<>>, pending)
        \/ builder' = "closeErrs" /\ UNCHANGED <<building, batches>>
    BY <1>12 DEF Pipeline!Flush
  <2>4. Begun(read, <<>>) /\ Weight(read, <<>>) = 0
    BY EmptySeq, WeightNil DEF Begun
  <2>5. pending # 0 /\ Pipeline!Add(<<>>, pending) => Added(<<>>, pending)
    BY <1>0, <2>1, <2>4, AddStep
  <2>6. QED
    BY <2>1, <2>2, <2>3, <2>4, <2>5 DEF Added, Proper
<1>13. CASE Pipeline!LastFlush
  <2>1. /\ UNCHANGED <<reader, out, relay, carried, read, packets>>
        /\ builder' = "result" /\ building' = <<>>
        /\ \/ batches' = batches
           \/ batches' = Append(batches, building) /\ building # <<>>
    BY <1>13 DEF Pipeline!LastFlush
  <2>2. building # <<>> => AllProper(read, Append(batches, building))
    BY AllProperFacts
  <2>3. QED
    BY <2>1, <2>2
<1>14. CASE Pipeline!Result
  BY <1>14 DEF Pipeline!Result
<1>15. CASE Pipeline!CloseErrs
  BY <1>15 DEF Pipeline!CloseErrs
<1>16. CASE Pipeline!CloseBatches
  BY <1>16 DEF Pipeline!CloseBatches
<1>17. CASE Pipeline!RelayBatch
  <2>1. /\ UNCHANGED <<reader, out, read, packets, builder, building>> /\ relay' = "put"
        /\ carried' = Head(batches) /\ batches' = Tail(batches) /\ batches # <<>>
    BY <1>17 DEF Pipeline!RelayBatch
  <2>2. AllProper(read, Tail(batches)) /\ Proper(read, Head(batches))
    BY <2>1, AllProperFacts
  <2>3. QED
    BY <2>1, <2>2
<1>18. CASE Pipeline!RelayPut
  <2>1. /\ UNCHANGED <<reader, batches, read, packets, builder, building>>
        /\ relay = "put" /\ relay' # "put" /\ out' \in {out, Append(out, carried)}
    BY <1>18 DEF Pipeline!RelayPut
  <2>2. AllProper(read, Append(out, carried))
    BY <2>1, AllProperFacts
  <2>3. QED
    BY <2>1, <2>2
<1>19. CASE Pipeline!RelayBatchesClosed
  BY <1>19 DEF Pipeline!RelayBatchesClosed, Pipeline!Unwatch
<1>20. CASE Pipeline!RelayErrsClosed
  BY <1>20 DEF Pipeline!RelayErrsClosed, Pipeline!Unwatch
<1>21. CASE Pipeline!RelayError
  BY <1>21 DEF Pipeline!RelayError
<1>22. CASE Pipeline!RelayDone
  BY <1>22 DEF Pipeline!RelayDone
<1>23. CASE Pipeline!RelayCloses
  BY <1>23 DEF Pipeline!RelayCloses
<1>24. CASE Pipeline!Started
  BY <1>24 DEF Pipeline!Started
<1>25. CASE Pipeline!ForwardDone
  BY <1>25 DEF Pipeline!ForwardDone
<1>26. CASE Pipeline!ForwardBatch
  <2>1. /\ UNCHANGED <<reader, batches, read, packets, builder, building, relay, carried>>
        /\ out # <<>> /\ out' = Tail(out)
    BY <1>26 DEF Pipeline!ForwardBatch
  <2>2. AllProper(read, Tail(out))
    BY <2>1, AllProperFacts
  <2>3. QED
    BY <2>1, <2>2
<1>27. CASE Pipeline!ForwardEnded
  BY <1>27 DEF Pipeline!ForwardEnded
<1>28. CASE Pipeline!ForwardError
  BY <1>28 DEF Pipeline!ForwardError
<1>29. CASE Pipeline!ForwardReturns
  BY <1>29 DEF Pipeline!ForwardReturns
<1>30. CASE Pipeline!Elapse
  BY <1>30 DEF Pipeline!Elapse
<1>31. CASE Pipeline!Cancel
  BY <1>31 DEF Pipeline!Cancel
<1>32. CASE Pipeline!RingError
  BY <1>32 DEF Pipeline!RingError
<1>33. ASSUME NEW s \in Sizes, Pipeline!ReadPacket(s) PROVE LimitInv'
  <2>1. /\ UNCHANGED <<batches, out, relay, carried, builder, building, packets>>
        /\ read' = Append(read, s)
    BY <1>33 DEF Pipeline!ReadPacket
  <2>2. QED
    BY <2>1, ReadOn
<1>34. ASSUME NEW s \in Sizes, Pipeline!RingPacket(s) PROVE LimitInv'
  <2>1. /\ UNCHANGED <<reader, batches, out, relay, carried, packets>>
        /\ read' = Append(read, s) /\ builder = "ring"
        /\ \/ building # <<>> /\ builder' = "flush" /\ building' = building
           \/ Pipeline!Take(Len(read'))
    BY <1>34 DEF Pipeline!RingPacket
  <2>2. Begun(read', building) /\ Weight(read', building) = Weight(read, building)
    BY <2>1, ReadOn
  <2>3. Pipeline!Take(Len(read')) => TakenBy(Len(read'))
    BY <1>0, <2>1, <2>2, ReadOn, TakeStep
  <2>4. QED
    BY <2>1, <2>2, <2>3, ReadOn DEF TakenBy, Added, Proper
<1>35. QED
  BY <1>1, <1>2, <1>3, <1>4, <1>5, <1>6, <1>7, <1>8, <1>9, <1>10, <1>11,
     <1>12, <1>13, <1>14, <1>15, <1>16, <1>17, <1>18, <1>19, <1>20, <1>21,
     <1>22, <1>23, <1>24, <1>25, <1>26, <1>27, <1>28, <1>29, <1>30, <1>31,
     <1>32, <1>33, <1>34 DEF Pipeline!Next, Pipeline!Reads, Pipeline!Builds,
     Pipeline!Relays, Pipeline!Forwards

(* Rows of packets: none, one more at the end, one less at the front, two  *)
(* in a row.                                                               *)
LEMMA RunFacts ==
  ASSUME NEW b \in Seq(Nat), NEW k \in Nat, Run(b, k)
  PROVE  /\ Run(<<>>, k)
         /\ Run(Append(b, k + Len(b) + 1), k)
         /\ b # <<>> => Head(b) = k + 1 /\ Run(Tail(b), k + 1)
<1>1. Run(<<>>, k)
  BY EmptySeq DEF Run
<1>2. Run(Append(b, k + Len(b) + 1), k)
  <2>1. /\ Len(b) \in Nat /\ k + Len(b) + 1 \in Nat
    OBVIOUS
  <2> DEFINE p == k + Len(b) + 1
             c == Append(b, p)
  <2>2. /\ Len(c) = Len(b) + 1 /\ c[Len(b) + 1] = p
        /\ \A i \in 1..Len(b) : c[i] = b[i]
    BY <2>1, AppendProperties
  <2> HIDE DEF c
  <2>3. \A i \in 1..Len(c) : i \in 1..Len(b) \/ i = Len(b) + 1
    BY <2>1, <2>2
  <2>4. QED
    BY <2>1, <2>2, <2>3 DEF Run, c
<1>3. ASSUME b # <<>> PROVE Head(b) = k + 1 /\ Run(Tail(b), k + 1)
  <2> DEFINE c == Tail(b)
  <2>1. /\ Len(c) = Len(b) - 1 /\ Len(b) \in Nat \ {0} /\ Head(b) = b[1]
        /\ \A i \in 1..Len(c) : c[i] = b[i + 1]
    BY <1>3, HeadTailProperties, EmptySeq
  <2> HIDE DEF c
  <2>2. \A i \in 1..Len(c) : i + 1 \in 1..Len(b)
    BY <2>1
  <2>3. QED
    BY <2>1, <2>2 DEF Run, c
<1>4. QED
  BY <1>1, <1>2, <1>3

(* What is sent next goes on where what was sent ends.                     *)
LEMMA RunConcat ==
  ASSUME NEW d \in Seq(Nat), Run(d, 0), NEW b \in Seq(Nat), Run(b, Len(d))
  PROVE  Run(d \o b, 0) /\ Len(d \o b) = Len(d) + Len(b)
<1> DEFINE c == d \o b
<1>1. /\ Len(c) = Len(d) + Len(b) /\ Len(d) \in Nat /\ Len(b) \in Nat
      /\ \A i \in 1..Len(c) : c[i] = IF i <= Len(d) THEN d[i] ELSE b[i - Len(d)]
  BY ConcatProperties
<1> HIDE DEF c
<1>2. ASSUME NEW i \in 1..Len(c) PROVE c[i] = 0 + i
  <2>1. CASE i <= Len(d)
    BY <1>1, <2>1 DEF Run
  <2>2. CASE i > Len(d)
    <3>1. i - Len(d) \in 1..Len(b) /\ Len(d) + (i - Len(d)) = 0 + i
      BY <1>1, <2>2
    <3>2. b[i - Len(d)] = Len(d) + (i - Len(d))
      BY <3>1 DEF Run
    <3>3. c[i] = b[i - Len(d)]
      BY <1>1, <2>2
    <3>4. QED
      BY <3>1, <3>2, <3>3
  <2>3. QED
    BY <1>1, <2>1, <2>2
<1>3. QED
  BY <1>1, <1>2 DEF Run, c

(* What a closed relay says of the batches.                                *)
LEMMA RelayClosed ==
  ASSUME PipeWords, PipeData, StagesInv, NEW o \in Nat, NEW e \in Nat, Ahead(o, e),
         relay = "select", batches = <<>>, batchesClosed, ~done
  PROVE  Len(read) = o
<1>1. builder = "done" /\ carried = <<>>
  BY DEF StagesInv
<1>2. Line(<<>>, o, e) /\ Len(read) = e
  BY <1>1 DEF Ahead, Past
<1>3. QED
  BY <1>2, LineEmpty

(* As long as forwardBatches goes on, the packets stay in a row.           *)
LEMMA PipeRowStep ==
  ASSUME PipeWords, PipeCounts, PipeData, StagesInv, LimitInv, RowInv,
         forward \in {"starting", "select"}, forward' \in {"starting", "select"},
         NEW o \in Nat, NEW e \in Nat, Ahead(o, e), Pipeline!Next
  PROVE  \E q \in Nat, f \in Nat : Ahead(q, f)'
<1> USE DEF Pipeline!ctxVars, Pipeline!readVars, Pipeline!buildVars,
        Pipeline!chanVars, Pipeline!relayVars, Pipeline!outVars, Pipeline!forwardVars,
        PipeData
<1>0. read \in Seq(Nat)
  BY ReadNumbers
<1>alive. forward' # "end"
  OBVIOUS
<1>1. CASE Pipeline!ReadHeader
  <2>1. Behind(e) => Behind(e)'
    BY <1>1 DEF Pipeline!ReadHeader, Pipeline!ReaderEnds, Behind, Known, StagesInv,
       Past, PipeWords
  <2>2. Ahead(o, e)'
    BY <1>1, <2>1 DEF Pipeline!ReadHeader, Pipeline!ReaderEnds, Ahead, StagesInv, Past
  <2>3. QED
    BY <2>2
<1>2. CASE Pipeline!ReadError
  <2>1. Behind(e) => Behind(e)'
    BY <1>2 DEF Pipeline!ReadError, Pipeline!ReaderEnds, Behind, Known, StagesInv,
       Past, PipeWords
  <2>2. Ahead(o, e)'
    BY <1>2, <2>1 DEF Pipeline!ReadError, Pipeline!ReaderEnds, Ahead, StagesInv, Past
  <2>3. QED
    BY <2>2
<1>3. CASE Pipeline!ReadEOF
  <2>1. Behind(e) => Behind(e)'
    BY <1>3 DEF Pipeline!ReadEOF, Behind, Known, StagesInv, Past, PipeWords
  <2>2. Ahead(o, e)'
    BY <1>3, <2>1 DEF Pipeline!ReadEOF, Ahead, StagesInv, Past
  <2>3. QED
    BY <2>2
<1>4. CASE Pipeline!ReaderSend
  <2>1. /\ UNCHANGED <<builder, building, pending, batches, relay, carried>>
        /\ UNCHANGED <<out, delivered, read, done>>
        /\ reader = "send" /\ reader' # "send" /\ readDone # "cancelled"
        /\ \/ packets' = Append(packets, Len(read)) /\ readDone' = readDone
           \/ packets' = packets /\ readDone' = "cancelled"
    BY <1>4 DEF Pipeline!ReaderSend, Pipeline!ReaderEnds, StagesInv
  <2>2. ASSUME Behind(e) PROVE Behind(e)'
    <3>1. Known(e) \in Nat /\ Known(e)' = Known(e)
      BY <2>1 DEF Known
    <3>2. Run(packets, Known(e)) /\ Len(read) = Known(e) + Len(packets) + 1
      BY <2>1, <2>2 DEF Behind
    <3>3. /\ Run(Append(packets, Len(read)), Known(e))
          /\ Len(Append(packets, Len(read))) = Len(packets) + 1
      BY <3>1, <3>2, RunFacts, AppendProperties
    <3>4. /\ Len(packets) \in Nat /\ Run(building, e)
          /\ pending # 0 => pending = e + Len(building) + 1
      BY <2>2 DEF Behind
    <3>5. CASE packets' = Append(packets, Len(read)) /\ readDone' = readDone
      BY <2>1, <3>1, <3>2, <3>3, <3>4, <3>5 DEF Behind
    <3>6. CASE packets' = packets /\ readDone' = "cancelled"
      BY <2>1, <3>1, <3>2, <3>4, <3>6 DEF Behind
    <3>7. QED
      BY <2>1, <3>5, <3>6
  <2>3. QED
    BY <2>1, <2>2 DEF Ahead
<1>5. CASE Pipeline!Exited
  <2>1. Behind(e) => Behind(e)'
    BY <1>5 DEF Pipeline!Exited, Pipeline!ReaderEnds, Behind, Known, StagesInv,
       Past, PipeWords
  <2>2. Ahead(o, e)'
    BY <1>5, <2>1 DEF Pipeline!Exited, Pipeline!ReaderEnds, Ahead, StagesInv, Past
  <2>3. QED
    BY <2>2
<1>6. CASE Pipeline!BatchPacket
  <2>1. /\ UNCHANGED <<batches, relay, carried, out, delivered, read, readDone>>
        /\ UNCHANGED <<reader, done>>
        /\ packets' = Tail(packets) /\ packets # <<>>
        /\ builder = "select" /\ pending = 0 /\ Pipeline!Take(Head(packets))
    BY <1>6 DEF Pipeline!BatchPacket, StagesInv, Past
  <2>2. Head(packets) \in 1..Len(read)
    BY <2>1, HeadTailProperties DEF LimitInv
  <2>3. TakenBy(Head(packets)) /\ builder' \notin Past
    BY <1>0, <2>1, <2>2, TakeStep DEF TakenBy, Added, LimitInv, Pipeline!Idle, Past
  <2>4. ASSUME Behind(e) PROVE Behind(e)'
    <3>1. /\ Known(e) = e + Len(building) /\ Known(e) \in Nat
          /\ Run(building, e) /\ Run(packets, Known(e))
      BY <2>1, <2>4 DEF Behind, Known
    <3>2. Head(packets) = Known(e) + 1 /\ Run(Tail(packets), Known(e) + 1)
      BY <2>1, <3>1, RunFacts
    <3>3. /\ Run(Append(building, Head(packets)), e)
          /\ Len(Append(building, Head(packets))) = Len(building) + 1
      BY <3>1, <3>2, RunFacts, AppendProperties
    <3>4. Len(Tail(packets)) = Len(packets) - 1 /\ Len(packets) \in Nat
      BY <2>1, HeadTailProperties
    <3>5. readDone # "cancelled" =>
             Len(read) = Known(e) + Len(packets) + (IF reader = "send" THEN 1 ELSE 0)
      BY <2>4 DEF Behind
    <3>6. CASE Added(building, Head(packets))
      <4>1. /\ Len(building') = Len(building) + 1 /\ Len(building) \in Nat
            /\ Run(building', e) /\ pending' = 0
        BY <3>3, <3>6 DEF Added
      <4>5. e + Len(building') + 0 = (e + Len(building)) + 1
        BY <4>1
      <4>6. Known(e)' = e + Len(building') + 0
        BY <4>1 DEF Known
      <4>2. Known(e)' = Known(e) + 1
        BY <3>1, <4>5, <4>6
      <4>3. Run(packets', Known(e)') /\ Len(packets') = Len(packets) - 1
        BY <2>1, <3>2, <3>4, <4>2
      <4>9. \A k, p \in Nat : \A x \in {0, 1} : k + p + x = (k + 1) + (p - 1) + x
        OBVIOUS
      <4>a. PICK x \in {0, 1} : x = IF reader = "send" THEN 1 ELSE 0
        OBVIOUS
      <4>b. readDone # "cancelled" => Len(read) = Known(e) + Len(packets) + x
        BY <3>5, <4>a
      <4>c. Known(e) + Len(packets) + x = (Known(e) + 1) + (Len(packets) - 1) + x
        BY <3>1, <3>4, <4>9
      <4>d. Known(e)' = Known(e) + 1 /\ Len(packets') = Len(packets) - 1
        BY <4>2, <4>3
      <4>7. readDone # "cancelled" =>
               Len(read) = Known(e)' + Len(packets') + (IF reader = "send" THEN 1 ELSE 0)
        BY <4>a, <4>b, <4>c, <4>d
      <4>8. reader' = reader /\ read' = read /\ readDone' = readDone
        BY <2>1
      <4>4. QED
        BY <4>1, <4>3, <4>7, <4>8 DEF Behind
    <3>7. CASE pending' = Head(packets) /\ building' = building
      <4>1. /\ pending' # 0 /\ pending' = e + Len(building) + 1
            /\ Known(e)' = Known(e) + 1
        BY <3>1, <3>2, <3>7 DEF Known
      <4>2. Run(packets', Known(e)') /\ Len(packets') = Len(packets) - 1
        BY <2>1, <3>2, <3>4, <4>1
      <4>3. building' = building
        BY <3>7
      <4>9. \A k, p \in Nat : \A x \in {0, 1} : k + p + x = (k + 1) + (p - 1) + x
        OBVIOUS
      <4>a. PICK x \in {0, 1} : x = IF reader = "send" THEN 1 ELSE 0
        OBVIOUS
      <4>b. readDone # "cancelled" => Len(read) = Known(e) + Len(packets) + x
        BY <3>5, <4>a
      <4>c. Known(e) + Len(packets) + x = (Known(e) + 1) + (Len(packets) - 1) + x
        BY <3>1, <3>4, <4>9
      <4>d. Known(e)' = Known(e) + 1 /\ Len(packets') = Len(packets) - 1
        BY <4>1, <4>2
      <4>7. readDone # "cancelled" =>
               Len(read) = Known(e)' + Len(packets') + (IF reader = "send" THEN 1 ELSE 0)
        BY <4>a, <4>b, <4>c, <4>d
      <4>8. reader' = reader /\ read' = read /\ readDone' = readDone
        BY <2>1
      <4>4. QED
        BY <3>1, <4>1, <4>2, <4>3, <4>7, <4>8 DEF Behind
    <3>8. QED
      BY <2>3, <3>6, <3>7 DEF TakenBy
  <2>5. QED
    BY <2>1, <2>3, <2>4 DEF Ahead, Past
<1>7. CASE Pipeline!BatchEnd
  <2>1. Behind(e) => Behind(e)'
    BY <1>7 DEF Pipeline!BatchEnd, Behind, Known, StagesInv, Past, PipeWords
  <2>2. Ahead(o, e)'
    BY <1>7, <2>1 DEF Pipeline!BatchEnd, Ahead, StagesInv, Past
  <2>3. QED
    BY <2>2
<1>8. CASE Pipeline!BatchTimeout
  <2>1. Behind(e) => Behind(e)'
    BY <1>8 DEF Pipeline!BatchTimeout, Behind, Known, StagesInv, Past, PipeWords
  <2>2. Ahead(o, e)'
    BY <1>8, <2>1 DEF Pipeline!BatchTimeout, Ahead, StagesInv, Past
  <2>3. QED
    BY <2>2
<1>9. CASE Pipeline!BuilderDone
  <2>1. Behind(e) => Behind(e)'
    BY <1>9 DEF Pipeline!BuilderDone, Behind, Known, StagesInv, Past, PipeWords
  <2>2. Ahead(o, e)'
    BY <1>9, <2>1 DEF Pipeline!BuilderDone, Ahead, StagesInv, Past
  <2>3. QED
    BY <2>2
<1>10. CASE Pipeline!LoopBegins
  <2>1. Behind(e) => Behind(e)'
    BY <1>10 DEF Pipeline!LoopBegins, Behind, Known, StagesInv, Past, PipeWords
  <2>2. Ahead(o, e)'
    BY <1>10, <2>1 DEF Pipeline!LoopBegins, Ahead, StagesInv, Past
  <2>3. QED
    BY <2>2
<1>11. CASE Pipeline!RingTimeout
  <2>1. Behind(e) => Behind(e)'
    BY <1>11 DEF Pipeline!RingTimeout, Behind, Known, StagesInv, Past, PipeWords
  <2>2. Ahead(o, e)'
    BY <1>11, <2>1 DEF Pipeline!RingTimeout, Ahead, StagesInv, Past
  <2>3. QED
    BY <2>2
<1>12. CASE Pipeline!Flush
  <2>1. /\ UNCHANGED <<relay, carried, out, delivered, read, readDone, packets>>
        /\ UNCHANGED <<reader, done>> /\ builder = "flush" /\ builder \notin Past
    BY <1>12 DEF Pipeline!Flush, Past
  <2>2. Begun(read, <<>>) /\ Weight(read, <<>>) = 0
    BY EmptySeq, WeightNil DEF Begun
  <2>3. pending # 0 /\ Pipeline!Add(<<>>, pending) => Added(<<>>, pending)
    BY <1>0, <2>1, <2>2, AddStep DEF PipeCounts
  <2>4. CASE builder' = "closeErrs" /\ done /\ UNCHANGED <<building, batches>>
    BY <2>1, <2>4 DEF Ahead, Past
  <2>7. PICK f \in Nat : f = e + Len(building)
    OBVIOUS
  <2>5. CASE /\ batches' = Append(batches, building) /\ builder' \notin Past
             /\ \/ pending = 0 /\ building' = <<>> /\ pending' = 0
                \/ pending # 0 /\ building' = Append(<<>>, pending) /\ pending' = 0
    <3>1. f = e + Len(building) /\ Len(building) \in Nat
      BY <2>7
    <3>2. ASSUME Behind(e) PROVE Behind(f)'
      <4>1. CASE pending = 0
        <5>1. Known(f)' = Known(e) /\ Run(<<>>, f)
          BY <2>5, <3>1, <4>1 DEF Known, Run
        <5>2. QED
          BY <2>1, <2>5, <3>2, <4>1, <5>1 DEF Behind
      <4>2. CASE pending # 0
        <5>1. pending = f + 1
          BY <3>1, <3>2, <4>2 DEF Behind
        <5>2. Len(<<>>) = 0 /\ <<>> \in Seq(Nat) /\ f + 0 + 1 = f + 1
          BY EmptySeq
        <5>3. Run(<<>>, f)
          BY <5>2 DEF Run
        <5>4. Run(Append(<<>>, f + 1), f) /\ Len(Append(<<>>, f + 1)) = 1
          <6>1. Run(Append(<<>>, f + Len(<<>>) + 1), f)
            BY <5>2, <5>3, RunFacts
          <6>2. QED
            BY <5>2, <6>1, AppendProperties
        <5>5. Run(building', f) /\ Len(building') = 1 /\ pending' = 0
          BY <2>5, <4>2, <5>1, <5>4
        <5>6. Known(f)' = Known(e)
          BY <3>1, <4>2, <5>5 DEF Known
        <5>7. QED
          BY <2>1, <3>2, <5>5, <5>6 DEF Behind
      <4>3. QED
        BY <4>1, <4>2
    <3>3. ASSUME relay \in {"select", "put"} PROVE Line(batches', o + Len(carried), f)
      <4>1. Line(batches, o + Len(carried), e) /\ Run(building, e)
        BY <2>1, <3>3 DEF Ahead, Behind
      <4>2. o + Len(carried) \in Nat
        OBVIOUS
      <4>3. QED
        BY <2>5, <2>7, <4>1, <4>2, LineAppend
    <3>4. Ahead(o, f)'
      BY <2>1, <2>5, <3>2, <3>3 DEF Ahead
    <3>5. QED
      BY <3>1, <3>4
  <2>6. QED
    BY <1>12, <2>3, <2>4, <2>5 DEF Pipeline!Flush, Added, Pipeline!Idle, Past
<1>13. CASE Pipeline!LastFlush
  <2>1. /\ UNCHANGED <<relay, carried, out, delivered, read, readDone, packets>>
        /\ UNCHANGED <<reader, done>> /\ builder = "last" /\ builder' = "result"
        /\ packets = <<>> /\ pending = 0 /\ reader # "send"
        /\ \/ batches' = batches /\ (building = <<>> \/ done)
           \/ batches' = Append(batches, building)
    BY <1>13 DEF Pipeline!LastFlush, StagesInv, Past
  <2>7. PICK f \in Nat : f = e + Len(building)
    OBVIOUS
  <2>2. /\ f = e + Len(building) /\ Len(building) \in Nat
        /\ builder \notin Past /\ builder' \in Past
    BY <2>1, <2>7 DEF Past
  <2>3. ASSUME relay \in {"select", "put"}
        PROVE  Run(building, e) /\ (~done => Len(read) = f)
    <3>1. Behind(e)
      BY <2>2, <2>3 DEF Ahead
    <3>2. Len(packets) = 0 /\ (~done => readDone # "cancelled")
      BY <2>1, EmptySeq DEF StagesInv
    <3>3. QED
      BY <2>1, <2>2, <3>1, <3>2 DEF Behind, Known
  <2>4. CASE batches' = batches /\ (building = <<>> \/ done)
    <3>1. ~done => f = e
      BY <2>2, <2>4, EmptySeq
    <3>2. Ahead(o, e)'
      BY <2>1, <2>2, <2>3, <2>4, <3>1 DEF Ahead
    <3>3. QED
      BY <3>2
  <2>5. CASE batches' = Append(batches, building)
    <3>1. ASSUME relay \in {"select", "put"} PROVE Line(batches', o + Len(carried), f)
      <4>1. Line(batches, o + Len(carried), e) /\ Run(building, e)
        BY <2>3, <3>1 DEF Ahead
      <4>2. o + Len(carried) \in Nat
        OBVIOUS
      <4>3. QED
        BY <2>5, <2>7, <4>1, <4>2, LineAppend
    <3>2. Ahead(o, f)'
      BY <2>1, <2>2, <2>3, <2>5, <3>1 DEF Ahead
    <3>3. QED
      BY <2>2, <3>2
  <2>6. QED
    BY <2>1, <2>4, <2>5
<1>14. CASE Pipeline!Result
  <2>1. Behind(e) => Behind(e)'
    BY <1>14 DEF Pipeline!Result, Behind, Known, StagesInv, Past, PipeWords
  <2>2. Ahead(o, e)'
    BY <1>14, <2>1 DEF Pipeline!Result, Ahead, StagesInv, Past
  <2>3. QED
    BY <2>2
<1>15. CASE Pipeline!CloseErrs
  <2>1. Behind(e) => Behind(e)'
    BY <1>15 DEF Pipeline!CloseErrs, Behind, Known, StagesInv, Past, PipeWords
  <2>2. Ahead(o, e)'
    BY <1>15, <2>1 DEF Pipeline!CloseErrs, Ahead, StagesInv, Past
  <2>3. QED
    BY <2>2
<1>16. CASE Pipeline!CloseBatches
  <2>1. Behind(e) => Behind(e)'
    BY <1>16 DEF Pipeline!CloseBatches, Behind, Known, StagesInv, Past, PipeWords
  <2>2. Ahead(o, e)'
    BY <1>16, <2>1 DEF Pipeline!CloseBatches, Ahead, StagesInv, Past
  <2>3. QED
    BY <2>2
<1>17. CASE Pipeline!RelayBatch
  <2>1. /\ UNCHANGED <<out, delivered, read, readDone, packets, builder, building>>
        /\ UNCHANGED <<reader, done, pending>>
        /\ relay = "select" /\ relay' = "put" /\ carried = <<>>
        /\ batches # <<>> /\ carried' = Head(batches) /\ batches' = Tail(batches)
    BY <1>17 DEF Pipeline!RelayBatch, StagesInv
  <2>2. Line(batches, o, e)
    <3>1. Line(batches, o + Len(carried), e) /\ Len(carried) = 0
      BY <2>1, EmptySeq DEF Ahead
    <3>2. QED
      BY <3>1
  <2>3. Run(Head(batches), o) /\ Line(Tail(batches), o + Len(Head(batches)), e)
    BY <2>1, <2>2, LineHead
  <2>4. Behind(e) => Behind(e)'
    BY <2>1 DEF Behind, Known
  <2>5. Ahead(o, e)'
    BY <2>1, <2>3, <2>4 DEF Ahead
  <2>6. QED
    BY <2>5
<1>18. CASE Pipeline!RelayPut
  <2>1. /\ UNCHANGED <<batches, delivered, read, readDone, packets, builder, building>>
        /\ UNCHANGED <<reader, done, pending>> /\ relay = "put" /\ carried' = <<>>
        /\ \/ out' = Append(out, carried) /\ relay' = "select"
           \/ done /\ out' = out /\ relay' = "closeErrs"
    BY <1>18 DEF Pipeline!RelayPut
  <2>2. CASE done /\ out' = out /\ relay' = "closeErrs"
    <3>1. Ahead(o, e)'
      BY <2>1, <2>2 DEF Ahead
    <3>2. QED
      BY <3>1
  <2>3. CASE out' = Append(out, carried) /\ relay' = "select"
    <3>8. PICK u \in Nat : u = o + Len(carried)
      OBVIOUS
    <3>1. Len(delivered) \in Nat /\ u + 0 = u /\ Len(<<>>) = 0
      BY EmptySeq
    <3>2. Line(out, Len(delivered), o) /\ Run(carried, o) /\ Line(batches, u, e)
      BY <2>1, <3>8 DEF Ahead
    <3>3. Line(out', Len(delivered), u)
      BY <2>3, <3>1, <3>2, <3>8, LineAppend
    <3>4. Behind(e) => Behind(e)'
      BY <2>1 DEF Behind, Known
    <3>5. Run(<<>>, u) /\ Line(batches, u + Len(<<>>), e)
      BY <3>1, <3>2 DEF Run
    <3>6. Ahead(u, e)'
      BY <2>1, <2>3, <3>3, <3>4, <3>5 DEF Ahead
    <3>7. QED
      BY <3>1, <3>6
  <2>4. QED
    BY <2>1, <2>2, <2>3
<1>19. CASE Pipeline!RelayBatchesClosed
  <2>1. /\ UNCHANGED <<batches, delivered, read, readDone, packets, builder, building>>
        /\ UNCHANGED <<reader, done, pending, out, carried>>
        /\ relay = "select" /\ batches = <<>> /\ batchesClosed
        /\ relay' \in {"select", "closeErrs"}
    BY <1>19 DEF Pipeline!RelayBatchesClosed, Pipeline!Unwatch
  <2>2. ~done => Len(read) = o
    BY <2>1, RelayClosed
  <2>3. Behind(e) => Behind(e)'
    BY <2>1 DEF Behind, Known
  <2>4. Ahead(o, e)'
    BY <2>1, <2>2, <2>3 DEF Ahead
  <2>5. QED
    BY <2>4
<1>20. CASE Pipeline!RelayErrsClosed
  <2>1. /\ UNCHANGED <<batches, delivered, read, readDone, packets, builder, building>>
        /\ UNCHANGED <<reader, done, pending, out, carried>> /\ relay = "select"
        /\ \/ relay' = "select"
           \/ relay' = "closeErrs" /\ batches = <<>> /\ batchesClosed
    BY <1>20 DEF Pipeline!RelayErrsClosed, Pipeline!Unwatch, StagesInv, PipeWords
  <2>2. relay' # "select" /\ ~done => Len(read) = o
    BY <2>1, RelayClosed
  <2>3. Behind(e) => Behind(e)'
    BY <2>1 DEF Behind, Known
  <2>4. Ahead(o, e)'
    BY <2>1, <2>2, <2>3 DEF Ahead
  <2>5. QED
    BY <2>4
<1>21. CASE Pipeline!RelayError
  <2>1. Behind(e) => Behind(e)'
    BY <1>21 DEF Pipeline!RelayError, Behind, Known, StagesInv, Past, PipeWords
  <2>2. Ahead(o, e)'
    BY <1>21, <2>1 DEF Pipeline!RelayError, Ahead, StagesInv, Past
  <2>3. QED
    BY <2>2
<1>22. CASE Pipeline!RelayDone
  <2>1. Behind(e) => Behind(e)'
    BY <1>22 DEF Pipeline!RelayDone, Behind, Known, StagesInv, Past, PipeWords
  <2>2. Ahead(o, e)'
    BY <1>22, <2>1 DEF Pipeline!RelayDone, Ahead, StagesInv, Past
  <2>3. QED
    BY <2>2
<1>23. CASE Pipeline!RelayCloses
  <2>1. Behind(e) => Behind(e)'
    BY <1>23 DEF Pipeline!RelayCloses, Behind, Known, StagesInv, Past, PipeWords
  <2>2. Ahead(o, e)'
    BY <1>23, <2>1 DEF Pipeline!RelayCloses, Ahead, StagesInv, Past
  <2>3. QED
    BY <2>2
<1>24. CASE Pipeline!Started
  <2>1. Behind(e) => Behind(e)'
    BY <1>24 DEF Pipeline!Started, Behind, Known, StagesInv, Past, PipeWords
  <2>2. Ahead(o, e)'
    BY <1>24, <2>1 DEF Pipeline!Started, Ahead, StagesInv, Past
  <2>3. QED
    BY <2>2
<1>25. CASE Pipeline!ForwardDone
  <2>1. Behind(e) => Behind(e)'
    BY <1>25 DEF Pipeline!ForwardDone, Behind, Known, StagesInv, Past, PipeWords
  <2>2. Ahead(o, e)'
    BY <1>25, <2>1 DEF Pipeline!ForwardDone, Ahead, StagesInv, Past
  <2>3. QED
    BY <2>2
<1>26. CASE Pipeline!ForwardBatch
  <2>1. /\ UNCHANGED <<batches, read, readDone, packets, builder, building, relay>>
        /\ UNCHANGED <<reader, done, pending, carried>>
        /\ out # <<>> /\ out' = Tail(out) /\ delivered' = delivered \o Head(out)
    BY <1>26, <1>alive DEF Pipeline!ForwardBatch
  <2>2. Line(out, Len(delivered), o) /\ Len(delivered) \in Nat
    BY DEF Ahead
  <2>3. Run(Head(out), Len(delivered)) /\ Line(Tail(out), Len(delivered) + Len(Head(out)), o)
    BY <2>1, <2>2, LineHead
  <2>4. Head(out) \in Seq(Nat)
    BY <2>1, HeadTailProperties
  <2>5. Len(delivered') = Len(delivered) + Len(Head(out))
    BY <2>1, <2>3, <2>4, RunConcat DEF RowInv
  <2>6. Behind(e) => Behind(e)'
    BY <2>1 DEF Behind, Known
  <2>7. Ahead(o, e)'
    BY <2>1, <2>3, <2>5, <2>6 DEF Ahead
  <2>8. QED
    BY <2>7
<1>27. CASE Pipeline!ForwardEnded
  <2>1. Behind(e) => Behind(e)'
    BY <1>27 DEF Pipeline!ForwardEnded, Behind, Known, StagesInv, Past, PipeWords
  <2>2. Ahead(o, e)'
    BY <1>27, <2>1 DEF Pipeline!ForwardEnded, Ahead, StagesInv, Past
  <2>3. QED
    BY <2>2
<1>28. CASE Pipeline!ForwardError
  <2>1. Behind(e) => Behind(e)'
    BY <1>28 DEF Pipeline!ForwardError, Behind, Known, StagesInv, Past, PipeWords
  <2>2. Ahead(o, e)'
    BY <1>28, <2>1 DEF Pipeline!ForwardError, Ahead, StagesInv, Past
  <2>3. QED
    BY <2>2
<1>29. CASE Pipeline!ForwardReturns
  <2>1. Behind(e) => Behind(e)'
    BY <1>29 DEF Pipeline!ForwardReturns, Behind, Known, StagesInv, Past, PipeWords
  <2>2. Ahead(o, e)'
    BY <1>29, <2>1 DEF Pipeline!ForwardReturns, Ahead, StagesInv, Past
  <2>3. QED
    BY <2>2
<1>30. CASE Pipeline!Elapse
  <2>1. Behind(e) => Behind(e)'
    BY <1>30 DEF Pipeline!Elapse, Behind, Known, StagesInv, Past, PipeWords
  <2>2. Ahead(o, e)'
    BY <1>30, <2>1 DEF Pipeline!Elapse, Ahead, StagesInv, Past
  <2>3. QED
    BY <2>2
<1>31. CASE Pipeline!Cancel
  <2>1. Behind(e) => Behind(e)'
    BY <1>31 DEF Pipeline!Cancel, Behind, Known, StagesInv, Past, PipeWords
  <2>2. Ahead(o, e)'
    BY <1>31, <2>1 DEF Pipeline!Cancel, Ahead, StagesInv, Past
  <2>3. QED
    BY <2>2
<1>32. CASE Pipeline!RingError
  <2>1. Behind(e) => Behind(e)'
    BY <1>32 DEF Pipeline!RingError, Behind, Known, StagesInv, Past, PipeWords
  <2>2. Ahead(o, e)'
    BY <1>32, <2>1 DEF Pipeline!RingError, Ahead, StagesInv, Past
  <2>3. QED
    BY <2>2
<1>33. ASSUME NEW s \in Sizes, Pipeline!ReadPacket(s)
      PROVE \E q \in Nat, f \in Nat : Ahead(q, f)'
  <2>1. /\ UNCHANGED <<builder, building, pending, packets, batches, relay, carried>>
        /\ UNCHANGED <<out, delivered, readDone, done>>
        /\ read' = Append(read, s) /\ reader = "read" /\ reader' = "send"
    BY <1>33 DEF Pipeline!ReadPacket
  <2>2. Len(read') = Len(read) + 1 /\ Len(read) \in Nat
    BY <2>1, ReadOn
  <2>3. ~(builder \in Past /\ ~done)
    BY <2>1 DEF StagesInv, Past
  <2>4. relay \notin {"select", "put"} => done
    BY <2>1 DEF StagesInv, Past
  <2>5. Behind(e) => Behind(e)'
    <3>1. Known(e)' = Known(e) /\ Known(e) \in Nat /\ readDone # "cancelled"
      BY <2>1 DEF Known, StagesInv
    <3>2. Len(packets) \in Nat
      OBVIOUS
    <3>3. QED
      BY <2>1, <2>2, <3>1, <3>2 DEF Behind
  <2>6. QED
    BY <2>1, <2>3, <2>4, <2>5 DEF Ahead
<1>34. ASSUME NEW s \in Sizes, Pipeline!RingPacket(s)
      PROVE \E q \in Nat, f \in Nat : Ahead(q, f)'
  <2>1. /\ UNCHANGED <<batches, relay, carried, out, delivered, readDone, packets>>
        /\ UNCHANGED <<reader, done>> /\ read' = Append(read, s)
        /\ builder = "ring" /\ pending = 0 /\ packets = <<>> /\ reader = "none"
        /\ \/ building # <<>> /\ builder' = "flush" /\ building' = building
              /\ pending' = Len(read')
           \/ Pipeline!Take(Len(read'))
    BY <1>34 DEF Pipeline!RingPacket, StagesInv, Past, PipeWords
  <2>2. /\ Begun(read', building) /\ Weight(read', building) = Weight(read, building)
        /\ Len(read') \in 1..Len(read') /\ Len(read') = Len(read) + 1 /\ Len(read) \in Nat
        /\ read' \in Seq(Nat)
    BY <2>1, ReadOn DEF LimitInv
  <2>3. TakenBy(Len(read')) /\ builder' \notin Past
    BY <2>1, <2>2, TakeStep DEF TakenBy, Added, Pipeline!Idle, Past
  <2>4. ASSUME Behind(e), readDone # "cancelled" PROVE Behind(e)'
    <3>1. /\ Known(e) = e + Len(building) /\ Known(e) \in Nat /\ Run(building, e)
          /\ Len(packets) = 0 /\ Len(read) = Known(e)
      BY <2>1, <2>4, EmptySeq DEF Behind, Known
    <3>2. Len(read') = Known(e) + 1
      BY <2>2, <3>1
    <3>a. PICK n \in Nat : n = Len(read')
      BY <2>2
    <3>b. n = e + Len(building) + 1 /\ Len(building) \in Nat
      BY <3>1, <3>2, <3>a
    <3>c. Run(Append(building, e + Len(building) + 1), e)
      BY <3>1, RunFacts
    <3>3. Run(Append(building, n), e) /\ Len(Append(building, n)) = Len(building) + 1
      BY <3>b, <3>c, AppendProperties
    <3>4. \A k : Run(packets, k)
      BY <3>1 DEF Run
    <3>5. CASE Added(building, Len(read'))
      <4>1. /\ Len(building') = Len(building) + 1 /\ Run(building', e) /\ pending' = 0
        BY <3>3, <3>5, <3>a DEF Added
      <4>5. e + Len(building') + 0 = (e + Len(building)) + 1
        BY <3>b, <4>1
      <4>6. Known(e)' = e + Len(building') + 0
        BY <4>1 DEF Known
      <4>2. Known(e)' = Known(e) + 1
        BY <3>1, <4>5, <4>6
      <4>3. QED
        BY <2>1, <3>1, <3>2, <3>4, <4>1, <4>2 DEF Behind
    <3>6. CASE pending' = Len(read') /\ building' = building
      <4>1. Known(e)' = Known(e) + 1 /\ pending' = e + Len(building) + 1
        BY <3>1, <3>2, <3>6, <3>a, <3>b DEF Known
      <4>2. QED
        BY <2>1, <3>1, <3>2, <3>4, <3>6, <4>1 DEF Behind
    <3>7. QED
      BY <2>3, <3>5, <3>6 DEF TakenBy
  <2>5. readDone # "cancelled"
    BY <2>1 DEF StagesInv
  <2>6. relay \notin {"select", "put"} => done
    BY <2>1 DEF StagesInv, Past
  <2>7. QED
    BY <2>1, <2>3, <2>4, <2>5, <2>6 DEF Ahead, Past
<1>35. QED
  BY <1>1, <1>2, <1>3, <1>4, <1>5, <1>6, <1>7, <1>8, <1>9, <1>10, <1>11,
     <1>12, <1>13, <1>14, <1>15, <1>16, <1>17, <1>18, <1>19, <1>20, <1>21,
     <1>22, <1>23, <1>24, <1>25, <1>26, <1>27, <1>28, <1>29, <1>30, <1>31,
     <1>32, <1>33, <1>34 DEF Pipeline!Next, Pipeline!Reads, Pipeline!Builds,
     Pipeline!Relays, Pipeline!Forwards

(* Only forwardBatches sends on, and once it has returned it stays so.     *)
LEMMA ForwardStep ==
  ASSUME Pipeline!Next
  PROVE  /\ delivered' = delivered \/ (Pipeline!ForwardBatch /\ forward = "select")
         /\ forward' \in {"starting", "select"} => forward \in {"starting", "select"}
<1> USE DEF Pipeline!ctxVars, Pipeline!readVars, Pipeline!buildVars,
        Pipeline!chanVars, Pipeline!relayVars, Pipeline!outVars, Pipeline!forwardVars
<1>1. CASE Pipeline!Reads
  BY <1>1 DEF Pipeline!Reads, Pipeline!ReadHeader, Pipeline!ReadError,
     Pipeline!ReadEOF,
     Pipeline!ReaderSend, Pipeline!Exited, Pipeline!ReadPacket
<1>2. CASE Pipeline!Builds
  BY <1>2 DEF Pipeline!Builds, Pipeline!BatchPacket, Pipeline!BatchEnd,
     Pipeline!BatchTimeout, Pipeline!BuilderDone, Pipeline!LoopBegins,
     Pipeline!RingTimeout, Pipeline!Flush, Pipeline!LastFlush, Pipeline!Result,
     Pipeline!CloseErrs, Pipeline!CloseBatches
<1>3. CASE Pipeline!Relays
  BY <1>3 DEF Pipeline!Relays, Pipeline!RelayBatch, Pipeline!RelayPut,
     Pipeline!RelayBatchesClosed, Pipeline!RelayErrsClosed, Pipeline!RelayError,
     Pipeline!RelayDone, Pipeline!RelayCloses
<1>4. CASE Pipeline!Forwards
  BY <1>4 DEF Pipeline!Forwards, Pipeline!Started, Pipeline!ForwardDone,
     Pipeline!ForwardBatch, Pipeline!ForwardEnded, Pipeline!ForwardError,
     Pipeline!ForwardReturns
<1>5. CASE Pipeline!Elapse \/ Pipeline!Cancel \/ Pipeline!RingError
  BY <1>5 DEF Pipeline!Elapse, Pipeline!Cancel, Pipeline!RingError
<1>6. CASE \E s \in Sizes : Pipeline!RingPacket(s)
  BY <1>6 DEF Pipeline!RingPacket
<1>7. QED
  BY <1>1, <1>2, <1>3, <1>4, <1>5, <1>6 DEF Pipeline!Next

(* Flushing, relaying and sending keep the packets in a row.               *)
LEMMA PipeOrderStep ==
  ASSUME PipeWords, PipeCounts, PipeData, StagesInv, LimitInv, RowInv, Pipeline!Next
  PROVE  RowInv'
<1>1. Run(delivered, 0)'
  <2>1. CASE delivered' = delivered
    BY <2>1 DEF RowInv
  <2>2. CASE Pipeline!ForwardBatch /\ forward = "select"
    <3>1. delivered' \in {delivered, delivered \o Head(out)} /\ out # <<>>
      BY <2>2 DEF Pipeline!ForwardBatch
    <3>2. Head(out) \in Seq(Nat) /\ delivered \in Seq(Nat) /\ out \in Seq(Seq(Nat))
      BY <3>1, HeadTailProperties DEF PipeData
    <3>3. PICK o \in Nat, e \in Nat : Ahead(o, e)
      BY <2>2 DEF RowInv
    <3>4. Line(out, Len(delivered), o) /\ Len(delivered) \in Nat
      BY <3>2, <3>3 DEF Ahead
    <3>5. Run(Head(out), Len(delivered)) /\ Run(delivered, 0)
      BY <3>1, <3>2, <3>4, LineHead DEF RowInv
    <3>6. Run(delivered \o Head(out), 0)
      BY <3>2, <3>5, RunConcat
    <3>7. QED
      BY <3>1, <3>5, <3>6
  <2>3. QED
    BY <2>1, <2>2, ForwardStep
<1>2. ASSUME forward' \in {"starting", "select"}
      PROVE  \E q \in Nat, f \in Nat : Ahead(q, f)'
  <2>1. forward \in {"starting", "select"}
    BY <1>2, ForwardStep
  <2>2. PICK o \in Nat, e \in Nat : Ahead(o, e)
    BY <2>1 DEF RowInv
  <2>3. QED
    BY <1>2, <2>1, <2>2, PipeRowStep
<1>3. QED
  BY <1>1, <1>2 DEF RowInv

(* A capture that ends by itself has forwarded everything by then.         *)
LEMMA PipeEndStep ==
  ASSUME PipeWords, PipeCounts, PipeData, StagesInv, FaultInv, RowInv, EndInv, Pipeline!Next
  PROVE  EndInv'
<1> USE DEF Pipeline!ctxVars, Pipeline!readVars, Pipeline!buildVars,
        Pipeline!chanVars, Pipeline!relayVars, Pipeline!outVars, Pipeline!forwardVars,
        PipeWords, EndInv, Finished, Pipeline!Idle
<1>1. CASE Pipeline!ReadHeader
  BY <1>1 DEF Pipeline!ReadHeader, Pipeline!ReaderEnds
<1>2. CASE Pipeline!ReadError
  BY <1>2 DEF Pipeline!ReadError, Pipeline!ReaderEnds
<1>3. CASE Pipeline!ReadEOF
  BY <1>3 DEF Pipeline!ReadEOF
<1>4. CASE Pipeline!ReaderSend
  BY <1>4 DEF Pipeline!ReaderSend, Pipeline!ReaderEnds, Pipeline!Room
<1>5. CASE Pipeline!Exited
  BY <1>5 DEF Pipeline!Exited, Pipeline!ReaderEnds
<1>6. CASE Pipeline!BatchPacket
  BY <1>6 DEF Pipeline!BatchPacket, Pipeline!Take, Pipeline!Add
<1>7. CASE Pipeline!BatchEnd
  BY <1>7 DEF Pipeline!BatchEnd
<1>8. CASE Pipeline!BatchTimeout
  BY <1>8 DEF Pipeline!BatchTimeout
<1>9. CASE Pipeline!BuilderDone
  BY <1>9 DEF Pipeline!BuilderDone
<1>10. CASE Pipeline!LoopBegins
  BY <1>10 DEF Pipeline!LoopBegins
<1>11. CASE Pipeline!RingTimeout
  BY <1>11 DEF Pipeline!RingTimeout
<1>12. CASE Pipeline!Flush
  BY <1>12 DEF Pipeline!Flush, Pipeline!Add, Pipeline!Room
<1>13. CASE Pipeline!LastFlush
  BY <1>13 DEF Pipeline!LastFlush, Pipeline!Room
<1>14. CASE Pipeline!Result
  BY <1>14 DEF Pipeline!Result
<1>15. CASE Pipeline!CloseErrs
  BY <1>15 DEF Pipeline!CloseErrs
<1>16. CASE Pipeline!CloseBatches
  BY <1>16 DEF Pipeline!CloseBatches
<1>17. CASE Pipeline!RelayBatch
  BY <1>17 DEF Pipeline!RelayBatch
<1>18. CASE Pipeline!RelayPut
  BY <1>18 DEF Pipeline!RelayPut, Pipeline!Room
<1>19. CASE Pipeline!RelayBatchesClosed
  BY <1>19 DEF Pipeline!RelayBatchesClosed, Pipeline!Unwatch
<1>20. CASE Pipeline!RelayErrsClosed
  BY <1>20 DEF Pipeline!RelayErrsClosed, Pipeline!Unwatch
<1>21. CASE Pipeline!RelayError
  BY <1>21 DEF Pipeline!RelayError
<1>22. CASE Pipeline!RelayDone
  BY <1>22 DEF Pipeline!RelayDone
<1>23. CASE Pipeline!RelayCloses
  BY <1>23 DEF Pipeline!RelayCloses
<1>24. CASE Pipeline!Started
  BY <1>24 DEF Pipeline!Started
<1>25. CASE Pipeline!ForwardDone
  BY <1>25 DEF Pipeline!ForwardDone, StagesInv
<1>26. CASE Pipeline!ForwardBatch
  BY <1>26 DEF Pipeline!ForwardBatch
<1>27. CASE Pipeline!ForwardEnded
  <2>1. /\ UNCHANGED <<stopped, done, builder, reader, relay, out, errs, delivered, read>>
        /\ forward = "select" /\ forward' = "end" /\ out = <<>> /\ outClosed
        /\ outErrs' = <<>> /\ (outErrs # <<>> => report' = "FAILED")
    BY <1>27 DEF Pipeline!ForwardEnded
  <2>2. SUFFICES ASSUME ~stopped, report' # "FAILED"
                 PROVE  Finished' /\ Len(delivered) = Len(read)
    BY <2>1
  <2>3. ~done /\ relay = "done" /\ watched = {} /\ outErrs = <<>>
    BY <2>1, <2>2 DEF StagesInv
  <2>4. builder = "done" /\ errs = <<>> /\ reader \in {"none", "done"}
    BY <2>3 DEF StagesInv
  <2>5. PICK o \in Nat, e \in Nat : Ahead(o, e)
    BY <2>1 DEF RowInv
  <2>6. Len(read) = o /\ Line(<<>>, Len(delivered), o)
    BY <2>1, <2>3, <2>5 DEF Ahead
  <2>7. QED
    BY <2>1, <2>3, <2>4, <2>6, LineEmpty
<1>28. CASE Pipeline!ForwardError
  BY <1>28 DEF Pipeline!ForwardError
<1>29. CASE Pipeline!ForwardReturns
  BY <1>29 DEF Pipeline!ForwardReturns
<1>30. CASE Pipeline!Elapse
  BY <1>30 DEF Pipeline!Elapse
<1>31. CASE Pipeline!Cancel
  BY <1>31 DEF Pipeline!Cancel
<1>32. CASE Pipeline!RingError
  BY <1>32 DEF Pipeline!RingError
<1>33. ASSUME NEW s \in Sizes, Pipeline!ReadPacket(s) PROVE EndInv'
  BY <1>33 DEF Pipeline!ReadPacket
<1>34. ASSUME NEW s \in Sizes, Pipeline!RingPacket(s) PROVE EndInv'
  BY <1>34 DEF Pipeline!RingPacket, Pipeline!Take, Pipeline!Add
<1>35. QED
  BY <1>1, <1>2, <1>3, <1>4, <1>5, <1>6, <1>7, <1>8, <1>9, <1>10, <1>11,
     <1>12, <1>13, <1>14, <1>15, <1>16, <1>17, <1>18, <1>19, <1>20, <1>21,
     <1>22, <1>23, <1>24, <1>25, <1>26, <1>27, <1>28, <1>29, <1>30, <1>31,
     <1>32, <1>33, <1>34 DEF Pipeline!Next, Pipeline!Reads, Pipeline!Builds,
     Pipeline!Relays, Pipeline!Forwards

(* What holds at the start.                                                *)
LEMMA PipeInitInv == ASSUME Pipeline!Init PROVE PipeInv
<1> USE PipelineAssumption DEF Pipeline!Init
<1>1. /\ Len(<<>>) = 0 /\ \A S : <<>> \in Seq(S)
      /\ \A k : Run(<<>>, k)
  BY EmptySeq DEF Run
<1>2. PipeData
  BY <1>1 DEF PipeData
<1>3. PipeWords /\ PipeFlags
  BY DEF PipeWords, PipeFlags
<1>a. PipeCounts
  BY <1>1 DEF PipeCounts
<1>4. StagesInv
  BY DEF StagesInv, Past
<1>5. FaultInv
  BY <1>1 DEF FaultInv, Pipeline!FailedIsGenuine
<1>6. LimitInv
  BY <1>1 DEF LimitInv, AllProper, Begun
<1>7. RowInv
  <2>1. Known(0) = 0
    BY <1>1 DEF Known
  <2>2. Behind(0)
    BY <1>1, <2>1 DEF Behind
  <2>3. Line(<<>>, 0, 0)
    BY LineEmpty
  <2>4. Ahead(0, 0)
    BY <1>1, <2>2, <2>3 DEF Ahead, Past
  <2>5. QED
    BY <1>1, <2>4 DEF RowInv
<1>8. EndInv
  BY DEF EndInv
<1>9. QED
  BY <1>2, <1>3, <1>a, <1>4, <1>5, <1>6, <1>7, <1>8 DEF PipeInv

(* Every step of the capture keeps the invariant.                          *)
LEMMA PipeStep == ASSUME PipeInv, Pipeline!Next PROVE PipeInv'
<1>1. /\ PipeWords /\ PipeFlags /\ PipeCounts /\ PipeData
      /\ StagesInv /\ FaultInv /\ LimitInv /\ RowInv /\ EndInv
      /\ Pipeline!TypeOK
  BY PipeTypes DEF PipeInv
<1>2. PipeWords' /\ PipeFlags' /\ PipeCounts' /\ PipeData'
  BY <1>1, PipeWordStep, PipeFlagStep, PipeCountStep, PipeDataStep
<1>3. StagesInv' /\ FaultInv' /\ LimitInv'
  BY <1>1, PipeStages, PipeFaults, PipeLimitStep
<1>4. RowInv' /\ EndInv'
  BY <1>1, PipeOrderStep, PipeEndStep
<1>5. QED
  BY <1>2, <1>3, <1>4 DEF PipeInv

(* What is forwarded is whole.                                             *)
LEMMA ForwardedFollows == ASSUME PipeInv PROVE Pipeline!ForwardedIsWhole
<1>1. Pipeline!DeliveredIsPrefix
  <2>1. Run(delivered, 0) /\ delivered \in Seq(Nat)
    BY DEF PipeInv, RowInv, PipeData
  <2>2. QED
    BY <2>1 DEF Run, Pipeline!DeliveredIsPrefix
<1>2. Pipeline!BatchLimits
  <2>1. SUFFICES ASSUME NEW b \in Pipeline!ToSet(batches) \cup Pipeline!ToSet(out)
                 PROVE  /\ b # <<>> /\ Len(b) <= BatchPackets
                        /\ Len(b) = 1 \/ Weight(read, b) <= BatchBytes
    BY BytesAre DEF Pipeline!BatchLimits
  <2>2. batches \in Seq(Seq(Nat)) /\ out \in Seq(Seq(Nat))
    BY DEF PipeInv, PipeData
  <2>3. (\E i \in 1..Len(batches) : b = batches[i]) \/ \E i \in 1..Len(out) : b = out[i]
    BY <2>2 DEF Pipeline!ToSet, Pipeline!Range
  <2>4. Proper(read, b)
    BY <2>3 DEF PipeInv, LimitInv, AllProper
  <2>5. QED
    BY <2>4 DEF Proper
<1>3. Pipeline!CleanEndIsComplete /\ Pipeline!FailedIsGenuine
  BY DEF PipeInv, EndInv, FaultInv, Pipeline!CleanEndIsComplete
<1>4. QED
  BY <1>1, <1>2, <1>3 DEF Pipeline!ForwardedIsWhole

(* A step of another part leaves the capture alone.                        *)
LEMMA PipeFrame == ASSUME PipeInv, UNCHANGED pipelineVars PROVE PipeInv'
<1>1. /\ UNCHANGED <<engine, done, stopped, fault, unsent, headless, reader, read>>
      /\ UNCHANGED <<packets, packetsClosed, readDone, builder, building, pending, due>>
      /\ UNCHANGED <<batches, batchesClosed, errs, errsClosed, relay, watched, carried>>
      /\ UNCHANGED <<out, outClosed, outErrs, outErrsClosed, forward, delivered, report>>
  BY DEF pipelineVars
<1>2. /\ PipeWords' /\ PipeFlags' /\ PipeCounts' /\ PipeData'
      /\ StagesInv' /\ FaultInv'
  BY <1>1 DEF PipeInv, PipeWords, PipeFlags, PipeCounts, PipeData, StagesInv,
     FaultInv,
     Pipeline!FailedIsGenuine
<1>3. LimitInv' /\ EndInv'
  BY <1>1 DEF PipeInv, LimitInv, EndInv, Finished
<1>4. RowInv'
  BY <1>1 DEF PipeInv, RowInv, Ahead, Behind, Known
<1>5. QED
  BY <1>2, <1>3, <1>4 DEF PipeInv

(* The capture's invariant, of the composed specification.                 *)
THEOREM PipeInductive == PacketsSpec => []PipeInv
<1>1. PacketsInit => PipeInv
  BY PipeInitInv DEF PacketsInit
<1>2. PipeInv /\ [PacketsNext]_<<part, vars, pipelineVars, startVars>> => PipeInv'
  BY PipeStep, PipeFrame DEF PacketsNext
<1>3. QED
  BY <1>1, <1>2, PTL DEF PacketsSpec

(* What forwardBatches sends is what was read, from the first packet on,   *)
(* in order and in batches within their limits (flush), all of it when the *)
(* engine ends by itself without an error, and a source reported FAILED    *)
(* did fail, for every limit, channel size and interleaving of the four    *)
(* goroutines.                                                             *)
THEOREM Forwarded == PacketsSpec => []ForwardedIsWhole
<1>1. PipeInv => ForwardedIsWhole
  BY ForwardedFollows DEF ForwardedIsWhole
<1>2. QED
  BY <1>1, PipeInductive, PTL

(* Types of the three parts of the composed specification: the stream's,   *)
(* the capture's with every channel within its capacity, and the start's   *)
(* with the filter cache within its limit.                                 *)
THEOREM PacketsTypes == PacketsSpec => []PartsTypeOK
<1>1. IInv /\ PipeInv /\ StartInv => PartsTypeOK
  BY TypesFollow, PipeTypes DEF PipeInv, StartInv, PartsTypeOK
<1>2. QED
  BY <1>1, StreamInductive, PipeInductive, StartInductive, PTL

=============================================================================
