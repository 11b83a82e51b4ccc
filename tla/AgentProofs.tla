---------------------------- MODULE AgentProofs -----------------------------
(* The ends of a packet's way.  For any queue capacity and any number of   *)
(* captures, commands and connections: what the agent tracks is alive, and *)
(* what it does not track is cancelled or done, unless two captures of the *)
(* source overlapped.  For any number of batches: what the client writes   *)
(* can be read at any moment and is complete when the client returns.      *)
EXTENDS MCCapture, SequenceTheorems, FiniteSetTheorems, TLAPS

(* The initial state satisfies the strengthening.                          *)
LEMMA TrackInit == Init => TrackInv
<1> SUFFICES ASSUME Init PROVE TrackInv
  OBVIOUS
<1> USE QueueAssumption, AgentBounds
<1>1. TypeOK
  <2>1. up \in BOOLEAN /\ connected \in BOOLEAN /\ overlap \in BOOLEAN
    BY Zenon DEF Init
  <2>2. outbound \in Seq(Messages) /\ inbox \in Seq({"start", "stop"})
    BY DEF Init
  <2>3. fwd \in [Captures -> {"none"}] /\ Len(outbound) = 0
    BY DEF Init
  <2>4. QED
    BY <2>1, <2>2, <2>3 DEF Init, TypeOK, Captures
<1>2. NewestInv /\ OverlapInv
  BY DEF Init, NewestInv, OverlapInv, Captures
<1>3. TrackedIsAlive /\ TrackedUnlessOverlap
  BY DEF Init, TrackedIsAlive, TrackedUnlessOverlap, Forwarding, Captures
<1>4. QED
  BY <1>1, <1>2, <1>3 DEF TrackInv

(* A message that is enqueued keeps the queue well typed and bounded.      *)
LEMMA EnqueueFacts ==
    ASSUME outbound \in Seq(Messages), Len(outbound) <= QueueSize,
           NEW m \in Messages, Enqueue(m)
    PROVE  outbound' \in Seq(Messages) /\ Len(outbound') <= QueueSize
BY QueueAssumption DEF Enqueue, Full

(* Types are preserved by every step.                                      *)
LEMMA TypeStep == TypeOK /\ NewestInv /\ [Next]_vars => TypeOK'
<1> SUFFICES ASSUME TypeOK, NewestInv, [Next]_vars PROVE TypeOK'
  OBVIOUS
<1> USE QueueAssumption, AgentBounds
    DEF TypeOK, Captures, queueVars, captureVars, streamVars, Moves
<1>0. \A k \in {"RUNNING", "FAILED", "STOPPED", "batch"}, g \in 0..MaxStarts :
         Message(k, g) \in Messages
  BY DEF Message, Messages
<1>1. CASE Transmit
  BY <1>1 DEF Transmit
<1>2. CASE StreamFails
  BY <1>2 DEF StreamFails
<1>3. CASE HandleStart
  <2>1. overlap' \in BOOLEAN
    BY <1>3, Zenon DEF HandleStart
  <2>2. inbox' \in Seq({"start", "stop"}) /\ outbound' = outbound
    BY <1>3 DEF HandleStart
  <2>3. slot' \in 0..starts' /\ starts' \in 0..MaxStarts
    BY <1>3 DEF HandleStart
  <2>4. /\ fwd' \in [Captures -> {"none", "run", "put", "sendError", "engineError",
                                  "report", "exit", "done"}]
        /\ pc' \in {"select", "running", "failed"}
    BY <1>3 DEF HandleStart
  <2>5. cancelled' = cancelled /\ UNCHANGED <<up, dials, commands, queueVars>>
    BY <1>3 DEF HandleStart
  <2>6. QED
    BY <2>1, <2>2, <2>3, <2>4, <2>5
<1>4. CASE StartReports
  <2>1. outbound' \in Seq(Messages) /\ Len(outbound') <= QueueSize
    BY <1>0, <1>4, EnqueueFacts DEF StartReports
  <2>2. QED
    BY <1>4, <2>1 DEF StartReports
<1>5. CASE StartFailedReports
  <2>1. outbound' \in Seq(Messages) /\ Len(outbound') <= QueueSize
    BY <1>0, <1>5, EnqueueFacts DEF StartFailedReports
  <2>2. QED
    BY <1>5, <2>1 DEF StartFailedReports
<1>6. CASE HandleStop
  BY <1>6 DEF HandleStop
<1>7. CASE StopReports
  <2>1. outbound' \in Seq(Messages) /\ Len(outbound') <= QueueSize
    BY <1>0, <1>7, EnqueueFacts DEF StopReports
  <2>2. QED
    BY <1>7, <2>1 DEF StopReports
<1>8. CASE SetDisconnected
  BY <1>8 DEF SetDisconnected
<1>9. CASE Drain
  BY <1>9 DEF Drain
<1>10. CASE StopAll
  BY <1>10 DEF StopAll
<1>11. CASE Dial
  BY <1>11 DEF Dial
<1>12. CASE Cut
  <2>1. up' \in BOOLEAN
    BY <1>12, Zenon DEF Cut
  <2>2. inbox' = <<>> /\ UNCHANGED <<pc, dials, commands, queueVars, captureVars>>
    BY <1>12 DEF Cut
  <2>3. QED
    BY <2>1, <2>2
<1>13. ASSUME NEW g \in Captures, Batch(g) PROVE TypeOK'
  BY <1>13 DEF Batch
<1>14. ASSUME NEW g \in Captures, BatchPut(g) PROVE TypeOK'
  <2>1. outbound' \in Seq(Messages) /\ Len(outbound') <= QueueSize
    BY <1>0, <1>14, EnqueueFacts DEF BatchPut
  <2>2. QED
    BY <1>14, <2>1 DEF BatchPut
<1>15. ASSUME NEW g \in Captures, EngineEnds(g) PROVE TypeOK'
  BY <1>15 DEF EngineEnds
<1>16. ASSUME NEW g \in Captures, FailTest(g) PROVE TypeOK'
  BY <1>16 DEF FailTest
<1>17. ASSUME NEW g \in Captures, FailReport(g) PROVE TypeOK'
  <2>1. outbound' \in Seq(Messages) /\ Len(outbound') <= QueueSize
    BY <1>0, <1>17, EnqueueFacts DEF FailReport
  <2>2. QED
    BY <1>17, <2>1 DEF FailReport
<1>18. ASSUME NEW g \in Captures, ContextDone(g) PROVE TypeOK'
  BY <1>18 DEF ContextDone
<1>19. ASSUME NEW g \in Captures, Remove(g) PROVE TypeOK'
  BY <1>19 DEF Remove
<1>20. ASSUME NEW c \in {"start", "stop"}, Command(c) PROVE TypeOK'
  BY <1>20 DEF Command
<1>21. CASE UNCHANGED vars
  BY <1>21 DEF vars
<1>22. QED
  BY <1>1, <1>2, <1>3, <1>4, <1>5, <1>6, <1>7, <1>8, <1>9, <1>10, <1>11, <1>12,
     <1>13, <1>14, <1>15, <1>16, <1>17, <1>18, <1>19, <1>20, <1>21
     DEF Next, Transport, Forward, Unwind

(* The parts of the strengthening that say which capture is the newest and *)
(* what is tracked are preserved by every step.                            *)
LEMMA TrackStep == TrackInv /\ [Next]_vars => TrackInv'
<1> SUFFICES ASSUME TrackInv, [Next]_vars PROVE TrackInv'
  OBVIOUS
<1> DEFINE Rest == NewestInv /\ TrackedIsAlive /\ OverlapInv /\ TrackedUnlessOverlap
<1>0. TypeOK /\ TypeOK' /\ Rest
  BY TypeStep DEF TrackInv
<1> USE QueueAssumption, AgentBounds, <1>0
    DEF TypeOK, Captures, queueVars, captureVars, streamVars, Moves, NewestInv,
        TrackedIsAlive, OverlapInv, TrackedUnlessOverlap, Forwarding
<1>1. ASSUME Transmit PROVE Rest'
  BY <1>1 DEF Transmit
<1>2. ASSUME StreamFails PROVE Rest'
  BY <1>2 DEF StreamFails
<1>3. ASSUME HandleStart PROVE Rest'
  <2>0. pc = "select"
    BY <1>3 DEF HandleStart
  <2>1. CASE pc' \in {pc, "failed"} /\ UNCHANGED captureVars
    BY <2>0, <2>1
  <2>2. CASE slot = 0 /\ starts < MaxStarts /\ starts' = starts + 1
    <3>1. starts' = starts + 1 /\ cancelled' = cancelled /\ pc = "select"
      BY <1>3, <2>2 DEF HandleStart
    <3>2. ~overlap' => ~overlap /\ \A g \in 1..starts : fwd[g] = "done"
      <4>1. starts' # starts
        BY <3>1
      <4>2. QED
        BY <1>3, <4>1, Zenon DEF HandleStart
    <3>3. \/ pc' = "running" /\ slot' = starts + 1 /\ fwd' = fwd
          \/ /\ pc' = "failed" /\ slot' = 0
             /\ fwd' = [fwd EXCEPT ![starts + 1] = "done"]
      BY <1>3, <2>2 DEF HandleStart
    <3>4. NewestInv'
      <4>1. starts + 1 \in Captures /\ starts + 1 \notin cancelled
        BY <2>2
      <4>2. slot' \in {0, starts'} /\ cancelled' \subseteq 1..starts'
        BY <3>1, <3>3
      <4>3. \A g \in Captures : g > starts' => fwd'[g] = "none"
        BY <3>1, <3>3
      <4>4. pc' = "running" => starts' > 0 /\ starts' \notin cancelled'
        BY <3>1, <3>3, <4>1
      <4>5. ASSUME NEW g \in 1..starts'
            PROVE  fwd'[g] = "none" <=> pc' = "running" /\ g = starts'
        <5>1. CASE g = starts + 1
          BY <3>1, <3>3, <4>1, <5>1
        <5>2. CASE g \in 1..starts
          BY <3>1, <3>3, <5>2
        <5>3. QED
          BY <3>1, <5>1, <5>2
      <4>6. QED
        BY <4>2, <4>3, <4>4, <4>5
    <3>5. TrackedIsAlive' /\ OverlapInv' /\ TrackedUnlessOverlap'
      BY <2>2, <3>1, <3>2, <3>3
    <3>6. QED
      BY <3>4, <3>5
  <2>3. QED
    BY <1>3, <2>1, <2>2 DEF HandleStart
<1>4. ASSUME StartReports PROVE Rest'
  <2>0. /\ starts \in Captures /\ pc' = "select" /\ UNCHANGED <<slot, starts, cancelled>>
        /\ fwd' = [fwd EXCEPT ![starts] = "run"]
    BY <1>4 DEF StartReports
  <2>1. NewestInv'
    <3>1. \A g \in Captures : g > starts => fwd'[g] = "none"
      BY <2>0
    <3>2. \A g \in 1..starts : fwd'[g] # "none"
      BY <1>4, <2>0 DEF StartReports
    <3>3. QED
      BY <2>0, <3>1, <3>2
  <2>2. TrackedIsAlive' /\ OverlapInv'
    BY <1>4 DEF StartReports
  <2>3. TrackedUnlessOverlap'
    BY <1>4 DEF StartReports
  <2>4. QED
    BY <2>1, <2>2, <2>3
<1>5. ASSUME StartFailedReports PROVE Rest'
  BY <1>5 DEF StartFailedReports
<1>6. ASSUME HandleStop PROVE Rest'
  BY <1>6 DEF HandleStop
<1>7. ASSUME StopReports PROVE Rest'
  BY <1>7 DEF StopReports
<1>8. ASSUME SetDisconnected PROVE Rest'
  BY <1>8 DEF SetDisconnected
<1>9. ASSUME Drain PROVE Rest'
  BY <1>9 DEF Drain
<1>10. ASSUME StopAll PROVE Rest'
  BY <1>10 DEF StopAll
<1>11. ASSUME Dial PROVE Rest'
  BY <1>11 DEF Dial
<1>12. ASSUME Cut PROVE Rest'
  BY <1>12 DEF Cut
<1>13. ASSUME NEW g \in Captures, Batch(g) PROVE Rest'
  BY <1>13 DEF Batch
<1>14. ASSUME NEW g \in Captures, BatchPut(g) PROVE Rest'
  BY <1>14 DEF BatchPut
<1>15. ASSUME NEW g \in Captures, EngineEnds(g) PROVE Rest'
  BY <1>15 DEF EngineEnds
<1>16. ASSUME NEW g \in Captures, FailTest(g) PROVE Rest'
  BY <1>16 DEF FailTest
<1>17. ASSUME NEW g \in Captures, FailReport(g) PROVE Rest'
  BY <1>17 DEF FailReport
<1>18. ASSUME NEW g \in Captures, ContextDone(g) PROVE Rest'
  BY <1>18 DEF ContextDone
<1>19. ASSUME NEW g \in Captures, Remove(g) PROVE Rest'
  BY <1>19 DEF Remove
<1>20. ASSUME NEW c \in {"start", "stop"}, Command(c) PROVE Rest'
  BY <1>20 DEF Command
<1>21. ASSUME UNCHANGED vars PROVE Rest'
  BY <1>21 DEF vars
<1>22. QED
  BY <1>1, <1>2, <1>3, <1>4, <1>5, <1>6, <1>7, <1>8, <1>9, <1>10, <1>11, <1>12,
     <1>13, <1>14, <1>15, <1>16, <1>17, <1>18, <1>19, <1>20, <1>21
     DEF Next, Transport, Forward, Unwind, TrackInv

(* Service.Start only passes over captures that exist: what is tracked is  *)
(* neither cancelled nor done.                                             *)
THEOREM TrackedAlive == Spec => []TrackedIsAlive
<1>1. TrackInv => TrackedIsAlive
  BY DEF TrackInv
<1>2. QED
  BY TrackInit, TrackStep, <1>1, PTL DEF Spec

(* Stop and StopAll reach every capture, as long as no capture of the      *)
(* source is started while an older one is unwinding.                      *)
THEOREM TrackedWithoutOverlap == Spec => []TrackedUnlessOverlap
<1>1. TrackInv => TrackedUnlessOverlap
  BY DEF TrackInv
<1>2. QED
  BY TrackInit, TrackStep, <1>1, PTL DEF Spec

(* A full queue never ends a capture.                                      *)
THEOREM OverflowSafe == Spec => OverflowKeepsCapture
<1> DEFINE Keeps == \A g \in Captures :
       fwd[g] # "sendError" /\ fwd'[g] = "sendError" => ~connected
<1>1. TrackInv /\ [Next]_vars => [Keeps]_vars
  <2> SUFFICES ASSUME TrackInv, Next PROVE Keeps
    BY DEF vars
  <2> USE DEF TrackInv, TypeOK, Captures, queueVars, captureVars, streamVars, Moves
  <2>1. CASE Transport
    BY <2>1, AgentBounds DEF Transport, Transmit, StreamFails, HandleStart,
       StartReports, StartFailedReports, HandleStop, StopReports,
       SetDisconnected, Drain, StopAll
  <2>2. CASE Dial \/ Cut \/ \E c \in {"start", "stop"} : Command(c)
    BY <2>2 DEF Dial, Cut, Command
  <2>3. ASSUME NEW g \in Captures, Forward(g) PROVE Keeps
    BY <2>3 DEF Forward, Unwind, Batch, BatchPut, EngineEnds, FailTest, FailReport,
       ContextDone, Remove
  <2>4. QED
    BY <2>1, <2>2, <2>3 DEF Next
<1>2. QED
  BY TrackInit, TrackStep, <1>1, PTL DEF Spec, OverflowKeepsCapture

-----------------------------------------------------------------------------
(* The client.  Its text is what it has written, flushed or not; the row of *)
(* batches from the session to the writer carries the numbers that follow.  *)

ClientBlocks == [op : {"interface", "packet"}, id : Nat, link : {1, 2}, n : Nat]
Declarations == [key : {"x", "y"}, link : {1, 2}]
Items == Reader!Batches \cup {Reader!End("eof"), Reader!End("error")}

\* How many packets a text holds, and that it declares an interface.
Count(s) == Cardinality(Reader!PacketsUpTo(s, Len(s)))
Declares(s, k, id, link) ==
    \E j \in 1..k : s[j].op = "interface" /\ s[j].id = id /\ s[j].link = link
Readable(s) ==
    \A i \in 1..Len(s) : s[i].op = "packet" =>
        /\ Declares(s, i - 1, s[i].id, s[i].link)
        /\ s[i].n = Cardinality(Reader!PacketsUpTo(s, i))

\* The batch that the receiving goroutine offers.
Offered == held # <<>> /\ ~Reader!IsEnd(Head(held))
Offers == IF Offered THEN 1 ELSE 0

\* Types, beyond those that the run checks.
ReaderTypes ==
    /\ session \in {"none", "running", "stopped"} /\ emitted \in 0..MaxBatches
    /\ wire \in Seq(Reader!Batches) /\ held \in Seq(Items) /\ Len(held) <= 1
    /\ streamEnd \in {"no", "eof", "error"}
    /\ client \in {"create", "subscribe", "loop", "flush", "stop", "gone"}
    /\ code \in {"none", "return", "exit"}
    /\ interrupted \in BOOLEAN /\ done \in BOOLEAN

\* The writer: each interface is declared once and its block is in the text,
\* and the text can be read.
WriterInv ==
    /\ file \in Seq(ClientBlocks) /\ buffer \in Seq(ClientBlocks)
    /\ interfaces \in Seq(Declarations) /\ unflushed \in 0..1
    /\ \A i, j \in 1..Len(interfaces) : interfaces[i].key = interfaces[j].key => i = j
    /\ \A i \in 1..Len(interfaces) :
          Declares(Reader!Written, Len(Reader!Written), i, interfaces[i].link)
    /\ Readable(Reader!Written)

\* The row: what is offered and what is on its way follow the text without a
\* hole, up to what was emitted unless the connection broke.
ReaderRow ==
    client \in {"create", "subscribe", "loop"} /\ ~done =>
        /\ Offered => Head(held).n = Count(Reader!Written) + 1
        /\ \A i \in 1..Len(wire) : wire[i].n = Count(Reader!Written) + Offers + i
        /\ streamEnd # "error" =>
              Count(Reader!Written) + Offers + Len(wire) = emitted

\* The ways out: the end of a stream is offered after all of it, a loop that is
\* left without an interrupt has written all of it, and a client that returns
\* has flushed.
WaysOut ==
    /\ done \/ held # <<>> => client \notin {"create", "subscribe"}
    /\ done => held = <<>> /\ (client = "loop" => interrupted)
    /\ held # <<>> /\ Reader!IsEnd(Head(held)) =>
          \/ Head(held).key = "error" /\ (streamEnd = "error" \/ interrupted)
          \/ Head(held).key = "eof" /\ wire = <<>> /\ streamEnd = "eof"
    /\ client \in {"flush", "stop", "gone"} /\ code # "exit" /\ ~interrupted =>
          Count(Reader!Written) = emitted
    /\ code = "return" <=> client = "stop" \/ (client = "gone" /\ code # "exit")
    /\ code = "exit" => client = "gone"
    /\ code = "return" => buffer = <<>>
    /\ client = "gone" /\ code = "return" /\ ~stopFailed => session = "stopped"

ReaderInv == ReaderTypes /\ WriterInv /\ ReaderRow /\ WaysOut

-----------------------------------------------------------------------------
(* Texts: what one more block makes of one.                                *)

LEMMA SameSize == \A S : Reader!Cardinality(S) = Cardinality(S)
BY DEF Reader!Cardinality, Cardinality, Reader!IsFiniteSet, IsFiniteSet

(* The packets among the first k blocks are finitely many.                 *)
LEMMA CountType ==
    ASSUME NEW s, NEW k \in Nat
    PROVE  /\ IsFiniteSet(Reader!PacketsUpTo(s, k))
           /\ Cardinality(Reader!PacketsUpTo(s, k)) \in Nat
<1>1. Reader!PacketsUpTo(s, k) \in SUBSET (1..k)
  BY DEF Reader!PacketsUpTo
<1>2. IsFiniteSet(1..k)
  BY FS_Interval
<1>3. QED
  BY <1>1, <1>2, FS_Subset, FS_CardinalityType

(* A text that starts with s holds the same packets up to there, and one   *)
(* more when its next block is a packet.                                   *)
LEMMA CountGrows ==
    ASSUME NEW s \in Seq(ClientBlocks), NEW b \in ClientBlocks
    PROVE  LET t == Append(s, b) IN
           /\ \A k \in 0..Len(s) : Reader!PacketsUpTo(t, k) = Reader!PacketsUpTo(s, k)
           /\ Count(t) = IF b.op = "packet" THEN Count(s) + 1 ELSE Count(s)
           /\ Cardinality(Reader!PacketsUpTo(t, Len(s) + 1)) = Count(t)
<1> DEFINE t == Append(s, b)
<1>1. /\ t \in Seq(ClientBlocks) /\ Len(t) = Len(s) + 1 /\ Len(s) \in Nat
      /\ \A i \in 1..Len(s) : t[i] = s[i]
      /\ t[Len(s) + 1] = b
  BY AppendProperties, LenProperties
<1> HIDE DEF t
<1>2. \A k \in 0..Len(s) : Reader!PacketsUpTo(t, k) = Reader!PacketsUpTo(s, k)
  BY <1>1 DEF Reader!PacketsUpTo
<1>3. CASE b.op = "packet"
  <2>1. Reader!PacketsUpTo(t, Len(t)) = Reader!PacketsUpTo(s, Len(s)) \cup {Len(s) + 1}
    BY <1>1, <1>3 DEF Reader!PacketsUpTo
  <2>2. Len(s) + 1 \notin Reader!PacketsUpTo(s, Len(s))
    BY <1>1 DEF Reader!PacketsUpTo
  <2>3. IsFiniteSet(Reader!PacketsUpTo(s, Len(s)))
    BY <1>1, CountType
  <2>4. Cardinality(Reader!PacketsUpTo(t, Len(t)))
          = Cardinality(Reader!PacketsUpTo(s, Len(s))) + 1
    BY <2>1, <2>2, <2>3, FS_AddElement
  <2>5. QED
    BY <1>1, <1>2, <1>3, <2>4 DEF Count, t
<1>4. CASE b.op # "packet"
  <2>1. Reader!PacketsUpTo(t, Len(t)) = Reader!PacketsUpTo(s, Len(s))
    BY <1>1, <1>4 DEF Reader!PacketsUpTo
  <2>2. QED
    BY <1>1, <1>2, <1>4, <2>1 DEF Count, t
<1>5. QED
  BY <1>3, <1>4

(* A packet that follows, of an interface the text declares, or another    *)
(* declaration, leaves the text readable; what was declared stays so.      *)
LEMMA ReadableGrows ==
    ASSUME NEW s \in Seq(ClientBlocks), NEW b \in ClientBlocks, Readable(s),
           b.op = "packet" =>
             Declares(s, Len(s), b.id, b.link) /\ b.n = Count(s) + 1
    PROVE  LET t == Append(s, b) IN
           /\ t \in Seq(ClientBlocks) /\ Readable(t)
           /\ \A id, link : Declares(s, Len(s), id, link) => Declares(t, Len(t), id, link)
           /\ b.op = "interface" => Declares(t, Len(t), b.id, b.link)
           /\ Count(t) = IF b.op = "packet" THEN Count(s) + 1 ELSE Count(s)
<1> DEFINE t == Append(s, b)
<1>1. /\ t \in Seq(ClientBlocks) /\ Len(t) = Len(s) + 1 /\ Len(s) \in Nat
      /\ \A i \in 1..Len(s) : t[i] = s[i]
      /\ t[Len(s) + 1] = b
  BY AppendProperties, LenProperties
<1>2. /\ \A k \in 0..Len(s) : Reader!PacketsUpTo(t, k) = Reader!PacketsUpTo(s, k)
      /\ Count(t) = IF b.op = "packet" THEN Count(s) + 1 ELSE Count(s)
      /\ Cardinality(Reader!PacketsUpTo(t, Len(s) + 1)) = Count(t)
  BY CountGrows
<1> HIDE DEF t
<1>3. \A k \in 0..Len(s) : \A id, link : Declares(s, k, id, link) <=> Declares(t, k, id, link)
  BY <1>1 DEF Declares
<1>4. ASSUME NEW i \in 1..Len(t), t[i].op = "packet"
      PROVE  /\ Declares(t, i - 1, t[i].id, t[i].link)
             /\ t[i].n = Cardinality(Reader!PacketsUpTo(t, i))
  <2>1. CASE i \in 1..Len(s)
    <3>1. t[i] = s[i] /\ i - 1 \in 0..Len(s) /\ i \in 0..Len(s)
      BY <1>1, <2>1
    <3>2. QED
      BY <1>2, <1>3, <1>4, <2>1, <3>1 DEF Readable
  <2>2. CASE i = Len(s) + 1
    <3>1. t[i] = b /\ i - 1 = Len(s) /\ Len(s) \in 0..Len(s)
      BY <1>1, <2>2
    <3>2. QED
      BY <1>2, <1>3, <1>4, <2>2, <3>1
  <2>3. QED
    BY <1>1, <2>1, <2>2
<1>5. Readable(t)
  BY <1>4 DEF Readable
<1>6. \A id, link : Declares(s, Len(s), id, link) => Declares(t, Len(t), id, link)
  BY <1>1 DEF Declares
<1>7. b.op = "interface" => Declares(t, Len(t), b.id, b.link)
  BY <1>1 DEF Declares
<1>8. QED
  BY <1>1, <1>2, <1>5, <1>6, <1>7 DEF t

(* The first text is empty.                                                *)
LEMMA EmptyText == Count(<<>>) = 0 /\ Readable(<<>>)
<1>1. Reader!PacketsUpTo(<<>>, 0) = {}
  BY DEF Reader!PacketsUpTo
<1>2. QED
  BY <1>1, FS_EmptySet DEF Count, Readable

(* The two blocks of an interface's first packet, one after the other.     *)
LEMMA TwoBlocks ==
    ASSUME NEW s \in Seq(ClientBlocks), NEW x \in ClientBlocks, NEW y \in ClientBlocks
    PROVE  s \o <<x, y>> = Append(Append(s, x), y)
<1>1. Append(s, x) \in Seq(ClientBlocks) /\ <<x>> \in Seq(ClientBlocks)
      /\ <<y>> \in Seq(ClientBlocks)
  BY AppendProperties
<1>2. Append(s, x) = s \o <<x>> /\ Append(Append(s, x), y) = Append(s, x) \o <<y>>
  BY <1>1, AppendIsConcat
<1>3. (s \o <<x>>) \o <<y>> = s \o (<<x>> \o <<y>>)
  BY <1>1, ConcatAssociative
<1>4. <<x>> \o <<y>> = <<x, y>>
  <2> DEFINE u == <<x>> \o <<y>>
  <2>1. /\ u \in Seq(ClientBlocks) /\ Len(u) = 2
        /\ u[1] = x /\ u[2] = y
    BY <1>1, ConcatProperties
  <2>2. u = [i \in 1..2 |-> u[i]] /\ <<x, y>> = [i \in 1..2 |-> <<x, y>>[i]]
    BY <2>1
  <2>3. \A i \in 1..2 : u[i] = <<x, y>>[i]
    BY <2>1
  <2> HIDE DEF u
  <2>4. QED
    BY <2>2, <2>3 DEF u
<1>5. QED
  BY <1>2, <1>3, <1>4

-----------------------------------------------------------------------------
(* The steps of the client.                                                *)

LEMMA ReaderStart == Reader!Init => ReaderInv
<1> SUFFICES ASSUME Reader!Init PROVE ReaderInv
  OBVIOUS
<1> USE ReaderAssumption DEF Reader!Init
<1>1. Reader!Written = <<>>
  <2>1. <<>> \in Seq(ClientBlocks)
    OBVIOUS
  <2>2. QED
    BY <2>1, ConcatEmptySeq DEF Reader!Written
<1>2. ReaderTypes
  <2>1. <<>> \in Seq(Reader!Batches) /\ <<>> \in Seq(Items) /\ Len(<<>>) = 0
    BY EmptySeq
  <2>2. wire = <<>> /\ held = <<>> /\ 0 \in 0..MaxBatches
    OBVIOUS
  <2>3. wire \in Seq(Reader!Batches) /\ held \in Seq(Items) /\ Len(held) <= 1
    BY <2>1, <2>2
  <2>4. QED
    BY <2>2, <2>3 DEF ReaderTypes
<1>3. WriterInv
  BY <1>1, EmptyText DEF WriterInv
<1>4. ReaderRow
  BY <1>1, EmptyText DEF ReaderRow, Offered, Offers
<1>5. WaysOut
  BY DEF WaysOut
<1>6. QED
  BY <1>2, <1>3, <1>4, <1>5 DEF ReaderInv

(* A step that does not write leaves the text and what it declares.        *)
LEMMA WriterIdle ==
    WriterInv /\ UNCHANGED Reader!writerVars =>
        /\ WriterInv' /\ Reader!Written' = Reader!Written
        /\ Count(Reader!Written)' = Count(Reader!Written)
        /\ Count(Reader!Written) \in Nat
<1> SUFFICES ASSUME WriterInv, UNCHANGED Reader!writerVars
    PROVE  /\ WriterInv' /\ Reader!Written' = Reader!Written
           /\ Count(Reader!Written)' = Count(Reader!Written)
           /\ Count(Reader!Written) \in Nat
  OBVIOUS
<1>1. file' = file /\ buffer' = buffer /\ interfaces' = interfaces /\ unflushed' = unflushed
  BY DEF Reader!writerVars
<1>2. Reader!Written' = Reader!Written
  BY <1>1 DEF Reader!Written
<1>3. Count(Reader!Written)' = Count(Reader!Written)
  BY <1>1 DEF Reader!Written, Count, Reader!PacketsUpTo
<1>4. WriterInv'
  <2>1. /\ file' \in Seq(ClientBlocks) /\ buffer' \in Seq(ClientBlocks)
        /\ interfaces' \in Seq(Declarations) /\ unflushed' \in 0..1
        /\ \A i, j \in 1..Len(interfaces') :
              interfaces'[i].key = interfaces'[j].key => i = j
    BY <1>1 DEF WriterInv
  <2>2. \A i \in 1..Len(interfaces') :
          Declares(Reader!Written', Len(Reader!Written'), i, interfaces'[i].link)
    BY <1>1, <1>2 DEF WriterInv
  <2>3. Readable(Reader!Written')
    BY <1>2 DEF WriterInv
  <2>4. QED
    BY <2>1, <2>2, <2>3 DEF WriterInv
<1>5. Len(Reader!Written) \in Nat
  BY ConcatProperties, LenProperties DEF WriterInv, Reader!Written
<1>6. QED
  BY <1>2, <1>3, <1>4, <1>5, CountType DEF Count

(* What is sent by the session takes its place at the end of the row.      *)
LEMMA EmitStep == ReaderInv /\ Reader!Emit => ReaderInv'
<1> SUFFICES ASSUME ReaderInv, Reader!Emit PROVE ReaderInv'
  OBVIOUS
<1> USE ReaderAssumption DEF ReaderInv
<1>1. /\ WriterInv' /\ Reader!Written' = Reader!Written
      /\ Count(Reader!Written)' = Count(Reader!Written) /\ Count(Reader!Written) \in Nat
  BY WriterIdle DEF Reader!Emit
<1>2. PICK k \in {"x", "y"}, l \in {1, 2} :
        wire' = Append(wire, [n |-> emitted + 1, key |-> k, link |-> l])
  BY DEF Reader!Emit
<1> DEFINE b == [n |-> emitted + 1, key |-> k, link |-> l]
<1>3. b \in Reader!Batches /\ b.n = emitted + 1
  BY DEF Reader!Batches, Reader!Emit, ReaderTypes
<1> HIDE DEF b
<1>4. /\ wire' \in Seq(Reader!Batches) /\ Len(wire') = Len(wire) + 1 /\ Len(wire) \in Nat
      /\ \A i \in 1..Len(wire) : wire'[i] = wire[i]
      /\ wire'[Len(wire) + 1] = b
  BY <1>2, <1>3, AppendProperties, LenProperties DEF b, ReaderTypes
<1>5. ReaderTypes'
  BY <1>4 DEF ReaderTypes, Reader!Emit
<1>6. Offered' = Offered /\ Offers' = Offers /\ Offers \in {0, 1}
  BY DEF Offered, Offers, Reader!Emit, Reader!IsEnd
<1>7. ReaderRow'
  <2> SUFFICES ASSUME client' \in {"create", "subscribe", "loop"}, ~done'
      PROVE  /\ Offered' => Head(held').n = Count(Reader!Written)' + 1
             /\ \A i \in 1..Len(wire') :
                   wire'[i].n = Count(Reader!Written)' + Offers' + i
             /\ Count(Reader!Written)' + Offers' + Len(wire') = emitted'
    BY <1>1, <1>6 DEF ReaderRow
  <2>1. /\ client = "loop" /\ ~done /\ held' = held /\ emitted' = emitted + 1
        /\ streamEnd = "no"
    BY DEF Reader!Emit
  <2>2. /\ Offered => Head(held).n = Count(Reader!Written) + 1
        /\ \A i \in 1..Len(wire) : wire[i].n = Count(Reader!Written) + Offers + i
        /\ Count(Reader!Written) + Offers + Len(wire) = emitted
    BY <2>1 DEF ReaderRow
  <2>3. Offered' => Head(held').n = Count(Reader!Written)' + 1
    BY <1>1, <1>6, <2>1, <2>2
  <2>4. ASSUME NEW i \in 1..Len(wire')
        PROVE  wire'[i].n = Count(Reader!Written)' + Offers' + i
    <3>1. CASE i \in 1..Len(wire)
      BY <1>1, <1>4, <1>6, <2>2, <3>1
    <3>2. CASE i = Len(wire) + 1
      BY <1>1, <1>3, <1>4, <1>6, <2>2, <3>2 DEF ReaderTypes
    <3>3. QED
      BY <1>4, <3>1, <3>2
  <2>5. Count(Reader!Written)' + Offers' + Len(wire') = emitted'
    BY <1>1, <1>4, <1>6, <2>1, <2>2 DEF ReaderTypes
  <2>6. QED
    BY <2>3, <2>4, <2>5
<1>8. WaysOut'
  BY <1>1 DEF WaysOut, Reader!Emit, Reader!IsEnd, ReaderTypes, Reader!writerVars
<1>9. QED
  BY <1>1, <1>5, <1>7, <1>8

(* The receiving goroutine takes the first batch of the row, or offers the *)
(* end of the stream when the row is empty.                                *)
LEMMA ReceiveStep == ReaderInv /\ Reader!Receive => ReaderInv'
<1> SUFFICES ASSUME ReaderInv, Reader!Receive PROVE ReaderInv'
  OBVIOUS
<1> USE ReaderAssumption DEF ReaderInv
<1>1. /\ WriterInv' /\ Reader!Written' = Reader!Written
      /\ Count(Reader!Written)' = Count(Reader!Written) /\ Count(Reader!Written) \in Nat
  BY WriterIdle DEF Reader!Receive
<1>2. /\ client = "loop" /\ client' = "loop" /\ held = <<>> /\ ~done /\ ~done'
      /\ UNCHANGED <<session, emitted, streamEnd, code, interrupted, done, stopFailed>>
      /\ buffer' = buffer
  BY DEF Reader!Receive, Reader!writerVars
<1>3. ~Offered /\ Offers = 0
  BY <1>2 DEF Offered, Offers
<1>4. /\ \A i \in 1..Len(wire) : wire[i].n = Count(Reader!Written) + i
      /\ streamEnd # "error" => Count(Reader!Written) + Len(wire) = emitted
  BY <1>1, <1>2, <1>3 DEF ReaderRow, ReaderTypes
<1>5. CASE /\ wire # <<>>
           /\ held' = <<Head(wire)>> /\ wire' = Tail(wire)
  <2>1. /\ Head(wire) \in Reader!Batches /\ wire' \in Seq(Reader!Batches)
        /\ Len(wire') = Len(wire) - 1 /\ Len(wire) \in Nat /\ Len(wire') \in Nat
        /\ \A i \in 1..Len(wire') : wire'[i] = wire[i + 1]
    BY <1>5, HeadTailProperties, LenProperties DEF ReaderTypes
  <2>2. Head(wire) = wire[1] /\ 1 \in 1..Len(wire)
    BY <2>1
  <2>3. Head(held') = Head(wire) /\ held' # <<>> /\ Len(held') = 1 /\ held' \in Seq(Items)
    BY <1>5, <2>1 DEF Items
  <2>4. ~Reader!IsEnd(Head(held')) /\ Head(held').n = Count(Reader!Written) + 1
    BY <1>1, <1>4, <2>1, <2>2, <2>3 DEF Reader!IsEnd
  <2>5. Offered' /\ Offers' = 1
    BY <2>3, <2>4 DEF Offered, Offers, Reader!IsEnd
  <2>6. ReaderTypes'
    BY <1>2, <2>1, <2>3 DEF ReaderTypes
  <2>7. \A i \in 1..Len(wire') : wire'[i].n = Count(Reader!Written)' + Offers' + i
    BY <1>1, <1>4, <2>1, <2>5
  <2>8. streamEnd' # "error" =>
          Count(Reader!Written)' + Offers' + Len(wire') = emitted'
    BY <1>1, <1>2, <1>4, <2>1, <2>5
  <2>9. ReaderRow'
    BY <1>1, <2>4, <2>7, <2>8 DEF ReaderRow
  <2>10. WaysOut'
    BY <1>1, <1>2, <2>4 DEF WaysOut, Reader!IsEnd
  <2>11. QED
    BY <1>1, <2>6, <2>9, <2>10
<1>6. ASSUME NEW e \in {"eof", "error"}, held' = <<Reader!End(e)>>, wire' = wire,
             \/ e = "error" /\ (streamEnd = "error" \/ interrupted)
             \/ e = "eof" /\ wire = <<>> /\ streamEnd = "eof"
      PROVE  ReaderInv'
  <2>1. /\ Head(held') = Reader!End(e) /\ held' # <<>> /\ Len(held') = 1
        /\ held' \in Seq(Items)
    BY <1>6 DEF Items
  <2>2. Reader!IsEnd(Head(held')) /\ Head(held').key = e
    BY <2>1 DEF Reader!IsEnd, Reader!End
  <2>3. ~Offered' /\ Offers' = 0
    BY <2>2 DEF Offered, Offers, Reader!IsEnd
  <2>4. ReaderTypes'
    BY <1>2, <1>6, <2>1 DEF ReaderTypes
  <2>5. ReaderRow'
    BY <1>1, <1>2, <1>4, <1>6, <2>3 DEF ReaderRow, ReaderTypes
  <2>6. WaysOut'
    BY <1>1, <1>2, <1>6, <2>1, <2>2 DEF WaysOut, Reader!IsEnd
  <2>7. QED
    BY <1>1, <2>4, <2>5, <2>6
<1>7. CASE wire = <<>> /\ streamEnd # "no" /\ held' = <<Reader!End(streamEnd)>>
           /\ wire' = wire
  <2>1. streamEnd \in {"eof", "error"}
    BY <1>7 DEF ReaderTypes
  <2>2. QED
    BY <1>6, <1>7, <2>1
<1>8. CASE interrupted /\ held' = <<Reader!End("error")>> /\ wire' = wire
  BY <1>6, <1>8
<1>9. QED
  BY <1>5, <1>7, <1>8 DEF Reader!Receive

(* The steps by which nothing is written and nothing is offered to the     *)
(* loop: the session and the stream end, the user interrupts, the client   *)
(* creates, subscribes, gives up an item or leaves its loop.               *)
LEMMA QuietStep ==
    /\ ReaderInv
    /\ \/ Reader!EndStream \/ Reader!BreakStream \/ Reader!Expire \/ Reader!Interrupt
       \/ Reader!Create \/ Reader!CreateFails \/ Reader!Subscribe
       \/ Reader!ReceiverGivesUp \/ Reader!TakeEnd \/ Reader!LoopInterrupted
       \/ Reader!StopSession \/ UNCHANGED clientVars
    => ReaderInv'
<1> SUFFICES ASSUME ReaderInv,
        \/ Reader!EndStream \/ Reader!BreakStream \/ Reader!Expire \/ Reader!Interrupt
        \/ Reader!Create \/ Reader!CreateFails \/ Reader!Subscribe
        \/ Reader!ReceiverGivesUp \/ Reader!TakeEnd \/ Reader!LoopInterrupted
        \/ Reader!StopSession \/ UNCHANGED clientVars
    PROVE  ReaderInv'
  OBVIOUS
<1> USE ReaderAssumption DEF ReaderInv
<1>1. UNCHANGED Reader!writerVars
  BY DEF Reader!EndStream, Reader!BreakStream, Reader!Expire, Reader!Interrupt,
     Reader!Create, Reader!CreateFails, Reader!Subscribe, Reader!ReceiverGivesUp,
     Reader!TakeEnd, Reader!LoopInterrupted, Reader!StopSession, clientVars,
     Reader!writerVars
<1>2. /\ WriterInv' /\ Reader!Written' = Reader!Written
      /\ Count(Reader!Written)' = Count(Reader!Written) /\ Count(Reader!Written) \in Nat
  BY <1>1, WriterIdle
<1>3. buffer' = buffer
  BY <1>1 DEF Reader!writerVars
<1>4. <<>> \in Seq(Reader!Batches) /\ <<>> \in Seq(Items) /\ Len(<<>>) = 0
  BY EmptySeq
<1> USE DEF Reader!serverVars, Reader!Exit
<1>5. CASE Reader!EndStream \/ Reader!BreakStream \/ Reader!Expire \/ Reader!Interrupt
  <2>1. /\ held' = held /\ done' = done /\ client' = client /\ emitted' = emitted
        /\ code' = code /\ stopFailed' = stopFailed
        /\ wire' = wire \/ (wire' = <<>> /\ streamEnd' = "error")
        /\ streamEnd' = streamEnd \/ client = "loop"
        /\ streamEnd' = streamEnd \/ streamEnd = "no"
        /\ interrupted' = interrupted \/ interrupted'
        /\ session' = session \/ session' = "stopped"
    BY <1>5 DEF Reader!EndStream, Reader!BreakStream, Reader!Expire, Reader!Interrupt
  <2>2. Offered' = Offered /\ Offers' = Offers
    BY <2>1 DEF Offered, Offers, Reader!IsEnd
  <2>3. ReaderTypes'
    BY <1>4, <1>5 DEF ReaderTypes, Reader!EndStream, Reader!BreakStream, Reader!Expire,
       Reader!Interrupt
  <2>4. ReaderRow'
    <3>1. CASE wire' = wire /\ streamEnd' = streamEnd
      BY <1>2, <2>1, <2>2, <3>1 DEF ReaderRow
    <3>2. CASE wire' = wire /\ streamEnd = "no" /\ streamEnd' # streamEnd
      BY <1>2, <2>1, <2>2, <3>2 DEF ReaderRow
    <3>3. CASE wire' = <<>> /\ streamEnd' = "error"
      BY <1>2, <1>4, <2>1, <2>2, <3>3 DEF ReaderRow
    <3>4. QED
      BY <2>1, <3>1, <3>2, <3>3
  <2>5. WaysOut'
    <3>1. CASE Reader!EndStream
      BY <1>2, <1>3, <3>1 DEF WaysOut, Reader!EndStream, Reader!IsEnd
    <3>2. CASE Reader!BreakStream
      BY <1>2, <1>3, <3>2 DEF WaysOut, Reader!BreakStream, Reader!IsEnd
    <3>3. CASE Reader!Expire
      BY <1>2, <1>3, <3>3 DEF WaysOut, Reader!Expire, Reader!IsEnd
    <3>4. CASE Reader!Interrupt
      BY <1>2, <1>3, <3>4 DEF WaysOut, Reader!Interrupt, Reader!IsEnd
    <3>5. QED
      BY <1>5, <3>1, <3>2, <3>3, <3>4
  <2>6. QED
    BY <1>2, <2>3, <2>4, <2>5
<1>6. CASE Reader!Create \/ Reader!CreateFails \/ Reader!Subscribe
           \/ Reader!LoopInterrupted \/ Reader!StopSession \/ UNCHANGED clientVars
  <2>1. /\ held' = held /\ done' = done /\ wire' = wire /\ streamEnd' = streamEnd
        /\ emitted' = emitted /\ interrupted' = interrupted
    BY <1>6 DEF Reader!Create, Reader!CreateFails, Reader!Subscribe,
       Reader!LoopInterrupted, Reader!StopSession, clientVars
  <2>2. Offered' = Offered /\ Offers' = Offers
    BY <2>1 DEF Offered, Offers, Reader!IsEnd
  <2>3. ReaderTypes'
    BY <1>6 DEF ReaderTypes, Reader!Create, Reader!CreateFails, Reader!Subscribe,
       Reader!LoopInterrupted, Reader!StopSession, clientVars
  <2>4. client' \in {"create", "subscribe", "loop"} =>
          client \in {"create", "subscribe", "loop"}
    BY <1>6 DEF Reader!Create, Reader!CreateFails, Reader!Subscribe,
       Reader!LoopInterrupted, Reader!StopSession, clientVars
  <2>5. ReaderRow'
    BY <1>2, <2>1, <2>2, <2>4 DEF ReaderRow
  <2>6. WaysOut'
    <3>1. CASE Reader!Create
      BY <1>2, <1>3, <3>1 DEF WaysOut, Reader!Create, Reader!IsEnd
    <3>2. CASE Reader!CreateFails
      BY <1>2, <1>3, <3>2 DEF WaysOut, Reader!CreateFails, Reader!IsEnd
    <3>3. CASE Reader!Subscribe
      BY <1>2, <1>3, <3>3 DEF WaysOut, Reader!Subscribe, Reader!IsEnd, ReaderRow,
         ReaderTypes
    <3>4. CASE Reader!LoopInterrupted
      BY <1>2, <1>3, <3>4 DEF WaysOut, Reader!LoopInterrupted, Reader!IsEnd
    <3>5. CASE Reader!StopSession
      BY <1>2, <1>3, <3>5 DEF WaysOut, Reader!StopSession, Reader!IsEnd
    <3>6. CASE UNCHANGED clientVars
      BY <1>2, <1>3, <3>6 DEF WaysOut, clientVars, Reader!IsEnd
    <3>7. QED
      BY <1>6, <3>1, <3>2, <3>3, <3>4, <3>5, <3>6
  <2>7. QED
    BY <1>2, <2>3, <2>5, <2>6
<1>7. CASE Reader!ReceiverGivesUp \/ Reader!TakeEnd
  <2>1. held' = <<>> /\ done'
    BY <1>7 DEF Reader!ReceiverGivesUp, Reader!TakeEnd
  <2>2. ReaderTypes'
    <3>1. held' \in Seq(Items) /\ Len(held') <= 1
      BY <1>4, <2>1
    <3>2. CASE Reader!ReceiverGivesUp
      BY <3>1, <3>2 DEF ReaderTypes, Reader!ReceiverGivesUp
    <3>3. CASE Reader!TakeEnd
      BY <3>1, <3>3 DEF ReaderTypes, Reader!TakeEnd
    <3>4. QED
      BY <1>7, <3>2, <3>3
  <2>3. ReaderRow'
    BY <2>1 DEF ReaderRow
  <2>4. WaysOut'
    <3>1. CASE Reader!ReceiverGivesUp
      BY <1>2, <1>3, <3>1 DEF WaysOut, Reader!ReceiverGivesUp, Reader!IsEnd
    <3>2. CASE Reader!TakeEnd
      <4>1. /\ client = "loop" /\ held # <<>> /\ Reader!IsEnd(Head(held)) /\ ~done
            /\ UNCHANGED <<emitted, interrupted, session, stopFailed, wire, streamEnd>>
            /\ \/ client' = "gone" /\ code' = "exit"
               \/ /\ ~(Head(held).key = "error" /\ ~interrupted)
                  /\ client' = "flush" /\ code' = code
        BY <3>2 DEF Reader!TakeEnd, WaysOut
      <4>2. code # "return"
        BY <4>1 DEF WaysOut
      <4>3. CASE interrupted
        BY <1>2, <1>3, <2>1, <4>1, <4>2, <4>3 DEF WaysOut
      <4>4. CASE ~interrupted /\ Head(held).key = "eof" /\ client' = "flush"
        <5>1. wire = <<>> /\ streamEnd = "eof"
          BY <4>1, <4>4 DEF WaysOut
        <5>2. Offers = 0
          BY <4>1 DEF Offers, Offered
        <5>3. Count(Reader!Written) + 0 + 0 = emitted
          BY <1>4, <4>1, <5>1, <5>2 DEF ReaderRow
        <5>4. Count(Reader!Written)' = emitted'
          BY <1>2, <4>1, <5>3
        <5>5. QED
          BY <1>3, <2>1, <4>1, <4>2, <4>4, <5>4 DEF WaysOut
      <4>5. CASE client' = "gone" /\ code' = "exit"
        BY <2>1, <4>1, <4>5 DEF WaysOut
      <4>6. QED
        BY <4>1, <4>3, <4>4, <4>5 DEF WaysOut
    <3>3. QED
      BY <1>7, <3>1, <3>2
  <2>5. QED
    BY <1>2, <2>2, <2>3, <2>4
<1>8. QED
  BY <1>5, <1>6, <1>7

(* What is buffered reaches the file: the text stays the same.             *)
LEMMA FlushText ==
    WriterInv /\ Reader!Flush =>
        /\ file' \in Seq(ClientBlocks) /\ buffer' = <<>> /\ unflushed' = 0
        /\ Reader!Written' = Reader!Written
<1> SUFFICES ASSUME WriterInv, Reader!Flush
    PROVE  /\ file' \in Seq(ClientBlocks) /\ buffer' = <<>> /\ unflushed' = 0
           /\ Reader!Written' = Reader!Written
  OBVIOUS
<1>1. file' = file \o buffer /\ buffer' = <<>> /\ unflushed' = 0
  BY DEF Reader!Flush
<1>2. file' \in Seq(ClientBlocks)
  BY <1>1, ConcatProperties DEF WriterInv
<1>3. file' \o buffer' = file'
  BY <1>1, <1>2, ConcatEmptySeq
<1>4. QED
  BY <1>1, <1>2, <1>3 DEF Reader!Written

(* The ticker and the last flush.                                          *)
LEMMA FlushStep == ReaderInv /\ (Reader!Tick \/ Reader!FinalFlush) => ReaderInv'
<1> SUFFICES ASSUME ReaderInv, Reader!Tick \/ Reader!FinalFlush PROVE ReaderInv'
  OBVIOUS
<1> USE ReaderAssumption DEF ReaderInv, Reader!serverVars
<1>1. /\ UNCHANGED <<session, emitted, wire, streamEnd, interrupted, held, done,
                     interfaces, stopFailed>>
      /\ client \in {"loop", "flush"}
      /\ \/ Reader!Flush /\ client = "loop" /\ client' = client /\ code' = code
         \/ Reader!Flush /\ client = "flush" /\ client' = "stop" /\ code' = "return"
         \/ /\ UNCHANGED Reader!writerVars
            /\ client' = "gone" /\ code' = "exit"
  BY DEF Reader!Tick, Reader!FinalFlush, Reader!Exit, Reader!Return, Reader!writerVars
<1>2. Offered' = Offered /\ Offers' = Offers
  BY <1>1 DEF Offered, Offers, Reader!IsEnd
<1>3. ReaderTypes'
  BY <1>1 DEF ReaderTypes
<1>4. CASE UNCHANGED Reader!writerVars /\ client' = "gone" /\ code' = "exit"
  <2>1. WriterInv'
    BY <1>4, WriterIdle
  <2>2. ReaderRow'
    BY <1>4 DEF ReaderRow
  <2>3. WaysOut'
    BY <1>1, <1>4 DEF WaysOut, Reader!IsEnd
  <2>4. QED
    BY <1>3, <2>1, <2>2, <2>3
<1>5. CASE Reader!Flush /\ client' # "gone"
  <2>1. /\ file' \in Seq(ClientBlocks) /\ buffer' = <<>> /\ unflushed' = 0
        /\ Reader!Written' = Reader!Written
    BY <1>5, FlushText
  <2>2. Count(Reader!Written') = Count(Reader!Written)
    BY <2>1
  <2>3. Count(Reader!Written)' = Count(Reader!Written)
    BY <2>1 DEF Count, Reader!Written, Reader!PacketsUpTo
  <2>4. WriterInv'
    <3>1. /\ file' \in Seq(ClientBlocks) /\ buffer' \in Seq(ClientBlocks)
          /\ interfaces' \in Seq(Declarations) /\ unflushed' \in 0..1
          /\ \A i, j \in 1..Len(interfaces') :
                interfaces'[i].key = interfaces'[j].key => i = j
      BY <1>1, <2>1 DEF WriterInv
    <3>2. \A i \in 1..Len(interfaces') :
            Declares(Reader!Written', Len(Reader!Written'), i, interfaces'[i].link)
      BY <1>1, <2>1 DEF WriterInv
    <3>3. Readable(Reader!Written')
      BY <2>1 DEF WriterInv
    <3>4. QED
      BY <3>1, <3>2, <3>3 DEF WriterInv
  <2>5. ReaderRow'
    BY <1>1, <1>2, <1>5, <2>3 DEF ReaderRow
  <2>6. WaysOut'
    <3>1. CASE client = "loop" /\ client' = client /\ code' = code
      BY <1>1, <2>1, <2>3, <3>1 DEF WaysOut, Reader!IsEnd
    <3>2. CASE client = "flush" /\ client' = "stop" /\ code' = "return"
      BY <1>1, <2>1, <2>3, <3>2 DEF WaysOut, Reader!IsEnd
    <3>3. QED
      BY <1>1, <1>5, <3>1, <3>2
  <2>7. QED
    BY <1>3, <2>4, <2>5, <2>6
<1>6. QED
  BY <1>1, <1>4, <1>5

(* WriteBatch: the batch's blocks follow the text, which stays readable    *)
(* and holds one packet more.                                              *)
LEMMA BlocksFollow ==
    ASSUME WriterInv, NEW b \in Reader!Batches, Reader!SameLinkType(b),
           b.n = Count(Reader!Written) + 1,
           NEW ifs, ifs = IF Reader!Declared(b) = {}
                          THEN Append(interfaces, Reader!Interface(b)) ELSE interfaces
    PROVE  LET t == Reader!Written \o Reader!Blocks(b) IN
           /\ Reader!Blocks(b) \in Seq(ClientBlocks)
           /\ t \in Seq(ClientBlocks) /\ Readable(t)
           /\ Count(t) = Count(Reader!Written) + 1
           /\ ifs \in Seq(Declarations)
           /\ \A i, j \in 1..Len(ifs) : ifs[i].key = ifs[j].key => i = j
           /\ \A i \in 1..Len(ifs) : Declares(t, Len(t), i, ifs[i].link)
<1> DEFINE w == Reader!Written
           d == Reader!Declared(b)
           t == w \o Reader!Blocks(b)
<1>1. /\ b.n \in Nat /\ b.key \in {"x", "y"} /\ b.link \in {1, 2}
      /\ Reader!Interface(b) = [key |-> b.key, link |-> b.link]
      /\ Reader!Interface(b) \in Declarations
  BY ReaderAssumption DEF Reader!Batches, Reader!Interface, Declarations
<1>2. /\ w \in Seq(ClientBlocks) /\ Len(w) \in Nat /\ Readable(w)
      /\ interfaces \in Seq(Declarations) /\ Len(interfaces) \in Nat
      /\ \A i, j \in 1..Len(interfaces) : interfaces[i].key = interfaces[j].key => i = j
      /\ \A i \in 1..Len(interfaces) : Declares(w, Len(w), i, interfaces[i].link)
  BY ConcatProperties, LenProperties DEF WriterInv, Reader!Written
<1>3. DOMAIN interfaces = 1..Len(interfaces)
  BY <1>2, LenProperties
<1>4. d = {i \in 1..Len(interfaces) : interfaces[i].key = b.key}
  BY <1>3 DEF Reader!Declared
<1>5. \A i \in d : interfaces[i].link = b.link
  BY DEF Reader!SameLinkType
<1> DEFINE new == Len(interfaces) + 1
           x == Reader!Block("interface", new, b)
           y == Reader!Block("packet", new, b)
<1>6. CASE d = {}
  <2>1. /\ x = [op |-> "interface", id |-> new, link |-> b.link, n |-> b.n]
        /\ y = [op |-> "packet", id |-> new, link |-> b.link, n |-> b.n]
    BY DEF Reader!Block
  <2>2. x \in ClientBlocks /\ y \in ClientBlocks
    BY <1>1, <1>2, <2>1 DEF ClientBlocks
  <2>3. /\ x.op = "interface" /\ y.op = "packet" /\ x.id = new /\ y.id = new
        /\ x.link = b.link /\ y.link = b.link /\ y.n = b.n
    BY <2>1
  <2>4. Reader!Blocks(b) = <<x, y>>
    BY <1>6 DEF Reader!Blocks
  <2>5. t = Append(Append(w, x), y) /\ Reader!Blocks(b) \in Seq(ClientBlocks)
    BY <1>2, <2>2, <2>4, TwoBlocks
  <2> HIDE DEF x, y, w
  <2> DEFINE s == Append(w, x)
  <2>6. /\ s \in Seq(ClientBlocks) /\ Readable(s)
        /\ \A id, link : Declares(w, Len(w), id, link) => Declares(s, Len(s), id, link)
        /\ Declares(s, Len(s), new, b.link)
        /\ Count(s) = Count(w)
    BY <1>2, <2>2, <2>3, ReadableGrows
  <2> HIDE DEF s
  <2>7. y.op = "packet" => Declares(s, Len(s), y.id, y.link) /\ y.n = Count(s) + 1
    BY <2>3, <2>6 DEF w
  <2>8. /\ Append(s, y) \in Seq(ClientBlocks) /\ Readable(Append(s, y))
        /\ \A id, link : Declares(s, Len(s), id, link) =>
              Declares(Append(s, y), Len(Append(s, y)), id, link)
        /\ Count(Append(s, y)) = Count(s) + 1
    BY <2>2, <2>3, <2>6, <2>7, ReadableGrows
  <2>9. t = Append(s, y)
    BY <2>5 DEF s
  <2> HIDE DEF t
  <2>10. /\ ifs \in Seq(Declarations) /\ Len(ifs) = new
         /\ \A i \in 1..Len(interfaces) : ifs[i] = interfaces[i]
         /\ ifs[new] = Reader!Interface(b)
    BY <1>1, <1>2, <1>6, AppendProperties
  <2>11. \A i, j \in 1..Len(ifs) : ifs[i].key = ifs[j].key => i = j
    <3>1. \A i \in 1..Len(interfaces) : interfaces[i].key # b.key
      BY <1>4, <1>6
    <3>2. ifs[new].key = b.key
      BY <1>1, <2>10
    <3>3. \A i \in 1..Len(ifs) : i \in 1..Len(interfaces) \/ i = new
      BY <1>2, <2>10
    <3>4. QED
      BY <1>2, <2>10, <3>1, <3>2, <3>3
  <2>12. ASSUME NEW i \in 1..Len(ifs) PROVE Declares(t, Len(t), i, ifs[i].link)
    <3>1. CASE i \in 1..Len(interfaces)
      BY <1>2, <2>6, <2>8, <2>9, <2>10, <3>1
    <3>2. CASE i = new
      BY <1>1, <2>6, <2>8, <2>9, <2>10, <3>2
    <3>3. QED
      BY <1>2, <2>10, <3>1, <3>2
  <2>13. QED
    BY <2>5, <2>6, <2>8, <2>9, <2>10, <2>11, <2>12 DEF t, w
<1>7. CASE d # {}
  <2> DEFINE k == CHOOSE i \in d : TRUE
             z == Reader!Block("packet", k, b)
  <2>1. k \in d /\ k \in 1..Len(interfaces) /\ interfaces[k].link = b.link
    BY <1>4, <1>5, <1>7
  <2> HIDE DEF k
  <2>2. z = [op |-> "packet", id |-> k, link |-> b.link, n |-> b.n]
    BY DEF Reader!Block
  <2>3. z \in ClientBlocks /\ z.op = "packet" /\ z.id = k /\ z.link = b.link /\ z.n = b.n
    BY <1>1, <1>2, <2>1, <2>2 DEF ClientBlocks
  <2>4. Reader!Blocks(b) = <<z>>
    BY <1>7 DEF Reader!Blocks, k
  <2> HIDE DEF z, w
  <2>5. t = Append(w, z) /\ Reader!Blocks(b) \in Seq(ClientBlocks)
    BY <1>2, <2>3, <2>4, AppendIsConcat
  <2>6. z.op = "packet" => Declares(w, Len(w), z.id, z.link) /\ z.n = Count(w) + 1
    BY <1>2, <2>1, <2>3 DEF w
  <2>7. /\ Append(w, z) \in Seq(ClientBlocks) /\ Readable(Append(w, z))
        /\ \A id, link : Declares(w, Len(w), id, link) =>
              Declares(Append(w, z), Len(Append(w, z)), id, link)
        /\ Count(Append(w, z)) = Count(w) + 1
    BY <1>2, <2>3, <2>6, ReadableGrows
  <2>8. ifs = interfaces
    BY <1>7
  <2> HIDE DEF t
  <2>9. QED
    BY <1>2, <2>5, <2>7, <2>8 DEF w, t
<1>8. QED
  BY <1>6, <1>7

(* A batch that is written, flushed or not, or that ends the process.      *)
LEMMA TakeStep == ReaderInv /\ Reader!TakeBatch => ReaderInv'
<1> SUFFICES ASSUME ReaderInv, Reader!TakeBatch PROVE ReaderInv'
  OBVIOUS
<1> USE ReaderAssumption DEF ReaderInv, Reader!serverVars
<1> DEFINE b == Head(held)
           written == buffer \o Reader!Blocks(b)
<1>1. /\ client = "loop" /\ held # <<>> /\ ~Reader!IsEnd(b) /\ held' = <<>>
      /\ UNCHANGED <<session, emitted, wire, streamEnd, interrupted, done, stopFailed>>
      /\ \/ /\ Reader!SameLinkType(b)
            /\ interfaces' = IF Reader!Declared(b) = {}
                             THEN Append(interfaces, Reader!Interface(b)) ELSE interfaces
            /\ \/ /\ unflushed + 1 < 2
                  /\ buffer' = written /\ unflushed' = unflushed + 1
                  /\ file' = file
               \/ /\ file' = file \o written /\ buffer' = <<>> /\ unflushed' = 0
            /\ client' = client /\ code' = code
         \/ /\ client' = "gone" /\ code' = "exit"
            /\ UNCHANGED Reader!writerVars
  BY DEF Reader!TakeBatch, Reader!Exit
<1>2. ~done /\ Offered /\ Offers = 1
  BY <1>1 DEF WaysOut, Offered, Offers
<1>3. b \in Items
  BY <1>1, HeadTailProperties DEF ReaderTypes
<1>4. b \in Reader!Batches
  BY <1>1, <1>3 DEF Items, Reader!IsEnd, Reader!End
<1>5. b.n = Count(Reader!Written) + 1
  BY <1>1, <1>2 DEF ReaderRow
<1>6. held' \in Seq(Items) /\ Len(held') = 0
  BY <1>1, EmptySeq
<1>7. ~Offered' /\ Offers' = 0
  BY <1>1 DEF Offered, Offers
<1>8. ReaderTypes'
  BY <1>1, <1>6 DEF ReaderTypes
<1>9. /\ Count(Reader!Written) \in Nat /\ Len(Reader!Written) \in Nat
  <2>1. Len(Reader!Written) \in Nat
    BY ConcatProperties, LenProperties DEF WriterInv, Reader!Written
  <2>2. QED
    BY <2>1, CountType DEF Count
<1>10. CASE UNCHANGED Reader!writerVars /\ client' = "gone" /\ code' = "exit"
  <2>1. WriterInv'
    BY <1>10, WriterIdle
  <2>2. ReaderRow'
    BY <1>10 DEF ReaderRow
  <2>3. WaysOut'
    BY <1>1, <1>2, <1>10 DEF WaysOut
  <2>4. QED
    BY <1>8, <2>1, <2>2, <2>3
<1>11. ASSUME Reader!SameLinkType(b), client' = client, code' = code,
              interfaces' = IF Reader!Declared(b) = {}
                            THEN Append(interfaces, Reader!Interface(b)) ELSE interfaces,
              \/ /\ unflushed + 1 < 2
                 /\ buffer' = written /\ unflushed' = unflushed + 1
                 /\ file' = file
              \/ /\ file' = file \o written /\ buffer' = <<>> /\ unflushed' = 0
       PROVE  ReaderInv'
  <2> PICK ifs : ifs = interfaces'
    OBVIOUS
  <2> DEFINE t == Reader!Written \o Reader!Blocks(b)
  <2>1. ifs = IF Reader!Declared(b) = {}
              THEN Append(interfaces, Reader!Interface(b)) ELSE interfaces
    BY <1>11
  <2> HIDE DEF b
  <2>2. /\ Reader!Blocks(b) \in Seq(ClientBlocks)
        /\ t \in Seq(ClientBlocks) /\ Readable(t)
        /\ Count(t) = Count(Reader!Written) + 1
        /\ ifs \in Seq(Declarations)
        /\ \A i, j \in 1..Len(ifs) : ifs[i].key = ifs[j].key => i = j
        /\ \A i \in 1..Len(ifs) : Declares(t, Len(t), i, ifs[i].link)
    BY <1>4, <1>5, <1>11, <2>1, BlocksFollow
  <2>3. /\ written \in Seq(ClientBlocks)
        /\ file \o written = t
    BY <2>2, ConcatProperties, ConcatAssociative DEF WriterInv, Reader!Written
  <2>4. /\ file' \in Seq(ClientBlocks) /\ buffer' \in Seq(ClientBlocks)
        /\ unflushed' \in 0..1 /\ file' \o buffer' = t
    <3>1. CASE /\ unflushed + 1 < 2 /\ buffer' = written
               /\ unflushed' = unflushed + 1 /\ file' = file
      <4>1. unflushed' \in 0..1 /\ file' \in Seq(ClientBlocks)
        BY <3>1 DEF WriterInv
      <4>2. QED
        BY <2>3, <3>1, <4>1
    <3>2. CASE file' = file \o written /\ buffer' = <<>> /\ unflushed' = 0
      <4>1. file \o written \in Seq(ClientBlocks) /\ <<>> \in Seq(ClientBlocks)
        BY <2>2, <2>3, EmptySeq
      <4>2. (file \o written) \o <<>> = file \o written
        BY <4>1, ConcatEmptySeq
      <4>3. QED
        BY <2>3, <3>2, <4>1, <4>2
    <3>3. QED
      BY <1>11, <3>1, <3>2
  <2>5. Reader!Written' = t
    BY <2>4 DEF Reader!Written
  <2> PICK T : T = t
    OBVIOUS
  <2> HIDE DEF t
  <2>6. Reader!Written' = T /\ file' \o buffer' = T
    BY <2>4, <2>5
  <2>7. Count(Reader!Written)' = Count(T)
    BY <2>6 DEF Count, Reader!Written, Reader!PacketsUpTo
  <2>8. Count(T) = Count(Reader!Written) + 1
    BY <2>2
  <2>9. WriterInv'
    <3>1. interfaces' = ifs
      OBVIOUS
    <3>2. /\ interfaces' \in Seq(Declarations)
          /\ \A i, j \in 1..Len(interfaces') :
                interfaces'[i].key = interfaces'[j].key => i = j
      BY <2>2, <3>1
    <3>3. \A i \in 1..Len(interfaces') :
            Declares(Reader!Written', Len(Reader!Written'), i, interfaces'[i].link)
      BY <2>2, <2>6, <3>1
    <3>4. Readable(Reader!Written')
      BY <2>2, <2>6
    <3>5. QED
      BY <2>4, <3>2, <3>3, <3>4 DEF WriterInv
  <2>10. ReaderRow'
    <3>1. /\ \A i \in 1..Len(wire) : wire[i].n = Count(Reader!Written) + 1 + i
          /\ streamEnd # "error" => Count(Reader!Written) + 1 + Len(wire) = emitted
      BY <1>1, <1>2 DEF ReaderRow
    <3>2. QED
      BY <1>1, <1>7, <1>9, <2>7, <2>8, <3>1 DEF ReaderRow, ReaderTypes
  <2>11. WaysOut'
    BY <1>1, <1>2, <1>11 DEF WaysOut
  <2>12. QED
    BY <1>8, <2>9, <2>10, <2>11
<1>12. QED
  BY <1>1, <1>10, <1>11

(* Every step of the client keeps the invariant.                           *)
LEMMA ReaderStep == ReaderInv /\ (Reader!Next \/ UNCHANGED clientVars) => ReaderInv'
BY QuietStep, EmitStep, ReceiveStep, FlushStep, TakeStep
   DEF Reader!Next, Reader!Moves

(* What the invariant says of the output.                                  *)
LEMMA WholeFollows == ReaderInv => Reader!OutputIsWhole /\ Reader!TypeOK
<1> SUFFICES ASSUME ReaderInv PROVE Reader!OutputIsWhole /\ Reader!TypeOK
  OBVIOUS
<1> USE DEF ReaderInv
<1>1. /\ Reader!Written \in Seq(ClientBlocks)
      /\ DOMAIN Reader!Written = 1..Len(Reader!Written)
  BY ConcatProperties, LenProperties DEF WriterInv, Reader!Written
<1>2. Readable(Reader!Written)
  BY DEF WriterInv
<1>3. Reader!OutputIsReadable
  BY <1>1, <1>2, SameSize DEF Reader!OutputIsReadable, Readable, Declares
<1>4. Reader!ReturnIsComplete
  <2> SUFFICES ASSUME code = "return", ~interrupted
      PROVE  Reader!Cardinality(Reader!PacketsUpTo(file, Len(file))) = emitted
    BY DEF Reader!ReturnIsComplete
  <2>1. buffer = <<>> /\ client \in {"stop", "gone"}
    BY DEF WaysOut
  <2>2. Reader!Written = file
    BY <2>1, ConcatEmptySeq DEF WriterInv, Reader!Written
  <2>3. Count(Reader!Written) = emitted
    BY <2>1 DEF WaysOut
  <2>4. QED
    BY <2>2, <2>3, SameSize DEF Count
<1>5. Reader!ReturnStops
  BY DEF Reader!ReturnStops, WaysOut
<1>6. Reader!TypeOK
  <2>1. DOMAIN wire = 1..Len(wire) /\ \A i \in 1..Len(wire) : wire[i] \in Reader!Batches
    BY LenProperties DEF ReaderTypes
  <2>2. DOMAIN interfaces = 1..Len(interfaces)
    BY LenProperties DEF WriterInv
  <2>3. QED
    BY <2>1, <2>2 DEF Reader!TypeOK, ReaderTypes, WriterInv
<1>7. QED
  BY <1>3, <1>4, <1>5, <1>6 DEF Reader!OutputIsWhole

-----------------------------------------------------------------------------
(* The run's system: the agent, a capture, a workload or a client at work. *)

\* Both hold of a part that is not at work too: it is in its initial state.
CaptureInv == TrackInv /\ ReaderInv

(* Where the run starts, the agent and the client are at rest.             *)
LEMMA CaptureStart == CaptureInit => CaptureInv
BY TrackInit, ReaderStart DEF CaptureInit, CaptureInv

(* A step of the run is one of the agent, one of the client or neither.    *)
LEMMA CaptureStep ==
    CaptureInv /\ [CaptureNext]_<<part, vars, pipelineVars, followedVars, clientVars>>
        => CaptureInv'
<1> SUFFICES ASSUME CaptureInv,
        [CaptureNext]_<<part, vars, pipelineVars, followedVars, clientVars>>
    PROVE  CaptureInv'
  OBVIOUS
<1>1. [Next]_vars
  BY DEF CaptureNext
<1>2. Reader!Next \/ UNCHANGED clientVars
  BY DEF CaptureNext
<1>3. QED
  BY <1>1, <1>2, TrackStep, ReaderStep DEF CaptureInv

(* What the agent tracks, and what the client has written and has yet to   *)
(* receive, whichever of them is at work and for any number of batches.    *)
THEOREM CaptureInductive == CaptureSpec => []CaptureInv
BY CaptureStart, CaptureStep, PTL DEF CaptureSpec

(* WritePacket, ensureInterface and the deferred StopSession: the output   *)
(* can be read at any moment, has no hole, is complete when the client     *)
(* returns, and the session of such a client is stopped.                   *)
THEOREM ClientWhole == CaptureSpec => []OutputIsWhole
<1>1. CaptureInv => OutputIsWhole
  BY WholeFollows DEF CaptureInv, OutputIsWhole
<1>2. QED
  BY CaptureInductive, <1>1, PTL

(* The types of the agent and of the client.                               *)
THEOREM CaptureTypes == CaptureSpec => []PartsTypeOK
<1>1. CaptureInv => PartsTypeOK
  BY WholeFollows DEF CaptureInv, TrackInv, PartsTypeOK
<1>2. QED
  BY CaptureInductive, <1>1, PTL
=============================================================================
