------------------------------- MODULE Client -------------------------------
(***************************************************************************)
(* capmesh-client --create: it creates a session, subscribes, writes what  *)
(* it receives as PCAPNG to standard output and stops the session when it  *)
(* returns (src/cmd/capmesh-client/main.go), with the PCAPNG writer        *)
(* (src/internal/adapter/pcapng/writer.go) and the server's side of the    *)
(* three calls (src/internal/adapter/grpcserver/capture_server.go).        *)
(*                                                                         *)
(* os.Exit does not run deferred calls: a client that leaves through it    *)
(* never sends StopSession, and the session lives until its TTL.  A batch  *)
(* is [n, key, link]: its number, the display name of its interface and    *)
(* its link type; it stands for the packets of the batch.                  *)
(***************************************************************************)
EXTENDS Naturals, Sequences, FiniteSets

CONSTANTS
    Keys,          \* display names of interfaces
    LinkTypes,     \* link types of packets
    FlushPackets,  \* batches after which the writer flushes by itself
    MaxBatches     \* bound: batches that the session emits

VARIABLES
    session,    \* on the server: "none", "running" or "stopped"
    emitted,    \* batches emitted so far
    wire,       \* batches on their way to the client
    ended,      \* the server has ended the stream: "no", "eof" or "error"
    pc,         \* where the client's main function is
    code,       \* how it left: "none", "return" or "exit" (os.Exit)
    interrupted,\* the signal context is cancelled
    held,       \* what the receiving goroutine offers: <<>> or <<item>>
    done,       \* that goroutine has returned
    interfaces, \* the writer's interfaces: declared ones, in order of their id
    buffer,     \* blocks written and not flushed
    file,       \* blocks in standard output
    unflushed,  \* packetCount of the writer
    stopFailed  \* StopSession could not be delivered in its five seconds

serverVars == <<session, emitted, wire, ended>>
writerVars == <<interfaces, buffer, file, unflushed>>
vars == <<serverVars, pc, code, interrupted, held, done, writerVars, stopFailed>>

Batches == [n : 1..MaxBatches, key : Keys, link : LinkTypes]
Interface(b) == [key |-> b.key, link |-> b.link]

\* What ends a stream, as an item that the receiving goroutine passes on.
End(e) == [n |-> 0, key |-> e, link |-> 0]
IsEnd(item) == item.n = 0

Init ==
    /\ session = "none" /\ emitted = 0 /\ wire = <<>> /\ ended = "no"
    /\ pc = "create" /\ code = "none" /\ interrupted = FALSE
    /\ held = <<>> /\ done = FALSE
    /\ interfaces = <<>> /\ buffer = <<>> /\ file = <<>> /\ unflushed = 0
    /\ stopFailed = FALSE

\* Leaving through os.Exit, or by way of the deferred StopSession.
Exit == pc' = "gone" /\ code' = "exit"
Return == pc' = "stop" /\ code' = "return"

-----------------------------------------------------------------------------
(* The server.                                                             *)

\* A subscribed client is sent what the session emits.
Emit ==
    /\ session = "running" /\ pc = "loop" /\ ended = "no" /\ emitted < MaxBatches
    /\ emitted' = emitted + 1
    /\ \E k \in Keys, l \in LinkTypes :
          wire' = Append(wire, [n |-> emitted + 1, key |-> k, link |-> l])
    /\ UNCHANGED <<session, ended, pc, code, interrupted, held, done, writerVars,
                   stopFailed>>

\* The subscriber channel is closed with the pipeline; the stream ends with EOF
\* after what was in it.
EndStream ==
    /\ session = "stopped" /\ pc = "loop" /\ ended = "no"
    /\ ended' = "eof"
    /\ UNCHANGED <<session, emitted, wire, pc, code, interrupted, held, done,
                   writerVars, stopFailed>>

\* The connection breaks: what is on its way is lost.
BreakStream ==
    /\ pc = "loop" /\ ended = "no"
    /\ ended' = "error" /\ wire' = <<>>
    /\ UNCHANGED <<session, emitted, pc, code, interrupted, held, done, writerVars,
                   stopFailed>>

\* The TTL timer of Create, or another user, stops the session.
Expire ==
    /\ session = "running"
    /\ session' = "stopped"
    /\ UNCHANGED <<emitted, wire, ended, pc, code, interrupted, held, done,
                   writerVars, stopFailed>>

-----------------------------------------------------------------------------
(* The client.                                                             *)

Interrupt ==
    /\ pc # "gone" /\ ~interrupted
    /\ interrupted' = TRUE
    /\ UNCHANGED <<serverVars, pc, code, held, done, writerVars, stopFailed>>

Create ==
    /\ pc = "create" /\ ~interrupted
    /\ session' = "running" /\ pc' = "subscribe"
    /\ UNCHANGED <<emitted, wire, ended, code, interrupted, held, done, writerVars,
                   stopFailed>>

\* The call is refused, or fails after the server has created the session.
CreateFails ==
    /\ pc = "create"
    /\ session' \in {"none", "running"}
    /\ Exit
    /\ UNCHANGED <<emitted, wire, ended, interrupted, held, done, writerVars,
                   stopFailed>>

Subscribe ==
    /\ pc = "subscribe"
    /\ \/ pc' = "loop" /\ UNCHANGED code
       \/ Exit
    /\ UNCHANGED <<serverVars, interrupted, held, done, writerVars, stopFailed>>

\* Mutant: the end of the stream overtakes what was received.
ReceiveOvertakes ==
    /\ pc = "loop" /\ held = <<>> /\ ~done
    /\ \/ /\ wire # <<>> /\ ended = "no"
          /\ held' = <<Head(wire)>> /\ wire' = Tail(wire)
       \/ /\ ended # "no" /\ held' = <<End(ended)>> /\ UNCHANGED wire
    /\ UNCHANGED <<session, emitted, ended, pc, code, interrupted, done, writerVars,
                   stopFailed>>

\* The receiving goroutine has a batch, or the end of the stream.  A cancelled
\* context ends the stream with an error, whatever is on its way.
Receive ==
    /\ pc = "loop" /\ held = <<>> /\ ~done
    /\ \/ /\ wire # <<>>
          /\ held' = <<Head(wire)>> /\ wire' = Tail(wire)
       \/ /\ wire = <<>> /\ ended # "no"
          /\ held' = <<End(ended)>> /\ UNCHANGED wire
       \/ /\ interrupted
          /\ held' = <<End("error")>> /\ UNCHANGED wire
    /\ UNCHANGED <<session, emitted, ended, pc, code, interrupted, done, writerVars,
                   stopFailed>>

\* It returns when the context is cancelled before its item is taken.
ReceiverGivesUp ==
    /\ held # <<>> /\ interrupted
    /\ held' = <<>> /\ done' = TRUE
    /\ UNCHANGED <<serverVars, pc, code, interrupted, writerVars, stopFailed>>

\* The loop takes the end of the stream: an error ends the process, unless the
\* user has interrupted it.
TakeEnd ==
    /\ pc = "loop" /\ held # <<>> /\ IsEnd(Head(held))
    /\ held' = <<>> /\ done' = TRUE
    /\ IF Head(held).key = "error" /\ ~interrupted
       THEN Exit ELSE pc' = "flush" /\ UNCHANGED code
    /\ UNCHANGED <<serverVars, interrupted, writerVars, stopFailed>>

\* Mutant: an interface is known by its link type too.
DeclaredWithLink(b) == {i \in DOMAIN interfaces : interfaces[i] = Interface(b)}

Declared(b) == {i \in DOMAIN interfaces : interfaces[i].key = b.key}

SameLinkType(b) == \A i \in Declared(b) : interfaces[i].link = b.link

\* ensureInterface and WritePacket: the first packet of an interface is
\* preceded by the block that declares it.
Block(op, id, b) == [op |-> op, id |-> id, link |-> b.link, n |-> b.n]
Blocks(b) ==
    IF Declared(b) = {}
    THEN <<Block("interface", Len(interfaces) + 1, b),
           Block("packet", Len(interfaces) + 1, b)>>
    ELSE <<Block("packet", CHOOSE i \in Declared(b) : TRUE, b)>>

\* WriteBatch.  The writer flushes by itself after FlushPackets, or when its
\* interval has passed; a link type that changed and a failing output end the
\* process.
TakeBatch ==
    /\ pc = "loop" /\ held # <<>> /\ ~IsEnd(Head(held))
    /\ held' = <<>>
    /\ LET b == Head(held)
           written == buffer \o Blocks(b)
       IN \/ /\ SameLinkType(b)
             /\ interfaces' = IF Declared(b) = {}
                              THEN Append(interfaces, Interface(b)) ELSE interfaces
             /\ \/ /\ unflushed + 1 < FlushPackets
                   /\ buffer' = written /\ unflushed' = unflushed + 1
                   /\ UNCHANGED file
                \/ /\ file' = file \o written /\ buffer' = <<>> /\ unflushed' = 0
             /\ UNCHANGED <<pc, code>>
          \/ /\ Exit
             /\ UNCHANGED writerVars
    /\ UNCHANGED <<serverVars, interrupted, done, stopFailed>>

\* Flush, by the ticker or at the end of main.
Flush == file' = file \o buffer /\ buffer' = <<>> /\ unflushed' = 0

\* Mutant: the ticker only looks at the writer's own count.
TickAtCount ==
    /\ pc = "loop" /\ buffer # <<>> /\ unflushed >= FlushPackets
    /\ Flush /\ UNCHANGED <<pc, code, interfaces>>
    /\ UNCHANGED <<serverVars, interrupted, held, done, stopFailed>>

Tick ==
    /\ pc = "loop" /\ buffer # <<>>
    /\ \/ Flush /\ UNCHANGED <<pc, code, interfaces>>
       \/ Exit /\ UNCHANGED writerVars
    /\ UNCHANGED <<serverVars, interrupted, held, done, stopFailed>>

LoopInterrupted ==
    /\ pc = "loop" /\ interrupted
    /\ pc' = "flush"
    /\ UNCHANGED <<serverVars, code, interrupted, held, done, writerVars, stopFailed>>

\* The last flush; then main returns, unless the output fails.
FinalFlush ==
    /\ pc = "flush"
    /\ \/ Flush /\ Return /\ UNCHANGED interfaces
       \/ Exit /\ UNCHANGED writerVars
    /\ UNCHANGED <<serverVars, interrupted, held, done, stopFailed>>

\* The deferred StopSession, with a context of its own; its error is ignored.
StopSession ==
    /\ pc = "stop" /\ pc' = "gone"
    /\ \/ session' = "stopped" /\ UNCHANGED stopFailed
       \/ stopFailed' = TRUE /\ UNCHANGED session
    /\ UNCHANGED <<emitted, wire, ended, code, interrupted, held, done, writerVars>>

-----------------------------------------------------------------------------
Moves ==
    \/ Create \/ CreateFails \/ Subscribe \/ TakeEnd \/ TakeBatch \/ Tick
    \/ LoopInterrupted \/ FinalFlush \/ StopSession

Next ==
    \/ Emit \/ EndStream \/ BreakStream \/ Expire \/ Interrupt
    \/ Receive \/ ReceiverGivesUp \/ Moves

Spec == Init /\ [][Next]_vars

(* The client's goroutines are scheduled and its ticker fires.  The TTL, up *)
(* to a day, is only relied on once the client is gone: what has to happen  *)
(* while it runs must not wait for it.                                      *)
Fairness ==
    /\ WF_vars(Moves) /\ WF_vars(Tick) /\ WF_vars(Receive)
    /\ WF_vars(pc = "gone" /\ Expire)

FairSpec == Spec /\ Fairness

-----------------------------------------------------------------------------
(* Properties.                                                             *)

\* Every variable keeps its type; interfaces are declared once each, and the
\* writer's own count stays below the point at which it flushes.
TypeOK ==
    /\ session \in {"none", "running", "stopped"} /\ emitted \in 0..MaxBatches
    /\ \A i \in DOMAIN wire : wire[i] \in Batches
    /\ ended \in {"no", "eof", "error"}
    /\ pc \in {"create", "subscribe", "loop", "flush", "stop", "gone"}
    /\ code \in {"none", "return", "exit"}
    /\ Len(held) <= 1
    /\ \A i, j \in DOMAIN interfaces : interfaces[i].key = interfaces[j].key => i = j
    /\ unflushed \in 0..FlushPackets - 1

Written == file \o buffer

\* Where the packets are among the first k blocks of s.
PacketsUpTo(s, k) == {i \in 1..k : s[i].op = "packet"}

\* A reader of the output, at any moment, finds a packet only after the block
\* that declares its interface with its link type, and the packets in the order
\* of the stream, from the first one without a hole: the k-th has number k.
OutputIsReadable ==
    /\ \A i \in DOMAIN Written : Written[i].op = "packet" =>
          \E j \in 1..i - 1 :
             /\ Written[j].op = "interface" /\ Written[j].id = Written[i].id
             /\ Written[j].link = Written[i].link
    /\ \A i \in DOMAIN Written : Written[i].op = "packet" =>
          Written[i].n = Cardinality(PacketsUpTo(Written, i))

\* A client that returned without being interrupted has written everything the
\* server sent it: the end of the stream comes after the last batch, and the
\* last flush after that.
ReturnIsComplete ==
    code = "return" /\ ~interrupted =>
        Cardinality(PacketsUpTo(file, Len(file))) = emitted

\* A client that returned has stopped its session, also after an interrupt:
\* StopSession runs under a context of its own.
ReturnStops ==
    pc = "gone" /\ code = "return" /\ ~stopFailed => session = "stopped"

\* What the writer buffers reaches standard output soon, also when no packet
\* follows, unless the process ends first.
BufferedIsFlushed == buffer # <<>> ~> buffer = <<>> \/ code = "exit"

\* A session whose client is gone ends: a client that left through os.Exit sends
\* no StopSession, so only the TTL timer of Create, which does not depend on the
\* caller, ends it.
AbandonedEnds == (pc = "gone" /\ session = "running") ~> session = "stopped"

\* The output is readable at any moment, and a client that returned has written
\* all of it and stopped its session.
OutputIsWhole == OutputIsReadable /\ ReturnIsComplete /\ ReturnStops

\* Nothing the client was given stays behind for ever: neither what its writer
\* buffers nor its session on the server.
ClientLeavesNothing == BufferedIsFlushed /\ AbandonedEnds
=============================================================================
