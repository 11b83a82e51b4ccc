------------------------------ MODULE Session -------------------------------
(***************************************************************************)
(* The control plane of one capture session                                *)
(* (src/internal/application/session/service.go) over the agent registry   *)
(* (src/internal/adapter/grpcserver/registry.go, agent_server.go).         *)
(*                                                                         *)
(* Service methods run in separate goroutines (API calls, the TTL timer,   *)
(* one goroutine per agent connection, the reconcile loop).  The           *)
(* repository, the runtime map, the pipeline and the recovery file are     *)
(* each protected by themselves, but a method reads a session, works, and  *)
(* writes its copy back with no lock in between.  A handler below is one   *)
(* such goroutine; one step of it is one access to shared state, and its   *)
(* local variables are fields of act[h].                                   *)
(*                                                                         *)
(* The session's target is "every connected node" (an interface target     *)
(* with no node list) or a followed workload; a source is named by its     *)
(* node.  Connections of a node are numbered; connection 0 is none.        *)
(***************************************************************************)
EXTENDS Naturals, Sequences, FiniteSets

CONSTANTS
    Kinds,        \* kinds of session considered, of SessionKinds
    Nodes,        \* nodes that run a capture agent
    Handlers,     \* server goroutines that may be inside the service at once
    MaxConn,      \* bound: connections a node makes
    MaxFailures,  \* bound: captures that fail on their own
    MaxReconcile, \* bound: ticks of the reconcile loop
    QueueSize,    \* capacity of a connection's command channel
    Calm          \* TRUE: no connection is lost or made while a handler runs

SessionKinds == {"normal", "follow", "continuous"}

ASSUME KindsAssumption == Kinds \subseteq SessionKinds
ASSUME BoundAssumption ==
    /\ MaxConn \in Nat /\ MaxFailures \in Nat /\ MaxReconcile \in Nat
    /\ QueueSize \in Nat \ {0} /\ Calm \in BOOLEAN

VARIABLES
    kind,       \* "normal", "follow" (followed workload) or "continuous"
    origin,     \* how the session comes to be: "create" or "restore", then
                \* "done", or "retry" when its recorder could not be restored
    status,     \* Status in the repository, "none" before Create
    nodes,      \* Nodes in the repository
    live,       \* the session has an entry in s.runtime
    sources,    \* runtime.sources of that entry
    pipe,       \* "none", "open" or "closed": the packet pipeline
    desired,    \* persisted desired state, "none" when there is no file; "unsaved"
                \* is RUNNING on the disk after a failed write of STOPPED
    loop,       \* the reconcile loop's context is not cancelled
    ticks,      \* reconcile ticks so far
    act,        \* each handler's operation, program counter and locals
    conn,       \* number of the connection each agent last made
    link,       \* the connection each agent is using, 0 when it has none
    broken,     \* connections <<n, c>> the network has cut
    registered, \* AgentRegistry.agents: the connection known for each node
    serving,    \* connections whose server goroutine is still running
    greeting,   \* connections whose AgentConnected goroutine has not begun
    cmds,       \* commands waiting in each node's current channel
    capturing,  \* nodes whose agent captures for this session
    failures,   \* captures that failed so far
    reports     \* nodes with a FAILED status on its way to the server

repoVars == <<status, nodes>>
runtimeVars == <<live, sources>>
agentVars == <<conn, link, broken, registered, serving, greeting>>
captureVars == <<capturing, failures, reports>>
vars == <<kind, origin, repoVars, runtimeVars, pipe, desired, loop, ticks, act,
          agentVars, cmds, captureVars>>

Terminal == {"STOPPED", "FAILED"}
Connected == {n \in Nodes : registered[n] # 0}
Follow == kind = "follow"
Idle == [op |-> "none", at |-> "idle", who |-> {}, status |-> "none",
         nodes |-> {}, todo |-> {}, started |-> {}]

\* The handler moves to another step, with or without new locals.
Goto(h, l) == act' = [act EXCEPT ![h].at = l]
Done(h) == act' = [act EXCEPT ![h] = Idle]
At(h, l) == act[h].at = l

\* A handler's copy of the session, written back whole (repository.Update).
Update(h) == status' = act[h].status /\ nodes' = act[h].nodes

\* setDesiredState(id, "STOPPED") of a caller that ignores its error: when the write
\* fails, a file that says RUNNING goes on saying so.
PersistStop ==
    desired' \in {"STOPPED", IF desired = "RUNNING" THEN "unsaved" ELSE desired}

\* AgentRegistry.Send: refused without a connection or with a full channel.
CanSend(n) == registered[n] # 0 /\ Len(cmds[n]) < QueueSize
Send(n, c) == cmds' = [cmds EXCEPT ![n] = Append(@, c)]
SendAll(S, c) ==
    cmds' = [n \in Nodes |-> IF n \in S /\ CanSend(n) THEN Append(cmds[n], c)
                             ELSE cmds[n]]

Init ==
    /\ kind \in Kinds
    /\ origin \in {"create", "restore"}
    /\ status = "none" /\ nodes = {}
    /\ live = FALSE /\ sources = {} /\ pipe = "none"
    /\ desired = IF origin = "restore" THEN "RUNNING" ELSE "none"
    /\ loop = FALSE /\ ticks = 0
    /\ act = [h \in Handlers |-> Idle]
    /\ conn = [n \in Nodes |-> 0] /\ link = [n \in Nodes |-> 0]
    /\ broken = {} /\ registered = [n \in Nodes |-> 0]
    /\ serving = {} /\ greeting = {}
    /\ cmds = [n \in Nodes |-> <<>>]
    /\ capturing = {} /\ failures = 0 /\ reports = {}

Quiet == \A h \in Handlers : At(h, "idle")
Undisturbed == Calm => (Quiet /\ greeting = {})

-----------------------------------------------------------------------------
(* Create.  Each step ends at an access to shared state that another       *)
(* handler can observe or overtake.                                        *)

\* The sources are resolved and the session enters the repository.
CreateBegin(h) ==
    /\ At(h, "idle") /\ origin = "create" /\ origin' = "done"
    /\ \E S \in IF Follow THEN SUBSET Nodes ELSE {Connected} \ {{}} :
          /\ status' = "STARTING" /\ nodes' = S
          /\ act' = [act EXCEPT ![h] = [Idle EXCEPT
                !.op = "create", !.at = "open", !.nodes = S, !.todo = S]]
    /\ UNCHANGED <<kind, runtimeVars, pipe, desired, loop, ticks,
                   agentVars, cmds, captureVars>>

\* OpenSession and recorder.Start, which persists RUNNING.
CreateOpen(h) ==
    /\ At(h, "open")
    /\ \/ /\ pipe' = "open" /\ desired' = "RUNNING"
          /\ Goto(h, "runtime")
          /\ UNCHANGED repoVars
       \/ /\ pipe' = "closed" /\ UNCHANGED desired
          /\ status' = "FAILED" /\ nodes' = act[h].nodes
          /\ Done(h)
    /\ UNCHANGED <<kind, origin, runtimeVars, loop, ticks, agentVars, cmds,
                   captureVars>>

CreateRuntime(h) ==
    /\ At(h, "runtime")
    /\ live' = TRUE /\ sources' = {}
    /\ Goto(h, "start")
    /\ UNCHANGED <<kind, origin, repoVars, pipe, desired, loop, ticks, agentVars,
                   cmds, captureVars>>

\* startSource for the next source of Create, reconcileRecovered or
\* reconcile.  reconcileRecovered passes over sources that the runtime has;
\* Send refuses without a connection or a free slot, and may refuse once the
\* reconcile loop's context is cancelled.
Skipped(h, n) == act[h].op = "connected" /\ n \in sources
Refused(h, n) == ~CanSend(n) \/ (act[h].op = "reconcile" /\ ~loop)

StartSend(h) ==
    /\ At(h, "start")
    /\ \E n \in act[h].todo :
          \/ /\ ~Skipped(h, n) /\ CanSend(n)
             /\ Send(n, "start")
             /\ act' = [act EXCEPT ![h].todo = @ \ {n}, ![h].who = {n},
                                   ![h].at = "set"]
          \/ /\ Skipped(h, n) \/ Refused(h, n)
             /\ act' = [act EXCEPT ![h].todo = @ \ {n}]
             /\ UNCHANGED cmds
    /\ UNCHANGED <<kind, origin, repoVars, runtimeVars, pipe, desired, loop, ticks,
                   agentVars, captureVars>>

\* setRuntimeSource: without a runtime entry the source is not remembered.
StartSet(h) ==
    /\ At(h, "set")
    /\ sources' = IF live THEN sources \cup act[h].who ELSE sources
    /\ act' = [act EXCEPT ![h].started = @ \cup act[h].who, ![h].who = {},
                          ![h].at = "start"]
    /\ UNCHANGED <<kind, origin, repoVars, live, pipe, desired, loop, ticks,
                   agentVars, cmds, captureVars>>

\* No source started: the stop is persisted, then everything is torn down.
CreateFailed(h) ==
    /\ At(h, "start") /\ act[h].op = "create" /\ act[h].todo = {}
    /\ act[h].started = {} /\ ~Follow
    /\ PersistStop
    /\ Goto(h, "teardown")
    /\ UNCHANGED <<kind, origin, repoVars, runtimeVars, pipe, loop, ticks,
                   agentVars, cmds, captureVars>>

CreateTeardown(h) ==
    /\ At(h, "teardown")
    /\ live' = FALSE /\ sources' = {}
    /\ pipe' = "closed"
    /\ Goto(h, "finish")
    /\ UNCHANGED <<kind, origin, repoVars, desired, loop, ticks, agentVars, cmds,
                   captureVars>>

\* Update with the local copy: RUNNING, or FAILED after the teardown.  The
\* reconcile loop starts with the context that a Stop may have cancelled.
CreateFinish(h) ==
    /\ \/ /\ At(h, "finish") /\ status' = "FAILED"
          /\ UNCHANGED loop
       \/ /\ At(h, "start") /\ act[h].op = "create" /\ act[h].todo = {}
          /\ act[h].started # {} \/ Follow
          /\ status' = "RUNNING"
          /\ loop' = (Follow /\ live)
    /\ nodes' = act[h].nodes
    /\ Done(h)
    /\ UNCHANGED <<kind, origin, runtimeVars, pipe, desired, ticks, agentVars,
                   cmds, captureVars>>

(* Restore, at boot: nothing else runs yet and no agent is connected, so   *)
(* the whole method is one step: restored, expired, or the recorder fails. *)
Restore ==
    /\ origin = "restore"
    /\ \/ /\ origin' = "done" /\ status' = "RUNNING"
          /\ pipe' = "open" /\ live' = TRUE /\ loop' = Follow
          /\ UNCHANGED desired
       \/ /\ kind # "continuous"
          /\ origin' = "done" /\ PersistStop
          /\ UNCHANGED <<status, pipe, live, loop>>
       \/ /\ origin' = "retry" /\ status' = "FAILED" /\ pipe' = "closed"
          /\ UNCHANGED <<desired, live, loop>>
    /\ UNCHANGED <<kind, nodes, sources, ticks, act, agentVars, cmds, captureVars>>

-----------------------------------------------------------------------------
(* AgentConnected, reconcileRecovered and updateSessionNodes.              *)

\* The goroutine that register spawns.  Which pods a followed workload has is
\* the cluster's choice.
ConnectedBegin(h) ==
    /\ At(h, "idle")
    /\ \E g \in greeting :
          /\ greeting' = greeting \ {g}
          /\ \/ status # "RUNNING" /\ UNCHANGED act
             \/ /\ status = "RUNNING"
                /\ \E S \in IF Follow THEN SUBSET Connected ELSE {Connected} :
                      act' = [act EXCEPT ![h] = [Idle EXCEPT
                         !.op = "connected", !.at = "start", !.todo = S]]
    /\ UNCHANGED <<kind, origin, repoVars, runtimeVars, pipe, desired, loop, ticks,
                   conn, link, broken, registered, serving, cmds, captureVars>>

\* updateSessionNodes, once every source has been tried or after the Update of
\* CaptureStatus.  The copy is taken whatever its status is.
NodesRead(h) ==
    /\ \/ At(h, "nodes")
       \/ At(h, "start") /\ act[h].op # "create" /\ act[h].todo = {}
    /\ act' = [act EXCEPT ![h].status = status, ![h].nodes = sources,
                          ![h].started = {}, ![h].at = "nodesWrite"]
    /\ UNCHANGED <<kind, origin, repoVars, runtimeVars, pipe, desired, loop, ticks,
                   agentVars, cmds, captureVars>>

NodesWrite(h) ==
    /\ At(h, "nodesWrite")
    /\ Update(h)
    /\ act' = [act EXCEPT ![h] = IF act[h].op = "connected"
                THEN [Idle EXCEPT !.op = "connected", !.at = "message"] ELSE Idle]
    /\ UNCHANGED <<kind, origin, runtimeVars, pipe, desired, loop, ticks, agentVars,
                   cmds, captureVars>>

\* reconcileRecovered ends by rewriting the message: always when a running
\* session has no source, else when it still shows a recovery message.
MessageRead(h) ==
    /\ At(h, "message")
    /\ \/ /\ sources # {} \/ status = "RUNNING"
          /\ act' = [act EXCEPT ![h].status = status, ![h].nodes = nodes,
                                ![h].at = "write"]
       \/ /\ sources # {} \/ status # "RUNNING"
          /\ Done(h)
    /\ UNCHANGED <<kind, origin, repoVars, runtimeVars, pipe, desired, loop, ticks,
                   agentVars, cmds, captureVars>>

\* The copy of MessageRead, DisconnectDecide or StatusCount is written back.
Write(h) ==
    /\ At(h, "write")
    /\ Update(h)
    /\ IF act[h].op = "status" THEN Goto(h, "nodes") ELSE Done(h)
    /\ UNCHANGED <<kind, origin, runtimeVars, pipe, desired, loop, ticks, agentVars,
                   cmds, captureVars>>

-----------------------------------------------------------------------------
(* The reconcile loop of a followed workload; a tick runs to its end even  *)
(* when the loop's context is cancelled meanwhile.                         *)

ReconcileBegin(h) ==
    /\ At(h, "idle") /\ loop /\ ticks < MaxReconcile
    /\ \A g \in Handlers : act[g].op # "reconcile"
    /\ ticks' = ticks + 1
    /\ IF status = "RUNNING"
       THEN \E W \in SUBSET Nodes :
               act' = [act EXCEPT ![h] = [Idle EXCEPT
                  !.op = "reconcile", !.at = "prune", !.who = sources \ W,
                  !.todo = W \ sources]]
       ELSE UNCHANGED act
    /\ UNCHANGED <<kind, origin, repoVars, runtimeVars, pipe, desired, loop,
                   agentVars, cmds, captureVars>>

\* Sources whose pods are gone are stopped and forgotten; once the loop's
\* context is cancelled, Send may give up instead.
ReconcilePrune(h) ==
    /\ At(h, "prune")
    /\ \E S \in IF loop THEN {act[h].who} ELSE SUBSET act[h].who : SendAll(S, "stop")
    /\ sources' = sources \ act[h].who
    /\ act' = [act EXCEPT ![h].who = {}, ![h].at = "start"]
    /\ UNCHANGED <<kind, origin, repoVars, live, pipe, desired, loop, ticks,
                   agentVars, captureVars>>

-----------------------------------------------------------------------------
(* AgentDisconnected, called by unregister.                                *)

\* Mutant: the sources of the node are kept.
DisconnectKeep(h) ==
    /\ At(h, "drop")
    /\ UNCHANGED sources
    /\ Goto(h, "list")
    /\ UNCHANGED <<kind, origin, repoVars, live, pipe, desired, loop, ticks,
                   agentVars, cmds, captureVars>>

\* Mutant: an entry left without sources is removed.
DisconnectDropEntry(h) ==
    /\ At(h, "drop")
    /\ sources' = sources \ act[h].who
    /\ live' = (live /\ sources' # {})
    /\ Goto(h, "list")
    /\ UNCHANGED <<kind, origin, repoVars, pipe, desired, loop, ticks,
                   agentVars, cmds, captureVars>>

DisconnectDrop(h) ==
    /\ At(h, "drop")
    /\ sources' = sources \ act[h].who
    /\ Goto(h, "list")
    /\ UNCHANGED <<kind, origin, repoVars, live, pipe, desired, loop, ticks,
                   agentVars, cmds, captureVars>>

DisconnectList(h) ==
    /\ At(h, "list")
    /\ IF status = "RUNNING" /\ act[h].who \subseteq nodes
       THEN act' = [act EXCEPT ![h].status = status, ![h].nodes = nodes,
                               ![h].at = "decide"]
       ELSE Done(h)
    /\ UNCHANGED <<kind, origin, repoVars, runtimeVars, pipe, desired, loop, ticks,
                   agentVars, cmds, captureVars>>

\* Partial, waiting (continuous), or failed: the stop is persisted first.
DisconnectDecide(h) ==
    /\ At(h, "decide")
    /\ \/ /\ Follow \/ act[h].nodes \cap Connected # {}
          /\ Goto(h, "write")
          /\ UNCHANGED desired
       \/ /\ ~Follow /\ act[h].nodes \cap Connected = {} /\ kind = "continuous"
          /\ act' = [act EXCEPT ![h].nodes = {}, ![h].at = "write"]
          /\ UNCHANGED desired
       \/ /\ act[h].nodes \cap Connected = {} /\ kind = "normal"
          /\ act' = [act EXCEPT ![h].status = "FAILED", ![h].at = "close"]
          /\ PersistStop
    /\ UNCHANGED <<kind, origin, repoVars, runtimeVars, pipe, loop, ticks,
                   agentVars, cmds, captureVars>>

\* The runtime entry stays.
DisconnectClose(h) ==
    /\ At(h, "close")
    /\ pipe' = "closed"
    /\ Goto(h, "write")
    /\ UNCHANGED <<kind, origin, repoVars, runtimeVars, desired, loop, ticks,
                   agentVars, cmds, captureVars>>

-----------------------------------------------------------------------------
(* CaptureStatus: a FAILED report, handled in the goroutine that serves    *)
(* the reporting connection.                                               *)

StatusBegin(h, n) ==
    /\ At(h, "idle") /\ n \in reports /\ <<n, link[n]>> \in serving
    /\ \A g \in Handlers : ~(act[g].op = "status" /\ n \in act[g].who)
    /\ reports' = reports \ {n}
    /\ sources' = sources \ {n}
    /\ act' = [act EXCEPT ![h] = [Idle EXCEPT
          !.op = "status", !.at = "get", !.who = {n}]]
    /\ UNCHANGED <<kind, origin, repoVars, live, pipe, desired, loop, ticks,
                   agentVars, cmds, capturing, failures>>

StatusGet(h) ==
    /\ At(h, "get")
    /\ IF status = "RUNNING"
       THEN act' = [act EXCEPT ![h].status = status, ![h].nodes = nodes,
                               ![h].at = "count"]
       ELSE Done(h)
    /\ UNCHANGED <<kind, origin, repoVars, runtimeVars, pipe, desired, loop, ticks,
                   agentVars, cmds, captureVars>>

StatusCount(h) ==
    /\ At(h, "count")
    /\ IF sources = {} /\ ~Follow
       THEN /\ pipe' = "closed"
            /\ act' = [act EXCEPT ![h].status = "FAILED", ![h].at = "persist"]
       ELSE Goto(h, "write") /\ UNCHANGED pipe
    /\ UNCHANGED <<kind, origin, repoVars, runtimeVars, desired, loop, ticks,
                   agentVars, cmds, captureVars>>

\* Mutant: the stop is not persisted.
StatusForget(h) ==
    /\ At(h, "persist")
    /\ live' = FALSE /\ sources' = {} /\ loop' = FALSE
    /\ Goto(h, "write")
    /\ UNCHANGED <<kind, origin, repoVars, pipe, desired, ticks, agentVars, cmds,
                   captureVars>>

\* The stop is persisted and the runtime entry removed, before the Update.
StatusPersist(h) ==
    /\ At(h, "persist")
    /\ PersistStop
    /\ live' = FALSE /\ sources' = {} /\ loop' = FALSE
    /\ Goto(h, "write")
    /\ UNCHANGED <<kind, origin, repoVars, pipe, ticks, agentVars, cmds,
                   captureVars>>

-----------------------------------------------------------------------------
(* Stop, from the API or the TTL timer.                                    *)

StopBegin(h) ==
    /\ At(h, "idle") /\ status \notin Terminal \cup {"none"}
    /\ act' = [act EXCEPT ![h] = [Idle EXCEPT
          !.op = "stop", !.at = "stopPersist", !.nodes = nodes]]
    /\ UNCHANGED <<kind, origin, repoVars, runtimeVars, pipe, desired, loop, ticks,
                   agentVars, cmds, captureVars>>

\* With nothing persisted yet, or when the write fails, Stop returns the error.
StopPersist(h) ==
    /\ At(h, "stopPersist")
    /\ \/ Done(h) /\ UNCHANGED desired
       \/ /\ desired # "none" /\ desired' = "STOPPED"
          /\ act' = [act EXCEPT ![h].status = "STOPPING", ![h].at = "stopping"]
    /\ UNCHANGED <<kind, origin, repoVars, runtimeVars, pipe, loop, ticks,
                   agentVars, cmds, captureVars>>

StopStopping(h) ==
    /\ At(h, "stopping")
    /\ Update(h)
    /\ Goto(h, "take")
    /\ UNCHANGED <<kind, origin, runtimeVars, pipe, desired, loop, ticks, agentVars,
                   cmds, captureVars>>

\* Mutant: the sources are read after the entry is deleted.
StopTakeTooLate(h) ==
    /\ At(h, "take")
    /\ act' = [act EXCEPT ![h].todo = IF live THEN {} ELSE act[h].nodes,
                          ![h].at = "send"]
    /\ live' = FALSE /\ sources' = {} /\ loop' = FALSE
    /\ UNCHANGED <<kind, origin, repoVars, pipe, desired, ticks, agentVars, cmds,
                   captureVars>>

\* The runtime entry is taken; its sources are sent a stop, or every node of
\* the copy when there was no entry.
StopTake(h) ==
    /\ At(h, "take")
    /\ act' = [act EXCEPT ![h].todo = IF live THEN sources ELSE act[h].nodes,
                          ![h].at = "send"]
    /\ live' = FALSE /\ sources' = {} /\ loop' = FALSE
    /\ UNCHANGED <<kind, origin, repoVars, pipe, desired, ticks, agentVars, cmds,
                   captureVars>>

StopSend(h) ==
    /\ At(h, "send")
    /\ SendAll(act[h].todo, "stop")
    /\ act' = [act EXCEPT ![h].todo = {}, ![h].at = "stopClose"]
    /\ UNCHANGED <<kind, origin, repoVars, runtimeVars, pipe, desired, loop, ticks,
                   agentVars, captureVars>>

StopClose(h) ==
    /\ At(h, "stopClose")
    /\ pipe' = "closed"
    /\ act' = [act EXCEPT ![h].status = "STOPPED", ![h].at = "write"]
    /\ UNCHANGED <<kind, origin, repoVars, runtimeVars, desired, loop, ticks,
                   agentVars, cmds, captureVars>>

-----------------------------------------------------------------------------
(* Agents, their connections and the registry.                             *)

Up(n) == link[n] # 0 /\ <<n, link[n]>> \notin broken
Reporting(n) == \E h \in Handlers : act[h].op = "status" /\ n \in act[h].who

\* The agent connects and register replaces what the registry has for the
\* node, with an empty command channel and a goroutine for AgentConnected.
Dial(n) ==
    /\ origin # "restore" /\ Undisturbed /\ link[n] = 0 /\ conn[n] < MaxConn
    /\ Calm => \A c \in 1..MaxConn : <<n, c>> \notin serving
    /\ conn' = [conn EXCEPT ![n] = @ + 1]
    /\ link' = [link EXCEPT ![n] = conn[n] + 1]
    /\ registered' = [registered EXCEPT ![n] = conn[n] + 1]
    /\ serving' = serving \cup {<<n, conn[n] + 1>>}
    /\ greeting' = greeting \cup {<<n, conn[n] + 1>>}
    /\ cmds' = [cmds EXCEPT ![n] = <<>>]
    /\ UNCHANGED <<kind, origin, repoVars, runtimeVars, pipe, desired, loop, ticks,
                   act, broken, captureVars>>

\* The network cuts a connection; what was on its way is lost.
Cut(n) ==
    /\ Undisturbed /\ Up(n)
    /\ broken' = broken \cup {<<n, link[n]>>}
    /\ reports' = reports \ {n}
    /\ UNCHANGED <<kind, origin, repoVars, runtimeVars, pipe, desired, loop, ticks,
                   act, conn, link, registered, serving, greeting, cmds, capturing,
                   failures>>

\* AgentTransport.Connect returns and the agent's main loop calls StopAll.
AgentNotices(n) ==
    /\ link[n] # 0 /\ ~Up(n)
    /\ link' = [link EXCEPT ![n] = 0]
    /\ capturing' = capturing \ {n}
    /\ UNCHANGED <<kind, origin, repoVars, runtimeVars, pipe, desired, loop, ticks,
                   act, conn, broken, registered, serving, greeting, cmds, failures,
                   reports>>

\* AgentServer.Connect returns: unregister, which calls AgentDisconnected only
\* when the registry still has this connection.
ServerNotices(h, n, c) ==
    /\ At(h, "idle") /\ <<n, c>> \in serving \cap broken
    /\ Reporting(n) => c # link[n]
    /\ serving' = serving \ {<<n, c>>}
    /\ IF registered[n] = c
       THEN /\ registered' = [registered EXCEPT ![n] = 0]
            /\ cmds' = [cmds EXCEPT ![n] = <<>>]
            /\ act' = [act EXCEPT ![h] = [Idle EXCEPT
                  !.op = "disconnected", !.at = "drop", !.who = {n}]]
       ELSE UNCHANGED <<registered, cmds, act>>
    /\ UNCHANGED <<kind, origin, repoVars, runtimeVars, pipe, desired, loop, ticks,
                   conn, link, broken, greeting, captureVars>>

\* The serving goroutine forwards a command and the agent executes it; a start
\* may fail, and is then reported.
Deliver(n) ==
    /\ Up(n) /\ registered[n] = link[n] /\ ~Reporting(n) /\ cmds[n] # <<>>
    /\ cmds' = [cmds EXCEPT ![n] = Tail(@)]
    /\ \/ /\ Head(cmds[n]) = "stop"
          /\ capturing' = capturing \ {n}
          /\ UNCHANGED <<failures, reports>>
       \/ /\ Head(cmds[n]) = "start"
          /\ capturing' = capturing \cup {n}
          /\ UNCHANGED <<failures, reports>>
       \/ /\ Head(cmds[n]) = "start" /\ n \notin capturing \cup reports
          /\ failures < MaxFailures /\ failures' = failures + 1
          /\ reports' = reports \cup {n}
          /\ UNCHANGED capturing
    /\ UNCHANGED <<kind, origin, repoVars, runtimeVars, pipe, desired, loop, ticks,
                   act, agentVars>>

\* A capture ends with an error, which forwardBatches reports.
CaptureFails(n) ==
    /\ n \in capturing \ reports /\ failures < MaxFailures
    /\ failures' = failures + 1
    /\ capturing' = capturing \ {n}
    /\ reports' = IF Up(n) THEN reports \cup {n} ELSE reports
    /\ UNCHANGED <<kind, origin, repoVars, runtimeVars, pipe, desired, loop, ticks,
                   act, agentVars, cmds>>

-----------------------------------------------------------------------------
\* A goroutine inside the service goes on.
Continue(h) ==
    \/ CreateOpen(h) \/ CreateRuntime(h) \/ StartSend(h) \/ StartSet(h)
    \/ CreateFailed(h) \/ CreateTeardown(h) \/ CreateFinish(h)
    \/ NodesRead(h) \/ NodesWrite(h) \/ MessageRead(h) \/ Write(h)
    \/ ReconcilePrune(h)
    \/ DisconnectDrop(h) \/ DisconnectList(h) \/ DisconnectDecide(h)
    \/ DisconnectClose(h)
    \/ StatusGet(h) \/ StatusCount(h) \/ StatusPersist(h)
    \/ StopPersist(h) \/ StopStopping(h) \/ StopTake(h) \/ StopSend(h)
    \/ StopClose(h)

Unregister(h) == \E n \in Nodes, c \in 1..MaxConn : ServerNotices(h, n, c)
Report(h) == \E n \in Nodes : StatusBegin(h, n)

Next ==
    \/ Restore
    \/ \E h \in Handlers :
          \/ Continue(h) \/ CreateBegin(h) \/ StopBegin(h) \/ ConnectedBegin(h)
          \/ ReconcileBegin(h) \/ Report(h) \/ Unregister(h)
    \/ \E n \in Nodes :
          Dial(n) \/ Cut(n) \/ AgentNotices(n) \/ Deliver(n) \/ CaptureFails(n)

Spec == Init /\ [][Next]_vars

(* Goroutines are scheduled, a broken connection is noticed by both sides   *)
(* (keepalive), and an agent dials again every two seconds.  What the       *)
(* server does for an agent has a goroutine of its own, which no number of *)
(* failing Stops holds up: it is strongly fair, as here it may find all    *)
(* Handlers taken.  Nothing makes a user call Create or Stop, or a         *)
(* connection break.                                                       *)
Fairness ==
    /\ WF_vars(Restore)
    /\ \A h \in Handlers :
          /\ WF_vars(Continue(h)) /\ SF_vars(ConnectedBegin(h))
          /\ SF_vars(Report(h)) /\ SF_vars(Unregister(h))
    /\ \A n \in Nodes :
          WF_vars(Dial(n)) /\ WF_vars(AgentNotices(n)) /\ WF_vars(Deliver(n))

FairSpec == Spec /\ Fairness

-----------------------------------------------------------------------------
(* Properties.                                                             *)

Statuses == {"none", "STARTING", "RUNNING", "STOPPING", "STOPPED", "FAILED"}

\* Every variable keeps its type; a session without a runtime entry has no
\* sources, and no handler is left at a step that nothing continues.
TypeOK ==
    /\ kind \in Kinds
    /\ origin \in {"create", "restore", "done", "retry"}
    /\ status \in Statuses /\ nodes \subseteq Nodes
    /\ live \in BOOLEAN /\ sources \subseteq (IF live THEN Nodes ELSE {})
    /\ pipe \in {"none", "open", "closed"}
    /\ desired \in {"none", "RUNNING", "unsaved", "STOPPED"}
    /\ loop \in BOOLEAN /\ ticks \in 0..MaxReconcile
    /\ \A h \in Handlers : At(h, "idle") => act[h] = Idle
    /\ \A h \in Handlers : act[h].status \in Statuses
    /\ conn \in [Nodes -> 0..MaxConn] /\ link \in [Nodes -> 0..MaxConn]
    /\ registered \in [Nodes -> 0..MaxConn]
    /\ broken \cup serving \cup greeting \subseteq Nodes \X (1..MaxConn)
    /\ \A n \in Nodes : Len(cmds[n]) <= QueueSize
    /\ capturing \cup reports \subseteq Nodes /\ failures \in 0..MaxFailures

\* Once the repository shows a session as STOPPED or FAILED, the recovery file
\* no longer says RUNNING: every path that ends a session (Create without a
\* source, AgentDisconnected, CaptureStatus, Stop) persists the stop before its
\* Update, so a crash right after cannot bring the session back.  The exceptions: a
\* write that failed where the error is ignored ("unsaved"; a Stop returns it), and a
\* session whose recorder could not be restored, which is meant to be tried again.
TerminalIsDurable ==
    status \in Terminal /\ origin # "retry" => desired # "RUNNING"

\* A session shown as ended has no open pipeline, whichever goroutines race:
\* CloseSession has run, so its recorder has been told to finalize its files.
TerminalHasNoPipeline == status \in Terminal => pipe # "open"

\* When no goroutine is inside the service, a session shown as RUNNING whose stop
\* nobody has tried to persist has its pipeline and its runtime entry: packets that
\* agents send have somewhere to go and a reconnecting agent is remembered.
RunningIsServed ==
    Quiet /\ status = "RUNNING" /\ desired = "RUNNING" => pipe = "open" /\ live

\* domain.Session.Transition: a terminal status is never left, and nothing
\* goes from STOPPING back to RUNNING.
NoResurrection ==
    [][/\ status \in Terminal => status' = status
       /\ status = "STOPPING" => status' # "RUNNING"]_vars

\* A node whose connection holds while the session is RUNNING captures for it,
\* now or soon: AgentConnected replays the start commands of a running session.
Steady(n) == status = "RUNNING" /\ kind # "follow" /\ Up(n)
ReconnectRestoresCapture ==
    \A n \in Nodes : []<>(n \in capturing \/ ~Steady(n))

\* A session the repository shows as ended is ended for good: no boot brings it
\* back, and nothing is left open of it.
EndedIsFinal == TerminalIsDurable /\ TerminalHasNoPipeline
=============================================================================
