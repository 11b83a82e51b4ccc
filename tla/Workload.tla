------------------------------ MODULE Workload ------------------------------
(***************************************************************************)
(* A session that follows a Kubernetes workload: the resolver              *)
(* (src/internal/adapter/kubernetes/workloads.go), which reads the cluster *)
(* with one GET after the other, and the parts of                          *)
(* src/internal/application/session/service.go that turn what it read into *)
(* start and stop commands: Create, the reconcile loop and the replay for  *)
(* an agent that connects.                                                 *)
(*                                                                         *)
(* The session has one followed workload target, an interface target on    *)
(* Interfaces and perhaps a second, not followed workload with a pod on    *)
(* each of others; these last sources never change.  Connections are made  *)
(* and not lost, and the session's own status is that of Create: module    *)
(* Session has the rest.  A source is [uid, node, iface]: its id is that   *)
(* of its pod, and iface stands for the two things of it that may change,  *)
(* the interface Calico lists for the pod's address and that address.      *)
(***************************************************************************)
EXTENDS Naturals, Sequences, FiniteSets

CONSTANTS
    Shapes,       \* sessions considered: <<the target's kind, nodes with a
                  \* source of the other workload>>
    Uids,         \* UIDs of pods the cluster may create
    Nodes,        \* nodes that run a capture agent
    Joined,       \* the sets of nodes that may be connected at the start
    Interfaces,   \* nodes with a source of the interface target
    MaxPods,      \* the target's MaxPods
    SessionPods,  \* defaultMaxPods: pods of all the session's workloads
    NodeSources,  \* maxSourcesPerNode
    QueueSize,    \* capacity of a connection's command channel
    MaxOwners,    \* bound: UIDs of workload objects, and of replica sets
    MaxChanges    \* bound: changes of the cluster, and faults

VARIABLES
    kind,       \* the target's Kind
    others,     \* nodes with a source of the other workload
    exists,     \* the workload object is there
    current,    \* its UID, or that of the last one
    replicas,   \* replica set -> UID of the deployment that owns it, 0 if none
    pods,       \* pod UID -> the pod
    changes,    \* changes and faults so far
    phase,      \* "none", "STARTING", "RUNNING" or "refused" (Create failed)
    connected,  \* AgentRegistry.ConnectedNodes
    proc,       \* the loop (Create, then reconcileLoop) and each node's
                \* AgentConnected: program counter and locals
    runtime,    \* runtime.sources of the followed target
    cmds,       \* commands waiting for each node
    captured,   \* what the agents capture for the target
    reports,    \* sources with a FAILED report on its way to the server
    trouble     \* what has gone wrong so far: "none", "forgot" (a stop command
                \* was refused, or a FAILED report was applied to a source
                \* started after it) or "replayed" (AgentConnected started one)

clusterVars == <<exists, current, replicas, pods>>
fixedVars == <<kind, others, clusterVars>>
agentVars == <<captured, reports>>
vars == <<fixedVars, changes, phase, connected, proc, runtime, cmds,
          agentVars, trouble>>

Loop == "loop"
Procs == Nodes \cup {Loop}
NoPod == [state |-> "none", owner |-> 0, node |-> "none", listed |-> FALSE]
NoSource == [uid |-> "none", node |-> "none", iface |-> FALSE]
Idle == [at |-> "idle", nodes |-> {}, owner |-> 0, list |-> {}, drop |-> {},
         todo |-> {}, cur |-> NoSource]

Ids(S) == {r.uid : r \in S}
At(q, l) == proc[q].at = l
Goto(q, l) == proc' = [proc EXCEPT ![q].at = l]
Without(S, u) == {r \in S : r.uid # u}

\* The goroutine goes on with what it has left to stop, then to start; when
\* Create has nothing left, the session is RUNNING.
Advance(q, p) ==
    LET at == IF p.drop # {} THEN "prune" ELSE IF p.todo # {} THEN "start"
              ELSE "idle"
    IN /\ proc' = [proc EXCEPT ![q] = IF at = "idle" THEN Idle
                                      ELSE [p EXCEPT !.at = at]]
       /\ phase' = IF at = "idle" /\ q = Loop THEN "RUNNING"
                   ELSE IF phase = "none" THEN "STARTING" ELSE phase

Forgot == trouble' = IF trouble = "none" THEN "forgot" ELSE trouble

CanSend(n) == n \in connected /\ Len(cmds[n]) < QueueSize
Send(n, c) == cmds' = [cmds EXCEPT ![n] = Append(@, c)]

\* A budget for what the cluster does and for what goes wrong.
Change == changes < MaxChanges /\ changes' = changes + 1

Init ==
    /\ \E s \in Shapes : kind = s[1] /\ others = s[2]
    /\ exists = TRUE /\ current = 1
    /\ replicas = [s \in 1..MaxOwners |-> IF s = 1 THEN 1 ELSE 0]
    /\ pods \in [Uids -> {NoPod} \cup
                  {[NoPod EXCEPT !.state = "up", !.owner = 1, !.node = n] :
                      n \in Nodes}]
    /\ changes = 0
    /\ phase = "none"
    /\ connected \in Joined
    /\ proc = [q \in Procs |-> Idle]
    /\ runtime = {}
    /\ cmds = [n \in Nodes |-> <<>>]
    /\ captured = {} /\ reports = {}
    /\ trouble = "none"

-----------------------------------------------------------------------------
(* The cluster, as the API server shows it.                                *)

\* What a new pod's owner reference names: the workload, or its newest
\* replica set.
Owner == IF kind = "statefulset" THEN current
         ELSE CHOOSE s \in 1..MaxOwners :
                 /\ replicas[s] # 0
                 /\ \A t \in 1..MaxOwners : replicas[t] # 0 => t <= s

PodChange(u, p) ==
    /\ Change
    /\ pods' = [pods EXCEPT ![u] = p]
    /\ UNCHANGED <<kind, others, exists, current, replicas, phase, connected,
                   proc, runtime, cmds, agentVars, trouble>>

\* A pod appears with its node and address (before it has both, Resolve passes
\* over it); Calico lists it later.
CreatePod(u) ==
    /\ exists /\ pods[u] = NoPod
    /\ \E n \in Nodes :
          PodChange(u, [NoPod EXCEPT !.state = "up", !.owner = Owner, !.node = n])
ListPod(u) ==
    pods[u].state = "up" /\ ~pods[u].listed
       /\ PodChange(u, [pods[u] EXCEPT !.listed = TRUE])
\* It gets a deletion timestamp; that it then disappears makes no difference.
DeletePod(u) ==
    pods[u].state = "up"
       /\ PodChange(u, [pods[u] EXCEPT !.state = "leaving"])

\* The workload is deleted, its pods still running, and made again under the
\* same name; or a deployment is rolled out to another replica set.
DeleteWorkload ==
    /\ Change /\ exists /\ exists' = FALSE
    /\ UNCHANGED <<kind, others, current, replicas, pods, phase, connected,
                   proc, runtime, cmds, agentVars, trouble>>

FreeReplicas == {s \in 1..MaxOwners : replicas[s] = 0}
NewReplicas(uid) ==
    \E s \in FreeReplicas :
       /\ \A t \in FreeReplicas : s <= t
       /\ replicas' = [replicas EXCEPT ![s] = uid]

RecreateWorkload ==
    /\ Change /\ ~exists /\ current < MaxOwners
    /\ exists' = TRUE /\ current' = current + 1
    /\ NewReplicas(current + 1)
    /\ UNCHANGED <<kind, others, pods, phase, connected, proc, runtime, cmds,
                   agentVars, trouble>>

Rollout ==
    /\ Change /\ exists /\ kind = "deployment"
    /\ NewReplicas(current)
    /\ UNCHANGED <<kind, others, exists, current, pods, phase, connected, proc,
                   runtime, cmds, agentVars, trouble>>

-----------------------------------------------------------------------------
(* WorkloadResolver.Resolve, one GET per step, for the process q.          *)

\* What a failed Resolve does: Create fails, the other two start nothing.
ResolveFailed(q) ==
    /\ proc' = [proc EXCEPT ![q] = Idle]
    /\ phase' = IF phase = "none" THEN "refused" ELSE phase

GetWorkload(q) ==
    /\ At(q, "workload")
    /\ \/ /\ exists
          /\ proc' = [proc EXCEPT ![q].owner = current, ![q].at = "pods"]
          /\ UNCHANGED phase
       \/ ~exists /\ ResolveFailed(q)
    /\ UNCHANGED <<fixedVars, changes, connected, runtime, cmds, agentVars,
                   trouble>>

\* Pods that are not being deleted; those without a node or an address give no
\* source.
Listed == {v \in Uids : pods[v].state = "up"}

\* Mutant: the owner's UID is not compared.
OwnedByKind(u, uid) ==
    IF kind = "statefulset" THEN pods[u].owner # 0
    ELSE replicas[pods[u].owner] # 0

\* ownedBy and ownedByAny: by the workload that was read first, or by one of
\* its replica sets.
OwnedBy(u, uid) ==
    IF kind = "statefulset" THEN pods[u].owner = uid
    ELSE replicas[pods[u].owner] = uid

\* Owner references are those of the pods as they were read; they never change.
GetPods(q) ==
    /\ At(q, "pods")
    /\ proc' = [proc EXCEPT ![q] = IF kind = "statefulset"
          THEN [@ EXCEPT !.list = {u \in Listed : OwnedBy(u, proc[q].owner)},
                         !.at = "endpoints"]
          ELSE [@ EXCEPT !.list = Listed, !.at = "replicas"]]
    /\ UNCHANGED <<fixedVars, changes, phase, connected, runtime, cmds,
                   agentVars, trouble>>

\* The replica sets of a deployment are read after its pods.
GetReplicas(q) ==
    /\ At(q, "replicas")
    /\ proc' = [proc EXCEPT ![q].list = {u \in @ : OwnedBy(u, proc[q].owner)},
                            ![q].at = "endpoints"]
    /\ UNCHANGED <<fixedVars, changes, phase, connected, runtime, cmds,
                   agentVars, trouble>>

\* endpointInterface: without an endpoint of the pod's name, node and address
\* the agent finds the interface.
Source(u) == [uid |-> u, node |-> pods[u].node,
              iface |-> pods[u].listed /\ pods[u].state = "up"]

GetEndpoints(q) ==
    /\ At(q, "endpoints")
    /\ proc' = [proc EXCEPT ![q].list = {Source(u) : u \in @}, ![q].owner = 0,
                            ![q].at = "decide"]
    /\ UNCHANGED <<fixedVars, changes, phase, connected, runtime, cmds,
                   agentVars, trouble>>

\* Any of the requests may fail.
GetFails(q) ==
    /\ proc[q].at \in {"workload", "pods", "replicas", "endpoints"}
    /\ Change
    /\ ResolveFailed(q)
    /\ UNCHANGED <<fixedVars, connected, runtime, cmds, agentVars, trouble>>

-----------------------------------------------------------------------------
(* What the service makes of it.                                           *)

\* validateSourceDistribution.
Fits(S, ifaces, fixed) ==
    \A n \in Nodes :
       Cardinality({r \in S : r.node = n}) + Cardinality({n} \cap ifaces)
          + Cardinality({n} \cap fixed) <= NodeSources

\* The target's limit, the session's and each node's: resolveInitialSources,
\* and reconcile with what the other targets have.
WithinLimits(S) ==
    /\ Cardinality(S) <= MaxPods
    /\ Cardinality(S) + Cardinality(others) <= SessionPods
    /\ Fits(S, Interfaces, others)

CreateBegin ==
    /\ phase = "none" /\ At(Loop, "idle")
    /\ Goto(Loop, "workload")
    /\ UNCHANGED <<fixedVars, changes, phase, connected, runtime, cmds,
                   agentVars, trouble>>

CreateDecide ==
    /\ phase = "none" /\ At(Loop, "decide")
    /\ IF WithinLimits(proc[Loop].list)
       THEN Advance(Loop, [Idle EXCEPT !.todo = proc[Loop].list])
       ELSE ResolveFailed(Loop)
    /\ UNCHANGED <<fixedVars, changes, connected, runtime, cmds, agentVars,
                   trouble>>

\* A tick of reconcileLoop.
ReconcileBegin ==
    /\ phase = "RUNNING" /\ At(Loop, "idle")
    /\ Goto(Loop, "workload")
    /\ UNCHANGED <<fixedVars, changes, phase, connected, runtime, cmds,
                   agentVars, trouble>>

\* Sources that are as wanted are left alone; the others are stopped, then
\* what is missing is started.  Above a limit nothing changes.
ReconcileDecide ==
    /\ phase = "RUNNING" /\ At(Loop, "decide")
    /\ IF WithinLimits(proc[Loop].list)
       THEN Advance(Loop, [Idle EXCEPT !.drop = runtime \ proc[Loop].list,
                                       !.todo = proc[Loop].list \ runtime])
       ELSE ResolveFailed(Loop)
    /\ UNCHANGED <<fixedVars, changes, connected, runtime, cmds, agentVars,
                   trouble>>

\* Mutant: a source that changed is replaced without stopping the old one.
PruneWithoutStop ==
    /\ At(Loop, "prune")
    /\ \E r \in proc[Loop].drop :
          /\ runtime' = Without(runtime, r.uid)
          /\ Advance(Loop, [proc[Loop] EXCEPT !.drop = @ \ {r}])
    /\ UNCHANGED <<fixedVars, changes, connected, cmds, agentVars, trouble>>

\* Mutant: the source is not forgotten.
PruneRemembers ==
    /\ At(Loop, "prune")
    /\ \E r \in proc[Loop].drop :
          /\ CanSend(r.node) /\ Send(r.node, [op |-> "stop", src |-> r])
          /\ Advance(Loop, [proc[Loop] EXCEPT !.drop = @ \ {r}])
    /\ UNCHANGED <<fixedVars, changes, connected, runtime, agentVars, trouble>>

\* The stop's error is ignored: the source is forgotten anyway.
Prune ==
    /\ At(Loop, "prune")
    /\ \E r \in proc[Loop].drop :
          /\ runtime' = Without(runtime, r.uid)
          /\ Advance(Loop, [proc[Loop] EXCEPT !.drop = @ \ {r}])
          /\ \/ /\ CanSend(r.node) /\ Send(r.node, [op |-> "stop", src |-> r])
                /\ UNCHANGED trouble
             \/ /\ ~CanSend(r.node) /\ Forgot
                /\ UNCHANGED cmds
    /\ UNCHANGED <<fixedVars, changes, connected, agentVars>>

\* An agent connects.  AgentConnected runs in a goroutine of its own and goes
\* on when the session is RUNNING.
Connect(n) ==
    /\ n \notin connected
    /\ connected' = connected \cup {n}
    /\ proc' = IF phase = "RUNNING"
               THEN [proc EXCEPT ![n] = [Idle EXCEPT
                       !.at = "workload", !.nodes = connected \cup {n}]]
               ELSE proc
    /\ UNCHANGED <<fixedVars, changes, phase, runtime, cmds, agentVars,
                   trouble>>

\* reconcileRecovered: the sources on the nodes that were connected when it
\* began, checked against the limit of a node only.
ReplayDecide(n) ==
    /\ At(n, "decide")
    /\ LET S == {r \in proc[n].list : r.node \in proc[n].nodes}
       IN IF Fits(S, Interfaces \cap proc[n].nodes, others \cap proc[n].nodes)
          THEN Advance(n, [Idle EXCEPT !.todo = S])
          ELSE ResolveFailed(n)
    /\ UNCHANGED <<fixedVars, changes, connected, runtime, cmds, agentVars,
                   trouble>>

\* startSource; the replay passes over sources that the runtime has.
Skipped(q, r) == q # Loop /\ r.uid \in Ids(runtime)

StartSend(q) ==
    /\ At(q, "start")
    /\ \E r \in proc[q].todo :
          \/ /\ ~Skipped(q, r) /\ CanSend(r.node)
             /\ Send(r.node, [op |-> "start", src |-> r])
             /\ proc' = [proc EXCEPT ![q].todo = @ \ {r}, ![q].cur = r,
                                     ![q].at = "set"]
             /\ trouble' = IF q = Loop THEN trouble ELSE "replayed"
             /\ UNCHANGED phase
          \/ /\ Skipped(q, r) \/ ~CanSend(r.node)
             /\ Advance(q, [proc[q] EXCEPT !.todo = @ \ {r}])
             /\ UNCHANGED <<cmds, trouble>>
    /\ UNCHANGED <<fixedVars, changes, connected, runtime, agentVars>>

\* setRuntimeSource.
StartSet(q) ==
    /\ At(q, "set")
    /\ runtime' = Without(runtime, proc[q].cur.uid) \cup {proc[q].cur}
    /\ Advance(q, [proc[q] EXCEPT !.cur = NoSource])
    /\ UNCHANGED <<fixedVars, changes, connected, cmds, agentVars, trouble>>

-----------------------------------------------------------------------------
(* The agents and their reports.                                           *)

\* Mutant: a source that is captured already is captured again.
DeliverAgain(n) ==
    /\ cmds[n] # <<>>
    /\ cmds' = [cmds EXCEPT ![n] = Tail(@)]
    /\ LET c == Head(cmds[n])
       IN captured' = IF c.op = "stop" THEN Without(captured, c.src.uid)
                      ELSE captured \cup {c.src}
    /\ UNCHANGED <<fixedVars, changes, phase, connected, proc, runtime, reports,
                   trouble>>

\* Start does nothing for a source that is captured already; Stop ends the
\* capture.
Deliver(n) ==
    /\ cmds[n] # <<>>
    /\ cmds' = [cmds EXCEPT ![n] = Tail(@)]
    /\ LET c == Head(cmds[n])
       IN captured' = IF c.op = "stop" THEN Without(captured, c.src.uid)
                      ELSE IF c.src.uid \in Ids(captured) THEN captured
                      ELSE captured \cup {c.src}
    /\ UNCHANGED <<fixedVars, changes, phase, connected, proc, runtime,
                   reports, trouble>>

\* A capture ends with an error, at once or later, and reports it.
CaptureFails ==
    /\ Change
    /\ \E r \in captured :
          captured' = captured \ {r} /\ reports' = reports \cup {r.uid}
    /\ UNCHANGED <<fixedVars, phase, connected, proc, runtime, cmds, trouble>>

\* A start of the source that is later than the failure reported.
StartedAgain(u) ==
    \/ u \in Ids(captured)
    \/ \E n \in Nodes : \E i \in DOMAIN cmds[n] :
          cmds[n][i].op = "start" /\ cmds[n][i].src.uid = u
    \/ \E q \in Procs : proc[q].cur.uid = u

\* CaptureStatus of a FAILED source: it is removed whatever started since.
CaptureStatus ==
    \E u \in reports :
       /\ reports' = reports \ {u}
       /\ runtime' = Without(runtime, u)
       /\ IF StartedAgain(u) THEN Forgot ELSE UNCHANGED trouble
       /\ UNCHANGED <<fixedVars, changes, phase, connected, proc, cmds,
                      captured>>

-----------------------------------------------------------------------------
Cluster ==
    \/ \E u \in Uids : CreatePod(u) \/ ListPod(u) \/ DeletePod(u)
    \/ DeleteWorkload \/ RecreateWorkload \/ Rollout

\* A goroutine goes on: the loop, or an AgentConnected.
Continue(q) ==
    \/ GetWorkload(q) \/ GetPods(q) \/ GetReplicas(q) \/ GetEndpoints(q)
    \/ StartSend(q) \/ StartSet(q)
LoopMoves ==
    \/ Continue(Loop) \/ CreateDecide \/ ReconcileBegin \/ ReconcileDecide
    \/ Prune
ReplayMoves(n) == Continue(n) \/ ReplayDecide(n)

Next ==
    \/ Cluster \/ CreateBegin \/ LoopMoves
    \/ \E n \in Nodes : Connect(n) \/ ReplayMoves(n) \/ Deliver(n)
    \/ \E q \in Procs : GetFails(q)
    \/ CaptureFails \/ CaptureStatus

Spec == Init /\ [][Next]_vars

(* The ticker fires again and again, goroutines are scheduled, a connection *)
(* that stays up carries what is queued.  Nothing makes the cluster change, *)
(* a request fail, an agent connect or a user call Create.                  *)
Fairness ==
    /\ WF_vars(LoopMoves) /\ WF_vars(CaptureStatus)
    /\ \A n \in Nodes : WF_vars(ReplayMoves(n)) /\ WF_vars(Deliver(n))

FairSpec == Spec /\ Fairness

-----------------------------------------------------------------------------
(* Properties.                                                             *)

Sources == [uid : Uids, node : Nodes, iface : BOOLEAN]

\* Every variable keeps its type; the runtime and the agents have one source
\* of a pod, and no command channel holds more than its capacity.
TypeOK ==
    /\ <<kind, others>> \in Shapes
    /\ exists \in BOOLEAN /\ current \in 1..MaxOwners
    /\ changes \in 0..MaxChanges
    /\ phase \in {"none", "STARTING", "RUNNING", "refused"}
    /\ connected \subseteq Nodes
    /\ runtime \cup captured \subseteq Sources
    /\ Cardinality(Ids(runtime)) = Cardinality(runtime)
    /\ Cardinality(Ids(captured)) = Cardinality(captured)
    /\ \A n \in Nodes : Len(cmds[n]) <= QueueSize
    /\ reports \subseteq Uids

\* The deployment or stateful set a pod belongs to.
WorkloadOf(u) == IF kind = "statefulset" THEN pods[u].owner
                 ELSE replicas[pods[u].owner]

\* Between ticks the session captures pods of one workload object only, though
\* the resolver reads the object, its pods and its replica sets one after the
\* other and the object may be deleted and made again under the same name and
\* labels meanwhile: the owner's UID decides, and what a tick does not find is
\* stopped.
OneIncarnation ==
    At(Loop, "idle") /\ trouble # "replayed" =>
       \A u, v \in Ids(runtime) : WorkloadOf(u) = WorkloadOf(v)

\* The limits of the target, the session and each node hold at every moment of
\* Create and of every tick, also half-way: sources are stopped before others
\* are started.  (The replay for a connecting agent does not check MaxPods.)
LimitsHold ==
    trouble # "replayed" =>
       /\ Cardinality(runtime) <= MaxPods
       /\ Cardinality(runtime) + Cardinality(others) <= SessionPods
       /\ Fits(runtime, Interfaces, others)

\* When nothing is under way, the agents capture what the runtime says, with the
\* interface it says: a changed source is stopped before it is
\* started anew, and the channel keeps the two in order.  Excluded are the cases
\* in which the code does forget: a refused stop, a FAILED report that arrives
\* after a later start, and a replay that races with the loop.
CapturesMatch ==
    /\ At(Loop, "idle") /\ \A n \in Nodes : cmds[n] = <<>>
    /\ reports = {} /\ trouble = "none"
    => captured = runtime

Settled == {Source(u) : u \in {v \in Listed : WorkloadOf(v) = current}}

\* Once the cluster is quiet, a running session ends up with exactly the pods of
\* its workload that are on connected nodes, whatever raced before: every tick
\* compares anew, so a failed request, a refused command, a FAILED report or a
\* replay of stale sources is made good.  Above a limit it may stay as it is.
FollowConverges ==
    <>[](phase = "RUNNING" /\ exists /\ WithinLimits(Settled) =>
            runtime = {r \in Settled : r.node \in connected})

\* The sources are pods of one workload object, within every limit.
SourcesAreLegal == OneIncarnation /\ LimitsHold
=============================================================================
