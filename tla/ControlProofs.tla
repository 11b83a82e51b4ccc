---------------------------- MODULE ControlProofs ----------------------------
(***************************************************************************)
(* The server's control plane, for any number of nodes, goroutines,        *)
(* connections, failures and ticks: a session that has ended stays ended   *)
(* and one that runs is served, whichever goroutines race; for any number  *)
(* of pods, workload objects and changes of the cluster, a session that    *)
(* follows a workload captures pods of one incarnation of it within every  *)
(* limit, and its agents capture what it says; and with ContinuousProofs,  *)
(* what the composition checks of the continuous capture service.          *)
(***************************************************************************)
EXTENDS MCControl, SumTheorems, TLAPS

-----------------------------------------------------------------------------
(* The inductive invariant of the session.                                 *)

Ops == {"none", "create", "connected", "reconcile", "disconnected", "status", "stop"}
Steps == {"idle", "open", "runtime", "start", "set", "teardown", "finish", "nodes",
          "nodesWrite", "message", "write", "prune", "drop", "list", "decide", "close",
          "get", "count", "persist", "stopPersist", "stopping", "take", "send",
          "stopClose"}
Activities ==
    [op : Ops, at : Steps, who : SUBSET Nodes, status : Statuses,
     nodes : SUBSET Nodes, todo : SUBSET Nodes, started : SUBSET Nodes]

RepoTypes ==
    /\ kind \in Kinds /\ origin \in {"create", "restore", "done", "retry"}
    /\ status \in Statuses /\ nodes \subseteq Nodes
    /\ pipe \in {"none", "open", "closed"}
    /\ desired \in {"none", "RUNNING", "unsaved", "STOPPED"}
RuntimeTypes ==
    /\ live \in BOOLEAN /\ sources \subseteq Nodes /\ (~live => sources = {})
    /\ loop \in BOOLEAN /\ ticks \in 0..MaxReconcile
AgentTypes ==
    /\ conn \in [Nodes -> 0..MaxConn] /\ link \in [Nodes -> 0..MaxConn]
    /\ registered \in [Nodes -> 0..MaxConn]
    /\ broken \cup serving \cup greeting \subseteq Nodes \X (1..MaxConn)
CommandTypes ==
    /\ cmds \in [Nodes -> Seq({"start", "stop"})]
    /\ \A n \in Nodes : Len(cmds[n]) <= QueueSize
CaptureTypes == capturing \cup reports \subseteq Nodes /\ failures \in 0..MaxFailures

SharedTypes ==
    RepoTypes /\ RuntimeTypes /\ AgentTypes /\ CommandTypes /\ CaptureTypes

Types == SharedTypes /\ act \in [Handlers -> Activities]

\* A goroutine without a copy of a session: it is at rest or has still to look.
Early(h) ==
    act[h].at \in {"idle", "drop", "list", "get", "stopPersist"}
        /\ act[h].status = "none"

\* Before Create or Restore has opened the pipeline there is nothing to write
\* back: no goroutine has a copy of the session.
YoungInv ==
    /\ origin \in {"create", "restore"} =>
          /\ status = "none" /\ pipe = "none"
          /\ desired = IF origin = "restore" THEN "RUNNING" ELSE "none"
    /\ origin = "retry" => status = "FAILED" /\ pipe = "closed"
    /\ origin # "done" => \A h \in Handlers : Early(h) /\ act[h].at # "stopPersist"
    /\ \A h \in Handlers : act[h].at = "open" =>
          /\ origin = "done" /\ status = "STARTING" /\ pipe = "none"
          /\ desired = "none" /\ act[h].status = "none"
          /\ \A g \in Handlers \ {h} : Early(g)

\* A goroutine that is going to write a final status has persisted the stop, or
\* tried to, and closed the pipeline, except where it is on its way to do so.
CopyInv ==
    \A h \in Handlers :
        /\ act[h].at = "idle" => act[h] = Idle
        /\ act[h].status \in Terminal =>
              /\ act[h].at # "persist" /\ origin # "retry" => desired # "RUNNING"
              /\ act[h].at # "close" => pipe # "open"
        /\ act[h].at \in {"teardown", "finish", "close", "stopping", "take", "send",
                          "stopClose"} => desired # "RUNNING"
        /\ act[h].at \in {"finish", "persist"} => pipe = "closed"

\* While RUNNING is persisted, a pipeline is missing only until CaptureStatus
\* has persisted the stop, a runtime entry only until Create has made it.
ServedInv ==
    desired = "RUNNING" /\ origin = "done" =>
        /\ pipe = "open" \/ \E h \in Handlers : act[h].at = "persist"
        /\ live \/ \E h \in Handlers : act[h].at = "runtime"

IInv == Types /\ YoungInv /\ CopyInv /\ EndedIsFinal /\ ServedInv

-----------------------------------------------------------------------------
(* The steps, operations and statuses a goroutine's locals are made of.    *)
LEMMA Names ==
    /\ {"idle", "open", "runtime", "start", "set", "teardown", "finish", "nodes",
        "nodesWrite", "message", "write", "prune", "drop", "list", "decide", "close",
        "get", "count", "persist", "stopPersist", "stopping", "take", "send",
        "stopClose"} \subseteq Steps
    /\ {"none", "create", "connected", "reconcile", "disconnected", "status",
        "stop"} \subseteq Ops
    /\ {"none", "STARTING", "RUNNING", "FAILED", "STOPPING", "STOPPED"}
          \subseteq Statuses
    /\ Idle \in Activities
BY DEF Steps, Ops, Statuses, Idle, Activities

(* A step of a goroutine leaves the locals of the others alone.            *)
LEMMA OneMoves ==
    ASSUME NEW h \in Handlers, NEW a \in Activities,
           act \in [Handlers -> Activities], act' = [act EXCEPT ![h] = a]
    PROVE  /\ act' \in [Handlers -> Activities] /\ act'[h] = a
           /\ \A g \in Handlers \ {h} : act'[g] = act[g]
OBVIOUS

(* A command is sent to a channel that has a free slot, to others not.     *)
LEMMA SentOne ==
    ASSUME CommandTypes, NEW c \in {"start", "stop"}, NEW n \in Nodes, CanSend(n),
           Send(n, c)
    PROVE  CommandTypes'
<1>1. Append(cmds[n], c) \in Seq({"start", "stop"})
      /\ Len(Append(cmds[n], c)) <= QueueSize
  BY BoundAssumption DEF CommandTypes, CanSend
<1>2. QED
  BY <1>1 DEF CommandTypes, Send

LEMMA SentAll ==
    ASSUME CommandTypes, NEW c \in {"start", "stop"}, NEW S, SendAll(S, c)
    PROVE  CommandTypes'
<1>1. ASSUME NEW n \in Nodes
      PROVE  cmds'[n] \in Seq({"start", "stop"}) /\ Len(cmds'[n]) <= QueueSize
  BY BoundAssumption DEF CommandTypes, SendAll, CanSend
<1>2. QED
  BY <1>1 DEF CommandTypes, SendAll

(* A step of one goroutine that touches neither the repository, the        *)
(* pipeline, the recovery file nor the runtime entry: what it may do to    *)
(* its own locals.                                                         *)
Harmless(h, a) ==
    /\ act[h].at \notin {"open", "persist", "runtime"}
    /\ a.at = "idle" => a = Idle
    /\ a.at \notin {"open", "teardown", "finish", "close", "stopping", "take", "persist"}
    /\ a.at \in {"send", "stopClose"} => act[h].at \in {"take", "send"}
    /\ \/ act[h].at \notin {"idle", "drop", "list", "get", "stopPersist"}
       \/ status = "RUNNING"
       \/ /\ a.at \in {"idle", "drop", "list", "get", "stopPersist"}
          /\ a.status \in {"none", act[h].status}
          /\ a.at = "stopPersist" => status \notin Terminal \cup {"none"}
    /\ a.status \in Terminal =>
          a.status = status \/ (a.status = act[h].status /\ act[h].at # "close")

LEMMA HarmlessStep ==
    ASSUME IInv, SharedTypes', NEW h \in Handlers, NEW a \in Activities, Harmless(h, a),
           act' = [act EXCEPT ![h] = a],
           UNCHANGED <<origin, status, pipe, desired, live>>
    PROVE  IInv'
<1>0. /\ act' \in [Handlers -> Activities] /\ act'[h] = a
      /\ \A g \in Handlers \ {h} : act'[g] = act[g]
  BY OneMoves DEF IInv, Types
<1> USE <1>0 DEF IInv, Harmless
<1>1. YoungInv'
  <2>1. \A g \in Handlers : act'[g].at = "open" => g # h /\ act[g].at = "open"
    OBVIOUS
  <2>2. Early(h) /\ status # "RUNNING" => Early(h)'
    BY DEF Early
  <2>3. \A g \in Handlers \ {h} : Early(g) => Early(g)'
    BY DEF Early
  <2>4. QED
    BY <2>1, <2>2, <2>3 DEF YoungInv, Early, Terminal, Types, SharedTypes, RepoTypes
<1>2. CopyInv'
  BY DEF CopyInv, EndedIsFinal, TerminalIsDurable, TerminalHasNoPipeline, Terminal
<1>3. EndedIsFinal'
  BY DEF EndedIsFinal, TerminalIsDurable, TerminalHasNoPipeline
<1>4. ServedInv'
  BY DEF ServedInv
<1>5. QED
  BY <1>1, <1>2, <1>3, <1>4 DEF Types

(* What the goroutines, the agents and the network share keeps its types.  *)
LEMMA SharedStep == ASSUME IInv, Next PROVE SharedTypes'
<1>a. SharedTypes /\ \A h \in Handlers : act[h] \in Activities
  BY DEF IInv, Types
<1>1. ASSUME NEW h \in Handlers, CreateOpen(h) PROVE SharedTypes'
  BY <1>1, <1>a, Names, BoundAssumption DEF CreateOpen, SharedTypes, RepoTypes,
     RuntimeTypes, AgentTypes, CommandTypes, CaptureTypes, Activities, repoVars,
     runtimeVars, agentVars, captureVars
<1>2. ASSUME NEW h \in Handlers, CreateRuntime(h) PROVE SharedTypes'
  BY <1>2, <1>a, Names, BoundAssumption DEF CreateRuntime, SharedTypes, RepoTypes,
     RuntimeTypes, AgentTypes, CommandTypes, CaptureTypes, Activities, repoVars,
     runtimeVars, agentVars, captureVars
<1>3. ASSUME NEW h \in Handlers, StartSend(h) PROVE SharedTypes'
  <2>1. RepoTypes' /\ RuntimeTypes' /\ AgentTypes' /\ CaptureTypes'
    BY <1>3, <1>a DEF StartSend, SharedTypes, RepoTypes, RuntimeTypes, AgentTypes,
       CaptureTypes, repoVars, runtimeVars, agentVars, captureVars
  <2>2. CommandTypes'
    <3>1. UNCHANGED cmds \/ \E n \in Nodes : CanSend(n) /\ Send(n, "start")
      BY <1>3, <1>a DEF StartSend, Activities
    <3>2. QED
      BY <3>1, <1>a, SentOne DEF SharedTypes, CommandTypes
  <2>3. QED
    BY <2>1, <2>2 DEF SharedTypes
<1>4. ASSUME NEW h \in Handlers, StartSet(h) PROVE SharedTypes'
  BY <1>4, <1>a, Names, BoundAssumption DEF StartSet, SharedTypes, RepoTypes,
     RuntimeTypes, AgentTypes, CommandTypes, CaptureTypes, Activities, repoVars,
     runtimeVars, agentVars, captureVars
<1>5. ASSUME NEW h \in Handlers, CreateFailed(h) PROVE SharedTypes'
  BY <1>5, <1>a, Names, BoundAssumption DEF CreateFailed, PersistStop, SharedTypes, RepoTypes,
     RuntimeTypes, AgentTypes, CommandTypes, CaptureTypes, Activities, repoVars,
     runtimeVars, agentVars, captureVars
<1>6. ASSUME NEW h \in Handlers, CreateTeardown(h) PROVE SharedTypes'
  BY <1>6, <1>a, Names, BoundAssumption DEF CreateTeardown, SharedTypes, RepoTypes,
     RuntimeTypes, AgentTypes, CommandTypes, CaptureTypes, Activities, repoVars,
     runtimeVars, agentVars, captureVars
<1>7. ASSUME NEW h \in Handlers, CreateFinish(h) PROVE SharedTypes'
  BY <1>7, <1>a, Names, BoundAssumption DEF CreateFinish, SharedTypes, RepoTypes,
     RuntimeTypes, AgentTypes, CommandTypes, CaptureTypes, Activities, repoVars,
     runtimeVars, agentVars, captureVars, Follow
<1>8. ASSUME NEW h \in Handlers, NodesRead(h) PROVE SharedTypes'
  BY <1>8, <1>a, Names, BoundAssumption DEF NodesRead, SharedTypes, RepoTypes,
     RuntimeTypes, AgentTypes, CommandTypes, CaptureTypes, Activities, repoVars,
     runtimeVars, agentVars, captureVars
<1>9. ASSUME NEW h \in Handlers, NodesWrite(h) PROVE SharedTypes'
  BY <1>9, <1>a, Names, BoundAssumption DEF NodesWrite, SharedTypes, RepoTypes,
     RuntimeTypes, AgentTypes, CommandTypes, CaptureTypes, Activities, repoVars,
     runtimeVars, agentVars, captureVars, Update
<1>10. ASSUME NEW h \in Handlers, MessageRead(h) PROVE SharedTypes'
  BY <1>10, <1>a, Names, BoundAssumption DEF MessageRead, SharedTypes, RepoTypes,
     RuntimeTypes, AgentTypes, CommandTypes, CaptureTypes, Activities, repoVars,
     runtimeVars, agentVars, captureVars
<1>11. ASSUME NEW h \in Handlers, Write(h) PROVE SharedTypes'
  BY <1>11, <1>a, Names, BoundAssumption DEF Write, SharedTypes, RepoTypes,
     RuntimeTypes, AgentTypes, CommandTypes, CaptureTypes, Activities, repoVars,
     runtimeVars, agentVars, captureVars, Update
<1>12. ASSUME NEW h \in Handlers, ReconcilePrune(h) PROVE SharedTypes'
  <2>1. RepoTypes' /\ AgentTypes' /\ CaptureTypes'
    BY <1>12, <1>a DEF ReconcilePrune, SharedTypes, RepoTypes, AgentTypes, CaptureTypes,
       repoVars, runtimeVars, agentVars, captureVars
  <2>2. RuntimeTypes'
    BY <1>12, <1>a, Names, BoundAssumption DEF ReconcilePrune, SharedTypes,
       RuntimeTypes, Activities, repoVars, runtimeVars, agentVars, captureVars
  <2>3. CommandTypes'
    BY <1>12, <1>a, SentAll DEF ReconcilePrune, SharedTypes
  <2>4. QED
    BY <2>1, <2>2, <2>3 DEF SharedTypes
<1>13. ASSUME NEW h \in Handlers, DisconnectDrop(h) PROVE SharedTypes'
  BY <1>13, <1>a, Names, BoundAssumption DEF DisconnectDrop, SharedTypes, RepoTypes,
     RuntimeTypes, AgentTypes, CommandTypes, CaptureTypes, Activities, repoVars,
     runtimeVars, agentVars, captureVars
<1>14. ASSUME NEW h \in Handlers, DisconnectList(h) PROVE SharedTypes'
  BY <1>14, <1>a, Names, BoundAssumption DEF DisconnectList, SharedTypes, RepoTypes,
     RuntimeTypes, AgentTypes, CommandTypes, CaptureTypes, Activities, repoVars,
     runtimeVars, agentVars, captureVars
<1>15. ASSUME NEW h \in Handlers, DisconnectDecide(h) PROVE SharedTypes'
  BY <1>15, <1>a, Names, BoundAssumption DEF DisconnectDecide, PersistStop, SharedTypes, RepoTypes,
     RuntimeTypes, AgentTypes, CommandTypes, CaptureTypes, Activities, repoVars,
     runtimeVars, agentVars, captureVars
<1>16. ASSUME NEW h \in Handlers, DisconnectClose(h) PROVE SharedTypes'
  BY <1>16, <1>a, Names, BoundAssumption DEF DisconnectClose, SharedTypes, RepoTypes,
     RuntimeTypes, AgentTypes, CommandTypes, CaptureTypes, Activities, repoVars,
     runtimeVars, agentVars, captureVars
<1>17. ASSUME NEW h \in Handlers, StatusGet(h) PROVE SharedTypes'
  BY <1>17, <1>a, Names, BoundAssumption DEF StatusGet, SharedTypes, RepoTypes,
     RuntimeTypes, AgentTypes, CommandTypes, CaptureTypes, Activities, repoVars,
     runtimeVars, agentVars, captureVars
<1>18. ASSUME NEW h \in Handlers, StatusCount(h) PROVE SharedTypes'
  BY <1>18, <1>a, Names, BoundAssumption DEF StatusCount, SharedTypes, RepoTypes,
     RuntimeTypes, AgentTypes, CommandTypes, CaptureTypes, Activities, repoVars,
     runtimeVars, agentVars, captureVars
<1>19. ASSUME NEW h \in Handlers, StatusPersist(h) PROVE SharedTypes'
  BY <1>19, <1>a, Names, BoundAssumption DEF StatusPersist, PersistStop, SharedTypes, RepoTypes,
     RuntimeTypes, AgentTypes, CommandTypes, CaptureTypes, Activities, repoVars,
     runtimeVars, agentVars, captureVars
<1>20. ASSUME NEW h \in Handlers, StopPersist(h) PROVE SharedTypes'
  BY <1>20, <1>a, Names, BoundAssumption DEF StopPersist, SharedTypes, RepoTypes,
     RuntimeTypes, AgentTypes, CommandTypes, CaptureTypes, Activities, repoVars,
     runtimeVars, agentVars, captureVars
<1>21. ASSUME NEW h \in Handlers, StopStopping(h) PROVE SharedTypes'
  BY <1>21, <1>a, Names, BoundAssumption DEF StopStopping, SharedTypes, RepoTypes,
     RuntimeTypes, AgentTypes, CommandTypes, CaptureTypes, Activities, repoVars,
     runtimeVars, agentVars, captureVars, Update
<1>22. ASSUME NEW h \in Handlers, StopTake(h) PROVE SharedTypes'
  BY <1>22, <1>a, Names, BoundAssumption DEF StopTake, SharedTypes, RepoTypes,
     RuntimeTypes, AgentTypes, CommandTypes, CaptureTypes, Activities, repoVars,
     runtimeVars, agentVars, captureVars
<1>23. ASSUME NEW h \in Handlers, StopSend(h) PROVE SharedTypes'
  <2>1. RepoTypes' /\ RuntimeTypes' /\ AgentTypes' /\ CaptureTypes'
    BY <1>23, <1>a DEF StopSend, SharedTypes, RepoTypes, RuntimeTypes, AgentTypes,
       CaptureTypes, repoVars, runtimeVars, agentVars, captureVars
  <2>2. CommandTypes'
    BY <1>23, <1>a, SentAll DEF StopSend, SharedTypes
  <2>3. QED
    BY <2>1, <2>2 DEF SharedTypes
<1>24. ASSUME NEW h \in Handlers, StopClose(h) PROVE SharedTypes'
  BY <1>24, <1>a, Names, BoundAssumption DEF StopClose, SharedTypes, RepoTypes,
     RuntimeTypes, AgentTypes, CommandTypes, CaptureTypes, Activities, repoVars,
     runtimeVars, agentVars, captureVars
<1>25. ASSUME NEW h \in Handlers, CreateBegin(h) PROVE SharedTypes'
  BY <1>25, <1>a, Names, BoundAssumption DEF CreateBegin, SharedTypes, RepoTypes,
     RuntimeTypes, AgentTypes, CommandTypes, CaptureTypes, Activities, repoVars,
     runtimeVars, agentVars, captureVars, Connected
<1>26. ASSUME NEW h \in Handlers, StopBegin(h) PROVE SharedTypes'
  BY <1>26, <1>a, Names, BoundAssumption DEF StopBegin, SharedTypes, RepoTypes,
     RuntimeTypes, AgentTypes, CommandTypes, CaptureTypes, Activities, repoVars,
     runtimeVars, agentVars, captureVars
<1>27. ASSUME NEW h \in Handlers, ConnectedBegin(h) PROVE SharedTypes'
  BY <1>27, <1>a, Names, BoundAssumption DEF ConnectedBegin, SharedTypes, RepoTypes,
     RuntimeTypes, AgentTypes, CommandTypes, CaptureTypes, Activities, repoVars,
     runtimeVars, agentVars, captureVars
<1>28. ASSUME NEW h \in Handlers, ReconcileBegin(h) PROVE SharedTypes'
  <2>1. RepoTypes' /\ AgentTypes' /\ CommandTypes' /\ CaptureTypes'
    BY <1>28, <1>a DEF ReconcileBegin, SharedTypes, RepoTypes, AgentTypes, CommandTypes,
       CaptureTypes, repoVars, runtimeVars, agentVars, captureVars
  <2>2. RuntimeTypes'
    <3>1. ticks < MaxReconcile /\ ticks' = ticks + 1
      BY <1>28 DEF ReconcileBegin
    <3>2. UNCHANGED <<live, sources, loop>>
      BY <1>28 DEF ReconcileBegin, runtimeVars
    <3>3. QED
      BY <3>1, <3>2, <1>a, BoundAssumption DEF SharedTypes, RuntimeTypes
  <2>3. QED
    BY <2>1, <2>2 DEF SharedTypes
<1>29. ASSUME NEW h \in Handlers, NEW n \in Nodes, StatusBegin(h, n) PROVE SharedTypes'
  BY <1>29, <1>a, Names, BoundAssumption DEF StatusBegin, SharedTypes, RepoTypes,
     RuntimeTypes, AgentTypes, CommandTypes, CaptureTypes, Activities, repoVars,
     runtimeVars, agentVars, captureVars
<1>30. ASSUME NEW h \in Handlers, NEW n \in Nodes, NEW c \in 1..MaxConn,
             ServerNotices(h, n, c) PROVE SharedTypes'
  <2>1. RepoTypes' /\ RuntimeTypes' /\ CaptureTypes'
    BY <1>30, <1>a DEF ServerNotices, SharedTypes, RepoTypes, RuntimeTypes,
       CaptureTypes, repoVars, runtimeVars, agentVars, captureVars
  <2>2. AgentTypes'
    <3>1. registered' = [registered EXCEPT ![n] = 0] \/ registered' = registered
      BY <1>30 DEF ServerNotices
    <3>2. serving' \subseteq serving /\ UNCHANGED <<conn, link, broken, greeting>>
      BY <1>30 DEF ServerNotices
    <3>3. QED
      BY <3>1, <3>2, <1>a, BoundAssumption DEF SharedTypes, AgentTypes
  <2>3. CommandTypes'
    <3>1. cmds' = [cmds EXCEPT ![n] = <<>>] \/ cmds' = cmds
      BY <1>30 DEF ServerNotices
    <3>2. <<>> \in Seq({"start", "stop"}) /\ Len(<<>>) <= QueueSize
      BY BoundAssumption
    <3>3. QED
      BY <3>1, <3>2, <1>a DEF SharedTypes, CommandTypes
  <2>4. QED
    BY <2>1, <2>2, <2>3 DEF SharedTypes
<1>31. ASSUME NEW n \in Nodes, Dial(n) PROVE SharedTypes'
  BY <1>31, <1>a, BoundAssumption DEF Dial, Up, SharedTypes, RepoTypes, RuntimeTypes,
     AgentTypes, CommandTypes, CaptureTypes, repoVars, runtimeVars, agentVars, captureVars
<1>32. ASSUME NEW n \in Nodes, Cut(n) PROVE SharedTypes'
  BY <1>32, <1>a, BoundAssumption DEF Cut, Up, SharedTypes, RepoTypes, RuntimeTypes,
     AgentTypes, CommandTypes, CaptureTypes, repoVars, runtimeVars, agentVars, captureVars
<1>33. ASSUME NEW n \in Nodes, AgentNotices(n) PROVE SharedTypes'
  BY <1>33, <1>a, BoundAssumption DEF AgentNotices, Up, SharedTypes, RepoTypes,
     RuntimeTypes, AgentTypes, CommandTypes, CaptureTypes, repoVars, runtimeVars,
     agentVars, captureVars
<1>34. ASSUME NEW n \in Nodes, Deliver(n) PROVE SharedTypes'
  BY <1>34, <1>a, BoundAssumption DEF Deliver, Up, SharedTypes, RepoTypes, RuntimeTypes,
     AgentTypes, CommandTypes, CaptureTypes, repoVars, runtimeVars, agentVars, captureVars
<1>35. ASSUME NEW n \in Nodes, CaptureFails(n) PROVE SharedTypes'
  BY <1>35, <1>a, BoundAssumption DEF CaptureFails, Up, SharedTypes, RepoTypes,
     RuntimeTypes, AgentTypes, CommandTypes, CaptureTypes, repoVars, runtimeVars,
     agentVars, captureVars
<1>36. CASE Restore
  BY <1>36, <1>a, Names DEF Restore, PersistStop, Follow, SharedTypes, RepoTypes, RuntimeTypes,
     AgentTypes, CommandTypes, CaptureTypes, repoVars, runtimeVars, agentVars, captureVars
<1>37. QED
  BY <1>1, <1>2, <1>3, <1>4, <1>5, <1>6, <1>7, <1>8, <1>9, <1>10, <1>11, <1>12, <1>13,
     <1>14, <1>15, <1>16, <1>17, <1>18, <1>19, <1>20, <1>21, <1>22, <1>23, <1>24, <1>25,
     <1>26, <1>27, <1>28, <1>29, <1>30, <1>31, <1>32, <1>33, <1>34, <1>35, <1>36 DEF Next,
     Continue, Report, Unregister

(* Each step of a goroutine inside the service, of an agent or of the      *)
(* network keeps the invariant.                                            *)
LEMMA StepInv == ASSUME IInv, Next PROVE IInv'
<1> USE DEF IInv
<1>a. /\ SharedTypes /\ act \in [Handlers -> Activities]
      /\ \A h \in Handlers : act[h] \in Activities
  BY DEF Types
<1>b. SharedTypes'
  BY SharedStep
<1>1. ASSUME NEW h \in Handlers, CreateOpen(h) PROVE IInv'
  <2>1. CASE pipe' = "open"
    <3> DEFINE a == [act[h] EXCEPT !.at = "runtime"]
    <3>1. a \in Activities /\ act' = [act EXCEPT ![h] = a]
      BY <2>1, <1>1, <1>a, Names DEF CreateOpen, Activities, SharedTypes, RepoTypes,
         RuntimeTypes, Idle, Goto, Done
    <3>2. act[h].at = "open" /\ a.at = "runtime" /\ a.status = act[h].status
      BY <2>1, <1>1, <1>a DEF CreateOpen, Activities, Idle, At
    <3> HIDE DEF a
    <3>3. /\ act' \in [Handlers -> Activities] /\ act'[h] = a
          /\ \A g \in Handlers \ {h} : act'[g] = act[g]
      BY <1>a, <3>1, OneMoves
    <3>4. YoungInv' /\ CopyInv' /\ EndedIsFinal' /\ ServedInv'
      BY <2>1, <1>1, <3>2, <3>3 DEF CreateOpen, YoungInv, Early, CopyInv, EndedIsFinal,
         TerminalIsDurable, TerminalHasNoPipeline, Terminal, ServedInv, repoVars,
         runtimeVars, agentVars, captureVars, Idle
    <3>5. QED
      BY <1>b, <3>3, <3>4 DEF Types
  <2>2. CASE pipe' # "open"
    <3> DEFINE a == Idle
    <3>1. a \in Activities /\ act' = [act EXCEPT ![h] = a]
      BY <2>2, <1>1, <1>a, Names DEF CreateOpen, Activities, SharedTypes, RepoTypes,
         RuntimeTypes, Idle, Goto, Done
    <3>2. act[h].at = "open" /\ a = Idle
      BY <2>2, <1>1, <1>a DEF CreateOpen, Activities, Idle, At
    <3> HIDE DEF a
    <3>3. /\ act' \in [Handlers -> Activities] /\ act'[h] = a
          /\ \A g \in Handlers \ {h} : act'[g] = act[g]
      BY <1>a, <3>1, OneMoves
    <3>4. YoungInv' /\ CopyInv' /\ EndedIsFinal' /\ ServedInv'
      BY <2>2, <1>1, <3>2, <3>3 DEF CreateOpen, YoungInv, Early, CopyInv, EndedIsFinal,
         TerminalIsDurable, TerminalHasNoPipeline, Terminal, ServedInv, repoVars,
         runtimeVars, agentVars, captureVars, Idle
    <3>5. QED
      BY <1>b, <3>3, <3>4 DEF Types
  <2>3. QED
    BY <2>1, <2>2, <1>1, Names DEF CreateOpen, SharedTypes, RepoTypes
<1>2. ASSUME NEW h \in Handlers, CreateRuntime(h) PROVE IInv'
  <2> DEFINE a == [act[h] EXCEPT !.at = "start"]
  <2>1. a \in Activities /\ act' = [act EXCEPT ![h] = a]
    BY <1>2, <1>a, Names DEF CreateRuntime, Activities, SharedTypes, RepoTypes,
       RuntimeTypes, Idle, Goto, Done
  <2>2. act[h].at = "runtime" /\ a.at = "start" /\ a.status = act[h].status
    BY <1>2, <1>a DEF CreateRuntime, Activities, Idle, At
  <2> HIDE DEF a
  <2>3. /\ act' \in [Handlers -> Activities] /\ act'[h] = a
        /\ \A g \in Handlers \ {h} : act'[g] = act[g]
    BY <1>a, <2>1, OneMoves
  <2>4. YoungInv' /\ CopyInv' /\ EndedIsFinal' /\ ServedInv'
    BY <1>2, <2>2, <2>3 DEF CreateRuntime, YoungInv, Early, CopyInv, EndedIsFinal,
       TerminalIsDurable, TerminalHasNoPipeline, Terminal, ServedInv, repoVars,
       runtimeVars, agentVars, captureVars, Idle
  <2>5. QED
    BY <1>b, <2>3, <2>4 DEF Types
<1>3. ASSUME NEW h \in Handlers, StartSend(h) PROVE IInv'
  <2>1. PICK n \in Nodes :
           \/ /\ CanSend(n) /\ Send(n, "start")
              /\ act' = [act EXCEPT ![h].todo = @ \ {n}, ![h].who = {n}, ![h].at = "set"]
           \/ act' = [act EXCEPT ![h].todo = @ \ {n}] /\ UNCHANGED cmds
    BY <1>3, <1>a DEF StartSend, SharedTypes, AgentTypes, Activities
  <2>2. CASE CanSend(n) /\ Send(n, "start")
             /\ act' = [act EXCEPT ![h].todo = @ \ {n}, ![h].who = {n}, ![h].at = "set"]
    <3> DEFINE a == [act[h] EXCEPT !.todo = @ \ {n}, !.who = {n}, !.at = "set"]
    <3>1. a \in Activities /\ act' = [act EXCEPT ![h] = a]
      BY <2>2, <2>1, <1>3, <1>a, Names DEF StartSend, Activities, SharedTypes,
         RepoTypes, RuntimeTypes, Idle, Goto, Done
    <3>2. Harmless(h, a) /\ UNCHANGED <<origin, status, pipe, desired, live>>
      BY <2>2, <2>1, <1>3, <1>a DEF StartSend, Harmless, Activities, Idle, At, Terminal,
         repoVars, runtimeVars, agentVars, captureVars
    <3> HIDE DEF a
    <3>3. QED
      BY <3>1, <3>2, <1>b, HarmlessStep
  <2>3. CASE act' = [act EXCEPT ![h].todo = @ \ {n}] /\ UNCHANGED cmds
    <3> DEFINE a == [act[h] EXCEPT !.todo = @ \ {n}]
    <3>1. a \in Activities /\ act' = [act EXCEPT ![h] = a]
      BY <2>3, <2>1, <1>3, <1>a, Names DEF StartSend, Activities, SharedTypes,
         RepoTypes, RuntimeTypes, Idle, Goto, Done
    <3>2. Harmless(h, a) /\ UNCHANGED <<origin, status, pipe, desired, live>>
      BY <2>3, <2>1, <1>3, <1>a DEF StartSend, Harmless, Activities, Idle, At, Terminal,
         repoVars, runtimeVars, agentVars, captureVars
    <3> HIDE DEF a
    <3>3. QED
      BY <3>1, <3>2, <1>b, HarmlessStep
  <2>4. QED
    BY <2>2, <2>3, <2>1, <1>3, Names DEF StartSend, SharedTypes, RepoTypes
<1>4. ASSUME NEW h \in Handlers, StartSet(h) PROVE IInv'
  <2> DEFINE a == [act[h] EXCEPT !.started = @ \cup act[h].who, !.who = {}, !.at = "start"]
  <2>1. a \in Activities /\ act' = [act EXCEPT ![h] = a]
    BY <1>4, <1>a, Names DEF StartSet, Activities, SharedTypes, RepoTypes, RuntimeTypes,
       Idle, Goto, Done
  <2>2. Harmless(h, a) /\ UNCHANGED <<origin, status, pipe, desired, live>>
    BY <1>4, <1>a DEF StartSet, Harmless, Activities, Idle, At, Terminal, repoVars,
       runtimeVars, agentVars, captureVars
  <2> HIDE DEF a
  <2>3. QED
    BY <2>1, <2>2, <1>b, HarmlessStep
<1>5. ASSUME NEW h \in Handlers, CreateFailed(h) PROVE IInv'
  <2> DEFINE a == [act[h] EXCEPT !.at = "teardown"]
  <2>1. a \in Activities /\ act' = [act EXCEPT ![h] = a]
    BY <1>5, <1>a, Names DEF CreateFailed, Activities, SharedTypes, RepoTypes,
       RuntimeTypes, Idle, Goto, Done
  <2>2. act[h].at = "start" /\ a.at = "teardown" /\ a.status = act[h].status
    BY <1>5, <1>a DEF CreateFailed, Activities, Idle, At
  <2> HIDE DEF a
  <2>3. /\ act' \in [Handlers -> Activities] /\ act'[h] = a
        /\ \A g \in Handlers \ {h} : act'[g] = act[g]
    BY <1>a, <2>1, OneMoves
  <2>4. YoungInv' /\ CopyInv' /\ EndedIsFinal' /\ ServedInv'
    BY <1>5, <2>2, <2>3 DEF CreateFailed, PersistStop, YoungInv, Early, CopyInv,
       EndedIsFinal, TerminalIsDurable, TerminalHasNoPipeline, Terminal, ServedInv, repoVars,
       runtimeVars, agentVars, captureVars, Idle
  <2>5. QED
    BY <1>b, <2>3, <2>4 DEF Types
<1>6. ASSUME NEW h \in Handlers, CreateTeardown(h) PROVE IInv'
  <2> DEFINE a == [act[h] EXCEPT !.at = "finish"]
  <2>1. a \in Activities /\ act' = [act EXCEPT ![h] = a]
    BY <1>6, <1>a, Names DEF CreateTeardown, Activities, SharedTypes, RepoTypes,
       RuntimeTypes, Idle, Goto, Done
  <2>2. act[h].at = "teardown" /\ a.at = "finish" /\ a.status = act[h].status
    BY <1>6, <1>a DEF CreateTeardown, Activities, Idle, At
  <2> HIDE DEF a
  <2>3. /\ act' \in [Handlers -> Activities] /\ act'[h] = a
        /\ \A g \in Handlers \ {h} : act'[g] = act[g]
    BY <1>a, <2>1, OneMoves
  <2>4. YoungInv' /\ CopyInv' /\ EndedIsFinal' /\ ServedInv'
    BY <1>6, <2>2, <2>3 DEF CreateTeardown, YoungInv, Early, CopyInv, EndedIsFinal,
       TerminalIsDurable, TerminalHasNoPipeline, Terminal, ServedInv, repoVars,
       runtimeVars, agentVars, captureVars, Idle
  <2>5. QED
    BY <1>b, <2>3, <2>4 DEF Types
<1>7. ASSUME NEW h \in Handlers, CreateFinish(h) PROVE IInv'
  <2> DEFINE a == Idle
  <2>1. a \in Activities /\ act' = [act EXCEPT ![h] = a]
    BY <1>7, <1>a, Names DEF CreateFinish, Activities, SharedTypes, RepoTypes,
       RuntimeTypes, Idle, Goto, Done
  <2>2. /\ act[h].at = "finish" \/ (act[h].at = "start" /\ status' = "RUNNING")
       /\ a = Idle
    BY <1>7, <1>a DEF CreateFinish, Activities, Idle, At
  <2> HIDE DEF a
  <2>3. /\ act' \in [Handlers -> Activities] /\ act'[h] = a
        /\ \A g \in Handlers \ {h} : act'[g] = act[g]
    BY <1>a, <2>1, OneMoves
  <2>4. YoungInv' /\ CopyInv' /\ EndedIsFinal' /\ ServedInv'
    BY <1>7, <2>2, <2>3 DEF CreateFinish, YoungInv, Early, CopyInv, EndedIsFinal,
       TerminalIsDurable, TerminalHasNoPipeline, Terminal, ServedInv, repoVars,
       runtimeVars, agentVars, captureVars, Idle, Follow
  <2>5. QED
    BY <1>b, <2>3, <2>4 DEF Types
<1>8. ASSUME NEW h \in Handlers, NodesRead(h) PROVE IInv'
  <2> DEFINE a == [act[h] EXCEPT !.status = status, !.nodes = sources, !.started = {},
                             !.at = "nodesWrite"]
  <2>1. a \in Activities /\ act' = [act EXCEPT ![h] = a]
    BY <1>8, <1>a, Names DEF NodesRead, Activities, SharedTypes, RepoTypes,
       RuntimeTypes, Idle, Goto, Done
  <2>2. Harmless(h, a) /\ UNCHANGED <<origin, status, pipe, desired, live>>
    BY <1>8, <1>a DEF NodesRead, Harmless, Activities, Idle, At, Terminal, repoVars,
       runtimeVars, agentVars, captureVars
  <2> HIDE DEF a
  <2>3. QED
    BY <2>1, <2>2, <1>b, HarmlessStep
<1>9. ASSUME NEW h \in Handlers, NodesWrite(h) PROVE IInv'
  <2>1. CASE act[h].op = "connected"
    <3> DEFINE a == [Idle EXCEPT !.op = "connected", !.at = "message"]
    <3>1. a \in Activities /\ act' = [act EXCEPT ![h] = a]
      BY <2>1, <1>9, <1>a, Names DEF NodesWrite, Activities, SharedTypes, RepoTypes,
         RuntimeTypes, Idle, Goto, Done
    <3>2. act[h].at = "nodesWrite" /\ a.at = "message" /\ a.status = "none"
      BY <2>1, <1>9, <1>a DEF NodesWrite, Activities, Idle, At
    <3> HIDE DEF a
    <3>3. /\ act' \in [Handlers -> Activities] /\ act'[h] = a
          /\ \A g \in Handlers \ {h} : act'[g] = act[g]
      BY <1>a, <3>1, OneMoves
    <3>4. YoungInv' /\ CopyInv' /\ EndedIsFinal' /\ ServedInv'
      BY <2>1, <1>9, <3>2, <3>3 DEF NodesWrite, YoungInv, Early, CopyInv, EndedIsFinal,
         TerminalIsDurable, TerminalHasNoPipeline, Terminal, ServedInv, repoVars,
         runtimeVars, agentVars, captureVars, Idle, Update
    <3>5. QED
      BY <1>b, <3>3, <3>4 DEF Types
  <2>2. CASE act[h].op # "connected"
    <3> DEFINE a == Idle
    <3>1. a \in Activities /\ act' = [act EXCEPT ![h] = a]
      BY <2>2, <1>9, <1>a, Names DEF NodesWrite, Activities, SharedTypes, RepoTypes,
         RuntimeTypes, Idle, Goto, Done
    <3>2. act[h].at = "nodesWrite" /\ a = Idle
      BY <2>2, <1>9, <1>a DEF NodesWrite, Activities, Idle, At
    <3> HIDE DEF a
    <3>3. /\ act' \in [Handlers -> Activities] /\ act'[h] = a
          /\ \A g \in Handlers \ {h} : act'[g] = act[g]
      BY <1>a, <3>1, OneMoves
    <3>4. YoungInv' /\ CopyInv' /\ EndedIsFinal' /\ ServedInv'
      BY <2>2, <1>9, <3>2, <3>3 DEF NodesWrite, YoungInv, Early, CopyInv, EndedIsFinal,
         TerminalIsDurable, TerminalHasNoPipeline, Terminal, ServedInv, repoVars,
         runtimeVars, agentVars, captureVars, Idle, Update
    <3>5. QED
      BY <1>b, <3>3, <3>4 DEF Types
  <2>3. QED
    BY <2>1, <2>2, <1>9, Names DEF NodesWrite, SharedTypes, RepoTypes, Update
<1>10. ASSUME NEW h \in Handlers, MessageRead(h) PROVE IInv'
  <2>1. CASE act' = [act EXCEPT ![h].status = status, ![h].nodes = nodes,
                              ![h].at = "write"]
    <3> DEFINE a == [act[h] EXCEPT !.status = status, !.nodes = nodes, !.at = "write"]
    <3>1. a \in Activities /\ act' = [act EXCEPT ![h] = a]
      BY <2>1, <1>10, <1>a, Names DEF MessageRead, Activities, SharedTypes, RepoTypes,
         RuntimeTypes, Idle, Goto, Done
    <3>2. Harmless(h, a) /\ UNCHANGED <<origin, status, pipe, desired, live>>
      BY <2>1, <1>10, <1>a DEF MessageRead, Harmless, Activities, Idle, At, Terminal,
         repoVars, runtimeVars, agentVars, captureVars
    <3> HIDE DEF a
    <3>3. QED
      BY <3>1, <3>2, <1>b, HarmlessStep
  <2>2. CASE Done(h)
    <3> DEFINE a == Idle
    <3>1. a \in Activities /\ act' = [act EXCEPT ![h] = a]
      BY <2>2, <1>10, <1>a, Names DEF MessageRead, Activities, SharedTypes, RepoTypes,
         RuntimeTypes, Idle, Goto, Done
    <3>2. Harmless(h, a) /\ UNCHANGED <<origin, status, pipe, desired, live>>
      BY <2>2, <1>10, <1>a DEF MessageRead, Harmless, Activities, Idle, At, Terminal,
         repoVars, runtimeVars, agentVars, captureVars
    <3> HIDE DEF a
    <3>3. QED
      BY <3>1, <3>2, <1>b, HarmlessStep
  <2>3. QED
    BY <2>1, <2>2, <1>10, Names DEF MessageRead, SharedTypes, RepoTypes
<1>11. ASSUME NEW h \in Handlers, Write(h) PROVE IInv'
  <2>1. CASE act[h].op = "status"
    <3> DEFINE a == [act[h] EXCEPT !.at = "nodes"]
    <3>1. a \in Activities /\ act' = [act EXCEPT ![h] = a]
      BY <2>1, <1>11, <1>a, Names DEF Write, Activities, SharedTypes, RepoTypes,
         RuntimeTypes, Idle, Goto, Done
    <3>2. act[h].at = "write" /\ a.at = "nodes" /\ a.status = act[h].status
      BY <2>1, <1>11, <1>a DEF Write, Activities, Idle, At
    <3> HIDE DEF a
    <3>3. /\ act' \in [Handlers -> Activities] /\ act'[h] = a
          /\ \A g \in Handlers \ {h} : act'[g] = act[g]
      BY <1>a, <3>1, OneMoves
    <3>4. YoungInv' /\ CopyInv' /\ EndedIsFinal' /\ ServedInv'
      BY <2>1, <1>11, <3>2, <3>3 DEF Write, YoungInv, Early, CopyInv, EndedIsFinal,
         TerminalIsDurable, TerminalHasNoPipeline, Terminal, ServedInv, repoVars,
         runtimeVars, agentVars, captureVars, Idle, Update
    <3>5. QED
      BY <1>b, <3>3, <3>4 DEF Types
  <2>2. CASE act[h].op # "status"
    <3> DEFINE a == Idle
    <3>1. a \in Activities /\ act' = [act EXCEPT ![h] = a]
      BY <2>2, <1>11, <1>a, Names DEF Write, Activities, SharedTypes, RepoTypes,
         RuntimeTypes, Idle, Goto, Done
    <3>2. act[h].at = "write" /\ a = Idle
      BY <2>2, <1>11, <1>a DEF Write, Activities, Idle, At
    <3> HIDE DEF a
    <3>3. /\ act' \in [Handlers -> Activities] /\ act'[h] = a
          /\ \A g \in Handlers \ {h} : act'[g] = act[g]
      BY <1>a, <3>1, OneMoves
    <3>4. YoungInv' /\ CopyInv' /\ EndedIsFinal' /\ ServedInv'
      BY <2>2, <1>11, <3>2, <3>3 DEF Write, YoungInv, Early, CopyInv, EndedIsFinal,
         TerminalIsDurable, TerminalHasNoPipeline, Terminal, ServedInv, repoVars,
         runtimeVars, agentVars, captureVars, Idle, Update
    <3>5. QED
      BY <1>b, <3>3, <3>4 DEF Types
  <2>3. QED
    BY <2>1, <2>2, <1>11, Names DEF Write, SharedTypes, RepoTypes, Update
<1>12. ASSUME NEW h \in Handlers, ReconcilePrune(h) PROVE IInv'
  <2> DEFINE a == [act[h] EXCEPT !.who = {}, !.at = "start"]
  <2>1. a \in Activities /\ act' = [act EXCEPT ![h] = a]
    BY <1>12, <1>a, Names DEF ReconcilePrune, Activities, SharedTypes, RepoTypes,
       RuntimeTypes, Idle, Goto, Done
  <2>2. Harmless(h, a) /\ UNCHANGED <<origin, status, pipe, desired, live>>
    BY <1>12, <1>a DEF ReconcilePrune, Harmless, Activities, Idle, At, Terminal,
       repoVars, runtimeVars, agentVars, captureVars
  <2> HIDE DEF a
  <2>3. QED
    BY <2>1, <2>2, <1>b, HarmlessStep
<1>13. ASSUME NEW h \in Handlers, DisconnectDrop(h) PROVE IInv'
  <2> DEFINE a == [act[h] EXCEPT !.at = "list"]
  <2>1. a \in Activities /\ act' = [act EXCEPT ![h] = a]
    BY <1>13, <1>a, Names DEF DisconnectDrop, Activities, SharedTypes, RepoTypes,
       RuntimeTypes, Idle, Goto, Done
  <2>2. Harmless(h, a) /\ UNCHANGED <<origin, status, pipe, desired, live>>
    BY <1>13, <1>a DEF DisconnectDrop, Harmless, Activities, Idle, At, Terminal,
       repoVars, runtimeVars, agentVars, captureVars
  <2> HIDE DEF a
  <2>3. QED
    BY <2>1, <2>2, <1>b, HarmlessStep
<1>14. ASSUME NEW h \in Handlers, DisconnectList(h) PROVE IInv'
  <2>1. CASE status = "RUNNING" /\ act[h].who \subseteq nodes
    <3> DEFINE a == [act[h] EXCEPT !.status = status, !.nodes = nodes, !.at = "decide"]
    <3>1. a \in Activities /\ act' = [act EXCEPT ![h] = a]
      BY <2>1, <1>14, <1>a, Names DEF DisconnectList, Activities, SharedTypes,
         RepoTypes, RuntimeTypes, Idle, Goto, Done
    <3>2. Harmless(h, a) /\ UNCHANGED <<origin, status, pipe, desired, live>>
      BY <2>1, <1>14, <1>a DEF DisconnectList, Harmless, Activities, Idle, At, Terminal,
         repoVars, runtimeVars, agentVars, captureVars
    <3> HIDE DEF a
    <3>3. QED
      BY <3>1, <3>2, <1>b, HarmlessStep
  <2>2. CASE ~(status = "RUNNING" /\ act[h].who \subseteq nodes)
    <3> DEFINE a == Idle
    <3>1. a \in Activities /\ act' = [act EXCEPT ![h] = a]
      BY <2>2, <1>14, <1>a, Names DEF DisconnectList, Activities, SharedTypes,
         RepoTypes, RuntimeTypes, Idle, Goto, Done
    <3>2. Harmless(h, a) /\ UNCHANGED <<origin, status, pipe, desired, live>>
      BY <2>2, <1>14, <1>a DEF DisconnectList, Harmless, Activities, Idle, At, Terminal,
         repoVars, runtimeVars, agentVars, captureVars
    <3> HIDE DEF a
    <3>3. QED
      BY <3>1, <3>2, <1>b, HarmlessStep
  <2>3. QED
    BY <2>1, <2>2, <1>14, Names DEF DisconnectList, SharedTypes, RepoTypes
<1>15. ASSUME NEW h \in Handlers, DisconnectDecide(h) PROVE IInv'
  <2>1. CASE act' = [act EXCEPT ![h].status = "FAILED", ![h].at = "close"]
             /\ PersistStop
    <3> DEFINE a == [act[h] EXCEPT !.status = "FAILED", !.at = "close"]
    <3>1. a \in Activities /\ act' = [act EXCEPT ![h] = a]
      BY <2>1, <1>15, <1>a, Names DEF DisconnectDecide, Activities, SharedTypes,
         RepoTypes, RuntimeTypes, Idle, Goto, Done
    <3>2. act[h].at = "decide" /\ a.at = "close" /\ a.status = "FAILED"
      BY <2>1, <1>15, <1>a DEF DisconnectDecide, Activities, Idle, At
    <3> HIDE DEF a
    <3>3. /\ act' \in [Handlers -> Activities] /\ act'[h] = a
          /\ \A g \in Handlers \ {h} : act'[g] = act[g]
      BY <1>a, <3>1, OneMoves
    <3>4. YoungInv' /\ CopyInv' /\ EndedIsFinal' /\ ServedInv'
      BY <2>1, <1>15, <3>2, <3>3 DEF DisconnectDecide, PersistStop, YoungInv, Early,
         CopyInv, EndedIsFinal, TerminalIsDurable, TerminalHasNoPipeline, Terminal, ServedInv,
         repoVars, runtimeVars, agentVars, captureVars, Idle
    <3>5. QED
      BY <1>b, <3>3, <3>4 DEF Types
  <2>2. CASE Goto(h, "write") /\ UNCHANGED desired
    <3> DEFINE a == [act[h] EXCEPT !.at = "write"]
    <3>1. a \in Activities /\ act' = [act EXCEPT ![h] = a]
      BY <2>2, <1>15, <1>a, Names DEF DisconnectDecide, Activities, SharedTypes,
         RepoTypes, RuntimeTypes, Idle, Goto, Done
    <3>2. Harmless(h, a) /\ UNCHANGED <<origin, status, pipe, desired, live>>
      BY <2>2, <1>15, <1>a DEF DisconnectDecide, Harmless, Activities, Idle, At,
         Terminal, repoVars, runtimeVars, agentVars, captureVars
    <3> HIDE DEF a
    <3>3. QED
      BY <3>1, <3>2, <1>b, HarmlessStep
  <2>3. CASE act' = [act EXCEPT ![h].nodes = {}, ![h].at = "write"]
             /\ UNCHANGED desired
    <3> DEFINE a == [act[h] EXCEPT !.nodes = {}, !.at = "write"]
    <3>1. a \in Activities /\ act' = [act EXCEPT ![h] = a]
      BY <2>3, <1>15, <1>a, Names DEF DisconnectDecide, Activities, SharedTypes,
         RepoTypes, RuntimeTypes, Idle, Goto, Done
    <3>2. Harmless(h, a) /\ UNCHANGED <<origin, status, pipe, desired, live>>
      BY <2>3, <1>15, <1>a DEF DisconnectDecide, Harmless, Activities, Idle, At,
         Terminal, repoVars, runtimeVars, agentVars, captureVars
    <3> HIDE DEF a
    <3>3. QED
      BY <3>1, <3>2, <1>b, HarmlessStep
  <2>4. QED
    BY <2>1, <2>2, <2>3, <1>15, Names DEF DisconnectDecide, SharedTypes, RepoTypes
<1>16. ASSUME NEW h \in Handlers, DisconnectClose(h) PROVE IInv'
  <2> DEFINE a == [act[h] EXCEPT !.at = "write"]
  <2>1. a \in Activities /\ act' = [act EXCEPT ![h] = a]
    BY <1>16, <1>a, Names DEF DisconnectClose, Activities, SharedTypes, RepoTypes,
       RuntimeTypes, Idle, Goto, Done
  <2>2. act[h].at = "close" /\ a.at = "write" /\ a.status = act[h].status
    BY <1>16, <1>a DEF DisconnectClose, Activities, Idle, At
  <2> HIDE DEF a
  <2>3. /\ act' \in [Handlers -> Activities] /\ act'[h] = a
        /\ \A g \in Handlers \ {h} : act'[g] = act[g]
    BY <1>a, <2>1, OneMoves
  <2>4. YoungInv' /\ CopyInv' /\ EndedIsFinal' /\ ServedInv'
    BY <1>16, <2>2, <2>3 DEF DisconnectClose, YoungInv, Early, CopyInv, EndedIsFinal,
       TerminalIsDurable, TerminalHasNoPipeline, Terminal, ServedInv, repoVars,
       runtimeVars, agentVars, captureVars, Idle
  <2>5. QED
    BY <1>b, <2>3, <2>4 DEF Types
<1>17. ASSUME NEW h \in Handlers, StatusGet(h) PROVE IInv'
  <2>1. CASE status = "RUNNING"
    <3> DEFINE a == [act[h] EXCEPT !.status = status, !.nodes = nodes, !.at = "count"]
    <3>1. a \in Activities /\ act' = [act EXCEPT ![h] = a]
      BY <2>1, <1>17, <1>a, Names DEF StatusGet, Activities, SharedTypes, RepoTypes,
         RuntimeTypes, Idle, Goto, Done
    <3>2. Harmless(h, a) /\ UNCHANGED <<origin, status, pipe, desired, live>>
      BY <2>1, <1>17, <1>a DEF StatusGet, Harmless, Activities, Idle, At, Terminal,
         repoVars, runtimeVars, agentVars, captureVars
    <3> HIDE DEF a
    <3>3. QED
      BY <3>1, <3>2, <1>b, HarmlessStep
  <2>2. CASE status # "RUNNING"
    <3> DEFINE a == Idle
    <3>1. a \in Activities /\ act' = [act EXCEPT ![h] = a]
      BY <2>2, <1>17, <1>a, Names DEF StatusGet, Activities, SharedTypes, RepoTypes,
         RuntimeTypes, Idle, Goto, Done
    <3>2. Harmless(h, a) /\ UNCHANGED <<origin, status, pipe, desired, live>>
      BY <2>2, <1>17, <1>a DEF StatusGet, Harmless, Activities, Idle, At, Terminal,
         repoVars, runtimeVars, agentVars, captureVars
    <3> HIDE DEF a
    <3>3. QED
      BY <3>1, <3>2, <1>b, HarmlessStep
  <2>3. QED
    BY <2>1, <2>2, <1>17, Names DEF StatusGet, SharedTypes, RepoTypes
<1>18. ASSUME NEW h \in Handlers, StatusCount(h) PROVE IInv'
  <2>1. CASE sources = {} /\ ~Follow
    <3> DEFINE a == [act[h] EXCEPT !.status = "FAILED", !.at = "persist"]
    <3>1. a \in Activities /\ act' = [act EXCEPT ![h] = a]
      BY <2>1, <1>18, <1>a, Names DEF StatusCount, Activities, SharedTypes, RepoTypes,
         RuntimeTypes, Idle, Goto, Done
    <3>2. act[h].at = "count" /\ a.at = "persist" /\ a.status = "FAILED"
      BY <2>1, <1>18, <1>a DEF StatusCount, Activities, Idle, At
    <3> HIDE DEF a
    <3>3. /\ act' \in [Handlers -> Activities] /\ act'[h] = a
          /\ \A g \in Handlers \ {h} : act'[g] = act[g]
      BY <1>a, <3>1, OneMoves
    <3>4. YoungInv' /\ CopyInv' /\ EndedIsFinal' /\ ServedInv'
      BY <2>1, <1>18, <3>2, <3>3 DEF StatusCount, YoungInv, Early, CopyInv,
         EndedIsFinal, TerminalIsDurable, TerminalHasNoPipeline, Terminal, ServedInv,
         repoVars, runtimeVars, agentVars, captureVars, Idle
    <3>5. QED
      BY <1>b, <3>3, <3>4 DEF Types
  <2>2. CASE ~(sources = {} /\ ~Follow)
    <3> DEFINE a == [act[h] EXCEPT !.at = "write"]
    <3>1. a \in Activities /\ act' = [act EXCEPT ![h] = a]
      BY <2>2, <1>18, <1>a, Names DEF StatusCount, Activities, SharedTypes, RepoTypes,
         RuntimeTypes, Idle, Goto, Done
    <3>2. Harmless(h, a) /\ UNCHANGED <<origin, status, pipe, desired, live>>
      BY <2>2, <1>18, <1>a DEF StatusCount, Harmless, Activities, Idle, At, Terminal,
         repoVars, runtimeVars, agentVars, captureVars
    <3> HIDE DEF a
    <3>3. QED
      BY <3>1, <3>2, <1>b, HarmlessStep
  <2>3. QED
    BY <2>1, <2>2, <1>18, Names DEF StatusCount, SharedTypes, RepoTypes
<1>19. ASSUME NEW h \in Handlers, StatusPersist(h) PROVE IInv'
  <2> DEFINE a == [act[h] EXCEPT !.at = "write"]
  <2>1. a \in Activities /\ act' = [act EXCEPT ![h] = a]
    BY <1>19, <1>a, Names DEF StatusPersist, Activities, SharedTypes, RepoTypes,
       RuntimeTypes, Idle, Goto, Done
  <2>2. act[h].at = "persist" /\ a.at = "write" /\ a.status = act[h].status
    BY <1>19, <1>a DEF StatusPersist, Activities, Idle, At
  <2> HIDE DEF a
  <2>3. /\ act' \in [Handlers -> Activities] /\ act'[h] = a
        /\ \A g \in Handlers \ {h} : act'[g] = act[g]
    BY <1>a, <2>1, OneMoves
  <2>4. YoungInv' /\ CopyInv' /\ EndedIsFinal' /\ ServedInv'
    BY <1>19, <2>2, <2>3 DEF StatusPersist, PersistStop, YoungInv, Early, CopyInv, EndedIsFinal,
       TerminalIsDurable, TerminalHasNoPipeline, Terminal, ServedInv, repoVars,
       runtimeVars, agentVars, captureVars, Idle
  <2>5. QED
    BY <1>b, <2>3, <2>4 DEF Types
<1>20. ASSUME NEW h \in Handlers, StopPersist(h) PROVE IInv'
  <2>1. CASE Done(h) /\ UNCHANGED desired
    <3> DEFINE a == Idle
    <3>1. a \in Activities /\ act' = [act EXCEPT ![h] = a]
      BY <2>1, <1>20, <1>a, Names DEF StopPersist, Activities, SharedTypes, RepoTypes,
         RuntimeTypes, Idle, Goto, Done
    <3>2. Harmless(h, a) /\ UNCHANGED <<origin, status, pipe, desired, live>>
      BY <2>1, <1>20, <1>a DEF StopPersist, Harmless, Activities, Idle, At, Terminal,
         repoVars, runtimeVars, agentVars, captureVars
    <3> HIDE DEF a
    <3>3. QED
      BY <3>1, <3>2, <1>b, HarmlessStep
  <2>2. CASE /\ desired # "none" /\ desired' = "STOPPED"
             /\ act' = [act EXCEPT ![h].status = "STOPPING", ![h].at = "stopping"]
    <3> DEFINE a == [act[h] EXCEPT !.status = "STOPPING", !.at = "stopping"]
    <3>1. a \in Activities /\ act' = [act EXCEPT ![h] = a]
      BY <2>2, <1>20, <1>a, Names DEF StopPersist, Activities, SharedTypes, RepoTypes,
         RuntimeTypes, Idle, Goto, Done
    <3>2. act[h].at = "stopPersist" /\ a.at = "stopping" /\ a.status = "STOPPING"
      BY <2>2, <1>20, <1>a DEF StopPersist, Activities, Idle, At
    <3> HIDE DEF a
    <3>3. /\ act' \in [Handlers -> Activities] /\ act'[h] = a
          /\ \A g \in Handlers \ {h} : act'[g] = act[g]
      BY <1>a, <3>1, OneMoves
    <3>4. YoungInv' /\ CopyInv' /\ EndedIsFinal' /\ ServedInv'
      BY <2>2, <1>20, <3>2, <3>3 DEF StopPersist, YoungInv, Early, CopyInv,
         EndedIsFinal, TerminalIsDurable, TerminalHasNoPipeline, Terminal, ServedInv,
         repoVars, runtimeVars, agentVars, captureVars, Idle
    <3>5. QED
      BY <1>b, <3>3, <3>4 DEF Types
  <2>3. QED
    BY <2>1, <2>2, <1>20, Names DEF StopPersist, SharedTypes, RepoTypes
<1>21. ASSUME NEW h \in Handlers, StopStopping(h) PROVE IInv'
  <2> DEFINE a == [act[h] EXCEPT !.at = "take"]
  <2>1. a \in Activities /\ act' = [act EXCEPT ![h] = a]
    BY <1>21, <1>a, Names DEF StopStopping, Activities, SharedTypes, RepoTypes,
       RuntimeTypes, Idle, Goto, Done
  <2>2. act[h].at = "stopping" /\ a.at = "take" /\ a.status = act[h].status
    BY <1>21, <1>a DEF StopStopping, Activities, Idle, At
  <2> HIDE DEF a
  <2>3. /\ act' \in [Handlers -> Activities] /\ act'[h] = a
        /\ \A g \in Handlers \ {h} : act'[g] = act[g]
    BY <1>a, <2>1, OneMoves
  <2>4. YoungInv' /\ CopyInv' /\ EndedIsFinal' /\ ServedInv'
    BY <1>21, <2>2, <2>3 DEF StopStopping, YoungInv, Early, CopyInv, EndedIsFinal,
       TerminalIsDurable, TerminalHasNoPipeline, Terminal, ServedInv, repoVars,
       runtimeVars, agentVars, captureVars, Idle, Update
  <2>5. QED
    BY <1>b, <2>3, <2>4 DEF Types
<1>22. ASSUME NEW h \in Handlers, StopTake(h) PROVE IInv'
  <2> DEFINE a == [act[h] EXCEPT !.todo = IF live THEN sources ELSE act[h].nodes,
                             !.at = "send"]
  <2>1. a \in Activities /\ act' = [act EXCEPT ![h] = a]
    BY <1>22, <1>a, Names DEF StopTake, Activities, SharedTypes, RepoTypes,
       RuntimeTypes, Idle, Goto, Done
  <2>2. act[h].at = "take" /\ a.at = "send" /\ a.status = act[h].status
    BY <1>22, <1>a DEF StopTake, Activities, Idle, At
  <2> HIDE DEF a
  <2>3. /\ act' \in [Handlers -> Activities] /\ act'[h] = a
        /\ \A g \in Handlers \ {h} : act'[g] = act[g]
    BY <1>a, <2>1, OneMoves
  <2>4. YoungInv' /\ CopyInv' /\ EndedIsFinal' /\ ServedInv'
    BY <1>22, <2>2, <2>3 DEF StopTake, YoungInv, Early, CopyInv, EndedIsFinal,
       TerminalIsDurable, TerminalHasNoPipeline, Terminal, ServedInv, repoVars,
       runtimeVars, agentVars, captureVars, Idle
  <2>5. QED
    BY <1>b, <2>3, <2>4 DEF Types
<1>23. ASSUME NEW h \in Handlers, StopSend(h) PROVE IInv'
  <2> DEFINE a == [act[h] EXCEPT !.todo = {}, !.at = "stopClose"]
  <2>1. a \in Activities /\ act' = [act EXCEPT ![h] = a]
    BY <1>23, <1>a, Names DEF StopSend, Activities, SharedTypes, RepoTypes,
       RuntimeTypes, Idle, Goto, Done
  <2>2. Harmless(h, a) /\ UNCHANGED <<origin, status, pipe, desired, live>>
    BY <1>23, <1>a DEF StopSend, Harmless, Activities, Idle, At, Terminal, repoVars,
       runtimeVars, agentVars, captureVars
  <2> HIDE DEF a
  <2>3. QED
    BY <2>1, <2>2, <1>b, HarmlessStep
<1>24. ASSUME NEW h \in Handlers, StopClose(h) PROVE IInv'
  <2> DEFINE a == [act[h] EXCEPT !.status = "STOPPED", !.at = "write"]
  <2>1. a \in Activities /\ act' = [act EXCEPT ![h] = a]
    BY <1>24, <1>a, Names DEF StopClose, Activities, SharedTypes, RepoTypes,
       RuntimeTypes, Idle, Goto, Done
  <2>2. act[h].at = "stopClose" /\ a.at = "write" /\ a.status = "STOPPED"
    BY <1>24, <1>a DEF StopClose, Activities, Idle, At
  <2> HIDE DEF a
  <2>3. /\ act' \in [Handlers -> Activities] /\ act'[h] = a
        /\ \A g \in Handlers \ {h} : act'[g] = act[g]
    BY <1>a, <2>1, OneMoves
  <2>4. YoungInv' /\ CopyInv' /\ EndedIsFinal' /\ ServedInv'
    BY <1>24, <2>2, <2>3 DEF StopClose, YoungInv, Early, CopyInv, EndedIsFinal,
       TerminalIsDurable, TerminalHasNoPipeline, Terminal, ServedInv, repoVars,
       runtimeVars, agentVars, captureVars, Idle
  <2>5. QED
    BY <1>b, <2>3, <2>4 DEF Types
<1>25. ASSUME NEW h \in Handlers, CreateBegin(h) PROVE IInv'
  <2>1. PICK S \in SUBSET Nodes :
           /\ status' = "STARTING" /\ nodes' = S
           /\ act' = [act EXCEPT ![h] = [Idle EXCEPT
                 !.op = "create", !.at = "open", !.nodes = S, !.todo = S]]
    BY <1>25, <1>a DEF CreateBegin, SharedTypes, AgentTypes, Activities, Connected
  <2>2. QED
    <3> DEFINE a == [Idle EXCEPT !.op = "create", !.at = "open", !.nodes = S, !.todo = S]
    <3>1. a \in Activities /\ act' = [act EXCEPT ![h] = a]
      BY <2>1, <1>25, <1>a, Names DEF CreateBegin, Activities, SharedTypes, RepoTypes,
         RuntimeTypes, Idle, Goto, Done
    <3>2. act[h].at = "idle" /\ a.at = "open" /\ a.status = "none"
      BY <2>1, <1>25, <1>a DEF CreateBegin, Activities, Idle, At
    <3> HIDE DEF a
    <3>3. /\ act' \in [Handlers -> Activities] /\ act'[h] = a
          /\ \A g \in Handlers \ {h} : act'[g] = act[g]
      BY <1>a, <3>1, OneMoves
    <3>4. YoungInv' /\ CopyInv' /\ EndedIsFinal' /\ ServedInv'
      BY <2>1, <1>25, <3>2, <3>3 DEF CreateBegin, YoungInv, Early, CopyInv,
         EndedIsFinal, TerminalIsDurable, TerminalHasNoPipeline, Terminal, ServedInv,
         repoVars, runtimeVars, agentVars, captureVars, Idle
    <3>5. QED
      BY <1>b, <3>3, <3>4 DEF Types
<1>26. ASSUME NEW h \in Handlers, StopBegin(h) PROVE IInv'
  <2> DEFINE a == [Idle EXCEPT !.op = "stop", !.at = "stopPersist", !.nodes = nodes]
  <2>1. a \in Activities /\ act' = [act EXCEPT ![h] = a]
    BY <1>26, <1>a, Names DEF StopBegin, Activities, SharedTypes, RepoTypes,
       RuntimeTypes, Idle, Goto, Done
  <2>2. Harmless(h, a) /\ UNCHANGED <<origin, status, pipe, desired, live>>
    BY <1>26, <1>a DEF StopBegin, Harmless, Activities, Idle, At, Terminal, repoVars,
       runtimeVars, agentVars, captureVars
  <2> HIDE DEF a
  <2>3. QED
    BY <2>1, <2>2, <1>b, HarmlessStep
<1>27. ASSUME NEW h \in Handlers, ConnectedBegin(h) PROVE IInv'
  <2>1. PICK S \in SUBSET Nodes :
           \/ act' = act
           \/ status = "RUNNING" /\ act' = [act EXCEPT ![h] = [Idle EXCEPT
                 !.op = "connected", !.at = "start", !.todo = S]]
    BY <1>27, <1>a DEF ConnectedBegin, SharedTypes, AgentTypes, Activities, Connected
  <2>2. CASE act' = act
    <3> DEFINE a == act[h]
    <3>1. a \in Activities /\ act' = [act EXCEPT ![h] = a]
      BY <2>2, <2>1, <1>27, <1>a, Names DEF ConnectedBegin, Activities, SharedTypes,
         RepoTypes, RuntimeTypes, Idle, Goto, Done
    <3>2. Harmless(h, a) /\ UNCHANGED <<origin, status, pipe, desired, live>>
      BY <2>2, <2>1, <1>27, <1>a DEF ConnectedBegin, Harmless, Activities, Idle, At,
         Terminal, repoVars, runtimeVars, agentVars, captureVars, CopyInv
    <3> HIDE DEF a
    <3>3. QED
      BY <3>1, <3>2, <1>b, HarmlessStep
  <2>3. CASE status = "RUNNING" /\ act' # act
    <3> DEFINE a == [Idle EXCEPT !.op = "connected", !.at = "start", !.todo = S]
    <3>1. a \in Activities /\ act' = [act EXCEPT ![h] = a]
      BY <2>3, <2>1, <1>27, <1>a, Names DEF ConnectedBegin, Activities, SharedTypes,
         RepoTypes, RuntimeTypes, Idle, Goto, Done
    <3>2. Harmless(h, a) /\ UNCHANGED <<origin, status, pipe, desired, live>>
      BY <2>3, <2>1, <1>27, <1>a DEF ConnectedBegin, Harmless, Activities, Idle, At,
         Terminal, repoVars, runtimeVars, agentVars, captureVars
    <3> HIDE DEF a
    <3>3. QED
      BY <3>1, <3>2, <1>b, HarmlessStep
  <2>4. QED
    BY <2>2, <2>3, <2>1, <1>27, Names DEF ConnectedBegin, SharedTypes, RepoTypes
<1>28. ASSUME NEW h \in Handlers, ReconcileBegin(h) PROVE IInv'
  <2>1. PICK W \in SUBSET Nodes :
           \/ act' = act
           \/ status = "RUNNING" /\ act' = [act EXCEPT ![h] = [Idle EXCEPT
                 !.op = "reconcile", !.at = "prune", !.who = sources \ W,
                 !.todo = W \ sources]]
    BY <1>28, <1>a DEF ReconcileBegin, SharedTypes, AgentTypes, Activities
  <2>2. CASE act' = act
    <3> DEFINE a == act[h]
    <3>1. a \in Activities /\ act' = [act EXCEPT ![h] = a]
      BY <2>2, <2>1, <1>28, <1>a, Names DEF ReconcileBegin, Activities, SharedTypes,
         RepoTypes, RuntimeTypes, Idle, Goto, Done
    <3>2. Harmless(h, a) /\ UNCHANGED <<origin, status, pipe, desired, live>>
      BY <2>2, <2>1, <1>28, <1>a DEF ReconcileBegin, Harmless, Activities, Idle, At,
         Terminal, repoVars, runtimeVars, agentVars, captureVars, CopyInv
    <3> HIDE DEF a
    <3>3. QED
      BY <3>1, <3>2, <1>b, HarmlessStep
  <2>3. CASE status = "RUNNING" /\ act' # act
    <3> DEFINE a == [Idle EXCEPT !.op = "reconcile", !.at = "prune", !.who = sources \ W,
                           !.todo = W \ sources]
    <3>1. a \in Activities /\ act' = [act EXCEPT ![h] = a]
      BY <2>3, <2>1, <1>28, <1>a, Names DEF ReconcileBegin, Activities, SharedTypes,
         RepoTypes, RuntimeTypes, Idle, Goto, Done
    <3>2. Harmless(h, a) /\ UNCHANGED <<origin, status, pipe, desired, live>>
      BY <2>3, <2>1, <1>28, <1>a DEF ReconcileBegin, Harmless, Activities, Idle, At,
         Terminal, repoVars, runtimeVars, agentVars, captureVars
    <3> HIDE DEF a
    <3>3. QED
      BY <3>1, <3>2, <1>b, HarmlessStep
  <2>4. QED
    BY <2>2, <2>3, <2>1, <1>28, Names DEF ReconcileBegin, SharedTypes, RepoTypes
<1>29. ASSUME NEW h \in Handlers, NEW n \in Nodes, StatusBegin(h, n) PROVE IInv'
  <2> DEFINE a == [Idle EXCEPT !.op = "status", !.at = "get", !.who = {n}]
  <2>1. a \in Activities /\ act' = [act EXCEPT ![h] = a]
    BY <1>29, <1>a, Names DEF StatusBegin, Activities, SharedTypes, RepoTypes,
       RuntimeTypes, Idle, Goto, Done
  <2>2. Harmless(h, a) /\ UNCHANGED <<origin, status, pipe, desired, live>>
    BY <1>29, <1>a DEF StatusBegin, Harmless, Activities, Idle, At, Terminal, repoVars,
       runtimeVars, agentVars, captureVars
  <2> HIDE DEF a
  <2>3. QED
    BY <2>1, <2>2, <1>b, HarmlessStep
<1>30. ASSUME NEW h \in Handlers, NEW n \in Nodes, NEW c \in 1..MaxConn,
             ServerNotices(h, n, c) PROVE IInv'
  <2>1. CASE registered[n] = c
    <3> DEFINE a == [Idle EXCEPT !.op = "disconnected", !.at = "drop", !.who = {n}]
    <3>1. a \in Activities /\ act' = [act EXCEPT ![h] = a]
      BY <2>1, <1>30, <1>a, Names DEF ServerNotices, Activities, SharedTypes, RepoTypes,
         RuntimeTypes, Idle, Goto, Done
    <3>2. Harmless(h, a) /\ UNCHANGED <<origin, status, pipe, desired, live>>
      BY <2>1, <1>30, <1>a DEF ServerNotices, Harmless, Activities, Idle, At, Terminal,
         repoVars, runtimeVars, agentVars, captureVars
    <3> HIDE DEF a
    <3>3. QED
      BY <3>1, <3>2, <1>b, HarmlessStep
  <2>2. CASE registered[n] # c
    <3> DEFINE a == act[h]
    <3>1. a \in Activities /\ act' = [act EXCEPT ![h] = a]
      BY <2>2, <1>30, <1>a, Names DEF ServerNotices, Activities, SharedTypes, RepoTypes,
         RuntimeTypes, Idle, Goto, Done
    <3>2. Harmless(h, a) /\ UNCHANGED <<origin, status, pipe, desired, live>>
      BY <2>2, <1>30, <1>a DEF ServerNotices, Harmless, Activities, Idle, At, Terminal,
         repoVars, runtimeVars, agentVars, captureVars, CopyInv
    <3> HIDE DEF a
    <3>3. QED
      BY <3>1, <3>2, <1>b, HarmlessStep
  <2>3. QED
    BY <2>1, <2>2, <1>30, Names DEF ServerNotices, SharedTypes, RepoTypes
<1>31. ASSUME NEW n \in Nodes, Dial(n) PROVE IInv'
  BY <1>31, <1>a, <1>b DEF Dial, Types, YoungInv, Early, CopyInv, EndedIsFinal, TerminalIsDurable,
     TerminalHasNoPipeline, Terminal, ServedInv,
     repoVars, runtimeVars, agentVars, captureVars
<1>32. ASSUME NEW n \in Nodes, Cut(n) PROVE IInv'
  BY <1>32, <1>a, <1>b DEF Cut, Types, YoungInv, Early, CopyInv, EndedIsFinal, TerminalIsDurable,
     TerminalHasNoPipeline, Terminal, ServedInv,
     repoVars, runtimeVars, agentVars, captureVars
<1>33. ASSUME NEW n \in Nodes, AgentNotices(n) PROVE IInv'
  BY <1>33, <1>a, <1>b DEF AgentNotices, Types, YoungInv, Early, CopyInv, EndedIsFinal, TerminalIsDurable,
     TerminalHasNoPipeline, Terminal, ServedInv,
     repoVars, runtimeVars, agentVars, captureVars
<1>34. ASSUME NEW n \in Nodes, Deliver(n) PROVE IInv'
  BY <1>34, <1>a, <1>b DEF Deliver, Types, YoungInv, Early, CopyInv, EndedIsFinal, TerminalIsDurable,
     TerminalHasNoPipeline, Terminal, ServedInv,
     repoVars, runtimeVars, agentVars, captureVars
<1>35. ASSUME NEW n \in Nodes, CaptureFails(n) PROVE IInv'
  BY <1>35, <1>a, <1>b DEF CaptureFails, Types, YoungInv, Early, CopyInv, EndedIsFinal, TerminalIsDurable,
     TerminalHasNoPipeline, Terminal, ServedInv,
     repoVars, runtimeVars, agentVars, captureVars
<1>36. CASE Restore
  BY <1>36, <1>a, <1>b DEF Restore, PersistStop, Types, YoungInv, Early, CopyInv, EndedIsFinal, TerminalIsDurable,
     TerminalHasNoPipeline, Terminal, ServedInv,
     repoVars, runtimeVars, agentVars, captureVars
<1>37. QED
  BY <1>1, <1>2, <1>3, <1>4, <1>5, <1>6, <1>7, <1>8, <1>9, <1>10, <1>11, <1>12, <1>13,
     <1>14, <1>15, <1>16, <1>17, <1>18, <1>19, <1>20, <1>21, <1>22, <1>23, <1>24, <1>25,
     <1>26, <1>27, <1>28, <1>29, <1>30, <1>31, <1>32, <1>33, <1>34, <1>35, <1>36 DEF Next,
     Continue, Report, Unregister

LEMMA InitInv == Init => IInv
<1> SUFFICES ASSUME Init PROVE IInv
  OBVIOUS
<1>1. SharedTypes
  <2>1. <<>> \in Seq({"start", "stop"}) /\ Len(<<>>) <= QueueSize
    BY BoundAssumption
  <2>2. CommandTypes
    BY <2>1 DEF Init, CommandTypes
  <2>3. AgentTypes
    BY BoundAssumption DEF Init, AgentTypes
  <2>4. RepoTypes
    BY Names DEF Init, RepoTypes
  <2>5. live \in BOOLEAN /\ loop \in BOOLEAN
    BY Zenon DEF Init
  <2>6. RuntimeTypes /\ CaptureTypes
    BY <2>5, BoundAssumption DEF Init, RuntimeTypes, CaptureTypes
  <2>7. QED
    BY <2>2, <2>3, <2>4, <2>6 DEF SharedTypes
<1>2. \A h \in Handlers : act[h] = Idle /\ act[h].at = "idle" /\ act[h].status = "none"
  BY DEF Init, Idle
<1>3. Types
  BY <1>1, Names DEF Init, Types
<1>4. YoungInv /\ CopyInv
  BY <1>2 DEF Init, YoungInv, Early, CopyInv, Terminal
<1>5. EndedIsFinal /\ ServedInv
  BY DEF Init, EndedIsFinal, TerminalIsDurable, TerminalHasNoPipeline, Terminal, ServedInv
<1>6. QED
  BY <1>3, <1>4, <1>5 DEF IInv

LEMMA StutterInv == ASSUME IInv, UNCHANGED vars PROVE IInv'
BY DEF IInv, Types, SharedTypes, RepoTypes, RuntimeTypes, AgentTypes, CommandTypes,
   CaptureTypes, YoungInv, Early, CopyInv, EndedIsFinal, TerminalIsDurable,
   TerminalHasNoPipeline, ServedInv, vars, repoVars, runtimeVars, agentVars, captureVars

(* The invariant holds in every state the session reaches.                 *)
THEOREM Inductive == Spec => []IInv
BY InitInv, StepInv, StutterInv, PTL DEF Spec

-----------------------------------------------------------------------------
(* The theorems about one session.                                         *)

(* Every variable keeps its type, a session without a runtime entry has no *)
(* sources and no command channel overflows.                               *)
THEOREM TypeCorrect == Spec => []TypeOK
<1>1. IInv => TypeOK
  <2> SUFFICES ASSUME IInv PROVE TypeOK
    OBVIOUS
  <2>1. \A h \in Handlers : act[h].status \in Statuses
    BY DEF IInv, Types, Activities
  <2>2. \A h \in Handlers : At(h, "idle") => act[h] = Idle
    BY DEF IInv, CopyInv, At
  <2>3. QED
    BY <2>1, <2>2 DEF IInv, Types, SharedTypes, RepoTypes, RuntimeTypes, AgentTypes,
       CommandTypes, CaptureTypes, TypeOK
<1>2. QED
  BY <1>1, Inductive, PTL

(* Whatever goroutines race in Create, Stop, AgentDisconnected and         *)
(* CaptureStatus, a session shown as ended is not brought back by a boot,  *)
(* and its pipeline is closed.                                             *)
THEOREM Ended == Spec => []EndedIsFinal
<1>1. IInv => EndedIsFinal
  BY DEF IInv
<1>2. QED
  BY <1>1, Inductive, PTL

(* A session shown as RUNNING, whose stop is not persisted, has its        *)
(* pipeline and its runtime entry whenever no goroutine is at work.        *)
LEMMA ServedWhenQuiet == IInv => RunningIsServed
<1> SUFFICES ASSUME IInv, Quiet, status = "RUNNING", desired = "RUNNING"
             PROVE  pipe = "open" /\ live
  BY DEF RunningIsServed
<1>1. origin = "done"
  BY DEF IInv, YoungInv, Types, SharedTypes, RepoTypes
<1>2. \A h \in Handlers : act[h].at = "idle"
  BY DEF Quiet, At
<1>3. QED
  BY <1>1, <1>2 DEF IInv, ServedInv

(* The same in every state of the session: a RUNNING answer of Get is not  *)
(* left behind by a Create or a Stop that lost a race.                     *)
THEOREM Served == Spec => []RunningIsServed
BY ServedWhenQuiet, Inductive, PTL

-----------------------------------------------------------------------------
(* The composition: every behaviour of it is one of the session's, and one *)
(* of the continuous capture service's.                                    *)

Service == INSTANCE ContinuousProofs WITH status <- captureStatus

LEMMA SessionPart == ControlSpec => Spec
<1>1. ControlInit => Init
  BY DEF ControlInit
<1>2. [ControlNext]_<<part, vars, continuousVars, followedVars>> => [Next]_vars
  BY DEF ControlNext
<1>3. QED
  BY <1>1, <1>2, PTL DEF ControlSpec, Spec

LEMMA SameNext == Capture!Next <=> Service!Next
BY DEF
   Capture!Ids, Service!Ids, Capture!Procs, Service!Procs, Capture!Target,
   Service!Target, Capture!Ended, Service!Ended, Capture!NoFile, Service!NoFile,
   Capture!RecorderEnds, Service!RecorderEnds, Capture!SaveStopped,
   Service!SaveStopped, Capture!SaveFails, Service!SaveFails, Capture!Start,
   Service!Start, Capture!Own, Service!Own, Capture!StartRecorder,
   Service!StartRecorder, Capture!StartRecorderFails,
   Service!StartRecorderFails, Capture!StartSources, Service!StartSources,
   Capture!StartNoSource, Service!StartNoSource, Capture!StopCalled,
   Service!StopCalled, Capture!Answer, Service!Answer, Capture!StopRead,
   Service!StopRead, Capture!StopPersist, Service!StopPersist,
   Capture!StopPersistFails, Service!StopPersistFails, Capture!StopClose,
   Service!StopClose, Capture!RecorderFails, Service!RecorderFails,
   Capture!RecordingCompleted, Service!RecordingCompleted, Capture!ReportFailed,
   Service!ReportFailed, Capture!ReportPersist, Service!ReportPersist,
   Capture!ReportUpdate, Service!ReportUpdate, Capture!Get, Service!Get,
   Capture!Crash, Service!Crash, Capture!Boot, Service!Boot, Capture!Adopt,
   Service!Adopt, Capture!Next, Service!Next, Capture!serviceVars,
   Service!serviceVars, Capture!procVars, Service!procVars, Capture!boundVars,
   Service!boundVars, Capture!history, Service!history

LEMMA ServicePart == ControlSpec => Service!Spec
<1>1. ControlInit => Service!Init
  BY DEF ControlInit, Capture!Init, Service!Init, Capture!Ids, Service!Ids,
     Capture!Procs, Service!Procs, Capture!NoFile, Service!NoFile
<1>2. UNCHANGED continuousVars => UNCHANGED Service!vars
  BY DEF continuousVars, Service!vars, Service!serviceVars, Service!procVars,
     Service!boundVars, Service!history
<1>3. [ControlNext]_<<part, vars, continuousVars, followedVars>>
         => [Service!Next]_(Service!vars)
  BY <1>2, SameNext DEF ControlNext
<1>4. QED
  BY <1>1, <1>3, PTL DEF ControlSpec, Service!Spec

(* In the composition, the answers of the continuous capture service are   *)
(* true for any number of sessions, failed writes and deaths: what         *)
(* captures, what a boot would recover and what the recorder does agree    *)
(* with them.                                                              *)
THEOREM ControlStatusTrue == ControlSpec => []CaptureStatusIsTrue
<1>1. Service!StatusIsTrue => CaptureStatusIsTrue
  BY DEF CaptureStatusIsTrue, Capture!StatusIsTrue, Service!StatusIsTrue,
     Capture!OneCapture, Service!OneCapture, Capture!StoppedStaysStopped,
     Service!StoppedStaysStopped, Capture!RunningIsRecovered,
     Service!RunningIsRecovered, Capture!RecorderEndIsNoticed,
     Service!RecorderEndIsNoticed
<1>2. Service!Spec => []Service!StatusIsTrue
  BY StartsAssumption, Service!StatusTrue
<1>3. QED
  BY <1>1, <1>2, ServicePart, PTL

(* In the composition, the continuous capture service implements the       *)
(* specification of a singleton capture.                                   *)
THEOREM ControlSingleton == ControlSpec => CaptureIsSingleton
<1>1. Service!Spec => Service!IsSingleton
  BY StartsAssumption, Service!Implements
<1>2. Service!IsSingleton => CaptureIsSingleton
  <2>1. Service!Promise!Init => Capture!Promise!Init
    BY DEF Service!Promise!Init, Capture!Promise!Init
  <2>2. [Service!Promise!Next]_(Service!Promise!vars)
           => [Capture!Promise!Next]_(Capture!Promise!vars)
    BY DEF Capture!Promise!Init, Service!Promise!Init, Capture!Promise!Next,
       Service!Promise!Next, Capture!Promise!Begin, Service!Promise!Begin,
       Capture!Promise!Started, Service!Promise!Started,
       Capture!Promise!Refused, Service!Promise!Refused,
       Capture!Promise!AskStop, Service!Promise!AskStop,
       Capture!Promise!Fail, Service!Promise!Fail, Capture!Promise!End,
       Service!Promise!End, Capture!Promise!Stopped,
       Service!Promise!Stopped, Capture!Promise!Restart,
       Service!Promise!Restart, Capture!Promise!vars, Service!Promise!vars
  <2>3. QED
    BY <2>1, <2>2, PTL DEF CaptureIsSingleton, Capture!IsSingleton,
       Service!IsSingleton, Capture!Promise!Spec, Service!Promise!Spec
<1>3. QED
  BY <1>1, <1>2, ServicePart, PTL

(* In the composition, an ended session is ended for good, whichever of    *)
(* Create, Stop, AgentDisconnected and CaptureStatus ended it.             *)
THEOREM ControlEnded == ControlSpec => []EndedIsFinal
BY SessionPart, Ended, PTL

(* In the composition, a running session has its pipeline and its runtime. *)
THEOREM ControlServed == ControlSpec => []RunningIsServed
BY SessionPart, Served, PTL

-----------------------------------------------------------------------------
(* The session that follows a workload: the types and what is known of its *)
(* pods, its sources and its commands.                                     *)

\* The goroutines, the pods and the commands.
Stages == {"idle", "workload", "pods", "replicas", "endpoints", "decide", "prune",
           "start", "set"}
Pods ==
    [state : {"none", "up", "leaving"}, owner : 0..MaxOwners,
     node : PodNodes \cup {"none"}, listed : BOOLEAN]
Tasks ==
    [at : Stages, nodes : SUBSET PodNodes, owner : 0..MaxOwners,
     list : SUBSET (Uids \cup Followed!Sources), drop : SUBSET Followed!Sources,
     todo : SUBSET Followed!Sources, cur : Followed!Sources \cup {Followed!NoSource}]
Commands == [op : {"start", "stop"}, src : Followed!Sources]

\* Types of what the API server shows, the session keeps and the agents do.
ClusterTypes ==
    /\ <<target, others>> \in Shapes /\ exists \in BOOLEAN /\ owner \in 1..MaxOwners
    /\ replicas \in [1..MaxOwners -> 0..MaxOwners]
    /\ pods \in [Uids -> Pods]
    /\ changes \in 0..MaxChanges
SessionTypes ==
    /\ created \in {"none", "STARTING", "RUNNING", "refused"}
    /\ connected \subseteq PodNodes
    /\ proc \in [Followed!Procs -> Tasks]
    /\ runtime \subseteq Followed!Sources
AgentSideTypes ==
    /\ channel \in [PodNodes -> Seq(Commands)]
    /\ \A n \in PodNodes : Len(channel[n]) <= ChannelSize
    /\ captured \subseteq Followed!Sources /\ failed \subseteq Uids
    /\ trouble \in {"none", "forgot", "replayed"}

\* A pod that there was belongs to a workload object, for good.
PodInv ==
    /\ replicas[1] # 0
    /\ \A u \in Uids : pods[u].state # "none" =>
          /\ pods[u].node \in PodNodes /\ pods[u].owner \in 1..MaxOwners
          /\ target # "statefulset" => replicas[pods[u].owner] # 0

\* A pod that there was or is, and a source that is on its node.
Seen(u) == pods[u].state # "none"
Placed(r) == Seen(r.uid) /\ r.node = pods[r.uid].node
\* Sources of different pods, and sources of one workload object.
Unique(S) == \A r, s \in S : r.uid = s.uid => r = s
Kin(S) == \A r, s \in S : Followed!WorkloadOf(r.uid) = Followed!WorkloadOf(s.uid)

\* What a goroutine holds, at each line: pods that there were, then those of the
\* workload object whose UID it read, then their sources.
TaskOK(t) ==
    /\ t.at \in {"pods", "replicas", "endpoints"} => t.owner \in 1..MaxOwners
    /\ t.at \in {"replicas", "endpoints"} =>
          t.list \subseteq Uids /\ \A u \in t.list : Seen(u)
    /\ t.at = "endpoints" => \A u \in t.list : Followed!WorkloadOf(u) = t.owner
    /\ t.at = "decide" =>
          /\ t.list \subseteq Followed!Sources /\ Unique(t.list) /\ Kin(t.list)
          /\ \A r \in t.list : Placed(r)
    /\ t.at # "prune" => t.drop = {}
    /\ t.at \notin {"prune", "start", "set"} => t.todo = {}
    /\ \A r \in t.drop \cup t.todo : Placed(r)
    /\ IF t.at = "set" THEN t.cur \in Followed!Sources /\ Placed(t.cur)
       ELSE t.cur = Followed!NoSource

\* One source and one capture of a pod, and all on the pod's node.
PlaceInv ==
    /\ Unique(runtime) /\ Unique(captured)
    /\ \A r \in runtime \cup captured : Placed(r)
    /\ \A n \in PodNodes : \A i \in 1..Len(channel[n]) :
          Placed(channel[n][i].src) /\ channel[n][i].src.node = n

\* The sources the session has, with the one whose start command is queued and
\* that is not yet in the runtime.
Setting == IF proc["loop"].at = "set" THEN {proc["loop"].cur} ELSE {}
Wanted == runtime \cup Setting
\* Sources of one workload object within every limit.
Lawful(L) == Unique(L) /\ Kin(L) /\ Followed!WithinLimits(L)
\* The sources of some lawful set, all placed, that the goroutine heads for.
Plan(R, k) ==
    LET c == IF k.at = "set" THEN {k.cur} ELSE {}
    IN /\ Followed!WithinLimits(R)
       /\ \E L \in SUBSET {r \in Followed!Sources : Placed(r)} :
             Lawful(L) /\ (R \ k.drop) \cup k.todo \cup c \subseteq L
       /\ k.todo \cap R = {}
       /\ c \cap (k.todo \cup R) = {}
\* Unless a replay has started sources beside the loop's.
PlanInv ==
    trouble # "replayed" =>
       /\ \A n \in PodNodes : proc[n].at # "set"
       /\ Plan(runtime, proc["loop"])

\* A node's commands about a pod: none; the last one starts a source, or stops it.
About(c, u) == c.src.uid = u
Silent(s, u) == \A i \in 1..Len(s) : ~About(s[i], u)
Ends(s, u, i) == i \in 1..Len(s) /\ About(s[i], u) /\ \A j \in i+1..Len(s) : ~About(s[j], u)
Started(s, r) == \E i \in 1..Len(s) : Ends(s, r.uid, i) /\ s[i] = [op |-> "start", src |-> r]
Stopped(s, u) == \E i \in 1..Len(s) : Ends(s, u, i) /\ s[i].op = "stop"
\* When command i about the pod is reached, its capture has been stopped or there is
\* none.
Before(s, S, i, u) ==
    \/ \E k \in 1..i-1 : /\ About(s[k], u) /\ s[k].op = "stop"
                         /\ \A j \in k+1..i-1 : ~About(s[j], u)
    \/ /\ \A j \in 1..i-1 : ~About(s[j], u)
       /\ u \notin Followed!Ids(S)
\* What is wanted is about to be started, is captured, or has failed and is
\* reported.
Runs(r, s, S, F) == Started(s, r) \/ (Silent(s, r.uid) /\ (r \in S \/ r.uid \in F))
Running(W, ch, S, F) == \A r \in W : Runs(r, ch[r.node], S, F)
\* The last command about a pod that is not wanted, if there is one, is a stop.
Released(W, ch) ==
    \A u \in Uids \ Followed!Ids(W) : \A n \in PodNodes :
       Silent(ch[n], u) \/ Stopped(ch[n], u)
\* What is captured and not wanted is about to be stopped.
Leaving(W, ch, S) ==
    \A r \in S : r.uid \notin Followed!Ids(W) => Stopped(ch[r.node], r.uid)
\* No start command meets a capture of its pod.
Ordered(ch, S) ==
    \A n \in PodNodes : \A i \in 1..Len(ch[n]) :
       ch[n][i].op = "start" => Before(ch[n], S, i, ch[n][i].src.uid)
\* Until something has gone wrong, captures follow what is wanted.
Matched(W, ch, S, F) ==
    Running(W, ch, S, F) /\ Released(W, ch) /\ Leaving(W, ch, S) /\ Ordered(ch, S)
MatchInv == trouble = "none" => Matched(Wanted, channel, captured, failed)

\* Replays stop nothing and run beside a running session only; Create starts the
\* first sources.
TasksInv == /\ \A q \in Followed!Procs : TaskOK(proc[q])
            /\ \A n \in PodNodes : proc[n].drop = {}
            /\ created # "RUNNING" => \A n \in PodNodes : proc[n].at = "idle"
            /\ created = "none" =>
                  runtime = {} /\ proc["loop"].at \notin {"prune", "start", "set"}

ClusterInv == ClusterTypes /\ PodInv

\* Of a pod that was seen, its node and the workload it belongs to never change.
Lasting ==
    /\ UNCHANGED <<target, others>>
    /\ \A u \in Uids : Seen(u) =>
          /\ pods'[u].state # "none" /\ pods'[u].node = pods[u].node
          /\ pods'[u].owner = pods[u].owner
          /\ Followed!WorkloadOf(u)' = Followed!WorkloadOf(u)

(* The limits and bounds are numbers.                                      *)
LEMMA Numbers ==
    /\ MaxPods \in Nat /\ SessionPods \in Nat /\ NodeSources \in Nat
    /\ ChannelSize \in Nat /\ MaxChanges \in Nat /\ MaxOwners \in Nat /\ MaxOwners > 0
BY FollowedAssumption

(* A pod is created with its node, and Calico does not list it yet.        *)
LEMMA NewPod ==
  ASSUME NEW o, NEW n, NEW p,
         p = [Followed!NoPod EXCEPT !.state = "up", !.owner = o, !.node = n]
  PROVE  p = [state |-> "up", owner |-> o, node |-> n, listed |-> FALSE]
BY DEF Followed!NoPod

(* A pod that the cluster creates belongs to the workload.                 *)
LEMMA NewOwner ==
  ASSUME ClusterInv
  PROVE  /\ Followed!Owner \in 1..MaxOwners
         /\ target # "statefulset" => replicas[Followed!Owner] # 0
<1>1. CASE target = "statefulset"
  BY <1>1 DEF Followed!Owner, ClusterInv, ClusterTypes
<1>2. CASE target # "statefulset"
  <2> DEFINE R == {s \in 1..MaxOwners : replicas[s] # 0}
  <2>1. R \subseteq Nat /\ IsFiniteSet(R) /\ R # {}
    <3>1. IsFiniteSet(1..MaxOwners) /\ R \subseteq 1..MaxOwners
      BY Numbers, FS_Interval
    <3>2. 1 \in R
      BY Numbers DEF ClusterInv, PodInv
    <3>3. IsFiniteSet(R)
      <4> HIDE DEF R
      <4>1. QED
        BY <3>1, FS_Subset
    <3>4. QED
      BY <3>1, <3>2, <3>3
  <2>2. PICK s \in R : \A t \in R : t <= s
    <3> HIDE DEF R
    <3>1. QED
      BY <2>1, LargestNumber
  <2>3. s \in 1..MaxOwners /\ replicas[s] # 0
           /\ \A t \in 1..MaxOwners : replicas[t] # 0 => t <= s
    BY <2>2
  <2>4. QED
    BY <1>2, <2>3 DEF Followed!Owner
<1>3. QED
  BY <1>1, <1>2

(* A replica set once made has its owner for good.                         *)
LEMMA ReplicaStep ==
  ASSUME ClusterInv, NEW o \in 1..MaxOwners, Followed!NewReplicas(o)
  PROVE  /\ replicas' \in [1..MaxOwners -> 0..MaxOwners]
         /\ \A s \in 1..MaxOwners : replicas[s] # 0 => replicas'[s] = replicas[s]
BY DEF Followed!NewReplicas, Followed!FreeReplicas, ClusterInv, ClusterTypes

ClusterSame == UNCHANGED <<target, others, exists, owner, replicas, pods>>

(* What the cluster does leaves its types as they are and makes one pod,   *)
(* replica set or workload object something else.                          *)
LEMMA ClusterSteps ==
  ASSUME Followed!Next
  PROVE  \/ Followed!Cluster
         \/ ClusterSame /\ changes' = changes
         \/ ClusterSame /\ changes' = changes + 1 /\ changes < MaxChanges
<1> USE DEF Followed!fixedVars, Followed!clusterVars, Followed!Change, ClusterSame
<1>1. ASSUME NEW q, Followed!Continue(q) PROVE ClusterSame /\ changes' = changes
  BY <1>1 DEF Followed!Continue, Followed!GetWorkload, Followed!GetPods,
     Followed!GetReplicas, Followed!GetEndpoints, Followed!StartSend, Followed!StartSet
<1>2. ASSUME Followed!CreateBegin \/ Followed!CreateDecide \/ Followed!ReconcileBegin
                \/ Followed!ReconcileDecide \/ Followed!Prune
      PROVE  ClusterSame /\ changes' = changes
  BY <1>2 DEF Followed!CreateBegin, Followed!CreateDecide, Followed!ReconcileBegin,
     Followed!ReconcileDecide, Followed!Prune
<1>3. ASSUME NEW n, Followed!Connect(n) \/ Followed!ReplayDecide(n) \/ Followed!Deliver(n)
      PROVE  ClusterSame /\ changes' = changes
  BY <1>3 DEF Followed!Connect, Followed!ReplayDecide, Followed!Deliver
<1>4. ASSUME Followed!CaptureStatus PROVE ClusterSame /\ changes' = changes
  BY <1>4 DEF Followed!CaptureStatus
<1>5. ASSUME NEW q, Followed!GetFails(q)
      PROVE  ClusterSame /\ changes < MaxChanges /\ changes' = changes + 1
  BY <1>5 DEF Followed!GetFails
<1>6. ASSUME Followed!CaptureFails
      PROVE  ClusterSame /\ changes < MaxChanges /\ changes' = changes + 1
  BY <1>6 DEF Followed!CaptureFails
<1> HIDE DEF Followed!fixedVars, Followed!clusterVars, Followed!Change, ClusterSame
<1> DEFINE Kept == ClusterSame /\ changes' = changes
           Counted == ClusterSame /\ changes < MaxChanges /\ changes' = changes + 1
<1>7. Followed!LoopMoves => Kept
  BY <1>1, <1>2 DEF Followed!LoopMoves
<1>8. \A n \in PodNodes :
         Followed!Connect(n) \/ Followed!ReplayMoves(n) \/ Followed!Deliver(n) => Kept
  BY <1>1, <1>3 DEF Followed!ReplayMoves
<1>9. Followed!CreateBegin \/ Followed!CaptureStatus => Kept
  BY <1>2, <1>4
<1>10. Followed!CaptureFails \/ (\E q \in Followed!Procs : Followed!GetFails(q)) => Counted
  BY <1>5, <1>6
<1>11. Followed!Cluster \/ Kept \/ Counted
  <2> HIDE DEF Kept, Counted
  <2>1. QED
    BY <1>7, <1>8, <1>9, <1>10 DEF Followed!Next
<1>12. QED
  BY <1>11

(* The cluster keeps its types and what is known of its pods.              *)
LEMMA ClusterStep ==
  ASSUME ClusterInv, Followed!Next PROVE ClusterInv' /\ Lasting
<1> USE Numbers DEF ClusterInv, ClusterTypes, PodInv, Lasting, Seen, Followed!WorkloadOf
<1>1. ASSUME NEW u \in Uids, NEW p \in Pods, Followed!PodChange(u, p),
             p.state # "none", p.node \in PodNodes, p.owner \in 1..MaxOwners,
             target # "statefulset" => replicas[p.owner] # 0,
             Seen(u) => p.node = pods[u].node /\ p.owner = pods[u].owner
      PROVE  ClusterInv' /\ Lasting
  <2>1. /\ pods' = [pods EXCEPT ![u] = p] /\ changes' \in 0..MaxChanges
        /\ UNCHANGED <<target, others, exists, owner, replicas>>
    BY <1>1 DEF Followed!PodChange, Followed!Change
  <2>2. pods' \in [Uids -> Pods]
    BY <2>1
  <2>3. \A v \in Uids : pods'[v] = IF v = u THEN p ELSE pods[v]
    BY <2>1
  <2>4. PodInv' /\ Lasting
    BY <1>1, <2>1, <2>3
  <2>5. QED
    BY <2>1, <2>2, <2>4
<1>2. ASSUME NEW u \in Uids, Followed!CreatePod(u) PROVE ClusterInv' /\ Lasting
  <2>1. PICK n \in PodNodes :
           Followed!PodChange(u, [Followed!NoPod EXCEPT
              !.state = "up", !.owner = Followed!Owner, !.node = n])
    BY <1>2 DEF Followed!CreatePod
  <2> DEFINE p == [Followed!NoPod EXCEPT
                     !.state = "up", !.owner = Followed!Owner, !.node = n]
  <2>2. p = [state |-> "up", owner |-> Followed!Owner, node |-> n, listed |-> FALSE]
    BY NewPod
  <2>3. ~Seen(u)
    BY <1>2 DEF Followed!CreatePod, Followed!NoPod
  <2> HIDE DEF p
  <2>4. p \in Pods /\ p.state # "none" /\ p.node \in PodNodes /\ p.owner \in 1..MaxOwners
           /\ (target # "statefulset" => replicas[p.owner] # 0)
    BY <2>2, NewOwner DEF Pods
  <2>5. Followed!PodChange(u, p)
    BY <2>1 DEF p
  <2>6. QED
    BY <1>1, <2>3, <2>4, <2>5
<1>3. ASSUME NEW u \in Uids, Followed!ListPod(u) PROVE ClusterInv' /\ Lasting
  <2> DEFINE p == [pods[u] EXCEPT !.listed = TRUE]
  <2>1. pods[u] \in Pods /\ pods[u].state = "up" /\ Followed!PodChange(u, p)
    BY <1>3 DEF Followed!ListPod
  <2>2. p \in Pods /\ p.state = "up" /\ p.node = pods[u].node /\ p.owner = pods[u].owner
    BY <2>1 DEF Pods
  <2> HIDE DEF p
  <2>3. QED
    BY <1>1, <2>1, <2>2
<1>4. ASSUME NEW u \in Uids, Followed!DeletePod(u) PROVE ClusterInv' /\ Lasting
  <2> DEFINE p == [pods[u] EXCEPT !.state = "leaving"]
  <2>1. pods[u] \in Pods /\ pods[u].state = "up" /\ Followed!PodChange(u, p)
    BY <1>4 DEF Followed!DeletePod
  <2>2. p \in Pods /\ p.state = "leaving" /\ p.node = pods[u].node /\ p.owner = pods[u].owner
    BY <2>1 DEF Pods
  <2> HIDE DEF p
  <2>3. QED
    BY <1>1, <2>1, <2>2
<1>5. CASE Followed!DeleteWorkload
  <2>1. /\ UNCHANGED <<target, others, owner, replicas, pods>> /\ exists' = FALSE
        /\ changes' \in 0..MaxChanges
    BY <1>5 DEF Followed!DeleteWorkload, Followed!Change
  <2>2. QED
    BY <2>1
<1>6. ASSUME NEW o \in 1..MaxOwners, Followed!NewReplicas(o), owner' \in 1..MaxOwners,
             exists' \in BOOLEAN, Followed!Change, UNCHANGED <<target, others, pods>>
      PROVE  ClusterInv' /\ Lasting
  <2>1. /\ replicas' \in [1..MaxOwners -> 0..MaxOwners]
        /\ \A s \in 1..MaxOwners : replicas[s] # 0 => replicas'[s] = replicas[s]
    BY <1>6, ReplicaStep
  <2>2. changes' \in 0..MaxChanges
    BY <1>6 DEF Followed!Change
  <2>3. QED
    BY <1>6, <2>1, <2>2
<1>7. CASE Followed!RecreateWorkload
  <2>1. owner + 1 \in 1..MaxOwners
    BY <1>7 DEF Followed!RecreateWorkload
  <2>2. QED
    BY <1>6, <1>7, <2>1 DEF Followed!RecreateWorkload
<1>8. CASE Followed!Rollout
  BY <1>6, <1>8 DEF Followed!Rollout
<1>9. CASE \/ ClusterSame /\ changes' = changes
           \/ ClusterSame /\ changes' = changes + 1 /\ changes < MaxChanges
  <2>1. changes' \in 0..MaxChanges /\ ClusterSame
    BY <1>9
  <2>2. UNCHANGED <<target, others, exists, owner, replicas, pods>>
    BY <2>1 DEF ClusterSame
  <2>3. QED
    BY <2>1, <2>2
<1>10. QED
  BY <1>2, <1>3, <1>4, <1>5, <1>7, <1>8, <1>9, ClusterSteps DEF Followed!Cluster

-----------------------------------------------------------------------------
(* The goroutines' tasks.                                                  *)
LEMMA LoopName == "loop" \in Followed!Procs /\ Followed!Loop = "loop" /\ "loop" \notin PodNodes
                  /\ PodNodes \subseteq Followed!Procs
BY FollowedAssumption DEF Followed!Procs, Followed!Loop

Rest == Followed!Idle

(* A goroutine with nothing to do.                                         *)
LEMMA RestTask ==
  /\ Rest \in Tasks /\ Rest.at = "idle" /\ Rest.drop = {} /\ Rest.todo = {}
  /\ Rest.cur = Followed!NoSource
BY Numbers DEF Rest, Followed!Idle, Tasks, Stages

(* Where a goroutine goes on: with what is to be stopped, then started.    *)
LEMMA AdvanceStep ==
  ASSUME SessionTypes, NEW q \in Followed!Procs, NEW p \in Tasks,
         p.cur = Followed!NoSource, Followed!Advance(q, p)
  PROVE  \E t \in Tasks :
            /\ proc' = [proc EXCEPT ![q] = t]
            /\ t.drop = p.drop /\ t.todo = p.todo /\ t.cur = Followed!NoSource
            /\ t.at = IF p.drop # {} THEN "prune" ELSE IF p.todo # {} THEN "start" ELSE "idle"
            /\ created' = IF t.at = "idle" /\ q = "loop" THEN "RUNNING"
                          ELSE IF created = "none" THEN "STARTING" ELSE created
<1> DEFINE a == IF p.drop # {} THEN "prune" ELSE IF p.todo # {} THEN "start" ELSE "idle"
           t == IF a = "idle" THEN Rest ELSE [p EXCEPT !.at = a]
<1>1. proc' = [proc EXCEPT ![q] = t]
  BY DEF Followed!Advance, Rest
<1>2. created' = IF a = "idle" /\ q = "loop" THEN "RUNNING"
                 ELSE IF created = "none" THEN "STARTING" ELSE created
  BY LoopName DEF Followed!Advance
<1>3. CASE a = "idle"
  BY <1>1, <1>2, <1>3, RestTask
<1>4. CASE a # "idle"
  <2>1. t \in Tasks /\ t.drop = p.drop /\ t.todo = p.todo /\ t.cur = p.cur /\ t.at = a
    BY <1>4 DEF Tasks, Stages
  <2>2. QED
    BY <1>1, <1>2, <2>1
<1>5. QED
  BY <1>3, <1>4

Busy == {"prune", "start", "set"}
Elsewhere == UNCHANGED <<runtime, channel, captured, failed, trouble>>

(* A task that was all right still is when the cluster has moved.          *)
LEMMA TaskKept ==
  ASSUME ClusterInv, Lasting, NEW t \in Tasks, TaskOK(t) PROVE TaskOK(t)'
<1>1. ASSUME NEW r \in Followed!Sources, Placed(r)
      PROVE  Placed(r)' /\ Followed!WorkloadOf(r.uid)' = Followed!WorkloadOf(r.uid)
  BY <1>1 DEF Placed, Lasting, Seen, Followed!Sources
<1>2. ASSUME NEW u \in Uids, Seen(u)
      PROVE  Seen(u)' /\ Followed!WorkloadOf(u)' = Followed!WorkloadOf(u)
  BY <1>2 DEF Lasting, Seen
<1>3. t.drop \subseteq Followed!Sources /\ t.todo \subseteq Followed!Sources
  BY DEF Tasks
<1>4. (t.at = "decide" => Kin(t.list)')
  BY <1>1 DEF Kin, TaskOK
<1>5. QED
  BY <1>1, <1>2, <1>3, <1>4 DEF TaskOK, Unique

(* What a step of Resolve, or the start of a tick, does to its goroutine:  *)
(* it has nothing to stop or to start.                                     *)
Looks(q) ==
    /\ proc[q].at \notin Busy /\ (q # "loop" => proc[q].at # "idle") /\ Elsewhere
    /\ \E t \in Tasks :
          /\ proc' = [proc EXCEPT ![q] = t] /\ TaskOK(t) /\ t.at \notin Busy
    /\ created' = created \/ (created = "none" /\ created' = "refused")

(* The GETs of Resolve, and their failures, are of that kind.              *)
LEMMA LookStep ==
  ASSUME ClusterInv, SessionTypes, TasksInv, NEW q \in Followed!Procs,
         \/ Followed!GetWorkload(q) \/ Followed!GetPods(q) \/ Followed!GetReplicas(q)
         \/ Followed!GetEndpoints(q) \/ Followed!GetFails(q)
  PROVE  Looks(q)
<1> USE Numbers DEF Followed!At, Elsewhere, Busy, Followed!agentVars
<1>0. proc[q] \in Tasks /\ TaskOK(proc[q])
  BY DEF SessionTypes, TasksInv
<1>1. ASSUME Followed!ResolveFailed(q)
      PROVE  /\ \E t \in Tasks :
                   proc' = [proc EXCEPT ![q] = t] /\ TaskOK(t) /\ t.at \notin Busy
             /\ created' = created \/ (created = "none" /\ created' = "refused")
  <2>1. TaskOK(Rest)
    BY RestTask DEF TaskOK
  <2>2. QED
    BY <1>1, <2>1, RestTask DEF Followed!ResolveFailed, Rest
<1>2. CASE Followed!GetWorkload(q)
  <2>1. CASE Followed!ResolveFailed(q)
    BY <1>1, <1>2, <2>1 DEF Followed!GetWorkload, Looks
  <2>2. CASE proc' = [proc EXCEPT ![q].owner = owner, ![q].at = "pods"] /\ UNCHANGED created
    <3> DEFINE t == [proc[q] EXCEPT !.owner = owner, !.at = "pods"]
    <3>1. proc' = [proc EXCEPT ![q] = t]
      BY <2>2 DEF SessionTypes
    <3>0. owner \in 0..MaxOwners /\ owner \in 1..MaxOwners
      BY DEF ClusterInv, ClusterTypes
    <3>2. /\ t \in Tasks /\ t.at = "pods" /\ t.owner = owner /\ t.drop = proc[q].drop
          /\ t.todo = proc[q].todo /\ t.cur = proc[q].cur
      BY <1>0, <3>0 DEF Tasks, Stages
    <3> HIDE DEF t
    <3>3. TaskOK(t)
      BY <1>0, <1>2, <3>0, <3>2 DEF TaskOK, Followed!GetWorkload
    <3>4. QED
      BY <1>2, <2>2, <3>1, <3>2, <3>3 DEF Looks, Followed!GetWorkload
  <2>3. QED
    BY <1>2, <2>1, <2>2 DEF Followed!GetWorkload
<1>3. CASE Followed!GetPods(q)
  <2> DEFINE L == {u \in Followed!Listed : Followed!OwnedBy(u, proc[q].owner)}
             t == IF target = "statefulset"
                  THEN [proc[q] EXCEPT !.list = L, !.at = "endpoints"]
                  ELSE [proc[q] EXCEPT !.list = Followed!Listed, !.at = "replicas"]
  <2>1. proc' = [proc EXCEPT ![q] = t] /\ proc[q].at = "pods" /\ created' = created /\ Elsewhere
    BY <1>3 DEF SessionTypes, Followed!GetPods
  <2>2. /\ Followed!Listed \subseteq Uids /\ \A u \in Followed!Listed : Seen(u)
    BY DEF Followed!Listed, Seen
  <2>3. target = "statefulset" => \A u \in L : Followed!WorkloadOf(u) = proc[q].owner
    BY DEF Followed!OwnedBy, Followed!WorkloadOf
  <2>4. /\ t \in Tasks /\ t.owner = proc[q].owner /\ t.drop = proc[q].drop
        /\ t.todo = proc[q].todo /\ t.cur = proc[q].cur
        /\ \/ target = "statefulset" /\ t.at = "endpoints" /\ t.list = L
           \/ t.at = "replicas" /\ t.list = Followed!Listed
    BY <1>0, <2>2 DEF Tasks, Stages
  <2> HIDE DEF t
  <2>5. TaskOK(t)
    BY <1>0, <2>1, <2>2, <2>3, <2>4 DEF TaskOK
  <2>6. QED
    BY <2>1, <2>4, <2>5 DEF Looks
<1>4. CASE Followed!GetReplicas(q)
  <2> DEFINE L == {u \in proc[q].list : Followed!OwnedBy(u, proc[q].owner)}
             t == [proc[q] EXCEPT !.list = L, !.at = "endpoints"]
  <2>1. proc' = [proc EXCEPT ![q] = t] /\ proc[q].at = "replicas" /\ created' = created /\ Elsewhere
    BY <1>4 DEF SessionTypes, Followed!GetReplicas
  <2>2. L \subseteq Uids /\ \A u \in L : Seen(u) /\ Followed!WorkloadOf(u) = proc[q].owner
    BY <1>0, <2>1 DEF TaskOK, Followed!OwnedBy, Followed!WorkloadOf
  <2>4. /\ t \in Tasks /\ t.owner = proc[q].owner /\ t.drop = proc[q].drop
        /\ t.todo = proc[q].todo /\ t.cur = proc[q].cur
        /\ t.at = "endpoints" /\ t.list = L
    BY <1>0, <2>2 DEF Tasks, Stages
  <2> HIDE DEF t
  <2>5. TaskOK(t)
    BY <1>0, <2>1, <2>2, <2>4 DEF TaskOK
  <2>6. QED
    BY <2>1, <2>4, <2>5 DEF Looks
<1>5. CASE Followed!GetEndpoints(q)
  <2> DEFINE L == {Followed!Source(u) : u \in proc[q].list}
             t == [proc[q] EXCEPT !.list = L, !.owner = 0, !.at = "decide"]
  <2>1. proc' = [proc EXCEPT ![q] = t] /\ proc[q].at = "endpoints" /\ created' = created /\ Elsewhere
    BY <1>5 DEF SessionTypes, Followed!GetEndpoints
  <2>2. \A u \in proc[q].list : /\ u \in Uids /\ Seen(u)
                                /\ Followed!WorkloadOf(u) = proc[q].owner
    BY <1>0, <2>1 DEF TaskOK
  <2>3. \A u \in proc[q].list :
           /\ Followed!Source(u) \in Followed!Sources /\ Followed!Source(u).uid = u
           /\ Placed(Followed!Source(u))
    BY <2>2 DEF Followed!Source, Followed!Sources, Placed, Seen, ClusterInv, PodInv
  <2>4. /\ L \subseteq Followed!Sources /\ Unique(L) /\ Kin(L)
        /\ \A r \in L : Placed(r)
    BY <2>2, <2>3 DEF Unique, Kin
  <2>5. /\ t \in Tasks /\ t.drop = proc[q].drop
        /\ t.todo = proc[q].todo /\ t.cur = proc[q].cur
        /\ t.at = "decide" /\ t.list = L
    <3> HIDE DEF L
    <3>1. L \in SUBSET (Uids \cup Followed!Sources) /\ 0 \in 0..MaxOwners
      BY <2>4
    <3>2. QED
      BY <1>0, <3>1 DEF Tasks, Stages
  <2> HIDE DEF t, L
  <2>6. TaskOK(t)
    BY <1>0, <2>1, <2>4, <2>5 DEF TaskOK
  <2>7. QED
    BY <2>1, <2>5, <2>6 DEF Looks
<1>6. CASE Followed!GetFails(q)
  BY <1>1, <1>6 DEF Followed!GetFails, Looks
<1>7. QED
  BY <1>2, <1>3, <1>4, <1>5, <1>6

Onward == created' # "none" /\ (created = "RUNNING" => created' = "RUNNING")
          /\ created' \in {"none", "STARTING", "RUNNING", "refused"}

(* So is the start of Create and of a tick.                                *)
LEMMA BeginStep ==
  ASSUME ClusterInv, SessionTypes, TasksInv,
         Followed!CreateBegin \/ Followed!ReconcileBegin
  PROVE  Looks("loop")
<1> USE Numbers, LoopName DEF Followed!At, Elsewhere, Busy, Followed!agentVars
<1>0. proc["loop"] \in Tasks /\ TaskOK(proc["loop"])
  BY DEF SessionTypes, TasksInv
<1> DEFINE t == [proc["loop"] EXCEPT !.at = "workload"]
<1>1. /\ proc' = [proc EXCEPT !["loop"] = t] /\ proc["loop"].at = "idle"
      /\ created' = created /\ Elsewhere
  BY DEF SessionTypes, Followed!CreateBegin, Followed!ReconcileBegin, Followed!Goto
<1>2. /\ t \in Tasks /\ t.at = "workload" /\ t.drop = proc["loop"].drop
      /\ t.todo = proc["loop"].todo /\ t.cur = proc["loop"].cur
  BY <1>0 DEF Tasks, Stages
<1> HIDE DEF t
<1>3. TaskOK(t)
  BY <1>0, <1>1, <1>2 DEF TaskOK
<1>4. QED
  BY <1>1, <1>2, <1>3 DEF Looks

(* A tick has found what it wants: what the runtime has besides is to be   *)
(* stopped, and what it lacks to be started.                               *)
Decides ==
    /\ proc["loop"].at = "decide" /\ Elsewhere /\ Onward
    /\ Followed!WithinLimits(proc["loop"].list)
    /\ \E t \in Tasks :
          /\ proc' = [proc EXCEPT !["loop"] = t] /\ TaskOK(t)
          /\ t.at # "set"
          /\ t.drop = runtime \ proc["loop"].list
          /\ t.todo = proc["loop"].list \ runtime

(* And so is giving up what Resolve found.                                 *)
LEMMA FailStep ==
  ASSUME SessionTypes, NEW q \in Followed!Procs, proc[q].at \notin Busy,
         proc[q].at # "idle", Followed!ResolveFailed(q), Elsewhere
  PROVE  Looks(q)
<1>1. TaskOK(Rest)
  BY RestTask DEF TaskOK
<1>2. QED
  BY <1>1, RestTask DEF Followed!ResolveFailed, Rest, Looks, Busy

(* A task that begins with what is to be stopped and started.              *)
Task(d, s) ==
    [at |-> "idle", nodes |-> {}, owner |-> 0, list |-> {}, drop |-> d, todo |-> s,
     cur |-> Followed!NoSource]

(* Its fields.                                                             *)
LEMMA BegunTask ==
  ASSUME NEW d \in SUBSET Followed!Sources, NEW s \in SUBSET Followed!Sources
  PROVE  /\ Task(d, s) \in Tasks /\ Task(d, s).drop = d /\ Task(d, s).todo = s
         /\ Task(d, s).cur = Followed!NoSource
BY Numbers DEF Task, Tasks, Stages

(* It is what a tick makes of an idle goroutine.                           *)
LEMMA BothTasks ==
  ASSUME NEW d, NEW s, NEW p, p = [Followed!Idle EXCEPT !.drop = d, !.todo = s]
  PROVE  p = Task(d, s)
BY DEF Followed!Idle, Task

(* It is what Create and a replay make of one, with nothing to stop.       *)
LEMMA TodoTask ==
  ASSUME NEW s, NEW p, p = [Followed!Idle EXCEPT !.todo = s] PROVE p = Task({}, s)
BY DEF Followed!Idle, Task

(* Create and a tick give up above a limit and decide within.              *)
LEMMA DecideStep ==
  ASSUME ClusterInv, SessionTypes, TasksInv, PlaceInv,
         Followed!CreateDecide \/ Followed!ReconcileDecide
  PROVE  Looks("loop") \/ Decides
<1> USE LoopName DEF Followed!At, Elsewhere, Followed!agentVars
<1>0. /\ proc["loop"] \in Tasks /\ TaskOK(proc["loop"]) /\ proc["loop"].at = "decide"
      /\ Elsewhere
  BY DEF SessionTypes, TasksInv, Followed!CreateDecide, Followed!ReconcileDecide
<1> DEFINE L == proc["loop"].list
           p == Task(runtime \ L, L \ runtime)
<1>1. L \subseteq Followed!Sources /\ runtime \subseteq Followed!Sources
      /\ \A r \in L \cup runtime : Placed(r)
  BY <1>0 DEF TaskOK, SessionTypes, PlaceInv
<1>2. /\ p \in Tasks /\ p.drop = runtime \ L /\ p.todo = L \ runtime
      /\ p.cur = Followed!NoSource
  <2> HIDE DEF L
  <2>1. runtime \ L \in SUBSET Followed!Sources /\ L \ runtime \in SUBSET Followed!Sources
    BY <1>1
  <2>2. QED
    BY <2>1, BegunTask
<1>3. CASE Followed!ResolveFailed("loop")
  BY <1>0, <1>3, FailStep DEF Busy
<1>4. CASE Followed!WithinLimits(L) /\ Followed!Advance("loop", p)
  <2> HIDE DEF p
  <2>1. PICK t \in Tasks :
            /\ proc' = [proc EXCEPT !["loop"] = t]
            /\ t.drop = p.drop /\ t.todo = p.todo /\ t.cur = Followed!NoSource
            /\ t.at = IF p.drop # {} THEN "prune" ELSE IF p.todo # {} THEN "start" ELSE "idle"
            /\ created' = IF t.at = "idle" /\ "loop" = "loop" THEN "RUNNING"
                          ELSE IF created = "none" THEN "STARTING" ELSE created
    BY <1>2, <1>4, AdvanceStep
  <2>2. TaskOK(t) /\ t.at # "set"
    BY <1>1, <1>2, <2>1 DEF TaskOK
  <2>3. Onward
    BY <2>1 DEF Onward, SessionTypes
  <2>4. QED
    BY <1>0, <1>2, <1>4, <2>1, <2>2, <2>3 DEF Decides
<1>5. CASE Followed!CreateDecide
  <2>1. runtime = {}
    BY <1>5 DEF Followed!CreateDecide, TasksInv
  <2>2. [Followed!Idle EXCEPT !.todo = L] = Task({}, L)
    BY TodoTask
  <2>3. runtime \ L = {} /\ L \ runtime = L
    BY <2>1
  <2>4. p = [Followed!Idle EXCEPT !.todo = L]
    BY <2>2, <2>3
  <2>5. QED
    BY <1>3, <1>4, <1>5, <2>4 DEF Followed!CreateDecide, Followed!Loop
<1>6. CASE Followed!ReconcileDecide
  <2>1. [Followed!Idle EXCEPT !.drop = runtime \ L, !.todo = L \ runtime] = p
    BY BothTasks
  <2>2. QED
    BY <1>3, <1>4, <1>6, <2>1 DEF Followed!ReconcileDecide, Followed!Loop
<1>7. QED
  BY <1>5, <1>6

(* One source is stopped, or cannot be, and is forgotten.                  *)
Stops(r) ==
    /\ r \in proc["loop"].drop /\ r \in Followed!Sources /\ Placed(r)
    /\ runtime' = Followed!Without(runtime, r.uid) /\ UNCHANGED <<captured, failed>>
    /\ Onward
    /\ \E t \in Tasks :
          /\ proc' = [proc EXCEPT !["loop"] = t] /\ TaskOK(t) /\ t.at # "set"
          /\ t.drop = proc["loop"].drop \ {r} /\ t.todo = proc["loop"].todo
    /\ \/ /\ Followed!Send(r.node, [op |-> "stop", src |-> r]) /\ UNCHANGED trouble
          /\ Followed!CanSend(r.node)
       \/ trouble' # "none" /\ (trouble' = "forgot" \/ trouble' = trouble) /\ UNCHANGED channel
             /\ (trouble' = "replayed" <=> trouble = "replayed")

(* Prune stops one of the sources that are to be stopped.                  *)
LEMMA PruneStep ==
  ASSUME ClusterInv, SessionTypes, TasksInv, Followed!Prune
  PROVE  proc["loop"].at = "prune" /\ \E r \in proc["loop"].drop : Stops(r)
<1> USE LoopName DEF Followed!At, Followed!agentVars
<1>0. proc["loop"] \in Tasks /\ TaskOK(proc["loop"]) /\ proc["loop"].at = "prune"
  BY DEF SessionTypes, TasksInv, Followed!Prune, Followed!Loop
<1>1. PICK r \in proc["loop"].drop :
          /\ runtime' = Followed!Without(runtime, r.uid)
          /\ Followed!Advance("loop", [proc["loop"] EXCEPT !.drop = @ \ {r}])
          /\ \/ /\ Followed!CanSend(r.node) /\ Followed!Send(r.node, [op |-> "stop", src |-> r])
                /\ UNCHANGED trouble
             \/ /\ ~Followed!CanSend(r.node) /\ Followed!Forgot
                /\ UNCHANGED channel
  BY DEF Followed!Prune, Followed!Loop
<1> DEFINE p == [proc["loop"] EXCEPT !.drop = @ \ {r}]
<1>2. /\ p \in Tasks /\ p.drop = proc["loop"].drop \ {r} /\ p.todo = proc["loop"].todo
      /\ p.cur = Followed!NoSource
  BY <1>0 DEF Tasks, TaskOK
<1>3. Followed!Advance("loop", p)
  BY <1>1
<1> HIDE DEF p
<1>4. PICK t \in Tasks :
            /\ proc' = [proc EXCEPT !["loop"] = t]
            /\ t.drop = p.drop /\ t.todo = p.todo /\ t.cur = Followed!NoSource
            /\ t.at = IF p.drop # {} THEN "prune" ELSE IF p.todo # {} THEN "start" ELSE "idle"
            /\ created' = IF t.at = "idle" /\ "loop" = "loop" THEN "RUNNING"
                          ELSE IF created = "none" THEN "STARTING" ELSE created
    BY <1>2, <1>3, AdvanceStep
<1>5. TaskOK(t) /\ t.at # "set"
  BY <1>0, <1>2, <1>4 DEF TaskOK
<1>6. Onward
  BY <1>4 DEF Onward, SessionTypes
<1>7. r \in Followed!Sources /\ Placed(r)
  BY <1>0 DEF Tasks, TaskOK
<1>8. QED
  BY <1>0, <1>1, <1>2, <1>4, <1>5, <1>6, <1>7 DEF Stops, Followed!Forgot, Followed!Prune,
     Followed!fixedVars

(* A start command is queued, and its source not yet in the runtime.       *)
Sends(q, r) ==
    /\ r \in proc[q].todo /\ r \in Followed!Sources /\ Placed(r)
    /\ ~Followed!Skipped(q, r) /\ Followed!CanSend(r.node)
    /\ Followed!Send(r.node, [op |-> "start", src |-> r])
    /\ trouble' = IF q = "loop" THEN trouble ELSE "replayed"
    /\ UNCHANGED <<runtime, captured, failed>> /\ Onward
    /\ proc[q].at = "start"
    /\ \E t \in Tasks :
          /\ proc' = [proc EXCEPT ![q] = t] /\ TaskOK(t) /\ t.at = "set" /\ t.cur = r
          /\ t.drop = {} /\ t.todo = proc[q].todo \ {r}

(* The goroutine has one source less to start, or as many.                 *)
Passes(q) ==
    /\ Elsewhere /\ Onward /\ proc[q].at \notin {"idle", "set"}
    /\ \E t \in Tasks :
          /\ proc' = [proc EXCEPT ![q] = t] /\ TaskOK(t) /\ t.at # "set"
          /\ t.drop = {} /\ (q = "loop" => proc[q].drop = {} /\ t.todo \subseteq proc[q].todo)

(* A goroutine that stops or starts sources does so in a running session,  *)
(* or in Create.                                                           *)
LEMMA Working ==
  ASSUME SessionTypes, TasksInv, NEW q \in Followed!Procs, proc[q].at \in Busy
  PROVE  /\ created # "none" /\ (q # "loop" => created = "RUNNING")
         /\ (created' = created => Onward)
BY LoopName DEF TasksInv, Busy, Followed!Procs, Followed!Loop, Onward, SessionTypes

(* A goroutine sends a start or passes over it.                            *)
LEMMA SendStep ==
  ASSUME ClusterInv, SessionTypes, TasksInv, NEW q \in Followed!Procs,
         Followed!StartSend(q)
  PROVE  Passes(q) \/ \E r \in proc[q].todo : Sends(q, r)
<1> USE LoopName DEF Followed!At, Followed!agentVars
<1>0. proc[q] \in Tasks /\ TaskOK(proc[q]) /\ proc[q].at = "start" /\ proc[q].drop = {}
  BY DEF SessionTypes, TasksInv, Followed!StartSend, TaskOK
<1>1. PICK r \in proc[q].todo :
          \/ /\ ~Followed!Skipped(q, r) /\ Followed!CanSend(r.node)
             /\ Followed!Send(r.node, [op |-> "start", src |-> r])
             /\ proc' = [proc EXCEPT ![q].todo = @ \ {r}, ![q].cur = r,
                                     ![q].at = "set"]
             /\ trouble' = IF q = Followed!Loop THEN trouble ELSE "replayed"
             /\ UNCHANGED created
          \/ /\ Followed!Skipped(q, r) \/ ~Followed!CanSend(r.node)
             /\ Followed!Advance(q, [proc[q] EXCEPT !.todo = @ \ {r}])
             /\ UNCHANGED <<channel, trouble>>
  BY DEF Followed!StartSend
<1>2. r \in Followed!Sources /\ Placed(r) /\ UNCHANGED <<runtime, captured, failed>>
  BY <1>0 DEF Tasks, TaskOK, Followed!StartSend
<1>3. created # "none" /\ (q # "loop" => created = "RUNNING") /\ (created' = created => Onward)
  BY <1>0, Working DEF Busy
<1>4. CASE /\ ~Followed!Skipped(q, r) /\ Followed!CanSend(r.node)
           /\ Followed!Send(r.node, [op |-> "start", src |-> r])
           /\ proc' = [proc EXCEPT ![q].todo = @ \ {r}, ![q].cur = r, ![q].at = "set"]
           /\ trouble' = IF q = Followed!Loop THEN trouble ELSE "replayed"
           /\ UNCHANGED created
  <2> DEFINE t == [proc[q] EXCEPT !.todo = @ \ {r}, !.cur = r, !.at = "set"]
  <2>1. proc' = [proc EXCEPT ![q] = t]
    BY <1>4 DEF SessionTypes
  <2>2. /\ t \in Tasks /\ t.at = "set" /\ t.cur = r /\ t.todo = proc[q].todo \ {r}
        /\ t.drop = proc[q].drop
    BY <1>0, <1>2 DEF Tasks, Stages
  <2> HIDE DEF t
  <2>3. TaskOK(t)
    BY <1>0, <1>2, <2>2 DEF TaskOK
  <2>4. Sends(q, r)
    BY <1>0, <1>2, <1>3, <1>4, <2>1, <2>2, <2>3 DEF Sends
  <2>5. QED
    BY <2>4
<1>5. CASE /\ Followed!Advance(q, [proc[q] EXCEPT !.todo = @ \ {r}])
           /\ UNCHANGED <<channel, trouble>>
  <2> DEFINE p == [proc[q] EXCEPT !.todo = @ \ {r}]
  <2>1. /\ p \in Tasks /\ p.drop = {} /\ p.todo = proc[q].todo \ {r}
        /\ p.cur = Followed!NoSource
    BY <1>0 DEF Tasks, TaskOK
  <2>2. Followed!Advance(q, p)
    BY <1>5
  <2> HIDE DEF p
  <2>3. PICK t \in Tasks :
            /\ proc' = [proc EXCEPT ![q] = t]
            /\ t.drop = p.drop /\ t.todo = p.todo /\ t.cur = Followed!NoSource
            /\ t.at = IF p.drop # {} THEN "prune" ELSE IF p.todo # {} THEN "start" ELSE "idle"
            /\ created' = IF t.at = "idle" /\ q = "loop" THEN "RUNNING"
                          ELSE IF created = "none" THEN "STARTING" ELSE created
    BY <2>1, <2>2, AdvanceStep
  <2>4. TaskOK(t) /\ t.at # "set"
    BY <1>0, <2>1, <2>3 DEF TaskOK
  <2>5. Onward
    BY <2>3 DEF Onward, SessionTypes
  <2>6. Passes(q)
    BY <1>0, <1>2, <1>5, <2>1, <2>3, <2>4, <2>5 DEF Passes, Elsewhere
  <2>7. QED
    BY <2>6
<1>6. QED
  BY <1>1, <1>4, <1>5

(* The source whose start was queued is set in the runtime.                *)
Sets(q) ==
    /\ proc[q].at = "set" /\ proc[q].cur \in Followed!Sources /\ Placed(proc[q].cur)
    /\ runtime' = Followed!Without(runtime, proc[q].cur.uid) \cup {proc[q].cur}
    /\ UNCHANGED <<channel, captured, failed, trouble>> /\ Onward
    /\ \E t \in Tasks :
          /\ proc' = [proc EXCEPT ![q] = t] /\ TaskOK(t) /\ t.at # "set"
          /\ t.drop = {} /\ proc[q].drop = {} /\ t.todo = proc[q].todo

(* The goroutine goes on with the rest when the source is set.             *)
LEMMA SetStep ==
  ASSUME ClusterInv, SessionTypes, TasksInv, NEW q \in Followed!Procs,
         Followed!StartSet(q)
  PROVE  Sets(q)
<1> USE LoopName DEF Followed!At, Followed!agentVars
<1>0. /\ proc[q] \in Tasks /\ TaskOK(proc[q]) /\ proc[q].at = "set" /\ proc[q].drop = {}
      /\ proc[q].cur \in Followed!Sources /\ Placed(proc[q].cur)
  BY DEF SessionTypes, TasksInv, Followed!StartSet, TaskOK
<1> DEFINE p == [proc[q] EXCEPT !.cur = Followed!NoSource]
<1>1. /\ p \in Tasks /\ p.drop = {} /\ p.todo = proc[q].todo
      /\ p.cur = Followed!NoSource
  BY <1>0 DEF Tasks
<1>2. Followed!Advance(q, p)
  BY DEF Followed!StartSet
<1> HIDE DEF p
<1>3. PICK t \in Tasks :
          /\ proc' = [proc EXCEPT ![q] = t]
          /\ t.drop = p.drop /\ t.todo = p.todo /\ t.cur = Followed!NoSource
          /\ t.at = IF p.drop # {} THEN "prune" ELSE IF p.todo # {} THEN "start" ELSE "idle"
          /\ created' = IF t.at = "idle" /\ q = "loop" THEN "RUNNING"
                        ELSE IF created = "none" THEN "STARTING" ELSE created
  BY <1>1, <1>2, AdvanceStep
<1>4. TaskOK(t) /\ t.at # "set"
  BY <1>0, <1>1, <1>3 DEF TaskOK
<1>5. Onward
  BY <1>3 DEF Onward, SessionTypes
<1>6. QED
  BY <1>0, <1>1, <1>3, <1>4, <1>5 DEF Sets, Followed!StartSet

(* A replay gives up above the limit of a node or has sources to start.    *)
LEMMA ReplayStep ==
  ASSUME ClusterInv, SessionTypes, TasksInv, NEW n \in PodNodes, Followed!ReplayDecide(n)
  PROVE  Looks(n) \/ Passes(n)
<1> USE LoopName DEF Followed!At, Followed!agentVars
<1>0. /\ proc[n] \in Tasks /\ TaskOK(proc[n]) /\ proc[n].at = "decide" /\ Elsewhere
      /\ n \in Followed!Procs /\ n # "loop"
  BY DEF SessionTypes, TasksInv, Followed!ReplayDecide, Elsewhere
<1> DEFINE S == {r \in proc[n].list : r.node \in proc[n].nodes}
           p == [Followed!Idle EXCEPT !.todo = S]
<1>1. CASE Followed!ResolveFailed(n)
  BY <1>0, <1>1, FailStep DEF Busy
<1>2. CASE Followed!Advance(n, p)
  <2>1. S \subseteq Followed!Sources /\ \A r \in S : Placed(r)
    BY <1>0 DEF TaskOK
  <2>2. p = Task({}, S)
    <3> HIDE DEF S
    <3>1. QED
      BY TodoTask
  <2> HIDE DEF p, S
  <2>3. p \in Tasks /\ p.drop = {} /\ p.todo = S /\ p.cur = Followed!NoSource
    BY <2>1, <2>2, BegunTask
  <2>4. PICK t \in Tasks :
            /\ proc' = [proc EXCEPT ![n] = t]
            /\ t.drop = p.drop /\ t.todo = p.todo /\ t.cur = Followed!NoSource
            /\ t.at = IF p.drop # {} THEN "prune" ELSE IF p.todo # {} THEN "start" ELSE "idle"
            /\ created' = IF t.at = "idle" /\ n = "loop" THEN "RUNNING"
                          ELSE IF created = "none" THEN "STARTING" ELSE created
    BY <1>0, <1>2, <2>3, AdvanceStep
  <2>5. TaskOK(t) /\ t.at # "set"
    BY <2>1, <2>3, <2>4 DEF TaskOK
  <2>6. Onward
    BY <1>0, <2>4 DEF Onward, SessionTypes
  <2>7. QED
    BY <1>0, <2>3, <2>4, <2>5, <2>6 DEF Passes
<1>3. QED
  BY <1>1, <1>2 DEF Followed!ReplayDecide

(* An agent connects; when the session runs, a replay begins.              *)
Joins(n) ==
    /\ Elsewhere /\ created' = created
    /\ \/ UNCHANGED proc
       \/ /\ created = "RUNNING"
          /\ \E t \in Tasks : /\ proc' = [proc EXCEPT ![n] = t] /\ TaskOK(t)
                              /\ t.at \notin Busy

(* Nothing to stop and nothing to start.                                   *)
LEMMA RestIsTask == Followed!Idle = Task({}, {})
BY DEF Followed!Idle, Task

Joining(c) ==
    [at |-> "workload", nodes |-> c, owner |-> 0, list |-> {}, drop |-> {}, todo |-> {},
     cur |-> Followed!NoSource]

(* The task of a replay that begins.                                       *)
LEMMA JoinTask ==
  ASSUME NEW c \in SUBSET PodNodes
  PROVE  /\ Joining(c) \in Tasks /\ Joining(c).at = "workload" /\ Joining(c).drop = {}
         /\ Joining(c).todo = {} /\ Joining(c).cur = Followed!NoSource
BY Numbers DEF Joining, Tasks, Stages

(* It is what a connection makes of an idle goroutine.                     *)
LEMMA JoinsTask ==
  ASSUME NEW c, NEW t, t = [Task({}, {}) EXCEPT !.at = "workload", !.nodes = c]
  PROVE  t = Joining(c)
BY DEF Task, Joining

(* A connection begins a replay or none.                                   *)
LEMMA JoinStep ==
  ASSUME ClusterInv, SessionTypes, TasksInv, NEW n \in PodNodes, Followed!Connect(n)
  PROVE  Joins(n)
<1> DEFINE t == [Followed!Idle EXCEPT !.at = "workload", !.nodes = connected \cup {n}]
<1>1. t \in Tasks /\ t.at = "workload" /\ t.drop = {} /\ t.todo = {} /\ t.cur = Followed!NoSource
  <2>1. connected \cup {n} \in SUBSET PodNodes
    BY DEF SessionTypes
  <2>2. t = [Task({}, {}) EXCEPT !.at = "workload", !.nodes = connected \cup {n}]
    BY RestIsTask
  <2> HIDE DEF t
  <2>3. t = Joining(connected \cup {n})
    BY <2>2, JoinsTask
  <2>4. QED
    BY <2>1, <2>3, JoinTask
<1>2. TaskOK(t)
  BY <1>1 DEF TaskOK
<1> HIDE DEF t
<1>3. UNCHANGED proc \/ (created = "RUNNING" /\ proc' = [proc EXCEPT ![n] = t])
  BY DEF Followed!Connect, t
<1>4. QED
  BY <1>1, <1>2, <1>3 DEF Joins, Followed!Connect, Elsewhere, Followed!agentVars, Busy

Apart == UNCHANGED <<proc, created>>

(* Every step is one of those, or leaves the goroutines alone.             *)
LEMMA MoveCases ==
  ASSUME ClusterInv, SessionTypes, TasksInv, PlaceInv, Followed!Next
  PROVE  \/ Followed!Cluster /\ Elsewhere /\ Apart
         \/ \E q \in Followed!Procs : Looks(q) \/ Passes(q) \/ Sets(q)
         \/ \E q \in Followed!Procs : \E r \in proc[q].todo : Sends(q, r)
         \/ Decides
         \/ proc["loop"].at = "prune" /\ \E r \in proc["loop"].drop : Stops(r)
         \/ \E n \in PodNodes : Joins(n) \/ (Followed!Deliver(n) /\ Apart)
         \/ (Followed!CaptureFails \/ Followed!CaptureStatus) /\ Apart
<1> DEFINE Goal1 == \E q \in Followed!Procs : Looks(q) \/ Passes(q) \/ Sets(q)
           Goal2 == \E q \in Followed!Procs : \E r \in proc[q].todo : Sends(q, r)
           Goal3 == proc["loop"].at = "prune" /\ \E r \in proc["loop"].drop : Stops(r)
           Goal4 == \E n \in PodNodes : Joins(n) \/ (Followed!Deliver(n) /\ Apart)
           Goal5 == (Followed!CaptureFails \/ Followed!CaptureStatus) /\ Apart
<1>1. ASSUME NEW q \in Followed!Procs, Followed!Continue(q) PROVE Goal1 \/ Goal2
  BY <1>1, LookStep, SendStep, SetStep DEF Followed!Continue
<1>2. ASSUME NEW q \in Followed!Procs, Followed!GetFails(q) PROVE Goal1
  BY <1>2, LookStep
<1>3. Followed!LoopMoves => Goal1 \/ Goal2 \/ Decides \/ Goal3
  BY <1>1, BeginStep, DecideStep, PruneStep, LoopName DEF Followed!LoopMoves
<1>4. Followed!CreateBegin => Goal1
  BY BeginStep, LoopName
<1>5. ASSUME NEW n \in PodNodes,
             Followed!Connect(n) \/ Followed!ReplayMoves(n) \/ Followed!Deliver(n)
      PROVE  Goal1 \/ Goal2 \/ Goal4
  <2>1. n \in Followed!Procs
    BY LoopName
  <2>2. Followed!Deliver(n) => Apart
    BY DEF Followed!Deliver, Apart
  <2>3. QED
    BY <1>1, <1>5, <2>1, <2>2, JoinStep, ReplayStep DEF Followed!ReplayMoves
<1>6. Followed!CaptureFails \/ Followed!CaptureStatus => Goal5
  BY DEF Followed!CaptureFails, Followed!CaptureStatus, Apart
<1>7. Followed!Cluster => Elsewhere /\ Apart
  BY DEF Followed!Cluster, Followed!CreatePod, Followed!ListPod, Followed!DeletePod,
     Followed!PodChange, Followed!DeleteWorkload, Followed!RecreateWorkload,
     Followed!Rollout, Elsewhere, Apart, Followed!agentVars
<1> HIDE DEF Goal1, Goal2, Goal3, Goal4, Goal5
<1>8. (Followed!Cluster /\ Elsewhere /\ Apart) \/ Goal1 \/ Goal2 \/ Decides \/ Goal3 \/ Goal4
         \/ Goal5
  BY <1>2, <1>3, <1>4, <1>5, <1>6, <1>7 DEF Followed!Next
<1>9. QED
  BY <1>8 DEF Goal1, Goal2, Goal3, Goal4, Goal5

(* Only nodes connect.                                                     *)
LEMMA ConnectedStep ==
  ASSUME SessionTypes, Followed!Next PROVE connected' \subseteq PodNodes
<1> USE DEF Followed!fixedVars, Followed!clusterVars, Followed!Change, SessionTypes
<1>1. ASSUME NEW q, Followed!Continue(q) \/ Followed!GetFails(q)
      PROVE  connected' = connected
  BY <1>1 DEF Followed!Continue, Followed!GetWorkload, Followed!GetPods, Followed!GetFails,
     Followed!GetReplicas, Followed!GetEndpoints, Followed!StartSend, Followed!StartSet
<1>2. ASSUME Followed!CreateBegin \/ Followed!CreateDecide \/ Followed!ReconcileBegin
                \/ Followed!ReconcileDecide \/ Followed!Prune
      PROVE  connected' = connected
  BY <1>2 DEF Followed!CreateBegin, Followed!CreateDecide, Followed!ReconcileBegin,
     Followed!ReconcileDecide, Followed!Prune
<1>3. ASSUME NEW n \in PodNodes,
             Followed!Connect(n) \/ Followed!ReplayDecide(n) \/ Followed!Deliver(n)
      PROVE  connected' \subseteq PodNodes
  BY <1>3 DEF Followed!Connect, Followed!ReplayDecide, Followed!Deliver
<1>4. Followed!CaptureStatus \/ Followed!CaptureFails => connected' = connected
  BY DEF Followed!CaptureStatus, Followed!CaptureFails
<1>5. Followed!Cluster => connected' = connected
  BY DEF Followed!Cluster, Followed!CreatePod, Followed!ListPod, Followed!DeletePod,
     Followed!PodChange, Followed!DeleteWorkload, Followed!RecreateWorkload,
     Followed!Rollout
<1>6. Followed!LoopMoves => connected' = connected
  BY <1>1, <1>2 DEF Followed!LoopMoves
<1>7. \A n \in PodNodes :
        Followed!Connect(n) \/ Followed!ReplayMoves(n) \/ Followed!Deliver(n)
           => connected' \subseteq PodNodes
  BY <1>1, <1>3 DEF Followed!ReplayMoves
<1>8. connected \subseteq PodNodes
  OBVIOUS
<1> HIDE DEF SessionTypes
<1>9. QED
  BY <1>1, <1>2, <1>4, <1>5, <1>6, <1>7, <1>8 DEF Followed!Next

(* The tasks and the session keep their types, whichever task moves.       *)
LEMMA TasksStep ==
  ASSUME ClusterInv, SessionTypes, TasksInv, PlaceInv, Followed!Next
  PROVE  SessionTypes' /\ TasksInv'
<1>0. Lasting /\ connected' \subseteq PodNodes
  BY ClusterStep, ConnectedStep
<1>1. ASSUME NEW q \in Followed!Procs, NEW t \in Tasks, TaskOK(t),
             proc' = [proc EXCEPT ![q] = t],
             runtime' \subseteq Followed!Sources,
             q # "loop" => t.drop = {} /\ created = "RUNNING",
             \/ Onward
             \/ /\ created = "none" /\ created' \in {"none", "refused"}
                /\ runtime' = runtime /\ t.at \notin Busy
      PROVE  SessionTypes' /\ TasksInv'
  <2>1. proc' \in [Followed!Procs -> Tasks]
    BY <1>1 DEF SessionTypes
  <2>2. \A p \in Followed!Procs : proc'[p] = IF p = q THEN t ELSE proc[p]
    BY <1>1 DEF SessionTypes
  <2>3. \A p \in Followed!Procs : TaskOK(proc[p])' \/ p = q
    <3> SUFFICES ASSUME NEW p \in Followed!Procs, p # q PROVE TaskOK(proc[p])'
      OBVIOUS
    <3>1. PICK s \in Tasks : s = proc[p]
      BY DEF SessionTypes
    <3>2. TaskOK(s)
      BY <3>1 DEF TasksInv
    <3>3. TaskOK(s)'
      BY <1>0, <3>2, TaskKept
    <3>4. s = proc'[p]
      BY <2>2, <3>1
    <3>5. QED
      BY <3>3, <3>4 DEF TaskOK
  <2>4. TaskOK(t)'
    BY <1>0, <1>1, TaskKept
  <2>5. TaskOK(proc[q])'
    <3>1. t = proc'[q]
      BY <2>2
    <3>2. QED
      BY <2>4, <3>1 DEF TaskOK
  <2>6. created' \in {"none", "STARTING", "RUNNING", "refused"}
    BY <1>1 DEF Onward, SessionTypes
  <2>7. \A n \in PodNodes : proc'[n].drop = {}
    BY <1>1, <2>2, LoopName DEF TasksInv
  <2>8. created' # "RUNNING" => \A n \in PodNodes : proc'[n].at = "idle"
    <3>1. CASE Onward
      BY <1>1, <2>2, <3>1, LoopName DEF TasksInv, Onward
    <3>2. CASE ~Onward
      BY <1>1, <2>2, <3>2, LoopName DEF TasksInv
    <3>3. QED
      BY <3>1, <3>2
  <2>9. created' = "none" => runtime' = {} /\ proc'["loop"].at \notin {"prune", "start", "set"}
    BY <1>1, <2>2, LoopName DEF TasksInv, Onward, Busy
  <2>10. QED
    BY <1>0, <1>1, <2>1, <2>3, <2>5, <2>6, <2>7, <2>8, <2>9 DEF SessionTypes, TasksInv
<1>2. ASSUME Apart, runtime' \subseteq runtime PROVE SessionTypes' /\ TasksInv'
  <2>1. \A p \in Followed!Procs : TaskOK(proc[p])'
    <3> SUFFICES ASSUME NEW p \in Followed!Procs PROVE TaskOK(proc[p])'
      OBVIOUS
    <3>1. PICK s \in Tasks : s = proc[p]
      BY DEF SessionTypes
    <3>2. TaskOK(s)
      BY <3>1 DEF TasksInv
    <3>3. TaskOK(s)'
      BY <1>0, <3>2, TaskKept
    <3>4. s = proc'[p]
      BY <1>2, <3>1 DEF Apart
    <3>5. QED
      BY <3>3, <3>4 DEF TaskOK
  <2>2. QED
    BY <1>0, <1>2, <2>1 DEF Apart, SessionTypes, TasksInv
<1>3. ASSUME NEW q \in Followed!Procs, proc[q].at # "idle", q # "loop" PROVE created = "RUNNING"
  BY <1>3, LoopName DEF TasksInv, Followed!Procs, Followed!Loop
<1>4. runtime \subseteq Followed!Sources
  BY DEF SessionTypes
<1>5. ASSUME NEW q \in Followed!Procs, Looks(q) PROVE SessionTypes' /\ TasksInv'
  <2>1. PICK t \in Tasks : proc' = [proc EXCEPT ![q] = t] /\ TaskOK(t) /\ t.at \notin Busy
    BY <1>5 DEF Looks
  <2>2. t.drop = {} /\ runtime' = runtime /\ (q # "loop" => created = "RUNNING")
    BY <1>3, <1>5, <2>1 DEF TaskOK, Busy, Looks, Elsewhere
  <2>3. Onward \/ (created = "none" /\ created' \in {"none", "refused"})
    BY <1>5 DEF Looks, Onward, SessionTypes
  <2>4. QED
    BY <1>1, <1>4, <2>1, <2>2, <2>3
<1>6. ASSUME NEW q \in Followed!Procs, Passes(q) \/ Sets(q)
      PROVE  SessionTypes' /\ TasksInv'
  <2>1. PICK t \in Tasks : proc' = [proc EXCEPT ![q] = t] /\ TaskOK(t) /\ t.drop = {}
    BY <1>6 DEF Passes, Sets
  <2>2. runtime' \subseteq Followed!Sources /\ Onward
    BY <1>4, <1>6 DEF Passes, Sets, Elsewhere, Followed!Without
  <2>3. q # "loop" => created = "RUNNING"
    <3>1. CASE proc[q].at # "idle"
      BY <1>3, <3>1
    <3>2. QED
      BY <1>3, <1>6, <3>1 DEF Passes, Sets
  <2>4. QED
    BY <1>1, <2>1, <2>2, <2>3
<1>7. ASSUME NEW q \in Followed!Procs, NEW r \in proc[q].todo, Sends(q, r)
      PROVE  SessionTypes' /\ TasksInv'
  <2>1. PICK t \in Tasks : proc' = [proc EXCEPT ![q] = t] /\ TaskOK(t) /\ t.drop = {}
    BY <1>7 DEF Sends
  <2>2. QED
    BY <1>1, <1>3, <1>4, <1>7, <2>1 DEF Sends
<1>8. CASE Decides
  <2>1. PICK t \in Tasks : proc' = [proc EXCEPT !["loop"] = t] /\ TaskOK(t)
    BY <1>8 DEF Decides
  <2>2. QED
    BY <1>1, <1>4, <1>8, <2>1, LoopName DEF Decides, Elsewhere
<1>9. ASSUME NEW r \in proc["loop"].drop, Stops(r) PROVE SessionTypes' /\ TasksInv'
  <2>1. PICK t \in Tasks : proc' = [proc EXCEPT !["loop"] = t] /\ TaskOK(t)
    BY <1>9 DEF Stops
  <2>2. runtime' \subseteq Followed!Sources /\ Onward
    BY <1>4, <1>9 DEF Stops, Followed!Without
  <2>3. QED
    BY <1>1, <2>1, <2>2, LoopName
<1>10. ASSUME NEW n \in PodNodes, Joins(n) PROVE SessionTypes' /\ TasksInv'
  <2>1. CASE UNCHANGED proc
    BY <1>2, <1>10, <2>1 DEF Joins, Apart, Elsewhere
  <2>2. CASE ~UNCHANGED proc
    <3>1. PICK t \in Tasks : proc' = [proc EXCEPT ![n] = t] /\ TaskOK(t) /\ t.at \notin Busy
      BY <1>10, <2>2 DEF Joins
    <3>2. t.drop = {} /\ created = "RUNNING" /\ Onward /\ runtime' = runtime
      BY <1>10, <2>2, <3>1 DEF Joins, TaskOK, Busy, Elsewhere, Onward
    <3>3. QED
      BY <1>1, <1>4, <3>1, <3>2, LoopName
  <2>3. QED
    BY <2>1, <2>2
<1>11. CASE Apart /\ Followed!Cluster /\ Elsewhere
  BY <1>2, <1>11 DEF Elsewhere
<1>12. ASSUME NEW n \in PodNodes, Followed!Deliver(n), Apart PROVE SessionTypes' /\ TasksInv'
  BY <1>2, <1>12 DEF Followed!Deliver
<1>13. CASE (Followed!CaptureFails \/ Followed!CaptureStatus) /\ Apart
  <2>1. runtime' \subseteq runtime
    BY <1>13 DEF Followed!CaptureFails, Followed!CaptureStatus, Followed!Without
  <2>2. QED
    BY <1>2, <1>13, <2>1
<1>14. QED
  BY <1>5, <1>6, <1>7, <1>8, <1>9, <1>10, <1>11, <1>12, <1>13, MoveCases

-----------------------------------------------------------------------------
(* Commands and captures.                                                  *)

(* A command joins the others of its node at the end.                      *)
LEMMA CommandAdded ==
  ASSUME NEW s \in Seq(Commands), NEW c \in Commands
  PROVE  /\ Append(s, c) \in Seq(Commands) /\ Len(Append(s, c)) = Len(s) + 1
         /\ \A i \in 1..Len(s) : Append(s, c)[i] = s[i]
         /\ Append(s, c)[Len(s) + 1] = c
OBVIOUS

(* The first command of a node is taken.                                   *)
LEMMA CommandTaken ==
  ASSUME NEW s \in Seq(Commands), s # <<>>
  PROVE  /\ Tail(s) \in Seq(Commands) /\ Len(s) \in Nat \ {0} /\ Len(Tail(s)) = Len(s) - 1
         /\ Head(s) = s[1] /\ Head(s) \in Commands
         /\ \A i \in 1..Len(Tail(s)) : Tail(s)[i] = s[i + 1]
OBVIOUS

(* What a command queued for n does to the channels.                       *)
LEMMA SentTo ==
  ASSUME SessionTypes, AgentSideTypes, NEW n \in PodNodes, NEW c \in Commands,
         Followed!CanSend(n), Followed!Send(n, c)
  PROVE  /\ channel' \in [PodNodes -> Seq(Commands)]
         /\ \A m \in PodNodes : Len(channel'[m]) <= ChannelSize
         /\ channel'[n] = Append(channel[n], c)
         /\ \A m \in PodNodes : m # n => channel'[m] = channel[m]
<1>1. channel[n] \in Seq(Commands) /\ channel' = [channel EXCEPT ![n] = Append(channel[n], c)]
  BY DEF AgentSideTypes, Followed!Send
<1>2. Append(channel[n], c) \in Seq(Commands) /\ Len(Append(channel[n], c)) = Len(channel[n]) + 1
  BY <1>1, CommandAdded
<1>3. Len(channel[n]) < ChannelSize /\ Len(channel[n]) \in Nat
  BY <1>1 DEF Followed!CanSend
<1>4. Len(Append(channel[n], c)) <= ChannelSize
  BY <1>2, <1>3, Numbers
<1>5. \A m \in PodNodes : channel'[m] = IF m = n THEN Append(channel[n], c) ELSE channel[m]
  BY <1>1 DEF AgentSideTypes
<1>6. QED
  BY <1>1, <1>2, <1>4, <1>5 DEF AgentSideTypes

(* What a delivery leaves in the channels.                                 *)
LEMMA TakenFrom ==
  ASSUME AgentSideTypes, NEW n \in PodNodes, Followed!Deliver(n)
  PROVE  /\ channel[n] \in Seq(Commands) /\ channel[n] # <<>>
         /\ channel' \in [PodNodes -> Seq(Commands)]
         /\ \A m \in PodNodes : Len(channel'[m]) <= ChannelSize
         /\ channel'[n] = Tail(channel[n])
         /\ \A m \in PodNodes : m # n => channel'[m] = channel[m]
<1>1. /\ channel[n] \in Seq(Commands) /\ channel[n] # <<>>
      /\ channel' = [channel EXCEPT ![n] = Tail(channel[n])]
  BY DEF AgentSideTypes, Followed!Deliver
<1>2. Tail(channel[n]) \in Seq(Commands) /\ Len(Tail(channel[n])) <= Len(channel[n])
      /\ Len(channel[n]) \in Nat /\ Len(Tail(channel[n])) \in Nat
  BY <1>1, CommandTaken
<1>3. Len(Tail(channel[n])) <= ChannelSize
  BY <1>2, Numbers DEF AgentSideTypes
<1>4. \A m \in PodNodes : channel'[m] = IF m = n THEN Tail(channel[n]) ELSE channel[m]
  BY <1>1 DEF AgentSideTypes
<1>5. QED
  BY <1>1, <1>2, <1>3, <1>4 DEF AgentSideTypes

\* All there is of sources is of pods that were seen, where they run.
FollowInv == ClusterInv /\ SessionTypes /\ AgentSideTypes /\ TasksInv /\ PlaceInv

(* A source stays one of a pod that was seen, on its node.                 *)
LEMMA PlacedStill ==
  ASSUME Lasting, NEW r \in Followed!Sources, Placed(r) PROVE Placed(r)'
BY DEF Lasting, Placed, Seen, Followed!Sources

(* The source that is set replaces the pod's earlier one.                  *)
LEMMA Replaced ==
  ASSUME NEW S \in SUBSET Followed!Sources, NEW r \in Followed!Sources, Unique(S)
  PROVE  Unique(Followed!Without(S, r.uid) \cup {r}) /\ Unique(Followed!Without(S, r.uid))
BY DEF Unique, Followed!Without

(* The runtime keeps one source of a pod, where the pod runs.              *)
LEMMA RuntimeStep ==
  ASSUME FollowInv, Followed!Next
  PROVE  /\ Unique(runtime') /\ \A r \in runtime' : Placed(r)'
<1>0. /\ Lasting /\ runtime \subseteq Followed!Sources /\ Unique(runtime)
      /\ \A r \in runtime : Placed(r)
  BY ClusterStep DEF FollowInv, SessionTypes, PlaceInv
<1>1. ASSUME runtime' \subseteq runtime
      PROVE  Unique(runtime') /\ \A r \in runtime' : Placed(r)'
  BY <1>0, <1>1, PlacedStill DEF Unique
<1>2. ASSUME NEW q \in Followed!Procs, Sets(q)
      PROVE  Unique(runtime') /\ \A r \in runtime' : Placed(r)'
  BY <1>0, <1>2, PlacedStill, Replaced DEF Sets, Followed!Without
<1>3. runtime' \subseteq runtime \/ \E q \in Followed!Procs : Sets(q)
  <2>1. Elsewhere => runtime' = runtime
    BY DEF Elsewhere
  <2>2. \A q : Looks(q) \/ Passes(q) \/ (\E r \in proc[q].todo : Sends(q, r))
                  => runtime' = runtime
    BY DEF Looks, Passes, Elsewhere, Sends
  <2>3. Decides => runtime' = runtime
    BY DEF Decides, Elsewhere
  <2>4. \A r : Stops(r) => runtime' \subseteq runtime
    BY DEF Stops, Followed!Without
  <2>5. \A n : Joins(n) \/ Followed!Deliver(n) => runtime' = runtime
    BY DEF Joins, Followed!Deliver, Elsewhere
  <2>6. Followed!CaptureFails \/ Followed!CaptureStatus => runtime' \subseteq runtime
    BY DEF Followed!CaptureFails, Followed!CaptureStatus, Followed!Without
  <2>7. QED
    BY <2>1, <2>2, <2>3, <2>4, <2>5, <2>6, MoveCases DEF FollowInv
<1>4. QED
  BY <1>1, <1>2, <1>3

ChannelPlaces ==
    \A n \in PodNodes : \A i \in 1..Len(channel[n]) :
       Placed(channel[n][i].src) /\ channel[n][i].src.node = n

\* Placed, after the step.
PlacedThen(r) == pods'[r.uid].state # "none" /\ r.node = pods'[r.uid].node

(* Every command stays on the node of its pod, and the channels within     *)
(* their capacity.                                                         *)
LEMMA ChannelsStep ==
  ASSUME FollowInv, Followed!Next
  PROVE  /\ channel' \in [PodNodes -> Seq(Commands)]
         /\ \A n \in PodNodes : Len(channel'[n]) <= ChannelSize
         /\ ChannelPlaces'
<1>0. Lasting /\ channel \in [PodNodes -> Seq(Commands)] /\ ChannelPlaces
      /\ \A n \in PodNodes : Len(channel[n]) <= ChannelSize
  BY ClusterStep DEF FollowInv, AgentSideTypes, PlaceInv, ChannelPlaces
<1> DEFINE Goal == /\ channel' \in [PodNodes -> Seq(Commands)]
                   /\ \A n \in PodNodes : Len(channel'[n]) <= ChannelSize
                   /\ ChannelPlaces'
<1>1. ASSUME NEW n \in PodNodes, NEW i \in 1..Len(channel[n])
      PROVE  /\ channel[n][i] \in Commands /\ channel[n][i].src.node = n
             /\ PlacedThen(channel[n][i].src) /\ Placed(channel[n][i].src)
  <2>1. channel[n] \in Seq(Commands)
    BY <1>0
  <2>2. channel[n][i] \in Commands
    BY <2>1
  <2>3. channel[n][i].src \in Followed!Sources /\ Placed(channel[n][i].src)
        /\ channel[n][i].src.node = n
    BY <1>0, <2>2 DEF Commands, ChannelPlaces
  <2>4. QED
    BY <1>0, <2>2, <2>3, PlacedStill DEF Placed, Seen, PlacedThen
<1>2. CASE UNCHANGED channel
  BY <1>0, <1>1, <1>2 DEF ChannelPlaces, PlacedThen, Placed, Seen
<1>3. ASSUME NEW r \in Followed!Sources, Placed(r), NEW o \in {"start", "stop"},
             Followed!CanSend(r.node), Followed!Send(r.node, [op |-> o, src |-> r])
      PROVE  Goal
  <2> DEFINE c == [op |-> o, src |-> r]
             n == r.node
  <2>1. n \in PodNodes /\ c \in Commands /\ c.src = r
    BY <1>3 DEF Followed!Sources, Commands
  <2>2. PlacedThen(r)
    BY <1>0, <1>3, PlacedStill DEF Placed, Seen, PlacedThen
  <2> HIDE DEF c, n
  <2>3. /\ channel' \in [PodNodes -> Seq(Commands)]
        /\ \A m \in PodNodes : Len(channel'[m]) <= ChannelSize
        /\ channel'[n] = Append(channel[n], c)
        /\ \A m \in PodNodes : m # n => channel'[m] = channel[m]
    <3>1. Followed!CanSend(n) /\ Followed!Send(n, c)
      BY <1>3 DEF c, n
    <3>2. QED
      BY <2>1, <3>1, SentTo DEF FollowInv
  <2>4. ASSUME NEW m \in PodNodes, NEW i \in 1..Len(channel'[m])
        PROVE  PlacedThen(channel'[m][i].src) /\ channel'[m][i].src.node = m
    <3>1. CASE m # n
      BY <1>1, <2>3, <2>4, <3>1
    <3>2. CASE m = n
      <4>1. channel[n] \in Seq(Commands) /\ Len(channel'[n]) = Len(channel[n]) + 1
            /\ (\A j \in 1..Len(channel[n]) : channel'[n][j] = channel[n][j])
            /\ channel'[n][Len(channel[n]) + 1] = c
        BY <1>0, <2>1, <2>3, CommandAdded
      <4>2. CASE i \in 1..Len(channel[n])
        BY <1>1, <2>1, <3>2, <4>1, <4>2
      <4>3. CASE i = Len(channel[n]) + 1
        BY <2>1, <2>2, <3>2, <4>1, <4>3 DEF n
      <4>4. QED
        <5>1. Len(channel[n]) \in Nat
          BY <4>1
        <5>2. QED
          BY <2>4, <3>2, <4>1, <4>2, <4>3, <5>1
    <3>3. QED
      BY <3>1, <3>2
  <2>5. ChannelPlaces'
    BY <2>4 DEF ChannelPlaces, PlacedThen, Placed, Seen
  <2>6. QED
    BY <2>3, <2>5
<1>4. ASSUME NEW n \in PodNodes, Followed!Deliver(n) PROVE Goal
  <2>1. /\ channel[n] \in Seq(Commands) /\ channel[n] # <<>>
        /\ channel' \in [PodNodes -> Seq(Commands)]
        /\ \A m \in PodNodes : Len(channel'[m]) <= ChannelSize
        /\ channel'[n] = Tail(channel[n])
        /\ \A m \in PodNodes : m # n => channel'[m] = channel[m]
    BY <1>4, TakenFrom DEF FollowInv
  <2>2. ASSUME NEW m \in PodNodes, NEW i \in 1..Len(channel'[m])
        PROVE  PlacedThen(channel'[m][i].src) /\ channel'[m][i].src.node = m
    <3>1. CASE m # n
      BY <1>1, <2>1, <2>2, <3>1
    <3>2. CASE m = n
      <4>1. /\ Len(channel[n]) \in Nat \ {0} /\ Len(channel'[n]) = Len(channel[n]) - 1
            /\ \A j \in 1..Len(channel'[n]) : channel'[n][j] = channel[n][j + 1]
        BY <2>1, CommandTaken
      <4>2. i + 1 \in 1..Len(channel[n]) /\ channel'[n][i] = channel[n][i + 1]
        BY <2>2, <3>2, <4>1
      <4>3. QED
        BY <1>1, <3>2, <4>2
    <3>3. QED
      BY <3>1, <3>2
  <2>3. QED
    BY <2>1, <2>2 DEF ChannelPlaces, PlacedThen, Placed, Seen
<1> HIDE DEF Goal
<1>5. ASSUME UNCHANGED channel PROVE Goal
  BY <1>2, <1>5 DEF Goal
<1>6. \A q : Looks(q) \/ Passes(q) \/ Sets(q) => UNCHANGED channel
  BY DEF Looks, Passes, Sets, Elsewhere
<1>7. \A q \in Followed!Procs : \A r \in proc[q].todo : Sends(q, r) => Goal
  BY <1>3 DEF Sends
<1>8. \A r : Stops(r) => Goal
  BY <1>3, <1>5 DEF Stops
<1>9. Elsewhere \/ Decides \/ Followed!CaptureFails \/ Followed!CaptureStatus
         => UNCHANGED channel
  BY DEF Elsewhere, Decides, Followed!CaptureFails, Followed!CaptureStatus
<1>10. \A n \in PodNodes : Joins(n) => UNCHANGED channel
  BY DEF Joins, Elsewhere
<1>11. Goal
  BY <1>4, <1>5, <1>6, <1>7, <1>8, <1>9, <1>10, MoveCases DEF FollowInv
<1>12. QED
  BY <1>11 DEF Goal

(* What is captured was sent by a command of its node.                     *)
LEMMA CapturedStep ==
  ASSUME FollowInv, Followed!Next
  PROVE  /\ captured' \subseteq Followed!Sources /\ failed' \subseteq Uids
         /\ trouble' \in {"none", "forgot", "replayed"}
         /\ Unique(captured') /\ \A r \in captured' : Placed(r)'
<1>0. /\ Lasting /\ captured \subseteq Followed!Sources /\ failed \subseteq Uids
      /\ trouble \in {"none", "forgot", "replayed"}
      /\ Unique(captured) /\ \A r \in captured : Placed(r)
  BY ClusterStep DEF FollowInv, AgentSideTypes, PlaceInv
<1> DEFINE Goal == /\ captured' \subseteq Followed!Sources
                   /\ Unique(captured') /\ \A r \in captured' : Placed(r)'
           Also == failed' \subseteq Uids /\ trouble' \in {"none", "forgot", "replayed"}
<1>1. captured' \subseteq captured => Goal
  BY <1>0, PlacedStill DEF Unique
<1>2. ASSUME NEW n \in PodNodes, Followed!Deliver(n) PROVE Goal /\ Also
  <2>1. PICK c \in Commands :
          /\ Placed(c.src)
          /\ captured' = IF c.op = "stop" THEN Followed!Without(captured, c.src.uid)
                         ELSE IF c.src.uid \in Followed!Ids(captured) THEN captured
                         ELSE captured \cup {c.src}
    <3>1. channel[n] \in Seq(Commands) /\ channel[n] # <<>>
      BY <1>2, TakenFrom DEF FollowInv
    <3>2. Head(channel[n]) = channel[n][1] /\ Head(channel[n]) \in Commands
          /\ 1 \in 1..Len(channel[n])
      BY <3>1, CommandTaken
    <3>3. Placed(Head(channel[n]).src)
      BY <3>2 DEF FollowInv, PlaceInv
    <3>4. QED
      BY <1>2, <3>2, <3>3 DEF Followed!Deliver
  <2>2. Also
    BY <1>0, <1>2 DEF Followed!Deliver
  <2>3. CASE captured' = captured \cup {c.src} /\ c.src.uid \notin Followed!Ids(captured)
    <3>1. c.src \in Followed!Sources /\ Placed(c.src)'
      BY <1>0, <2>1, PlacedStill DEF Commands
    <3>2. Unique(captured')
      BY <1>0, <2>3 DEF Unique, Followed!Ids
    <3>3. captured' \subseteq Followed!Sources /\ \A r \in captured' : Placed(r)'
      BY <1>0, <2>3, <3>1, PlacedStill
    <3>4. QED
      BY <2>2, <3>2, <3>3
  <2>4. CASE captured' \subseteq captured
    BY <1>1, <2>2, <2>4
  <2>5. QED
    BY <2>1, <2>3, <2>4 DEF Followed!Without
<1>3. ASSUME UNCHANGED <<captured, failed>>, trouble' \in {"none", "forgot", "replayed"}
      PROVE  Goal /\ Also
  BY <1>0, <1>1, <1>3
<1>4. CASE Followed!CaptureFails
  <2>1. captured' \subseteq captured /\ Also
    BY <1>0, <1>4 DEF Followed!CaptureFails, Followed!Sources
  <2>2. QED
    BY <1>1, <2>1
<1>5. CASE Followed!CaptureStatus
  BY <1>0, <1>1, <1>5 DEF Followed!CaptureStatus, Followed!Forgot
<1> DEFINE Both == Goal /\ Also
<1> HIDE DEF Goal, Also, Both
<1>6. \A q : Looks(q) \/ Passes(q) \/ Sets(q) => Both
  BY <1>0, <1>3 DEF Looks, Passes, Sets, Elsewhere, Both
<1>7. \A q \in Followed!Procs : \A r \in proc[q].todo : Sends(q, r) => Both
  BY <1>0, <1>3 DEF Sends, Both
<1>8. \A r : Stops(r) => Both
  BY <1>0, <1>3 DEF Stops, Both
<1>9. Elsewhere \/ Decides => Both
  BY <1>0, <1>3 DEF Elsewhere, Decides, Both
<1>10. \A n \in PodNodes : Joins(n) => Both
  BY <1>0, <1>3 DEF Joins, Elsewhere, Both
<1>11. \A n \in PodNodes : Followed!Deliver(n) => Both
  BY <1>2 DEF Both
<1>12. Followed!CaptureFails \/ Followed!CaptureStatus => Both
  BY <1>4, <1>5 DEF Both, Goal, Also
<1>13. Both
  BY <1>6, <1>7, <1>8, <1>9, <1>10, <1>11, <1>12, MoveCases DEF FollowInv
<1>14. QED
  BY <1>13 DEF Goal, Also, Both

(* Types and places are kept by every step.                                *)
LEMMA FollowStep == ASSUME FollowInv, Followed!Next PROVE FollowInv'
<1>1. ClusterInv' /\ SessionTypes' /\ TasksInv'
  BY ClusterStep, TasksStep DEF FollowInv
<1>2. AgentSideTypes' /\ PlaceInv'
  BY ChannelsStep, CapturedStep, RuntimeStep DEF AgentSideTypes, PlaceInv, ChannelPlaces
<1>3. QED
  BY <1>1, <1>2 DEF FollowInv

-----------------------------------------------------------------------------
(* Limits and incarnations.                                                *)

(* The cardinality the model counts with is that of the theorems.          *)
LEMMA SameCount == \A S : Followed!Cardinality(S) = Cardinality(S)
BY DEF Followed!Cardinality, Cardinality

(* Sources are finitely many.                                              *)
LEMMA SourcesFinite == IsFiniteSet(Followed!Sources)
<1>1. IsFiniteSet(Uids) /\ IsFiniteSet(PodNodes)
  BY FollowedAssumption
<1>2. IsFiniteSet(BOOLEAN)
  <2>1. IsFiniteSet({TRUE})
    <3>1. IsFiniteSet({} \cup {TRUE})
      BY FS_EmptySet, FS_AddElement
    <3>2. {} \cup {TRUE} = {TRUE}
      OBVIOUS
    <3>3. QED
      BY <3>1, <3>2
  <2>2. IsFiniteSet({TRUE} \cup {FALSE})
    BY <2>1, FS_AddElement
  <2>3. {TRUE} \cup {FALSE} = BOOLEAN
    OBVIOUS
  <2>4. QED
    BY <2>2, <2>3
<1>3. IsFiniteSet(Uids \X PodNodes)
  BY <1>1, FS_Product
<1> DEFINE T == (Uids \X PodNodes) \X BOOLEAN
           f == [r \in Followed!Sources |-> <<<<r.uid, r.node>>, r.iface>>]
<1>4. IsFiniteSet(T)
  BY <1>2, <1>3, FS_Product
<1>5. f \in [Followed!Sources -> T]
  BY DEF Followed!Sources
<1>6. ASSUME NEW r \in Followed!Sources, NEW s \in Followed!Sources, f[r] = f[s]
      PROVE  r = s
  BY <1>6 DEF Followed!Sources
<1>7. f \in Injection(Followed!Sources, T)
  <2> HIDE DEF f, T
  <2>1. QED
    BY <1>5, <1>6 DEF Injection, IsInjective
<1>8. QED
  BY <1>4, <1>7, FS_Injection

(* A limit that some sources keep, fewer keep.                             *)
LEMMA LimitsShrink ==
  ASSUME ClusterInv, NEW T \in SUBSET Followed!Sources, NEW S \in SUBSET T,
         Followed!WithinLimits(T)
  PROVE  Followed!WithinLimits(S)
<1>1. ASSUME NEW A \in SUBSET Followed!Sources, NEW B \in SUBSET A
      PROVE  Followed!Cardinality(B) <= Followed!Cardinality(A)
                /\ Followed!Cardinality(A) \in Nat /\ Followed!Cardinality(B) \in Nat
  <2>1. IsFiniteSet(A)
    BY SourcesFinite, FS_Subset
  <2>2. IsFiniteSet(B) /\ Cardinality(B) <= Cardinality(A)
    BY <2>1, FS_Subset
  <2>3. QED
    BY <2>1, <2>2, FS_CardinalityType, SameCount
<1>2. ASSUME NEW A \in SUBSET PodNodes PROVE Followed!Cardinality(A) \in Nat
  <2>1. IsFiniteSet(A)
    BY FollowedAssumption, FS_Subset
  <2>2. QED
    BY <2>1, FS_CardinalityType, SameCount
<1>3. others \subseteq PodNodes
  <2>1. <<target, others>> \in Shapes
    BY DEF ClusterInv, ClusterTypes
  <2>2. <<target, others>>[2] \subseteq PodNodes
    BY <2>1, FollowedAssumption
  <2>3. QED
    BY <2>2
<1>4. /\ Followed!Cardinality(S) <= Followed!Cardinality(T)
      /\ Followed!Cardinality(T) \in Nat /\ Followed!Cardinality(S) \in Nat
      /\ Followed!Cardinality(others) \in Nat
  BY <1>1, <1>2, <1>3
<1>5. ASSUME NEW n \in PodNodes
      PROVE  Followed!Cardinality({r \in S : r.node = n})
                + Followed!Cardinality({n} \cap PodInterfaces)
                + Followed!Cardinality({n} \cap others) <= NodeSources
  <2> DEFINE A == {r \in T : r.node = n}
             B == {r \in S : r.node = n}
             x == Followed!Cardinality({n} \cap PodInterfaces)
             y == Followed!Cardinality({n} \cap others)
  <2>1. A \in SUBSET Followed!Sources /\ B \in SUBSET A
    OBVIOUS
  <2>2. /\ Followed!Cardinality(B) <= Followed!Cardinality(A)
        /\ Followed!Cardinality(A) \in Nat /\ Followed!Cardinality(B) \in Nat
    BY <1>1, <2>1
  <2>3. x \in Nat /\ y \in Nat
    BY <1>2
  <2>4. Followed!Cardinality(A) + x + y <= NodeSources
    BY DEF Followed!WithinLimits, Followed!Fits
  <2> HIDE DEF A, B, x, y
  <2>5. Followed!Cardinality(B) + x + y <= NodeSources
    BY <2>2, <2>3, <2>4, Numbers
  <2>6. QED
    BY <2>5 DEF B, x, y
<1>6. QED
  BY <1>4, <1>5, Numbers DEF Followed!WithinLimits, Followed!Fits

(* A lawful set of sources stays one, whatever the cluster does.           *)
LEMMA LawStays ==
  ASSUME ClusterInv, Lasting, NEW L \in SUBSET {r \in Followed!Sources : Placed(r)}, Lawful(L)
  PROVE  Lawful(L)' /\ L \in SUBSET {r \in Followed!Sources : Placed(r)'}
<1>1. \A r \in L : /\ r.uid \in Uids /\ Seen(r.uid) /\ Placed(r)'
                  /\ Followed!WorkloadOf(r.uid)' = Followed!WorkloadOf(r.uid)
  BY PlacedStill DEF Placed, Lasting, Followed!Sources
<1>2. Unique(L)'
  BY DEF Lawful, Unique
<1>3. Kin(L)'
  BY <1>1 DEF Lawful, Kin
<1>4. Followed!WithinLimits(L)'
  BY DEF Lawful, Lasting, Followed!WithinLimits, Followed!Fits
<1>5. QED
  BY <1>1, <1>2, <1>3, <1>4 DEF Lawful

(* The plan after a step is what a lawful set allows.                      *)
LEMMA PlanHeld ==
  ASSUME ClusterInv, Lasting, NEW L \in SUBSET {r \in Followed!Sources : Placed(r)}, Lawful(L),
         NEW R, R = runtime', NEW k, k = proc'["loop"], NEW c,
         c = (IF k.at = "set" THEN {k.cur} ELSE {}),
         Followed!WithinLimits(R), (R \ k.drop) \cup k.todo \cup c \subseteq L,
         k.todo \cap R = {}, c \cap (k.todo \cup R) = {},
         \A n \in PodNodes : proc'[n].at # "set"
  PROVE  PlanInv'
<1>1. Followed!WithinLimits(R)'
  BY DEF Lasting, Followed!WithinLimits, Followed!Fits
<1>2. Lawful(L)' /\ L \in SUBSET {r \in Followed!Sources : Placed(r)'}
  BY LawStays
<1>3. Plan(R, k)'
  BY <1>1, <1>2 DEF Plan
<1>4. QED
  BY <1>3 DEF PlanInv, Plan

(* The same when the runtime and what the goroutine has to do shrink.      *)
LEMMA PlanLess ==
  ASSUME FollowInv, Lasting, Plan(runtime, proc["loop"]),
         NEW R \in SUBSET runtime, R = runtime', NEW k, k = proc'["loop"],
         proc["loop"].at # "set" => k.at # "set",
         k.at = "set" => k.cur = proc["loop"].cur,
         R \ k.drop \subseteq runtime \ proc["loop"].drop,
         k.todo \subseteq proc["loop"].todo,
         \A n \in PodNodes : proc'[n].at # "set"
  PROVE  PlanInv'
<1> DEFINE h == proc["loop"]
           c == IF h.at = "set" THEN {h.cur} ELSE {}
           d == IF k.at = "set" THEN {k.cur} ELSE {}
<1>1. PICK L \in SUBSET {r \in Followed!Sources : Placed(r)} :
         Lawful(L) /\ (runtime \ h.drop) \cup h.todo \cup c \subseteq L
  BY DEF Plan
<1>2. Followed!WithinLimits(R)
  BY LimitsShrink DEF Plan, FollowInv, SessionTypes
<1>3. d \subseteq c
  OBVIOUS
<1>4. h.todo \cap runtime = {} /\ c \cap (h.todo \cup runtime) = {}
  BY DEF Plan
<1> HIDE DEF h, c
<1>5. k.todo \subseteq h.todo /\ R \ k.drop \subseteq runtime \ h.drop
  BY DEF h
<1>6. k.todo \cap R = {} /\ d \cap (k.todo \cup R) = {}
  BY <1>3, <1>4, <1>5
<1>7. (R \ k.drop) \cup k.todo \cup d \subseteq L
  BY <1>1, <1>3, <1>5
<1> HIDE DEF d
<1>8. d = IF k.at = "set" THEN {k.cur} ELSE {}
  BY DEF d
<1>9. ClusterInv
  BY DEF FollowInv
<1>10. QED
  BY <1>1, <1>2, <1>6, <1>7, <1>8, <1>9, PlanHeld

(* Only one goroutine's task changes in a step.                            *)
LEMMA TaskAt ==
  ASSUME SessionTypes, NEW q \in Followed!Procs, NEW t, proc' = [proc EXCEPT ![q] = t]
  PROVE  /\ proc'[q] = t
         /\ \A s \in Followed!Procs : s # q => proc'[s] = proc[s]
BY DEF SessionTypes

(* The plan holds after every step: what a tick decides is lawful, and it  *)
(* stops what is not in it before it starts what is.                       *)
LEMMA PlanStep == ASSUME FollowInv, PlanInv, Followed!Next PROVE PlanInv'
<1> DEFINE h == proc["loop"]
<1>0. /\ ClusterInv /\ Lasting /\ SessionTypes /\ "loop" \in Followed!Procs
      /\ "loop" \notin PodNodes /\ PodNodes \subseteq Followed!Procs
      /\ h \in Tasks /\ TaskOK(h)
  BY ClusterStep, LoopName DEF FollowInv, SessionTypes, TasksInv
<1>1. ASSUME trouble # "replayed"
      PROVE  Plan(runtime, proc["loop"]) /\ \A n \in PodNodes : proc[n].at # "set"
  BY <1>1 DEF PlanInv
<1>2. ASSUME trouble' # "replayed" => trouble # "replayed",
             runtime' \subseteq runtime, UNCHANGED proc
      PROVE  PlanInv'
  <2>1. CASE trouble # "replayed"
    BY <1>0, <1>1, <1>2, <2>1, PlanLess
  <2>2. CASE trouble' = "replayed"
    BY <2>2 DEF PlanInv
  <2>3. QED
    BY <1>2, <2>1, <2>2
<1>3. ASSUME NEW q \in Followed!Procs, NEW t, proc' = [proc EXCEPT ![q] = t], t.at # "set",
             UNCHANGED <<runtime, trouble>>,
             q = "loop" => t.drop = {} /\ h.drop = {} /\ t.todo \subseteq h.todo
      PROVE  PlanInv'
  <2>1. CASE trouble = "replayed"
    BY <1>3, <2>1 DEF PlanInv
  <2>2. CASE trouble # "replayed"
    <3>1. proc'[q] = t /\ \A s \in Followed!Procs : s # q => proc'[s] = proc[s]
      BY <1>0, <1>3, TaskAt
    <3>2. \A n \in PodNodes : proc'[n].at # "set"
      BY <1>0, <1>1, <1>3, <2>2, <3>1
    <3>3. CASE q = "loop"
      BY <1>0, <1>1, <1>3, <2>2, <3>1, <3>2, <3>3, PlanLess
    <3>4. CASE q # "loop"
      <4>1. proc'["loop"] = h
        BY <1>0, <3>1, <3>4
      <4>2. QED
        BY <1>0, <1>1, <1>3, <2>2, <3>2, <4>1, PlanLess
    <3>5. QED
      BY <3>3, <3>4
  <2>3. QED
    BY <2>1, <2>2
<1>4. ASSUME NEW q \in Followed!Procs, Looks(q) PROVE PlanInv'
  <2>1. PICK t \in Tasks : proc' = [proc EXCEPT ![q] = t] /\ TaskOK(t) /\ t.at \notin Busy
    BY <1>4 DEF Looks
  <2>2. t.drop = {} /\ t.todo = {} /\ t.at # "set"
    BY <2>1 DEF TaskOK, Busy
  <2>3. UNCHANGED <<runtime, trouble>> /\ (q = "loop" => h.drop = {})
    BY <1>0, <1>4 DEF Looks, Elsewhere, TaskOK, Busy
  <2>4. QED
    BY <1>3, <2>1, <2>2, <2>3
<1>5. ASSUME NEW q \in Followed!Procs, Passes(q) PROVE PlanInv'
  BY <1>3, <1>5 DEF Passes, Elsewhere
<1>6. ASSUME NEW n \in PodNodes, Joins(n) PROVE PlanInv'
  <2>1. CASE UNCHANGED proc
    BY <1>2, <1>6, <2>1 DEF Joins, Elsewhere
  <2>2. CASE \E t \in Tasks : proc' = [proc EXCEPT ![n] = t] /\ TaskOK(t) /\ t.at \notin Busy
    BY <1>0, <1>3, <1>6, <2>2 DEF Joins, Elsewhere, Busy
  <2>3. QED
    BY <1>6, <2>1, <2>2 DEF Joins
<1>7. ASSUME NEW q \in Followed!Procs, Sets(q) PROVE PlanInv'
  <2>1. CASE trouble = "replayed"
    BY <1>7, <2>1 DEF Sets, PlanInv
  <2>2. CASE trouble # "replayed"
    <3>1. q = "loop" /\ h.at = "set"
      BY <1>0, <1>1, <1>7, <2>2 DEF Sets, Followed!Procs, Followed!Loop
    <3>2. PICK t \in Tasks :
             /\ proc' = [proc EXCEPT !["loop"] = t] /\ t.at # "set"
             /\ t.drop = {} /\ h.drop = {} /\ t.todo = h.todo
      BY <1>7, <3>1 DEF Sets
    <3>3. proc'["loop"] = t /\ \A n \in PodNodes : proc'[n].at # "set"
      BY <1>0, <1>1, <2>2, <3>2, TaskAt
    <3>4. PICK R : R = runtime'
      OBVIOUS
    <3>5. R = Followed!Without(runtime, h.cur.uid) \cup {h.cur} /\ h.cur \in Followed!Sources
      BY <1>7, <3>1, <3>4 DEF Sets
    <3>6. PICK L \in SUBSET {r \in Followed!Sources : Placed(r)} :
             Lawful(L) /\ runtime \cup h.todo \cup {h.cur} \subseteq L
      BY <1>1, <2>2, <3>1, <3>2 DEF Plan
    <3>7. R \subseteq L /\ h.todo \subseteq L /\ R \subseteq runtime \cup {h.cur}
      BY <3>5, <3>6 DEF Followed!Without
    <3>8. Followed!WithinLimits(R)
      BY <1>0, <3>6, <3>7, LimitsShrink DEF Lawful
    <3>9. t.todo \cap R = {}
      BY <1>1, <2>2, <3>1, <3>2, <3>7 DEF Plan
    <3> HIDE DEF h
    <3>10. (R \ t.drop) \cup t.todo \cup {} \subseteq L /\ {} \cap (t.todo \cup R) = {}
           /\ {} = IF t.at = "set" THEN {t.cur} ELSE {}
      BY <3>2, <3>7
    <3>11. QED
      BY <1>0, <3>3, <3>4, <3>6, <3>8, <3>9, <3>10, PlanHeld
  <2>3. QED
    BY <2>1, <2>2
<1>8. ASSUME NEW q \in Followed!Procs, NEW r \in proc[q].todo, Sends(q, r) PROVE PlanInv'
  <2>1. CASE trouble' = "replayed"
    BY <2>1 DEF PlanInv
  <2>2. CASE trouble' # "replayed"
    <3>1. q = "loop" /\ trouble # "replayed" /\ h.at = "start" /\ r \in h.todo
          /\ h.drop = {}
      BY <1>0, <1>8, <2>2 DEF Sends, TaskOK
    <3>2. PICK t \in Tasks : /\ proc' = [proc EXCEPT !["loop"] = t] /\ t.at = "set"
                             /\ t.cur = r /\ t.drop = {} /\ t.todo = h.todo \ {r}
      BY <1>8, <3>1 DEF Sends
    <3>a. proc'["loop"] = t /\ \A n \in PodNodes : proc'[n] = proc[n]
      BY <1>0, <3>2, TaskAt
    <3>b. \A n \in PodNodes : proc[n].at # "set"
      BY <1>1, <3>1
    <3>3. proc'["loop"] = t /\ \A n \in PodNodes : proc'[n].at # "set"
      BY <3>a, <3>b
    <3>4. PICK R : R = runtime' /\ R = runtime
      BY <1>8 DEF Sends
    <3>5. PICK L \in SUBSET {s \in Followed!Sources : Placed(s)} :
             Lawful(L) /\ runtime \cup h.todo \subseteq L
      BY <1>1, <3>1 DEF Plan
    <3>6. Followed!WithinLimits(R) /\ h.todo \cap R = {}
      BY <1>1, <3>1, <3>4 DEF Plan
    <3> HIDE DEF h
    <3>7. /\ (R \ t.drop) \cup t.todo \cup {r} \subseteq L /\ {r} \cap (t.todo \cup R) = {}
          /\ {r} = IF t.at = "set" THEN {t.cur} ELSE {}
          /\ t.todo \cap R = {}
      BY <3>1, <3>2, <3>4, <3>5, <3>6
    <3>8. QED
      BY <1>0, <3>3, <3>4, <3>5, <3>6, <3>7, PlanHeld
  <2>3. QED
    BY <2>1, <2>2
<1>9. ASSUME Decides PROVE PlanInv'
  <2>1. CASE trouble = "replayed"
    BY <1>9, <2>1 DEF Decides, Elsewhere, PlanInv
  <2>2. CASE trouble # "replayed"
    <3>1. PICK t \in Tasks :
             /\ proc' = [proc EXCEPT !["loop"] = t] /\ t.at # "set"
             /\ t.drop = runtime \ h.list /\ t.todo = h.list \ runtime
      BY <1>9 DEF Decides
    <3>2. proc'["loop"] = t /\ \A n \in PodNodes : proc'[n].at # "set"
      BY <1>0, <1>1, <2>2, <3>1, TaskAt
    <3>3. PICK R : R = runtime' /\ R = runtime
      BY <1>9 DEF Decides, Elsewhere
    <3>4. PICK L : L = h.list
      OBVIOUS
    <3>5. L \in SUBSET {s \in Followed!Sources : Placed(s)} /\ Lawful(L)
      BY <1>0, <1>9, <3>4 DEF Decides, TaskOK, Lawful
    <3>6. Followed!WithinLimits(R)
      BY <1>1, <2>2, <3>3 DEF Plan
    <3> HIDE DEF h
    <3>7. /\ (R \ t.drop) \cup t.todo \cup {} \subseteq L /\ {} \cap (t.todo \cup R) = {}
          /\ {} = IF t.at = "set" THEN {t.cur} ELSE {}
          /\ t.todo \cap R = {}
      BY <3>1, <3>3, <3>4
    <3>8. QED
      BY <1>0, <3>2, <3>3, <3>5, <3>6, <3>7, PlanHeld
  <2>3. QED
    BY <2>1, <2>2
<1>10. ASSUME h.at = "prune", NEW r \in h.drop, Stops(r) PROVE PlanInv'
  <2>1. CASE trouble = "replayed"
    BY <1>10, <2>1 DEF Stops, PlanInv
  <2>2. CASE trouble # "replayed"
    <3>1. PICK t \in Tasks :
             /\ proc' = [proc EXCEPT !["loop"] = t] /\ t.at # "set"
             /\ t.drop = h.drop \ {r} /\ t.todo = h.todo
      BY <1>10 DEF Stops
    <3>2. proc'["loop"] = t /\ \A n \in PodNodes : proc'[n].at # "set"
      BY <1>0, <1>1, <2>2, <3>1, TaskAt
    <3>3. PICK R : R = runtime'
      OBVIOUS
    <3>4. R \subseteq runtime /\ r \notin R
      BY <1>10, <3>3 DEF Stops, Followed!Without
    <3>5. R \ t.drop \subseteq runtime \ h.drop
      BY <3>1, <3>4
    <3>6. QED
      BY <1>0, <1>1, <2>2, <3>1, <3>2, <3>3, <3>4, <3>5, PlanLess
  <2>3. QED
    BY <2>1, <2>2
<1>11. ASSUME Followed!CaptureFails \/ Followed!CaptureStatus, Apart PROVE PlanInv'
  <2>1. runtime' \subseteq runtime /\ (trouble' # "replayed" => trouble # "replayed")
    BY <1>11 DEF Followed!CaptureFails, Followed!CaptureStatus, Followed!Without,
       Followed!Forgot
  <2>2. QED
    BY <1>2, <1>11, <2>1 DEF Apart
<1>12. ASSUME NEW n \in PodNodes, Followed!Deliver(n) PROVE PlanInv'
  BY <1>2, <1>12 DEF Followed!Deliver
<1>13. ASSUME Elsewhere, Apart PROVE PlanInv'
  BY <1>2, <1>13 DEF Elsewhere, Apart
<1> HIDE DEF h
<1>14. PlanInv' \/ (h.at = "prune" /\ \E r \in h.drop : Stops(r))
  BY <1>4, <1>5, <1>6, <1>7, <1>8, <1>9, <1>11, <1>12, <1>13, MoveCases DEF FollowInv, h
<1>15. QED
  BY <1>10, <1>14

(* Between ticks the runtime is what one lawful set allows.                *)
LEMMA Legal ==
  ASSUME FollowInv, PlanInv PROVE Followed!SourcesAreLegal
<1>1. Followed!LimitsHold
  BY DEF PlanInv, Plan, Followed!LimitsHold, Followed!WithinLimits
<1>2. ASSUME proc["loop"].at = "idle", trouble # "replayed"
      PROVE  \A u, v \in Followed!Ids(runtime) :
                Followed!WorkloadOf(u) = Followed!WorkloadOf(v)
  <2>1. TaskOK(proc["loop"])
    BY LoopName DEF FollowInv, TasksInv
  <2>2. proc["loop"].drop = {}
    BY <1>2, <2>1 DEF TaskOK
  <2>3. PICK L \in SUBSET {r \in Followed!Sources : Placed(r)} :
           Lawful(L) /\ runtime \subseteq L
    BY <1>2, <2>2 DEF PlanInv, Plan
  <2>4. \A r, s \in runtime : Followed!WorkloadOf(r.uid) = Followed!WorkloadOf(s.uid)
    BY <2>3 DEF Lawful, Kin
  <2>5. QED
    BY <2>4 DEF Followed!Ids
<1>3. Followed!OneIncarnation
  BY <1>2, LoopName DEF Followed!OneIncarnation, Followed!At
<1>4. QED
  BY <1>1, <1>3 DEF Followed!SourcesAreLegal

(* The followed session starts without sources, commands and captures.     *)
LEMMA FollowInit == ASSUME Followed!Init PROVE FollowInv /\ PlanInv /\ MatchInv
<1>1. ClusterInv
  <2>1. PICK shape \in Shapes : target = shape[1] /\ others = shape[2]
    BY DEF Followed!Init
  <2>2. <<target, others>> \in Shapes
    BY <2>1, FollowedAssumption
  <2>3. /\ replicas \in [1..MaxOwners -> 0..MaxOwners] /\ replicas[1] = 1
        /\ exists = TRUE /\ owner = 1 /\ changes = 0
    <3>1. /\ replicas = [s \in 1..MaxOwners |-> IF s = 1 THEN 1 ELSE 0]
          /\ exists = TRUE /\ owner = 1 /\ changes = 0
      BY DEF Followed!Init
    <3>2. \A s \in 1..MaxOwners : (IF s = 1 THEN 1 ELSE 0) \in 0..MaxOwners
      BY Numbers
    <3>3. 1 \in 1..MaxOwners
      BY Numbers
    <3>4. QED
      BY <3>1, <3>2, <3>3
  <2>4. ASSUME NEW u \in Uids
        PROVE  \/ pods[u] = Followed!NoPod
               \/ \E n \in PodNodes :
                     pods[u] = [state |-> "up", owner |-> 1, node |-> n, listed |-> FALSE]
    <3>1. pods[u] \in {Followed!NoPod} \cup
              {[Followed!NoPod EXCEPT !.state = "up", !.owner = 1, !.node = n] : n \in PodNodes}
      BY DEF Followed!Init
    <3>2. QED
      BY <3>1, NewPod
  <2>5. pods \in [Uids -> Pods]
    <3>1. ASSUME NEW u \in Uids PROVE pods[u] \in Pods
      <4>1. Followed!NoPod \in Pods
        BY Numbers DEF Pods, Followed!NoPod
      <4>2. \A n \in PodNodes :
               [state |-> "up", owner |-> 1, node |-> n, listed |-> FALSE] \in Pods
        BY Numbers DEF Pods
      <4>3. QED
        BY <2>4, <4>1, <4>2
    <3>2. pods = [u \in Uids |-> pods[u]]
      BY DEF Followed!Init
    <3>3. QED
      BY <3>1, <3>2
  <2>6. PodInv
    <3>1. Followed!NoPod.state = "none"
      BY DEF Followed!NoPod
    <3>2. ASSUME NEW u \in Uids, pods[u].state # "none"
          PROVE  pods[u].node \in PodNodes /\ pods[u].owner = 1
      <4>1. PICK n \in PodNodes :
               pods[u] = [state |-> "up", owner |-> 1, node |-> n, listed |-> FALSE]
        BY <2>4, <3>1, <3>2
      <4>2. QED
        BY <4>1
    <3>3. 1 \in 1..MaxOwners /\ replicas[1] # 0
      BY <2>3, Numbers
    <3>4. QED
      BY <3>2, <3>3 DEF PodInv
  <2>7. QED
    BY <2>2, <2>3, <2>5, <2>6, Numbers DEF ClusterInv, ClusterTypes
<1>2. /\ proc = [q \in Followed!Procs |-> Rest] /\ runtime = {} /\ captured = {}
      /\ failed = {} /\ channel = [n \in PodNodes |-> <<>>] /\ trouble = "none"
      /\ created = "none" /\ connected \subseteq PodNodes
  BY FollowedAssumption DEF Followed!Init, Rest
<1>3. \A q \in Followed!Procs : proc[q] = Rest
  BY <1>2
<1>4. SessionTypes /\ AgentSideTypes /\ PlaceInv
  BY <1>2, <1>3, RestTask, Numbers DEF SessionTypes, AgentSideTypes, PlaceInv, Unique
<1>5. TasksInv
  BY <1>2, <1>3, RestTask, LoopName DEF TasksInv, TaskOK
<1>6. PlanInv
  <2>1. Followed!WithinLimits({})
    <3>1. PICK s \in Shapes : others = s[2]
      BY DEF Followed!Init
    <3>2. Cardinality(others) <= SessionPods /\ Followed!Fits({}, PodInterfaces, others)
          /\ others \subseteq PodNodes /\ IsFiniteSet(PodNodes)
      BY <3>1, FollowedAssumption
    <3>3. Cardinality(others) \in Nat
      BY <3>2, FS_Subset, FS_CardinalityType
    <3>4. Cardinality({}) = 0
      BY FS_EmptySet
    <3>5. QED
      BY <3>2, <3>3, <3>4, SameCount, Numbers DEF Followed!WithinLimits
  <2>2. Lawful({})
    BY <2>1 DEF Lawful, Unique, Kin
  <2>3. Plan({}, Rest)
    BY <2>1, <2>2, RestTask DEF Plan
  <2>4. QED
    BY <1>2, <1>3, <2>3, RestTask, LoopName DEF PlanInv
<1>7. MatchInv
  <2>1. Wanted = {}
    BY <1>2, <1>3, RestTask, LoopName DEF Wanted, Setting
  <2>2. \A n \in PodNodes : Len(channel[n]) = 0
    BY <1>2
  <2>3. \A n \in PodNodes : \A u \in Uids : Silent(channel[n], u)
    BY <2>2 DEF Silent
  <2>4. QED
    BY <1>2, <2>1, <2>2, <2>3 DEF MatchInv, Matched, Running, Released, Leaving, Ordered
<1>8. QED
  BY <1>1, <1>4, <1>5, <1>6, <1>7 DEF FollowInv

-----------------------------------------------------------------------------
(* A node's commands about one pod.                                        *)

(* A command about another pod changes nothing for this one.               *)
LEMMA OthersCommand ==
  ASSUME NEW s \in Seq(Commands), NEW c \in Commands, NEW u, ~About(c, u)
  PROVE  /\ Silent(s, u) => Silent(Append(s, c), u)
         /\ Stopped(s, u) => Stopped(Append(s, c), u)
         /\ \A r : r.uid = u /\ Started(s, r) => Started(Append(s, c), r)
<1> DEFINE t == Append(s, c)
<1>1. /\ Len(s) \in Nat /\ Len(t) = Len(s) + 1
      /\ \A i \in 1..Len(s) : t[i] = s[i]
      /\ t[Len(s) + 1] = c
  BY CommandAdded
<1> HIDE DEF t
<1>2. \A i \in 1..Len(t) : i \in 1..Len(s) \/ (i = Len(s) + 1 /\ ~About(t[i], u))
  BY <1>1
<1>3. \A i \in 1..Len(s) : i \in 1..Len(t) /\ t[i] = s[i]
  BY <1>1
<1>4. \A i \in 1..Len(s) : Ends(s, u, i) => Ends(t, u, i)
  BY <1>1, <1>2, <1>3 DEF Ends
<1>5. Silent(s, u) => Silent(t, u)
  BY <1>2, <1>3 DEF Silent
<1>6. Stopped(s, u) => Stopped(t, u)
  BY <1>3, <1>4 DEF Stopped
<1>7. \A r : r.uid = u /\ Started(s, r) => Started(t, r)
  BY <1>3, <1>4 DEF Started
<1>8. QED
  BY <1>5, <1>6, <1>7 DEF t

(* The last command about a pod is the one that was added.                 *)
LEMMA LastCommand ==
  ASSUME NEW s \in Seq(Commands), NEW c \in Commands
  PROVE  /\ c.op = "stop" => Stopped(Append(s, c), c.src.uid)
         /\ c.op = "start" => Started(Append(s, c), c.src)
<1> DEFINE t == Append(s, c)
<1>1. Len(s) \in Nat /\ Len(t) = Len(s) + 1 /\ t[Len(t)] = c
  BY CommandAdded
<1> HIDE DEF t
<1>2. Len(t) \in 1..Len(t) /\ Ends(t, c.src.uid, Len(t))
  BY <1>1 DEF Ends, About
<1>3. c = [op |-> c.op, src |-> c.src]
  BY DEF Commands
<1>4. QED
  BY <1>1, <1>2, <1>3 DEF Stopped, Started, t

(* When a command is taken, it was the last about its pod or it was not.   *)
LEMMA TakenCommand ==
  ASSUME NEW s \in Seq(Commands), s # <<>>, NEW u
  PROVE  /\ Silent(s, u) => Silent(Tail(s), u) /\ ~About(Head(s), u)
         /\ Stopped(s, u) => \/ Stopped(Tail(s), u)
                            \/ /\ Silent(Tail(s), u) /\ About(Head(s), u)
                               /\ Head(s).op = "stop"
         /\ \A r : r.uid = u /\ Started(s, r) =>
               \/ Started(Tail(s), r)
               \/ Silent(Tail(s), u) /\ Head(s) = [op |-> "start", src |-> r]
<1> DEFINE t == Tail(s)
           h == Head(s)
<1>1. /\ Len(s) \in Nat \ {0} /\ Len(t) = Len(s) - 1 /\ h = s[1]
      /\ \A i \in 1..Len(t) : t[i] = s[i + 1]
  BY CommandTaken
<1> HIDE DEF t, h
<1>2. \A i \in 1..Len(t) : i + 1 \in 1..Len(s) /\ t[i] = s[i + 1]
  BY <1>1
<1>3. \A i \in 1..Len(s) : i = 1 \/ (i - 1 \in 1..Len(t) /\ t[i - 1] = s[i])
  BY <1>1
<1>4. Silent(s, u) => Silent(t, u) /\ ~About(h, u)
  BY <1>1, <1>2 DEF Silent
<1>5. Ends(s, u, 1) => Silent(t, u) /\ About(h, u)
  BY <1>1, <1>2 DEF Ends, Silent
<1>6. ASSUME NEW i \in 1..Len(s), i # 1, Ends(s, u, i)
      PROVE  i - 1 \in 1..Len(t) /\ Ends(t, u, i - 1) /\ t[i - 1] = s[i]
  <2>1. i - 1 \in 1..Len(t) /\ t[i - 1] = s[i]
    BY <1>3, <1>6
  <2>2. \A j \in (i - 1) + 1..Len(t) : j + 1 \in i + 1..Len(s) /\ t[j] = s[j + 1]
    BY <1>1, <1>2
  <2>3. QED
    BY <1>6, <2>1, <2>2 DEF Ends
<1>7. Stopped(s, u) => Stopped(t, u) \/ (Silent(t, u) /\ About(h, u) /\ h.op = "stop")
  BY <1>1, <1>5, <1>6 DEF Stopped
<1>8. ASSUME NEW r, r.uid = u, Started(s, r)
      PROVE  Started(t, r) \/ (Silent(t, u) /\ h = [op |-> "start", src |-> r])
  BY <1>1, <1>5, <1>6, <1>8 DEF Started
<1>9. QED
  BY <1>4, <1>7, <1>8 DEF t, h

-----------------------------------------------------------------------------
(* What is queued, captured and reported, beside what is wanted.           *)

\* Everything that is known of a pod is on its node.
Laid(N, W, ch, S) ==
    /\ W \subseteq Followed!Sources /\ S \subseteq Followed!Sources
    /\ ch \in [PodNodes -> Seq(Commands)]
    /\ \A r \in W \cup S : r.node = N[r.uid]
    /\ \A n \in PodNodes : \A i \in 1..Len(ch[n]) :
          ch[n][i].src.node = n /\ n = N[ch[n][i].src.uid]

(* A start command waits for the pod's capture to end, in a queue that     *)
(* begins alike and beside captures that are no more.                      *)
LEMMA BeforeSame ==
  ASSUME NEW s, NEW t, NEW S, NEW T, NEW i \in Nat, NEW u,
         \A j \in 1..i-1 : t[j] = s[j],
         u \in Followed!Ids(T) => u \in Followed!Ids(S), Before(s, S, i, u)
  PROVE  Before(t, T, i, u)
<1>1. \A j \in 1..i-1 : About(t[j], u) <=> About(s[j], u)
  BY DEF About
<1>2. CASE \E k \in 1..i-1 : /\ About(s[k], u) /\ s[k].op = "stop"
                             /\ \A j \in k+1..i-1 : ~About(s[j], u)
  <2>1. PICK k \in 1..i-1 : /\ About(s[k], u) /\ s[k].op = "stop"
                            /\ \A j \in k+1..i-1 : ~About(s[j], u)
    BY <1>2
  <2>2. \A j \in k+1..i-1 : j \in 1..i-1
    BY <2>1
  <2>3. QED
    BY <1>1, <2>1, <2>2 DEF Before
<1>3. CASE (\A j \in 1..i-1 : ~About(s[j], u)) /\ u \notin Followed!Ids(S)
  BY <1>1, <1>3 DEF Before
<1>4. QED
  BY <1>2, <1>3 DEF Before

(* On other nodes than the pod's there is no command about it.             *)
LEMMA SilentElsewhere ==
  ASSUME NEW N, NEW W, NEW ch, NEW S, Laid(N, W, ch, S), NEW n \in PodNodes, NEW u, N[u] # n
  PROVE  Silent(ch[n], u)
BY DEF Laid, Silent, About

\* A command joins the others of its source's node.
Sent(ch, ch2, c) ==
    /\ ch2[c.src.node] = Append(ch[c.src.node], c)
    /\ \A n \in PodNodes : n # c.src.node => ch2[n] = ch[n]

(* A start command is queued for a source of a pod that is not wanted yet. *)
LEMMA StartMatches ==
  ASSUME NEW N, NEW W, NEW ch, NEW S, NEW F, Laid(N, W, ch, S), Matched(W, ch, S, F),
         NEW c \in Commands, c.op = "start", c.src.node = N[c.src.uid],
         c.src.uid \notin Followed!Ids(W),
         NEW ch2, Sent(ch, ch2, c)
  PROVE  Matched(W \cup {c.src}, ch2, S, F)
<1> DEFINE r == c.src
           m == r.node
           u == r.uid
<1>1. c \in Commands /\ c.src = r /\ c.op = "start" /\ m \in PodNodes /\ u \in Uids
      /\ ch[m] \in Seq(Commands) /\ \A x : About(c, x) <=> x = u
  BY DEF Commands, Followed!Sources, Laid, About
<1>2. ch2[m] = Append(ch[m], c) /\ \A n \in PodNodes : n # m => ch2[n] = ch[n]
  BY <1>1 DEF Sent
<1>2a. W \subseteq Followed!Sources /\ S \subseteq Followed!Sources
  BY DEF Laid
<1>3. ASSUME NEW n \in PodNodes, NEW x, x # u
      PROVE  /\ Silent(ch[n], x) => Silent(ch2[n], x)
             /\ Stopped(ch[n], x) => Stopped(ch2[n], x)
             /\ \A s : s.uid = x /\ Started(ch[n], s) => Started(ch2[n], s)
  <2>1. CASE n = m
    BY <1>1, <1>2, <1>3, <2>1, OthersCommand
  <2>2. CASE n # m
    BY <1>2, <2>2
  <2>3. QED
    BY <2>1, <2>2
<1>4. Started(ch2[m], r)
  BY <1>1, <1>2, LastCommand
<1>5. Followed!Ids(W \cup {r}) = Followed!Ids(W) \cup {u}
  BY DEF Followed!Ids
<1> HIDE DEF m, u
<1>6. ASSUME NEW s \in W \cup {r}
      PROVE  Runs(s, ch2[s.node], S, F)
  <2>1. CASE s = r
    BY <1>4, <2>1 DEF m, Runs
  <2>2. CASE s # r
    <3>1. s \in W /\ s.uid # u /\ s.node \in PodNodes
      BY <1>2a, <2>2 DEF u, Followed!Ids, Followed!Sources
    <3>2. Runs(s, ch[s.node], S, F)
      BY <3>1 DEF Matched, Running
    <3>3. QED
      BY <1>3, <3>1, <3>2 DEF Runs
  <2>3. QED
    BY <2>1, <2>2
<1>7. ASSUME NEW x \in Uids \ Followed!Ids(W \cup {r}), NEW n \in PodNodes
      PROVE  Silent(ch2[n], x) \/ Stopped(ch2[n], x)
  <2>1. x # u /\ x \in Uids \ Followed!Ids(W)
    BY <1>5
  <2>2. Silent(ch[n], x) \/ Stopped(ch[n], x)
    BY <2>1 DEF Matched, Released
  <2>3. QED
    BY <1>3, <2>1, <2>2
<1>8. ASSUME NEW s \in S, s.uid \notin Followed!Ids(W \cup {r})
      PROVE  Stopped(ch2[s.node], s.uid)
  <2>1. s.uid # u /\ s.uid \notin Followed!Ids(W) /\ s.node \in PodNodes
    BY <1>2a, <1>5, <1>8 DEF Followed!Sources
  <2>2. Stopped(ch[s.node], s.uid)
    BY <2>1 DEF Matched, Leaving
  <2>3. QED
    BY <1>3, <2>1, <2>2
<1>9. ASSUME NEW n \in PodNodes, NEW i \in 1..Len(ch2[n]), ch2[n][i].op = "start"
      PROVE  Before(ch2[n], S, i, ch2[n][i].src.uid)
  <2>1. CASE n # m
    BY <1>2, <1>9, <2>1 DEF Matched, Ordered
  <2>2. CASE n = m
    <3>1. /\ Len(ch[m]) \in Nat /\ Len(ch2[m]) = Len(ch[m]) + 1
          /\ \A j \in 1..Len(ch[m]) : ch2[m][j] = ch[m][j]
          /\ ch2[m][Len(ch[m]) + 1] = c
      BY <1>1, <1>2, CommandAdded
    <3>2. CASE i \in 1..Len(ch[m])
      <4>1. Before(ch[m], S, i, ch[m][i].src.uid)
        BY <1>1, <1>9, <2>2, <3>1, <3>2 DEF Matched, Ordered
      <4>2. i \in Nat /\ ch2[m][i] = ch[m][i] /\ \A j \in 1..i-1 : ch2[m][j] = ch[m][j]
        BY <3>1, <3>2
      <4>3. Before(ch2[m], S, i, ch[m][i].src.uid)
        <5>1. PICK a, b, x : a = ch[m] /\ b = ch2[m] /\ x = ch[m][i].src.uid
          OBVIOUS
        <5>2. i \in Nat /\ (\A j \in 1..i-1 : b[j] = a[j]) /\ Before(a, S, i, x)
          BY <4>1, <4>2, <5>1
        <5>3. Before(b, S, i, x)
          BY <5>2, BeforeSame
        <5>4. QED
          BY <5>1, <5>3
      <4>4. QED
        BY <2>2, <4>2, <4>3
    <3>3. CASE i = Len(ch[m]) + 1
      <4>1. ch2[m][i].src.uid = u
        BY <1>1, <3>1, <3>3 DEF u
      <4>2. Silent(ch[m], u) \/ Stopped(ch[m], u)
        BY <1>1 DEF Matched, Released, u
      <4>3. ASSUME Silent(ch[m], u) PROVE Before(ch2[m], S, i, u)
        <5>1. ASSUME NEW s \in S, s.uid = u PROVE FALSE
          <6>1. s.node = m /\ s.uid \notin Followed!Ids(W)
            BY <5>1 DEF u, m, Laid
          <6>2. Stopped(ch[m], u)
            BY <5>1, <6>1 DEF Matched, Leaving
          <6>3. QED
            BY <4>3, <6>2 DEF Stopped, Ends, Silent
        <5>2. \A j \in 1..i-1 : ~About(ch2[m][j], u)
          BY <3>1, <3>3, <4>3 DEF Silent
        <5>3. QED
          BY <5>1, <5>2 DEF Before, Followed!Ids
      <4>4. ASSUME Stopped(ch[m], u) PROVE Before(ch2[m], S, i, u)
        <5>1. PICK k \in 1..Len(ch[m]) : Ends(ch[m], u, k) /\ ch[m][k].op = "stop"
          BY <4>4 DEF Stopped
        <5>2. k \in 1..i-1 /\ \A j \in k+1..i-1 : j \in k+1..Len(ch[m]) /\ j \in 1..Len(ch[m])
          BY <3>1, <3>3
        <5>3. QED
          BY <3>1, <5>1, <5>2 DEF Before, Ends
      <4>5. QED
        BY <2>2, <4>1, <4>2, <4>3, <4>4
    <3>4. QED
      BY <1>9, <2>2, <3>1, <3>2, <3>3
  <2>3. QED
    BY <2>1, <2>2
<1>10. Running(W \cup {r}, ch2, S, F)
  BY <1>6 DEF Running
<1>11. Released(W \cup {r}, ch2) /\ Leaving(W \cup {r}, ch2, S) /\ Ordered(ch2, S)
  BY <1>7, <1>8, <1>9 DEF Released, Leaving, Ordered
<1>12. QED
  BY <1>10, <1>11 DEF Matched

(* A stop command is queued for a source that is forgotten.                *)
LEMMA StopMatches ==
  ASSUME NEW N, NEW W, NEW ch, NEW S, NEW F, Laid(N, W, ch, S), Matched(W, ch, S, F),
         NEW c \in Commands, c.op = "stop", c.src.node = N[c.src.uid],
         NEW V \in SUBSET W, Followed!Ids(V) = Followed!Ids(W) \ {c.src.uid},
         NEW ch2, Sent(ch, ch2, c)
  PROVE  Matched(V, ch2, S, F)
<1> DEFINE r == c.src
           m == r.node
           u == r.uid
<1>1. c \in Commands /\ c.src = r /\ c.op = "stop" /\ m \in PodNodes /\ u \in Uids
      /\ ch[m] \in Seq(Commands) /\ \A x : About(c, x) <=> x = u
  BY DEF Commands, Followed!Sources, Laid, About
<1>2. ch2[m] = Append(ch[m], c) /\ \A n \in PodNodes : n # m => ch2[n] = ch[n]
  BY <1>1 DEF Sent
<1>2a. W \subseteq Followed!Sources /\ S \subseteq Followed!Sources
  BY DEF Laid
<1>3. ASSUME NEW n \in PodNodes, NEW x, x # u
      PROVE  /\ Silent(ch[n], x) => Silent(ch2[n], x)
             /\ Stopped(ch[n], x) => Stopped(ch2[n], x)
             /\ \A s : s.uid = x /\ Started(ch[n], s) => Started(ch2[n], s)
  <2>1. CASE n = m
    BY <1>1, <1>2, <1>3, <2>1, OthersCommand
  <2>2. CASE n # m
    BY <1>2, <2>2
  <2>3. QED
    BY <2>1, <2>2
<1>4. Stopped(ch2[m], u)
  BY <1>1, <1>2, LastCommand
<1>5. ASSUME NEW n \in PodNodes, n # m PROVE Silent(ch2[n], u)
  BY <1>2, <1>5, SilentElsewhere
<1>6. ASSUME NEW s \in V
      PROVE  Runs(s, ch2[s.node], S, F)
  <2>1. s \in W /\ s.uid # u /\ s.node \in PodNodes
    BY <1>2a DEF Followed!Ids, Followed!Sources
  <2>2. Runs(s, ch[s.node], S, F)
    BY <2>1 DEF Matched, Running
  <2>3. QED
    BY <1>3, <2>1, <2>2 DEF Runs
<1>7. ASSUME NEW x \in Uids \ Followed!Ids(V), NEW n \in PodNodes
      PROVE  Silent(ch2[n], x) \/ Stopped(ch2[n], x)
  <2>1. CASE x # u
    <3>1. Silent(ch[n], x) \/ Stopped(ch[n], x)
      BY <2>1 DEF Matched, Released
    <3>2. QED
      BY <1>3, <2>1, <3>1
  <2>2. CASE x = u
    BY <1>4, <1>5, <2>2
  <2>3. QED
    BY <2>1, <2>2
<1>8. ASSUME NEW s \in S, s.uid \notin Followed!Ids(V)
      PROVE  Stopped(ch2[s.node], s.uid)
  <2>1. CASE s.uid # u
    <3>1. s.node \in PodNodes /\ s.uid \notin Followed!Ids(W)
      BY <1>2a, <1>8, <2>1 DEF Followed!Sources
    <3>2. Stopped(ch[s.node], s.uid)
      BY <3>1 DEF Matched, Leaving
    <3>3. QED
      BY <1>3, <2>1, <3>1, <3>2
  <2>2. CASE s.uid = u
    BY <1>4, <2>2 DEF Laid
  <2>3. QED
    BY <2>1, <2>2
<1>9. ASSUME NEW n \in PodNodes, NEW i \in 1..Len(ch2[n]), ch2[n][i].op = "start"
      PROVE  Before(ch2[n], S, i, ch2[n][i].src.uid)
  <2>1. CASE n # m
    BY <1>2, <1>9, <2>1 DEF Matched, Ordered
  <2>2. CASE n = m
    <3>1. /\ Len(ch[m]) \in Nat /\ Len(ch2[m]) = Len(ch[m]) + 1
          /\ \A j \in 1..Len(ch[m]) : ch2[m][j] = ch[m][j]
          /\ ch2[m][Len(ch[m]) + 1] = c
      BY <1>1, <1>2, CommandAdded
    <3>2. i # Len(ch[m]) + 1
      BY <1>1, <1>9, <2>2, <3>1
    <3>3. i \in 1..Len(ch[m])
      BY <1>9, <2>2, <3>1, <3>2
    <3>4. Before(ch[m], S, i, ch[m][i].src.uid)
      BY <1>1, <1>9, <2>2, <3>1, <3>3 DEF Matched, Ordered
    <3>5. i \in Nat /\ ch2[m][i] = ch[m][i] /\ \A j \in 1..i-1 : ch2[m][j] = ch[m][j]
      BY <3>1, <3>3
    <3>6. Before(ch2[m], S, i, ch[m][i].src.uid)
      <4>1. PICK a, b, x : a = ch[m] /\ b = ch2[m] /\ x = ch[m][i].src.uid
        OBVIOUS
      <4>2. i \in Nat /\ (\A j \in 1..i-1 : b[j] = a[j]) /\ Before(a, S, i, x)
        BY <3>4, <3>5, <4>1
      <4>3. Before(b, S, i, x)
        BY <4>2, BeforeSame
      <4>4. QED
        BY <4>1, <4>3
    <3>7. QED
      BY <2>2, <3>5, <3>6
  <2>3. QED
    BY <2>1, <2>2
<1>10. Running(V, ch2, S, F)
  BY <1>6 DEF Running
<1>11. Released(V, ch2) /\ Leaving(V, ch2, S) /\ Ordered(ch2, S)
  BY <1>7, <1>8, <1>9 DEF Released, Leaving, Ordered
<1>12. QED
  BY <1>10, <1>11 DEF Matched

(* Where a command waits after the one before it was taken: that stop, if  *)
(* it was the one waited for, has ended the capture.                       *)
LEMMA BeforeTaken ==
  ASSUME NEW s, NEW t, NEW S, NEW T, NEW i \in Nat \ {0}, NEW u, NEW c, c = s[1],
         \A j \in 1..i-1 : t[j] = s[j + 1],
         u \in Followed!Ids(T) => u \in Followed!Ids(S) \/ (About(c, u) /\ c.op = "start"),
         About(c, u) /\ c.op = "stop" => u \notin Followed!Ids(T),
         Before(s, S, i + 1, u)
  PROVE  Before(t, T, i, u)
<1>1. \A j \in 2..i : j - 1 \in 1..i-1 /\ t[j - 1] = s[j]
  <2>1. \A j \in 2..i : j - 1 \in 1..i-1 /\ (j - 1) + 1 = j
    OBVIOUS
  <2>2. QED
    BY <2>1
<1>2. \A j \in 1..i-1 : j + 1 \in 1..(i + 1) - 1 /\ t[j] = s[j + 1]
  OBVIOUS
<1>3. CASE \E k \in 1..(i + 1) - 1 : /\ About(s[k], u) /\ s[k].op = "stop"
                                   /\ \A j \in k+1..(i + 1) - 1 : ~About(s[j], u)
  <2>1. PICK k \in 1..(i + 1) - 1 : /\ About(s[k], u) /\ s[k].op = "stop"
                                  /\ \A j \in k+1..(i + 1) - 1 : ~About(s[j], u)
    BY <1>3
  <2>2. CASE k = 1
    <3>1. u \notin Followed!Ids(T)
      BY <2>1, <2>2
    <3>2. \A j \in 1..i-1 : j + 1 \in k+1..(i + 1) - 1
      BY <2>2
    <3>3. QED
      BY <1>2, <2>1, <3>1, <3>2 DEF Before, About
  <2>3. CASE k # 1
    <3>1. k - 1 \in 1..i-1 /\ t[k - 1] = s[k]
      BY <1>1, <2>1, <2>3
    <3>2. \A j \in (k - 1) + 1..i-1 : j + 1 \in k+1..(i + 1) - 1 /\ t[j] = s[j + 1]
      BY <1>2, <2>1, <2>3
    <3>3. \A j \in (k - 1) + 1..i-1 : ~About(t[j], u)
      BY <2>1, <3>2 DEF About
    <3>4. About(t[k - 1], u) /\ t[k - 1].op = "stop"
      BY <2>1, <3>1 DEF About
    <3>5. QED
      BY <3>1, <3>3, <3>4 DEF Before
  <2>4. QED
    BY <2>2, <2>3
<1>4. CASE (\A j \in 1..(i + 1) - 1 : ~About(s[j], u)) /\ u \notin Followed!Ids(S)
  <2>1. 1 \in 1..(i + 1) - 1
    OBVIOUS
  <2>2. ~About(c, u) /\ u \notin Followed!Ids(T)
    BY <1>4, <2>1
  <2>3. \A j \in 1..i-1 : ~About(t[j], u)
    BY <1>2, <1>4 DEF About
  <2>4. QED
    BY <2>2, <2>3 DEF Before
<1>5. QED
  BY <1>3, <1>4 DEF Before

\* What a command makes of the captures.
After(c, S) ==
    IF c.op = "stop" THEN Followed!Without(S, c.src.uid)
    ELSE IF c.src.uid \in Followed!Ids(S) THEN S ELSE S \cup {c.src}

(* The agent takes a command.                                              *)
LEMMA TakeMatches ==
  ASSUME NEW N, NEW W, NEW ch, NEW S, NEW F, Laid(N, W, ch, S), Matched(W, ch, S, F),
         NEW m \in PodNodes, ch[m] # <<>>, NEW c, c = Head(ch[m]),
         NEW ch2, ch2[m] = Tail(ch[m]), \A n \in PodNodes : n # m => ch2[n] = ch[n],
         NEW T, T = After(c, S)
  PROVE  Matched(W, ch2, T, F)
<1> DEFINE u == c.src.uid
<1>1. ch[m] \in Seq(Commands) /\ W \subseteq Followed!Sources /\ S \subseteq Followed!Sources
  BY DEF Laid
<1>2. /\ Len(ch[m]) \in Nat \ {0} /\ Len(ch2[m]) = Len(ch[m]) - 1 /\ c = ch[m][1]
      /\ c \in Commands /\ \A i \in 1..Len(ch2[m]) : ch2[m][i] = ch[m][i + 1]
  BY <1>1, CommandTaken
<1>3. c.src.node = m /\ m = N[u]
  BY <1>2 DEF Laid
<1>4. \A x : About(c, x) <=> x = u
  BY DEF About
<1> HIDE DEF u
<1>5. ASSUME NEW n \in PodNodes, NEW x, n # m \/ x # u
      PROVE  /\ Silent(ch[n], x) => Silent(ch2[n], x)
             /\ Stopped(ch[n], x) => Stopped(ch2[n], x)
             /\ \A s : s.uid = x /\ Started(ch[n], s) => Started(ch2[n], s)
  <2>1. CASE n = m
    <3>1. x # u /\ ~About(c, x)
      BY <1>4, <1>5, <2>1
    <3>2. \A s : c = [op |-> "start", src |-> s] /\ s.uid = x => x = u
      BY DEF u
    <3>3. QED
      BY <1>1, <2>1, <3>1, <3>2, TakenCommand
  <2>2. CASE n # m
    BY <2>2
  <2>3. QED
    BY <2>1, <2>2
<1>6. \A s \in S : s.uid # u => s \in T
  BY DEF After, u, Followed!Without
<1>7. \A s \in T : s \in S \/ (s = c.src /\ c.op = "start" /\ u \notin Followed!Ids(S))
  BY <1>2 DEF After, u, Followed!Without, Commands
<1>8. c.op = "stop" => \A s \in T : s.uid # u
  BY DEF After, u, Followed!Without
<1>9. ASSUME c.op = "start" PROVE Before(ch[m], S, 1, u)
  BY <1>2, <1>9 DEF Matched, Ordered, u
<1>10. c.op = "start" => u \notin Followed!Ids(S) /\ c.src \in T
  <2>1. ASSUME c.op = "start" PROVE u \notin Followed!Ids(S)
    <3>1. 1..1-1 = {}
      OBVIOUS
    <3>2. QED
      BY <1>9, <2>1, <3>1 DEF Before
  <2>2. QED
    BY <2>1 DEF After, u
<1>11. ASSUME NEW s \in W PROVE Runs(s, ch2[s.node], T, F)
  <2>1. s.node \in PodNodes /\ Runs(s, ch[s.node], S, F)
    BY <1>1 DEF Followed!Sources, Matched, Running
  <2>2. CASE s.uid # u
    BY <1>5, <1>6, <2>1, <2>2 DEF Runs
  <2>3. CASE s.uid = u
    <3>1. s.node = m
      BY <1>3, <2>3 DEF Laid
    <3>2. ~Silent(ch[m], u)
      BY <1>2, <1>4 DEF Silent
    <3>3. Started(ch[m], s)
      BY <2>1, <2>3, <3>1, <3>2 DEF Runs
    <3>4. Started(ch2[m], s) \/ (Silent(ch2[m], u) /\ c = [op |-> "start", src |-> s])
      BY <1>1, <2>3, <3>3, TakenCommand
    <3>5. c = [op |-> "start", src |-> s] => s \in T
      BY <1>10
    <3>6. QED
      BY <2>3, <3>1, <3>4, <3>5 DEF Runs
  <2>4. QED
    BY <2>2, <2>3
<1>12. ASSUME NEW x \in Uids \ Followed!Ids(W), NEW n \in PodNodes
       PROVE  Silent(ch2[n], x) \/ Stopped(ch2[n], x)
  <2>1. Silent(ch[n], x) \/ Stopped(ch[n], x)
    BY DEF Matched, Released
  <2>2. CASE n # m \/ x # u
    BY <1>5, <2>1, <2>2
  <2>3. CASE n = m
    BY <1>1, <2>1, <2>3, TakenCommand
  <2>4. QED
    BY <2>2, <2>3
<1>13. ASSUME NEW s \in T, s.uid \notin Followed!Ids(W) PROVE Stopped(ch2[s.node], s.uid)
  <2>1. CASE s \in S
    <3>1. Stopped(ch[s.node], s.uid) /\ s.node \in PodNodes
      BY <1>1, <1>13, <2>1 DEF Matched, Leaving, Followed!Sources
    <3>2. CASE s.uid # u
      BY <1>5, <3>1, <3>2
    <3>3. CASE s.uid = u
      <4>1. s.node = m
        BY <1>3, <2>1, <3>3 DEF Laid
      <4>2. Stopped(ch2[m], u) \/ c.op = "stop"
        BY <1>1, <3>1, <3>3, <4>1, TakenCommand
      <4>3. QED
        BY <1>8, <3>3, <4>1, <4>2
    <3>4. QED
      BY <3>2, <3>3
  <2>2. CASE s = c.src /\ c.op = "start"
    <3>1. s.uid = u /\ u \in Uids \ Followed!Ids(W) /\ s.node = m
      BY <1>2, <1>3, <1>13, <2>2 DEF u, Commands, Followed!Sources
    <3>2. Silent(ch[m], u) \/ Stopped(ch[m], u)
      BY <3>1 DEF Matched, Released
    <3>3. ~Silent(ch[m], u)
      BY <1>2, <1>4 DEF Silent
    <3>4. Stopped(ch2[m], u)
      BY <1>1, <2>2, <3>2, <3>3, TakenCommand
    <3>5. QED
      BY <3>1, <3>4
  <2>3. QED
    BY <1>7, <2>1, <2>2
<1>14. ASSUME NEW n \in PodNodes, NEW i \in 1..Len(ch2[n]), ch2[n][i].op = "start"
       PROVE  Before(ch2[n], T, i, ch2[n][i].src.uid)
  <2>1. CASE n # m
    <3>1. /\ ch2[n] = ch[n] /\ N[ch[n][i].src.uid] = n /\ ch[n] \in Seq(Commands)
      BY <1>14, <2>1 DEF Laid
    <3>2. PICK a, x : a = ch[n] /\ a = ch2[n] /\ x = ch[n][i].src.uid
      BY <3>1
    <3>3. Before(a, S, i, x)
      BY <1>14, <3>1, <3>2 DEF Matched, Ordered
    <3>4. x # u
      BY <1>3, <2>1, <3>1, <3>2
    <3>5. x \in Followed!Ids(T) => x \in Followed!Ids(S)
      BY <1>7, <3>4 DEF Followed!Ids, u
    <3>6. i \in Nat /\ \A j \in 1..i-1 : a[j] = a[j]
      BY <3>1
    <3>7. Before(a, T, i, x)
      BY <3>3, <3>5, <3>6, BeforeSame
    <3>8. QED
      BY <3>2, <3>7
  <2>2. CASE n = m
    <3>1. i + 1 \in 1..Len(ch[m]) /\ ch2[m][i] = ch[m][i + 1] /\ i \in Nat \ {0}
          /\ \A j \in 1..i-1 : ch2[m][j] = ch[m][j + 1]
      <4>1. i \in 1..Len(ch2[m])
        BY <1>14, <2>2
      <4>2. i + 1 \in 1..Len(ch[m]) /\ ch2[m][i] = ch[m][i + 1] /\ i \in Nat \ {0}
        BY <1>2, <4>1
      <4>3. \A j \in 1..i-1 : j \in 1..Len(ch2[m])
        BY <1>2, <4>1
      <4>4. QED
        BY <1>2, <4>2, <4>3
    <3>2. PICK a, b, x : a = ch[m] /\ b = ch2[m] /\ x = ch[m][i + 1].src.uid
      OBVIOUS
    <3>3. Before(a, S, i + 1, x)
      BY <1>14, <2>2, <3>1, <3>2 DEF Matched, Ordered
    <3>4. x \in Followed!Ids(T) =>
             x \in Followed!Ids(S) \/ (About(c, x) /\ c.op = "start")
      BY <1>4, <1>7 DEF Followed!Ids, u
    <3>5. About(c, x) /\ c.op = "stop" => x \notin Followed!Ids(T)
      BY <1>4, <1>8 DEF Followed!Ids
    <3>6. c = a[1] /\ \A j \in 1..i-1 : b[j] = a[j + 1]
      BY <1>2, <3>1, <3>2
    <3>7. Before(b, T, i, x)
      BY <3>1, <3>3, <3>4, <3>5, <3>6, BeforeTaken
    <3>8. QED
      BY <2>2, <3>1, <3>2, <3>7
  <2>3. QED
    BY <2>1, <2>2
<1>15. Running(W, ch2, T, F)
  BY <1>11 DEF Running
<1>16. Released(W, ch2) /\ Leaving(W, ch2, T) /\ Ordered(ch2, T)
  BY <1>12, <1>13, <1>14 DEF Released, Leaving, Ordered
<1>17. QED
  BY <1>15, <1>16 DEF Matched

(* A capture ends with an error, which is to be reported.                  *)
LEMMA FailMatches ==
  ASSUME NEW W, NEW ch, NEW S, NEW F, Matched(W, ch, S, F), NEW r \in S,
         ch \in [PodNodes -> Seq(Commands)]
  PROVE  Matched(W, ch, S \ {r}, F \cup {r.uid})
<1> DEFINE T == S \ {r}
           G == F \cup {r.uid}
<1>1. \A x : x \in Followed!Ids(T) => x \in Followed!Ids(S)
  BY DEF Followed!Ids
<1>2. \A s \in W : s \in S \/ s.uid \in F => s \in T \/ s.uid \in G
  OBVIOUS
<1>3. T \subseteq S
  OBVIOUS
<1> HIDE DEF T, G
<1>4. Running(W, ch, T, G)
  BY <1>2 DEF Matched, Running, Runs
<1>5. Leaving(W, ch, T)
  BY <1>3 DEF Matched, Leaving
<1>6. ASSUME NEW n \in PodNodes, NEW i \in 1..Len(ch[n]), ch[n][i].op = "start"
      PROVE  Before(ch[n], T, i, ch[n][i].src.uid)
  <2>1. PICK a, x : a = ch[n] /\ x = ch[n][i].src.uid
    OBVIOUS
  <2>2. Before(a, S, i, x) /\ i \in Nat /\ \A j \in 1..i-1 : a[j] = a[j]
    BY <1>6, <2>1 DEF Matched, Ordered
  <2>3. Before(a, T, i, x)
    BY <1>1, <2>2, BeforeSame
  <2>4. QED
    BY <2>1, <2>3
<1>7. Ordered(ch, T)
  BY <1>6 DEF Ordered
<1>8. QED
  BY <1>4, <1>5, <1>7 DEF Matched, T, G

(* A report removes a source that nothing has started again.               *)
LEMMA ReportMatches ==
  ASSUME NEW N, NEW W, NEW ch, NEW S, NEW F, Laid(N, W, ch, S), Matched(W, ch, S, F),
         NEW u \in Uids, u \notin Followed!Ids(S),
         \A n \in PodNodes : \A i \in 1..Len(ch[n]) : ~(ch[n][i].op = "start" /\ ch[n][i].src.uid = u),
         NEW V, V = Followed!Without(W, u)
  PROVE  Matched(V, ch, S, F \ {u})
<1>1. V \subseteq W /\ \A s \in V : s.uid # u
  BY DEF Followed!Without
<1>2. \A x : x \notin Followed!Ids(V) => x = u \/ x \notin Followed!Ids(W)
  BY DEF Followed!Without, Followed!Ids
<1>3. Running(V, ch, S, F \ {u})
  BY <1>1 DEF Matched, Running, Runs
<1>4. Leaving(V, ch, S)
  <2>1. \A s \in S : s.uid # u
    BY DEF Followed!Ids
  <2>2. QED
    BY <1>2, <2>1 DEF Matched, Leaving
<1>5. ASSUME NEW n \in PodNodes PROVE Silent(ch[n], u) \/ Stopped(ch[n], u)
  <2>1. CASE u \notin Followed!Ids(W)
    BY <2>1 DEF Matched, Released
  <2>2. CASE u \in Followed!Ids(W) /\ N[u] # n
    BY <2>2, SilentElsewhere
  <2>3. CASE u \in Followed!Ids(W) /\ N[u] = n
    <3>1. PICK r \in W : r.uid = u
      BY <2>3 DEF Followed!Ids
    <3>2. r.node = n /\ Runs(r, ch[n], S, F)
      BY <2>3, <3>1 DEF Laid, Matched, Running
    <3>3. ~Started(ch[n], r)
      BY <3>1 DEF Started, Ends, About
    <3>4. QED
      BY <3>1, <3>2, <3>3 DEF Runs
  <2>4. QED
    BY <2>1, <2>2, <2>3
<1>6. Released(V, ch)
  BY <1>2, <1>5 DEF Matched, Released
<1>7. QED
  BY <1>3, <1>4, <1>6 DEF Matched

(* After every step the agents capture what is wanted, or a command or a   *)
(* report that will make it so is on its way.                              *)
LEMMA MatchStep == ASSUME FollowInv, PlanInv, MatchInv, Followed!Next PROVE MatchInv'
<1> DEFINE h == proc["loop"]
           N == [u \in Uids |-> pods[u].node]
<1>0. /\ ClusterInv /\ SessionTypes /\ AgentSideTypes /\ "loop" \in Followed!Procs
      /\ "loop" \notin PodNodes /\ PodNodes \subseteq Followed!Procs
      /\ h \in Tasks /\ TaskOK(h)
  BY LoopName DEF FollowInv, SessionTypes, TasksInv
<1>1. trouble # "replayed" =>
         Plan(runtime, proc["loop"]) /\ \A n \in PodNodes : proc[n].at # "set"
  BY DEF PlanInv
<1>2. Setting \subseteq Followed!Sources /\ \A r \in Setting : Placed(r)
  BY <1>0 DEF Setting, TaskOK
<1>3. Laid(N, Wanted, channel, captured)
  <2>1. /\ Wanted \subseteq Followed!Sources /\ captured \subseteq Followed!Sources
        /\ \A r \in Wanted \cup captured : Placed(r)
    BY <1>0, <1>2 DEF Wanted, FollowInv, PlaceInv, SessionTypes, AgentSideTypes
  <2>2. \A r \in Wanted \cup captured : r.node = N[r.uid]
    BY <2>1 DEF Placed, Followed!Sources
  <2>3. channel \in [PodNodes -> Seq(Commands)]
    BY <1>0 DEF AgentSideTypes
  <2>4. ASSUME NEW n \in PodNodes, NEW i \in 1..Len(channel[n])
        PROVE  channel[n][i].src.node = n /\ n = N[channel[n][i].src.uid]
    <3>1. channel[n][i] \in Commands
      BY <2>3
    <3>2. Placed(channel[n][i].src) /\ channel[n][i].src.node = n
      BY DEF FollowInv, PlaceInv
    <3>3. channel[n][i].src.uid \in Uids
      BY <3>1 DEF Commands, Followed!Sources
    <3>4. QED
      BY <3>2, <3>3 DEF Placed
  <2>5. QED
    BY <2>1, <2>2, <2>3, <2>4 DEF Laid
<1>4. \A r \in Followed!Sources : Placed(r) => r.node = N[r.uid]
  BY DEF Placed, Followed!Sources
<1> HIDE DEF N
<1>5. trouble = "none" => Matched(Wanted, channel, captured, failed)
  BY DEF MatchInv
<1>6. ASSUME trouble' = trouble, Wanted' = Wanted, UNCHANGED <<channel, captured, failed>>
      PROVE  MatchInv'
  BY <1>5, <1>6 DEF MatchInv
<1>7. ASSUME NEW q \in Followed!Procs, NEW t, proc' = [proc EXCEPT ![q] = t],
             t.at # "set" \/ q # "loop", q = "loop" => h.at # "set"
      PROVE  Setting' = Setting
  <2>1. CASE q = "loop"
    BY <1>0, <1>7, <2>1, TaskAt DEF Setting
  <2>2. CASE q # "loop"
    BY <1>0, <1>7, <2>2, TaskAt DEF Setting
  <2>3. QED
    BY <2>1, <2>2
<1>8. ASSUME Elsewhere, Setting' = Setting PROVE MatchInv'
  <2>1. Wanted' = Wanted
    BY <1>8 DEF Elsewhere, Wanted
  <2>2. QED
    BY <1>6, <1>8, <2>1 DEF Elsewhere
<1>9. ASSUME NEW q \in Followed!Procs, Looks(q) \/ Passes(q) PROVE MatchInv'
  <2>1. PICK t \in Tasks : proc' = [proc EXCEPT ![q] = t] /\ t.at # "set"
    BY <1>9 DEF Looks, Passes, Busy
  <2>2. Elsewhere /\ proc[q].at # "set"
    BY <1>9 DEF Looks, Passes, Busy
  <2>3. QED
    BY <1>7, <1>8, <2>1, <2>2
<1>10. ASSUME Decides PROVE MatchInv'
  BY <1>0, <1>7, <1>8, <1>10 DEF Decides
<1>11. ASSUME NEW n \in PodNodes, Joins(n) PROVE MatchInv'
  <2>1. CASE UNCHANGED proc
    BY <1>8, <1>11, <2>1 DEF Joins, Setting
  <2>2. CASE \E t \in Tasks : proc' = [proc EXCEPT ![n] = t]
    BY <1>0, <1>7, <1>8, <1>11, <2>2 DEF Joins
  <2>3. QED
    BY <1>11, <2>1, <2>2 DEF Joins
<1>12. ASSUME NEW q \in Followed!Procs, Sets(q) PROVE MatchInv'
  <2>1. CASE trouble # "none"
    BY <1>12, <2>1 DEF Sets, MatchInv
  <2>2. CASE trouble = "none"
    <3>1. q = "loop" /\ h.at = "set"
      BY <1>1, <1>12, <2>2 DEF Sets, Followed!Procs, Followed!Loop
    <3>2. PICK t \in Tasks : proc' = [proc EXCEPT !["loop"] = t] /\ t.at # "set"
      BY <1>12, <3>1 DEF Sets
    <3>3. proc'["loop"] = t
      BY <1>0, <3>2, TaskAt
    <3>4. Wanted' = Followed!Without(runtime, h.cur.uid) \cup {h.cur}
      BY <1>12, <3>1, <3>2, <3>3 DEF Sets, Wanted, Setting
    <3>5. Wanted = runtime \cup {h.cur}
      BY <3>1 DEF Wanted, Setting
    <3>6. \A r \in runtime : r.uid = h.cur.uid => r = h.cur
      <4>1. h.drop = {}
        BY <1>0, <3>1 DEF TaskOK
      <4>2. PICK L : Lawful(L) /\ runtime \cup {h.cur} \subseteq L
        BY <1>1, <2>2, <3>1, <4>1 DEF Plan
      <4>3. QED
        BY <4>2 DEF Lawful, Unique
    <3>7. Wanted' = Wanted
      BY <3>4, <3>5, <3>6 DEF Followed!Without
    <3>8. QED
      BY <1>6, <1>12, <3>7 DEF Sets
  <2>3. QED
    BY <2>1, <2>2
<1>13. ASSUME NEW q \in Followed!Procs, NEW r \in proc[q].todo, Sends(q, r) PROVE MatchInv'
  <2>1. CASE trouble' # "none"
    BY <2>1 DEF MatchInv
  <2>2. CASE trouble' = "none"
    <3>1. q = "loop" /\ trouble = "none" /\ h.at = "start" /\ r \in h.todo /\ h.drop = {}
      BY <1>0, <1>13, <2>2 DEF Sends, TaskOK
    <3>2. PICK t \in Tasks : /\ proc' = [proc EXCEPT !["loop"] = t] /\ t.at = "set"
                             /\ t.cur = r
      BY <1>13, <3>1 DEF Sends
    <3>3. proc'["loop"] = t
      BY <1>0, <3>2, TaskAt
    <3>4. Wanted = runtime /\ Wanted' = Wanted \cup {r}
      BY <1>13, <3>1, <3>2, <3>3 DEF Wanted, Setting, Sends
    <3>5. r \in Followed!Sources /\ r.node = N[r.uid] /\ r.node \in PodNodes
      BY <1>4, <1>13 DEF Sends, Followed!Sources
    <3>6. r.uid \notin Followed!Ids(Wanted)
      <4>1. PICK L : Lawful(L) /\ runtime \cup h.todo \subseteq L
        BY <1>1, <3>1 DEF Plan
      <4>2. r \notin runtime
        BY <1>1, <3>1 DEF Plan
      <4>3. QED
        BY <3>1, <3>4, <4>1, <4>2 DEF Lawful, Unique, Followed!Ids
    <3>7. /\ channel'[r.node] = Append(channel[r.node], [op |-> "start", src |-> r])
          /\ \A n \in PodNodes : n # r.node => channel'[n] = channel[n]
      BY <1>0, <1>13, <3>5 DEF Sends, Followed!Send, AgentSideTypes
    <3>8. PICK ch2 : ch2 = channel'
      OBVIOUS
    <3>9. Matched(Wanted \cup {r}, ch2, captured, failed)
      <4>0. PICK c \in Commands : c = [op |-> "start", src |-> r]
        BY <3>5 DEF Commands
      <4>0a. c.op = "start" /\ c.src = r
        BY <4>0
      <4>1. /\ ch2[r.node] = Append(channel[r.node], c)
            /\ \A n \in PodNodes : n # r.node => ch2[n] = channel[n]
        BY <3>7, <3>8, <4>0
      <4>2. Matched(Wanted, channel, captured, failed)
        BY <1>5, <3>1
      <4> PICK W, ch, S, F, M : /\ W = Wanted /\ ch = channel /\ S = captured /\ F = failed
                               /\ M = N
        OBVIOUS
      <4>3. Laid(M, W, ch, S) /\ Matched(W, ch, S, F)
        BY <1>3, <4>2
      <4>4. c.op = "start" /\ c.src.node = M[c.src.uid]
        BY <3>5, <4>0a
      <4>5. c.src.uid \notin Followed!Ids(W)
        BY <4>0a, <3>6
      <4>6. Sent(ch, ch2, c)
        BY <4>0a, <4>1 DEF Sent
      <4>6a. Matched(W \cup {c.src}, ch2, S, F)
        BY ONLY <4>0, <4>3, <4>4, <4>5, <4>6, StartMatches
      <4>7. QED
        BY <4>0a, <4>6a
    <3>10. captured' = captured /\ failed' = failed
      BY <1>13 DEF Sends
    <3>11. QED
      BY <3>4, <3>8, <3>9, <3>10 DEF MatchInv
  <2>3. QED
    BY <2>1, <2>2
<1>14. ASSUME h.at = "prune", NEW r \in h.drop, Stops(r) PROVE MatchInv'
  <2>1. CASE trouble' # "none"
    BY <2>1 DEF MatchInv
  <2>2. CASE trouble' = "none"
    <3>1. trouble = "none" /\ Followed!Send(r.node, [op |-> "stop", src |-> r])
      BY <1>14, <2>2 DEF Stops
    <3>2. PICK t \in Tasks : proc' = [proc EXCEPT !["loop"] = t] /\ t.at # "set"
      BY <1>14 DEF Stops
    <3>3. proc'["loop"] = t
      BY <1>0, <3>2, TaskAt
    <3>4. Wanted = runtime /\ Wanted' = Followed!Without(runtime, r.uid)
      BY <1>14, <3>2, <3>3 DEF Wanted, Setting, Stops
    <3>5. r \in Followed!Sources /\ r.node = N[r.uid] /\ r.node \in PodNodes
      BY <1>4, <1>14 DEF Stops, Followed!Sources
    <3>6. PICK V : V = Wanted'
      OBVIOUS
    <3>7. V \in SUBSET Wanted /\ Followed!Ids(V) = Followed!Ids(Wanted) \ {r.uid}
      BY <3>4, <3>6 DEF Followed!Ids, Followed!Without
    <3>8. /\ channel'[r.node] = Append(channel[r.node], [op |-> "stop", src |-> r])
          /\ \A n \in PodNodes : n # r.node => channel'[n] = channel[n]
      BY <1>0, <3>1, <3>5 DEF Followed!Send, AgentSideTypes
    <3>9. PICK ch2 : ch2 = channel'
      OBVIOUS
    <3>10. Matched(V, ch2, captured, failed)
      <4>0. PICK c \in Commands : c = [op |-> "stop", src |-> r]
        BY <3>5 DEF Commands
      <4>0a. c.op = "stop" /\ c.src = r
        BY <4>0
      <4>1. /\ ch2[r.node] = Append(channel[r.node], c)
            /\ \A n \in PodNodes : n # r.node => ch2[n] = channel[n]
        BY <3>8, <3>9, <4>0
      <4>2. Matched(Wanted, channel, captured, failed)
        BY <1>5, <3>1
      <4> PICK W, ch, S, F, M : /\ W = Wanted /\ ch = channel /\ S = captured /\ F = failed
                               /\ M = N
        OBVIOUS
      <4>3. Laid(M, W, ch, S) /\ Matched(W, ch, S, F)
        BY <1>3, <4>2
      <4>4. c.op = "stop" /\ c.src.node = M[c.src.uid]
        BY <3>5, <4>0a
      <4>5. V \in SUBSET W /\ Followed!Ids(V) = Followed!Ids(W) \ {c.src.uid}
        BY <4>0a, <3>7
      <4>6. Sent(ch, ch2, c)
        BY <4>0a, <4>1 DEF Sent
      <4>6a. Matched(V, ch2, S, F)
        BY ONLY <4>0, <4>3, <4>4, <4>5, <4>6, StopMatches
      <4>7. QED
        BY <4>0a, <4>6a
    <3>11. captured' = captured /\ failed' = failed
      BY <1>14 DEF Stops
    <3>12. QED
      BY <3>6, <3>9, <3>10, <3>11 DEF MatchInv
  <2>3. QED
    BY <2>1, <2>2
<1>15. ASSUME NEW n \in PodNodes, Followed!Deliver(n), Apart PROVE MatchInv'
  <2>1. Wanted' = Wanted /\ trouble' = trouble /\ failed' = failed
    BY <1>15 DEF Wanted, Setting, Apart, Followed!Deliver, Followed!agentVars
  <2>2. /\ channel[n] # <<>> /\ channel'[n] = Tail(channel[n])
        /\ \A m \in PodNodes : m # n => channel'[m] = channel[m]
    BY <1>0, <1>15, TakenFrom
  <2>3. PICK ch2, T, c : ch2 = channel' /\ T = captured' /\ c = Head(channel[n])
    OBVIOUS
  <2>4. T = After(c, captured)
    BY <1>15, <2>3 DEF Followed!Deliver, After
  <2>5. /\ ch2[n] = Tail(channel[n])
        /\ \A m \in PodNodes : m # n => ch2[m] = channel[m]
    BY <2>2, <2>3
  <2>6. trouble = "none" => Matched(Wanted, ch2, T, failed)
    BY <1>3, <1>5, <2>2, <2>3, <2>4, <2>5, TakeMatches
  <2>7. QED
    BY <2>1, <2>3, <2>6 DEF MatchInv
<1>16. ASSUME Followed!CaptureFails, Apart PROVE MatchInv'
  <2>1. PICK r \in captured : captured' = captured \ {r} /\ failed' = failed \cup {r.uid}
    BY <1>16 DEF Followed!CaptureFails
  <2>2. Wanted' = Wanted /\ trouble' = trouble /\ channel' = channel
    BY <1>16 DEF Wanted, Setting, Apart, Followed!CaptureFails
  <2>3. trouble = "none" => Matched(Wanted, channel, captured \ {r}, failed \cup {r.uid})
    BY <1>0, <1>5, FailMatches DEF AgentSideTypes
  <2>4. QED
    BY <2>1, <2>2, <2>3 DEF MatchInv
<1>17. ASSUME Followed!CaptureStatus, Apart PROVE MatchInv'
  <2>1. PICK u \in failed :
           /\ failed' = failed \ {u} /\ runtime' = Followed!Without(runtime, u)
           /\ IF Followed!StartedAgain(u) THEN Followed!Forgot ELSE UNCHANGED trouble
           /\ channel' = channel /\ captured' = captured
    BY <1>17 DEF Followed!CaptureStatus
  <2>2. CASE trouble' # "none"
    BY <2>2 DEF MatchInv
  <2>3. CASE trouble' = "none"
    <3>1. ~Followed!StartedAgain(u) /\ trouble = "none"
      BY <2>1, <2>3 DEF Followed!Forgot
    <3>2. u \in Uids
      BY <1>0 DEF AgentSideTypes
    <3>3. u \notin Followed!Ids(captured) /\ h.cur.uid # u
      BY <1>0, <3>1 DEF Followed!StartedAgain
    <3>4. ASSUME NEW n \in PodNodes, NEW i \in 1..Len(channel[n])
          PROVE  ~(channel[n][i].op = "start" /\ channel[n][i].src.uid = u)
      <4>1. i \in DOMAIN channel[n]
        BY <1>0 DEF AgentSideTypes
      <4>2. QED
        BY <3>1, <4>1 DEF Followed!StartedAgain
    <3>5. PICK V : V = Wanted'
      OBVIOUS
    <3>6. V = Followed!Without(Wanted, u)
      BY <1>17, <2>1, <3>3, <3>5 DEF Wanted, Setting, Apart, Followed!Without
    <3>7. Matched(V, channel, captured, failed \ {u})
      BY <1>3, <1>5, <3>1, <3>2, <3>3, <3>4, <3>6, ReportMatches
    <3>8. QED
      BY <2>1, <3>5, <3>7 DEF MatchInv
  <2>4. QED
    BY <2>2, <2>3
<1>18. ASSUME Elsewhere, Apart PROVE MatchInv'
  BY <1>8, <1>18 DEF Apart, Setting
<1> HIDE DEF h
<1>19. MatchInv' \/ (h.at = "prune" /\ \E r \in h.drop : Stops(r))
  BY <1>9, <1>10, <1>11, <1>12, <1>13, <1>15, <1>16, <1>17, <1>18, MoveCases DEF FollowInv, h
<1>20. QED
  BY <1>14, <1>19

(* With nothing on its way, what is captured is what the runtime has.      *)
LEMMA MatchLegal == ASSUME FollowInv, MatchInv PROVE Followed!CapturesMatch
<1> SUFFICES ASSUME proc["loop"].at = "idle", \A n \in PodNodes : channel[n] = <<>>,
                    failed = {}, trouble = "none"
             PROVE  captured = runtime
  BY LoopName DEF Followed!CapturesMatch, Followed!At
<1>1. Wanted = runtime
  BY DEF Wanted, Setting
<1>2. Matched(runtime, channel, captured, failed)
  BY <1>1 DEF MatchInv
<1>3. \A n \in PodNodes : Len(channel[n]) = 0
  OBVIOUS
<1>4. \A n \in PodNodes : \A r, u : ~Started(channel[n], r) /\ ~Stopped(channel[n], u)
  BY <1>3 DEF Started, Stopped
<1>5. /\ runtime \subseteq Followed!Sources /\ captured \subseteq Followed!Sources
      /\ \A r \in runtime \cup captured : Placed(r) /\ r.node \in PodNodes
      /\ Unique(captured)
  BY DEF FollowInv, SessionTypes, AgentSideTypes, PlaceInv, Followed!Sources
<1>6. ASSUME NEW r \in runtime PROVE r \in captured
  BY <1>2, <1>4, <1>5 DEF Matched, Running, Runs
<1>7. ASSUME NEW r \in captured PROVE r \in runtime
  <2>1. r.uid \in Followed!Ids(runtime)
    BY <1>2, <1>4, <1>5 DEF Matched, Leaving
  <2>2. PICK s \in runtime : s.uid = r.uid
    BY <2>1 DEF Followed!Ids
  <2>3. QED
    BY <1>5, <1>6, <2>2 DEF Unique
<1>8. QED
  BY <1>6, <1>7

-----------------------------------------------------------------------------
(* The invariants of the followed workload.                                *)

\* All that is inductive.
FollowedInv == FollowInv /\ PlanInv /\ MatchInv

(* A step of the other parts changes none of it.                           *)
LEMMA FollowedRest == ASSUME FollowedInv, UNCHANGED followedVars PROVE FollowedInv'
<1> USE DEF followedVars
<1>1. ClusterInv'
  BY DEF FollowedInv, FollowInv, ClusterInv, ClusterTypes, PodInv
<1>2. SessionTypes' /\ AgentSideTypes'
  BY DEF FollowedInv, FollowInv, SessionTypes, AgentSideTypes
<1>3. \A u : Followed!WorkloadOf(u)' = Followed!WorkloadOf(u)
  BY DEF Followed!WorkloadOf
<1>4. \A r : (Placed(r)' <=> Placed(r)) /\ (Seen(r)' <=> Seen(r))
  BY DEF Placed, Seen
<1>5. \A S : Kin(S)' <=> Kin(S)
  BY <1>3 DEF Kin
<1>6. \A S : Followed!WithinLimits(S)' <=> Followed!WithinLimits(S)
  BY DEF Followed!WithinLimits, Followed!Fits
<1>7. \A S : Lawful(S)' <=> Lawful(S)
  BY <1>5, <1>6 DEF Lawful
<1>8. TasksInv'
  BY <1>3, <1>4, <1>5 DEF FollowedInv, FollowInv, TasksInv, TaskOK
<1>9. PlaceInv'
  BY <1>4 DEF FollowedInv, FollowInv, PlaceInv
<1>10. PlanInv'
  BY <1>4, <1>6, <1>7 DEF FollowedInv, PlanInv, Plan
<1>11. MatchInv'
  BY DEF FollowedInv, MatchInv, Wanted, Setting
<1>12. QED
  BY <1>1, <1>2, <1>8, <1>9, <1>10, <1>11 DEF FollowedInv, FollowInv

(* In the composition, they hold always.                                   *)
THEOREM FollowedInductive == ControlSpec => []FollowedInv
<1>1. ControlInit => FollowedInv
  BY FollowInit DEF ControlInit, FollowedInv
<1>2. FollowedInv /\ [ControlNext]_<<part, vars, continuousVars, followedVars>>
         => FollowedInv'
  <2>1. FollowedInv /\ Followed!Next => FollowedInv'
    BY FollowStep, PlanStep, MatchStep DEF FollowedInv
  <2>2. FollowedInv /\ UNCHANGED followedVars => FollowedInv'
    BY FollowedRest
  <2>3. QED
    BY <2>1, <2>2 DEF ControlNext
<1>3. QED
  BY <1>1, <1>2, PTL DEF ControlSpec

(* The session captures pods of one workload object only, and never more   *)
(* than the target's, the session's and a node's limit allow, whatever the *)
(* cluster does between the requests of Resolve.                           *)
THEOREM ControlSources == ControlSpec => []SourcesAreLegal
<1>1. FollowedInv => SourcesAreLegal
  BY Legal DEF FollowedInv, SourcesAreLegal
<1>2. QED
  BY <1>1, FollowedInductive, PTL

(* When nothing is under way, the agents capture what the runtime says.    *)
THEOREM ControlMatch == ControlSpec => []CapturesMatch
<1>1. FollowedInv => CapturesMatch
  BY MatchLegal DEF FollowedInv, CapturesMatch
<1>2. QED
  BY <1>1, FollowedInductive, PTL

(* One source of a pod: as many as their pods.                             *)
LEMMA AsManyIds ==
  ASSUME NEW S \in SUBSET Followed!Sources, Unique(S)
  PROVE  Followed!Cardinality(Followed!Ids(S)) = Followed!Cardinality(S)
<1> DEFINE f == [r \in S |-> r.uid]
           I == Followed!Ids(S)
<1>1. f \in [S -> I]
  BY DEF Followed!Ids
<1>2. \A u \in I : \E r \in S : f[r] = u
  BY DEF Followed!Ids
<1>3. \A r, s \in S : f[r] = f[s] => r = s
  BY DEF Unique
<1> HIDE DEF f, I
<1>4. f \in Surjection(S, I) /\ f \in Injection(S, I)
  BY <1>1, <1>2, <1>3 DEF Surjection, Injection, IsInjective
<1>5. IsFiniteSet(S)
  BY SourcesFinite, FS_Subset
<1>6. Cardinality(I) = Cardinality(S)
  BY <1>4, <1>5, FS_Surjection
<1>7. QED
  BY <1>6, SameCount DEF I

(* Every part keeps its types; of every pod the session has one source and *)
(* its agent one capture, and no command channel holds more than it may.   *)
THEOREM ControlTypes == ControlSpec => []PartsTypeOK
<1>1. FollowedInv => Followed!TypeOK
  <2> SUFFICES ASSUME FollowedInv PROVE Followed!TypeOK
    OBVIOUS
  <2>1. /\ runtime \subseteq Followed!Sources /\ captured \subseteq Followed!Sources
        /\ Unique(runtime) /\ Unique(captured)
    BY DEF FollowedInv, FollowInv, SessionTypes, AgentSideTypes, PlaceInv
  <2>2. /\ Followed!Cardinality(Followed!Ids(runtime)) = Followed!Cardinality(runtime)
        /\ Followed!Cardinality(Followed!Ids(captured)) = Followed!Cardinality(captured)
    BY <2>1, AsManyIds
  <2>3. QED
    BY <2>1, <2>2 DEF FollowedInv, FollowInv, ClusterInv, ClusterTypes, SessionTypes,
       AgentSideTypes, Followed!TypeOK
<1>2. Service!TypeOK => Capture!TypeOK
  BY DEF Service!TypeOK, Capture!TypeOK, Service!Ids, Capture!Ids, Service!Procs,
     Capture!Procs, Service!Ended, Capture!Ended
<1>3. Service!Spec => []Service!TypeOK
  BY StartsAssumption, Service!TypeCorrect
<1>4. TypeOK /\ Capture!TypeOK /\ Followed!TypeOK => PartsTypeOK
  BY DEF PartsTypeOK
<1>5. QED
  BY <1>1, <1>2, <1>3, <1>4, FollowedInductive, ServicePart, SessionPart, TypeCorrect, PTL
==============================================================================
