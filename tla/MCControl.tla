----------------------------- MODULE MCControl ------------------------------
(***************************************************************************)
(* The server's control plane: the goroutines of one capture session, the  *)
(* continuous capture service above it, and a session that follows a       *)
(* workload.  They share no state; each behaviour is one of the three at   *)
(* work, chosen at the start.  The symmetry is used for invariants and for *)
(* a step-by-step refinement that names no handler.                        *)
(***************************************************************************)
EXTENDS MCSession

CONSTANTS
    MaxStarts, MaxWriteFaults, MaxBoots,
    Shapes, Uids, PodNodes, Joined, PodInterfaces,
    MaxPods, SessionPods, NodeSources, ChannelSize, MaxOwners, MaxChanges

ASSUME StartsAssumption == MaxStarts \in Nat

VARIABLES
    part,
    captureStatus, current, call, session, open, recorder, stop, report, file,
    phase, started, writeFaults, boots, missed, spoiled, unsaved,
    target, others, exists, owner, replicas, pods, changes, created, connected,
    proc, runtime, channel, captured, failed, trouble

Capture == INSTANCE Continuous WITH status <- captureStatus

Followed == INSTANCE Workload WITH
    Nodes <- PodNodes, Interfaces <- PodInterfaces, QueueSize <- ChannelSize,
    kind <- target, current <- owner, phase <- created, cmds <- channel,
    reports <- failed

\* A deployment alone, or a stateful set beside another workload's pods.
MCShapes == {<<"deployment", {}>>, <<"statefulset", PodNodes>>}

\* Nodes have names of their own, the limits and bounds are numbers, and the
\* session's sources that never change are within the limits by themselves.
ASSUME FollowedAssumption ==
    /\ IsFiniteSet(Uids) /\ IsFiniteSet(PodNodes) /\ Followed!Loop \notin PodNodes
    /\ Joined \subseteq SUBSET PodNodes /\ PodInterfaces \subseteq PodNodes
    /\ {MaxPods, SessionPods, NodeSources, ChannelSize, MaxChanges} \subseteq Nat
    /\ MaxOwners \in Nat \ {0}
    /\ \A s \in Shapes :
          /\ s = <<s[1], s[2]>> /\ s[2] \subseteq PodNodes
          /\ Cardinality(s[2]) <= SessionPods
          /\ Followed!Fits({}, PodInterfaces, s[2])

continuousVars == <<captureStatus, current, call, session, open, recorder, stop,
                  report, file, phase, started, writeFaults, boots, missed,
                  spoiled, unsaved>>
followedVars == <<target, others, exists, owner, replicas, pods, changes, created,
                  connected, proc, runtime, channel, captured, failed, trouble>>

\* A part that is not at work has one initial state.
ControlInit ==
    /\ part \in {"session", "continuous", "workload"}
    /\ Init /\ (part # "session" => kind = "normal" /\ origin = "create")
    /\ Capture!Init
    /\ Followed!Init
    /\ part # "workload" => /\ target = "deployment"
                            /\ \A u \in Uids : pods[u].state = "none"

ControlNext ==
    /\ UNCHANGED part
    /\ \/ part = "session" /\ Next /\ UNCHANGED <<continuousVars, followedVars>>
       \/ part = "continuous" /\ Capture!Next /\ UNCHANGED <<vars, followedVars>>
       \/ part = "workload" /\ Followed!Next /\ UNCHANGED <<vars, continuousVars>>

ControlSpec ==
    ControlInit /\ [][ControlNext]_<<part, vars, continuousVars, followedVars>>

\* Types; one source and one capture per pod of the followed workload.
PartsTypeOK ==
    /\ TypeOK
    /\ part = "continuous" => Capture!TypeOK
    /\ part = "workload" => Followed!TypeOK

\* The continuous capture service's answer agrees with what captures, with the
\* recovery file and with the recorder (Start, Stop, Restore,
\* RecordingCompleted).
CaptureStatusIsTrue == part = "continuous" => Capture!StatusIsTrue

\* The continuous capture service implements the specification of a singleton
\* capture (Start, Stop, RecordingCompleted); at rest it trivially does.
CaptureIsSingleton == Capture!IsSingleton

\* The session captures pods of one workload object only, and those of the
\* target, of the session and of each node stay within their limits, also
\* half-way through a tick (Resolve, resolveInitialSources, reconcile).
SourcesAreLegal == part = "workload" => Followed!SourcesAreLegal

\* When nothing is under way, agents capture what the runtime says (reconcile,
\* startSource, the agent's Start and Stop).
CapturesMatch == part = "workload" => Followed!CapturesMatch
=============================================================================
