# cap-mesh in TLA+

A verification project for cap-mesh, a distributed packet capture: agents on the
nodes of a cluster capture packets on command and send them to one server, which
merges them by time, streams them to clients and records them to disk. The
modules model the parts of the program where several goroutines, processes or
machines act on shared state, where the process may die between two system
calls, and where a queue or a file may be full. Paths below are relative to the
repository (`src/`).

## 1. The system

### 1.1 Components

| component | source | state it keeps | operations |
|---|---|---|---|
| session service | `internal/application/session/service.go`, `internal/adapter/memory/session_repository.go` | the session in the repository (status, nodes), the runtime map (sources started, the reconcile loop's context) | Create, Restore, Stop, AgentConnected, AgentDisconnected, CaptureStatus, the reconcile loop |
| agent registry and agent server | `internal/adapter/grpcserver/registry.go`, `agent_server.go` | the connection known for each node and its command channel | register, unregister, ConnectedNodes, Send, the serving loop |
| stream pipeline | `internal/application/stream/service.go`, `heap.go` | per session a heap of packets, the subscribers and their channels | OpenSession, Publish, subscribe, run, emitUntil, close |
| session recorder | `internal/adapter/recording/manager.go` | the active recorders; per recorder the open segment, the retained segments and their size; `metadata.json` | Start, run, writeBatch, rotate, finishSegment, pruneOldest, loadExistingSegments, complete, Shutdown |
| recovery file | the same file | `capture-recovery.json` and its `.part`: desired state and generation | writeRecovery, readRecovery, SetSessionDesiredState, RecoverableSessions |
| recording catalog | `internal/adapter/recording/catalog.go` | a mutex; it reads the directories | list, capacity check before Create, dry run, cleanup |
| continuous capture | `internal/application/continuous/service.go` | the state of the singleton; one directory and one recovery file for all its sessions | Start, Stop, Get, Restore, RecordingCompleted |
| workload log capture | `internal/application/logcapture/service.go` | the one log job, its streams, its records channel | start, stop, shutdown, run, reconcile, stream, restore |
| log recorder | `internal/adapter/logrecording/manager.go` | a writer per container log, the finalized segments of all runs and their size; `log-recovery.json` per run | Write, rotate, finish, prune, Close, the scan at Start |
| capture engines | `internal/adapter/capture/*.go` | the rings' memory budget, the filter cache; per capture a process or a ring and the batch under construction | Capture, Compile, acquire and release, the reading and batching loops |
| agent capture service | `internal/application/agent/service.go` | the tracked captures | Start, Stop, StopAll, forwardBatches, remove |
| agent reporter and transport | `internal/adapter/grpcclient/agent.go`, `internal/adapter/metrics/agent.go`, `cmd/capmesh-agent/main.go` | the outbound queue, the connected flag | SendBatch, SendStatus, Connect, the relay of the metrics decorator, the reconnecting loop |
| workload resolver | `internal/adapter/kubernetes/workloads.go`, `pod_logs.go` | none; it reads a cluster that changes | Resolve, ResolvePods, StreamLogs |
| client | `cmd/capmesh-client/main.go`, `internal/adapter/pcapng/writer.go` | the writer's interfaces and its buffer | create, subscribe, write, flush, stop; the cleanup dialogue |
| the rest | benchmark, metrics, logging, configuration, generated protobuf code | none the properties are about | see section 7 |

### 1.2 Interactions

* The session service sends `start` and `stop` through the registry into a
  bounded channel per connection; the server goroutine of that connection
  forwards them; the agent's transport goroutine executes them.
* An agent's batches go through its bounded outbound queue to the server
  goroutine, which calls Publish; a FAILED status calls CaptureStatus in the
  same goroutine. Registering calls AgentConnected in a new goroutine, the end
  of the connection calls AgentDisconnected.
* The pipeline sends to the recorder and to live subscribers over channels and
  never waits: a full channel loses the batch, or, for the recorder, ends the
  subscription.
* Stop persists STOPPED before it tells anybody; Manager.Start persists RUNNING
  as its last step; at boot every session whose file says RUNNING is restored.
* All continuous sessions share one directory and one recovery file.
* On an agent a packet passes four goroutines (reader, batcher, relay,
  forwardBatches) and three bounded channels before the outbound queue.
* A followed workload is resolved again on every tick of the reconcile loop and
  on every connection of an agent, with several requests to the cluster, and the
  difference is sent as start and stop commands.
* The log job polls the cluster, keeps one goroutine per container log and
  writes what they read to one recorder.
* A cleanup, and the capacity check of Create, scan the directories under a
  mutex the recorders do not take.
* The client creates a session, reads its stream in one goroutine and writes in
  another, and stops the session in a deferred call.

### 1.3 What is hard, and what is right

Service methods read a session, work, and write their copy back, with no lock in
between. Connections break and overlap. Three goroutines can close the same
channel. The recovery file, the segments and the metadata must make sense to the
next process after a death at any system call. The agent's transport goroutine
is both the producer and the only consumer of a bounded queue. What makes each
part correct:

* recovery file: an acknowledged stop is never undone, a session nobody stopped
  is always found;
* pipeline: no panic on a channel, no hole in what the recorder sees, order
  inside the reorder window, nothing held for ever, COMPLETED means complete;
* recorder: no recording replaced, the newest segments kept, the limit held;
* cleanup: only finished recordings are deleted;
* session service: an ended session is durably ended and releases its pipeline,
  a running one is served, a reconnecting agent captures again, a stop ends
  every capture;
* agent: what runs is tracked so that a stop reaches it, an overload never ends
  a capture;
* capture: packets are forwarded in order and without a hole, in the end all of
  them; rings fit their budget and filter with their own program;
* log and continuous capture: one at a time, STOPPED means that nothing
  captures, and the next boot resumes exactly what nobody stopped;
* catalog: the quota means something, the oldest go, nothing unconfirmed goes;
* workload: limits hold half-way too, and the session converges to the workload;
* client: the output is readable at any moment and complete at the end, and a
  session nobody reads ends.

`PROJECT.json` lists the hazards, each at its line, with the properties that
cover it; section 4 has the cases the properties exclude.

## 2. The modules

| module | models | goroutines and failures |
|---|---|---|
| `RecoveryFile` | the recovery file of one session, one step per system call | concurrent stops, the boot, death of the process anywhere |
| `Segments` | one recording directory: segments, retention, metadata, restart, cleanup | recorder, service, cleanup; failure of every step, death anywhere |
| `Stream` | one session's pipeline with its recorder's select loop and live subscribers | publishers, run, close, context cancellation, consumers, overflow |
| `Session` | the control plane of one session and the connections of its agents | any number of handlers inside the service, agents, the network |
| `Agent` | one agent, one source: capture service, reporter, transport | transport loop, one forwarding goroutine per capture, the network |
| `LogCapture` | the log service, its job, its streams and the desired state of each run | the user's calls, the job, one goroutine per container, the cluster, shutdown and death |
| `LogFiles` | the log recorder's segments of all runs under one quota | failure of every file operation, death anywhere |
| `Catalog` | the directories of several normal sessions, scan, capacity check, cleanup and its dialogue | recorders that do not take the mutex, failing removals, a restart |
| `Continuous` | the continuous capture service over the sessions it creates | RecordingCompleted's goroutine, CaptureStatus, the boot, failing writes, death |
| `Singleton` | abstract: what a client may rely on for the one capture of a kind | refined by `LogCapture` and `Continuous` |
| `CaptureStart` | engine selection, filter compilation and cache, ring budget, the steps of opening a ring | captures that end while another starts; failure of every step |
| `CapturePipeline` | one running capture from the engine to the reporter | reader, batcher or ring loop, relay, forwardBatches, cancellation |
| `Workload` | a session that follows a workload: resolver, reconcile loop, replay, commands | the loop, one replay per node, a cluster that changes between two requests |
| `Client` | create, stream to standard output, stop; the pcapng writer | main loop, receiving goroutine, ticker, signal, `os.Exit`, the server's TTL |
| `ContinuousProofs`, `LogCaptureProofs` | theorems about the module they are named after | |
| `RecoveryFileProofs` | theorems about `RecoveryFile`, carried over with those of `LogCapture` to `MCRecovery` | |
| `PacketsProofs` | the same of `Stream`, `CaptureStart` and `CapturePipeline` in `MCPackets` | |
| `ControlProofs` | of `Session`, `Workload` and (from `ContinuousProofs`) `Continuous` in `MCControl` | |
| `AgentProofs` | of `Agent` and `Client` in `MCCapture` | |
| `RecordingsProofs` | of `Segments` and `LogFiles` in `MCRecordings` | |
| `SumTheorems` | what finite sets of numbers and sums over finite sets do, for `RecordingsProofs` | |
| `MC...` | instances for TLC, see section 3 | |

### RecoveryFile

`file` and `part` are the two files: a state `[desired, gen]`, `Torn` or
`Absent`. `os.WriteFile` is `WriteOpen` (O_TRUNC) and `WriteData`, `os.Remove`
is `RemoveFile`, `os.Rename` is `RenameOk` or `RenameError`. Because goroutines
share the `.part` name without a lock, a goroutine that is between open and
write may have its inode renamed or unlinked by another one; `fd` tracks where
it is. `Newest` is the choice of `readRecovery`: the readable candidate of the
larger generation. A stop reads the two files in two steps (`SetDesiredBegin`,
`SetDesiredRead`), between which another stop may move them. `phase` is the life of the process with respect to this session:
SetSessionDesiredState finds the path only once Start has returned, or after a
boot scan.

### Segments

`disk` is the set of finalized segments with their modification order, `parts`
the `.pcapng.part` files, `meta` and `metaPart` the two metadata files. A
recorder `rec[r]` steps through `pc`; the steps that Start, rotate and complete
have in common (prune, write metadata, open, finish) are shared and `goal`
remembers for whom they are taken. `Load` removes every `.part` file of the
directory, as the code does. `StartFails`, `FinishFails`, `RotateFails` and
`MetaFails` are the error returns. Packet sizes stand for the bytes a packet
adds, headers included: the pcapng writer counts buffered bytes and writes its
headers with the first packet. Pruning and metadata writing are one step per
file operation, the remaining calls (ReadDir with its removals, rename with the
accounts, RemoveAll) are one step each. In the continuous directory the removal
of the old `metadata.json` and the rename are one step, since nothing reads it
between the two. Ties of modification times are not modelled; the code breaks
them by name, which is the same order within a run. The list of retained
segments, which the code keeps sorted by time, is a set: times differ, and
`Prune` takes the oldest.

### Stream

`holder` is the goroutine inside `emitUntil`, which keeps `p.mu` for a whole
pass. A pass is `PopPacket` (the inner loop takes the top of the heap into the
batch), `SendBatch` (one send per subscriber, with the overflow rule) and
`EmitDone`. `RunWake` reads the clock before it asks for the lock, as `run`
does. `CloseSession` takes the pipeline off the map (`CloseBegin`), flushes
(`CloseFlush`), and closes the channels in a second critical section
(`CloseFinish`), so a Publish that found the pipeline earlier may come between.
The recorder is a subscriber with `select` semantics: any ready case may be
taken.

### Session

A handler `act[h]` is one goroutine inside the service, one step per access to
shared state; the fields of `act[h]` are its local variables, the session copy
included. `Update` writes that copy back whole, which is what
`repository.Update` does. `PersistStop` is `setDesiredState` where the caller ignores
its error: the write may fail, and `desired = "unsaved"` is a file that then still says
RUNNING; a Stop whose write fails returns the error. A source is named by its node. Targets are "every
connected node" or a followed workload, whose pods are any set of nodes at any
time. The TTL timer is a Stop that may come at any time. `Restore` is one step
because it runs before the server listens. Connections are numbered; `link` is
the one the agent uses, `registered` the one the registry has, `serving` those
whose server goroutine has not returned, so an old and a new connection of a
node can coexist.

### Agent

`pc` is the transport goroutine: its select loop, the command it executes, the
status it must queue before it selects again, and the teardown after the stream
broke. `fwd[g]` is the forwarding goroutine of the g-th capture. `slot` is the
map entry of the source. The connected test and the enqueue of `send` are two
steps.

### LogCapture

`op` is the holder of the service's operation mutex and where it stands in
`start`, `stop` or the boot; `job` is the job's goroutine, `stream[k]` that of
the container log `k`. The records channel is its length. `desired[r]` is
`log-recovery.json` of run `r`; `pods` is what the cluster would list now and
`seen` what it ever listed, since a pod UID with a restart count does not come
back. A Stop that times out leaves `op` while the job still ends. The boot
restores the newest run that is RUNNING and disables the others, as
`cmd/capmesh-server/main.go` does. `ran`, `stopAsked`, `stopped` and `idle` are
history for the properties.

### LogFiles

`files` is the disk over all runs, `finalized`, `writers` and `total` are the
recorder's own view. `Write` holds the recorder's mutex, so the steps of one
Write or Close do not interleave with another; they are separate because the
process may die, or an operation fail, between any two. A segment's `id` is the
order of creation, by which two segments of one name would be told apart.

### Catalog

A scan is `op` with the directories left in `todo`: `activeSessionIDs` is taken
once into `snapshot`, then one directory after the other is read while sessions
go on. The cleanup walks `plan`, validates each candidate and removes it in two
steps. A recorder may end at any size (`Complete`): at the limit, by a stop, by
an overflow or by a write error, and the last two leave the session RUNNING in its
recovery file, so that a `Restart` makes it grow again. `client` is the dialogue:
preview, prompt, clean. `older` relates the
directories by their finish times; the sorted list of what a scan found is the sets
`seen`, `deletable` and `plan` under it. `measured` is the size the scan saw, `sizeAfter`
the code's arithmetic with it, `size` the disk. A directory found in use or not removed
is in `spared` until the cleanup ends.

### Continuous and Singleton

The service's mutex is `call`. Each start is a new session; `stop[i]` is a
Service.Stop of session `i` that the service did not call itself (the goroutine
of RecordingCompleted), `report[i]` a CaptureStatus; agents report only once the
server serves, which is after the boot's restore. `file` is the shared
recovery file with the session it belongs to. `Singleton` has only a status and
whether something captures. Both refinements keep the status (a boot
that has not yet adopted the session counts as STARTING) and map the worker to "a job exists" (`LogCapture`) or "a session of the service is open"
(`Continuous`); they are the runs' `LogIsSingleton` and `CaptureIsSingleton`.

### CaptureStart and CapturePipeline

`CaptureStart` has one action per stage of a start, each with its failure, and
`Fails` is the selector's decision between refusing and falling back. Ends of
captures come at any time, the ring first and its memory second, as the defers
do. `CapturePipeline` gives every goroutine a program counter and every channel
a bounded sequence with a closed flag; `due` says that the batch is older than
the delay. The byte count of a batch is the sum over `read`.

### Workload

The resolver is one step per GET (object, pods, replica sets, interfaces), each
of which may fail, while the cluster changes in between. `proc` holds Create and
then the reconcile loop, and AgentConnected of each node. A source is
`[uid, node, iface]`. `cmds` are the command channels; a send to a full one
fails as the registry's does. `trouble` records the cases in which the code
gives up on consistency until a later tick: a refused stop or a late FAILED
report (`"forgot"`), and a replay that started something (`"replayed"`).

### Client

`pc` is main; `held` what the receiving goroutine offers over its unbuffered
channel; `buffer` and `file` are the blocks before and after a flush.
`code = "exit"` is `os.Exit`, which skips the deferred StopSession.

## 3. The runs

Components that share no state are checked in one run as a sum: a variable
`part` (`at` in `MCRecovery`), chosen in the initial predicate, says which of
them is at work, the others stay in one fixed initial state, and a property of a
part reads `part = "..." => ...`. The state space is the sum of the parts', not their
product, and nothing is abstracted. `MCRecovery`, `MCPackets`, `MCControl`,
`MCReconnect`, `MCCapture` and `MCRecordings` are such sums; the violation runs
check one module alone.

| run | module | expects | parts and what is checked |
|---|---|---|---|
| `recovery` | `MCRecovery` | pass | RecoveryFile: `StopIsDurable`, `RunningSurvives`. LogCapture: `LogEndIsClean`, `LogDesiredIsDurable`, the refinement `LogIsSingleton`, and `LogStopCompletes`, `LogListedIsRead` (liveness) |
| `recovery_double_crash` | `MCRecoveryFile` | violation | `RunningSurvivesEveryShutdown` |
| `stream` | `MCPackets` | pass | Stream: `ChannelDiscipline`, `RecordedIsWhole`, `OrderedWithinWindow`. CapturePipeline: `ForwardedIsWhole`. CaptureStart: `BudgetIsKept`, `FiltersAreRight` |
| `session` | `MCControl` | pass | Session: `EndedIsFinal`, `RunningIsServed`. Continuous: `CaptureStatusIsTrue`, the refinement `CaptureIsSingleton`. Workload: `SourcesAreLegal`, `CapturesMatch` |
| `session_resurrection` | `MCSession` | violation | `NoResurrection` |
| `reconnect` | `MCReconnect` | pass | all liveness. Session: `ReconnectRestoresCapture`, `StopEndsCapture`. Stream: `NothingIsHeld` |
| `reconnect_overlap` | `MCSession` | violation | `ReconnectRestoresCapture` |
| `agent` | `MCCapture` | pass | Agent: `TrackedUnlessOverlap`, `OverflowKeepsCapture`. CapturePipeline: `CaptureProgresses` (liveness). Workload: `FollowConverges` (liveness). Client: `OutputIsWhole`, `ClientLeavesNothing` (liveness) |
| `agent_stall` | `MCAgent` | violation | `FullQueueDrains` |
| `recordings` | `MCRecordings` | pass | Segments: `NoOverwrite`, `RetentionIsRight`, `CleanupOnlyFinished`. LogFiles: `LogRetentionIsRight`. Catalog: `DeletionIsJustified`, `ConfirmedUnlessChanged`, `QuotaBound` |
| `segments_overlap` | `MCSegments` | violation | `OpenSegmentExists` |
| `log_stop` | `MCLogCapture` | violation | `StopPreventsRecovery` |

All passing runs but `reconnect` also check `PartsTypeOK`, the type invariants of
their parts. Several properties are conjunctions of named parts, each explained
where it is defined:

| property | parts |
|---|---|
| `RecordedIsWhole` | `LossAwareHasNoHole`, `CompletedIsWhole` |
| `ForwardedIsWhole` | `DeliveredIsPrefix`, `BatchLimits`, `CleanEndIsComplete`, `FailedIsGenuine` |
| `CaptureProgresses` | `PacketsAreForwarded`, `FailureIsReported`, `CaptureUnwinds` |
| `BudgetIsKept` | `RingsFitBudget`, `BudgetIsReturned` |
| `FiltersAreRight` | `OwnFilter`, `BadFilterIsRefused` |
| `EndedIsFinal` | `TerminalIsDurable`, `TerminalHasNoPipeline` |
| `CaptureStatusIsTrue` | `OneCapture`, `StoppedStaysStopped`, `RunningIsRecovered`, `RecorderEndIsNoticed` |
| `SourcesAreLegal` | `OneIncarnation`, `LimitsHold` |
| `NothingIsHeld` | `AcceptedIsEmitted`, `CloseFinalizesRecording` |
| `OutputIsWhole` | `OutputIsReadable`, `ReturnIsComplete`, `ReturnStops` |
| `ClientLeavesNothing` | `BufferedIsFlushed`, `AbandonedEnds` |
| `RetentionIsRight` | `RetainedIsNewest`, `SizeBound`, `AccountingMatchesDisk` |
| `LogRetentionIsRight` | `QuotaHolds`, `NewestIsKept`, `NamesAreUnique`, `AccountMatches`, `NeverSpins` |
| `DeletionIsJustified` | `LiveIsKept`, `OldestFirst`, `DeletesOnlyAboveTarget` |
| `LogEndIsClean` | `SealedIsComplete`, `NothingLeftBehind` |
| `LogDesiredIsDurable` | `StoppedRunStaysStopped`, `LatestRunSurvives` |

`PROJECT.json` names for each property a mutant of the code that breaks it. The
passing runs take two to four minutes each with two workers; the largest,
`stream` and `recordings`, have between two and a bit over three million distinct
states.

### Bounds and why they are enough

* RecoveryFile: two stopping goroutines and the starter, generations up to 6. Two
  writers are what a race on `.part` needs; six generations are several
  create, stop, crash and restore rounds. The number of crashes is not bounded.
* LogCapture: two containers of which the target allows one pod, a channel of
  one record, two runs, two failing calls, one restart. A full channel, a target
  above its limit, two runs found RUNNING at boot, and a stop whose caller gave
  up all occur.
* Segments: two continuous sessions or one normal one, segments of 2 units,
  a limit of 5, packets of 1 and 2, four packets, two crashes. A segment can
  overshoot, retention must delete, a run can be continued twice and a second
  run inherits the first one's files. A deletion with stale metadata needs both
  crashes. `segments_overlap` lets a session start while its predecessor's
  recorder drains, which `Overlap = FALSE` excludes from `recordings`.
* LogFiles: two containers, segments of 2, a quota of 3, lines of 1, 2 and 4
  (one alone exceeds the quota), four lines, two run directories, one death.
* Catalog: three sessions of at most 1 unit, a total of 2 and so a target of 1,
  one fault: a cleanup has a candidate to delete and one to keep, and two
  creates can pass one check. A session may end empty while it is RUNNING, be passed
  by a check and grow after the restart.
* Stream: two nodes, three packets of which the later arrivals can be older,
  channels of one batch (any second batch can overflow), batches of two packets
  or three bytes (each limit can end a batch), a recorder that truncates at
  three packets, a clock of three instants. For liveness, in `reconnect`, it has
  the recorder alone.
* CapturePipeline: channels of one batch, batches of two packets or three bytes,
  packets of 1 and 4 (one is larger than a batch may be), three packets. For
  liveness two packets of one size.
* CaptureStart: three captures, a budget for two rings and a half, a cache of
  one program, two interfaces, a filter that compiles, one that does not, none.
* Session: one node, two handlers, two connections, one failing capture, a
  command channel of one, no tick of the reconcile loop (`reconnect` has one, and
  `Workload` has the loop in detail). Every pair of methods can race, the
  channel can be full, and a source can come back once. Handlers are symmetric,
  and the symmetry is sound here: the only temporal property of that run is a
  step-by-step refinement that names no handler.
  In `reconnect`: two nodes, one handler, two connections each, command channels of
  two, two ticks. A stop and a start queued for an agent that has not read them fill a
  channel, so a stop is refused in this run too, and `StopEndsCapture` fails in it
  without its exception. `Calm` says that
  connections change only while no handler is inside the service; without it the
  property fails (`reconnect_overlap`).
* Continuous: two sessions, one write that fails, one death: the goroutine that
  stops the first session can come at any moment of the second.
* Workload: two pods, a target limit of two, three changes of the cluster or
  faults, two workload objects of one name, a deployment alone or a stateful set
  beside another workload's pod that counts against the session. For liveness
  one pod, two changes and an agent that may connect late.
* Client: three batches on two interfaces of two link types, a writer that
  flushes by itself after two.
* Agent: a queue of two, three captures, four commands, two connections: the
  smallest numbers with which a third capture meets the unwinding first one.

Deadlock checking is off in all but one run: sessions end, packets run out and
bounds are reached, and a system with nothing to do may stop. What must go on is
stated as liveness.

### Fairness

* Stream: goroutines are scheduled and time passes (weak fairness). Waiting
  for `p.mu` is strongly fair: `sync.Mutex` enters starvation mode after 1 ms
  and hands the lock to the waiter. Publishing, subscribing, cancelling and
  closing are never forced.
* Session: goroutines are scheduled; both ends notice a broken connection
  (gRPC keepalive); an agent dials again every two seconds. No user has to call
  Create or Stop and no connection has to break.
* Agent: the goroutines are scheduled; `select` picks at random among its
  ready cases, so `Transmit` is strongly fair.
* LogCapture: the steps of the job and of the streams, each weakly fair by
  itself. `select` chooses at random, but a cancelled context stays ready, and a
  stream that is disabled only by a full channel waits for a job that drains it.
  No call of the cluster has to fail, and no user has to stop anything.
* CapturePipeline: each goroutine is scheduled and the batch timer fires. No
  packet has to arrive and nobody has to cancel.
* Workload: the loop ticks, the replay of a connected node goes on, commands of
  a connection that stays up are delivered, FAILED reports arrive. The cluster
  changes a bounded number of times, which is what "quiet" means.
* Client: its goroutines are scheduled, the flush ticker fires, and the session's
  TTL expires once the client is gone; before that no property relies on it.

## 4. Findings

1. A crash between `os.Remove` and `os.Rename` of `writeRecovery`, and another
   inside the next boot's `os.WriteFile` on the same `.part` file, lose a session
   nobody stopped (`recovery_double_crash`). One crash never does: that is
   `RunningSurvives`, which is proved.
2. Create, AgentConnected, AgentDisconnected and CaptureStatus write back a copy
   of the session taken earlier; a Stop in between is undone in the repository:
   STOPPING or STOPPED goes back to RUNNING, with the pipeline closed and the
   runtime entry gone (`session_resurrection`). The stop itself stays persisted
   (`TerminalIsDurable`).
3. An agent that registers again before the server has noticed the end of its
   old connection is not told to start again (`reconnect_overlap`).
4. The agent's transport goroutine waits for room in the queue that only it
   empties (`agent_stall`).
5. A continuous session started right after a stop deletes the segment that the
   previous recorder is still writing (`segments_overlap`).

6. After a restore of the log capture that failed, the service is STOPPED while
   the run is still RUNNING on disk; a Stop then answers at once and persists
   nothing, and the next boot resumes the job (`log_stop`).

Weaker facts are stated inside passing properties, which exclude them:

* A capture started while an older one of the same source unwinds can lose its
  map entry to the older one's deferred `remove` (`TrackedUnlessOverlap`).
* A crash inside the write of `metadata.json.part` can make an unfinished,
  stopped recording deletable, because the `metadata.json` of an earlier process
  is read instead (`CleanupOnlyFinished`), although
  `docs/normal-recording-cleanup.md` says that corrupt metadata is never selected.
* The late stop of an ended continuous session writes STOPPED into the recovery
  file of the next one (`spoiled`, in `RunningIsRecovered`); a recorder that ends
  between the boot's restore and the moment the service knows the session's ID is
  not noticed (`missed`, in `RecorderEndIsNoticed`); an error that leaves the
  file RUNNING is not always reported (`unsaved`, in
  `StoppedStaysStopped`).
* A stop command that finds the command channel full is refused, Stop and the
  reconcile loop ignore the error and nothing retries: that agent goes on capturing a
  STOPPED session while its connection holds (`refused`, in `StopEndsCapture`).
* Create without a source, the expired branch of Restore, AgentDisconnected and
  CaptureStatus ignore the error of persisting STOPPED; if that write fails, the next
  boot finds the ended session RUNNING (`"unsaved"`, in `TerminalIsDurable`).
* A normal session whose recorder ends PARTIAL on an overflow or FAILED on a write
  error stays RUNNING in its recovery file, is restored by the next boot and grows
  again, although the quota was checked with its old size (`Settled`, in
  `QuotaBound`).
* A stop command that is refused is forgotten, and a FAILED report can be
  applied to a source started after it (`trouble = "forgot"`, in
  `CapturesMatch`); the replay for a connecting agent does not check MaxPods
  (`trouble = "replayed"`, in `LimitsHold` and `OneIncarnation`).
  `FollowConverges` holds all the same.
* `forwardBatches` may take an engine's error before batches queued ahead of it
  (`CleanEndIsComplete` speaks of ends without an error), and a dumpcap killed
  before it wrote its header is reported FAILED (`headless`, in
  `FailedIsGenuine`).
* A removal that fails half-way frees space that the loop does not count, by which
  the cleanup can go below its target (`uncounted`, in `DeletesOnlyAboveTarget`); a
  directory found in use is passed over for good, although its session may end while
  the loop goes on to younger ones (`spared`, in `OldestFirst`).

## 5. What is proved

TLAPS checks these for every value of the constants; together with their lemmas
they are eight modules, and every invariant the passing runs check is among the
results. Each of the safety proofs has one inductive invariant, a lemma that each
part of it is kept by a step, with one case per action, and a last theorem for
every property. Where TLC could enumerate it, the invariant was
checked on the instance of the run before it was proved.

| theorem | module | says |
|---|---|---|
| `StopDurable`, `RunningDurable`, `RenameRace`, `TypeCorrect` | `RecoveryFileProofs` | an acknowledged stop is never undone, a session nobody stopped is found |
| `EndClean`, `DesiredDurable`, `Implements`, `TypeCorrect` | `LogCaptureProofs` | a log job ends clean, its desired state is durable; the service implements `Singleton` |
| `RecoveryStop`, `RecoveryRunning`, `RecoveryLogEnd`, `RecoveryLogDesired`, `RecoveryLogSingleton`, `RecoveryTypes` | `RecoveryFileProofs` | the same of both, of the composed `RecoverySpec` |
| `TrackedAlive`, `TrackedWithoutOverlap`, `OverflowSafe` | `AgentProofs` | what captures is tracked, an overflow ends no capture |
| `ClientWhole`, `CaptureTypes` | `AgentProofs` | what the client writes can be read, without a hole; types of `CaptureSpec` |
| `ControlEnded`, `ControlServed`, `TypeCorrect` | `ControlProofs` | an ended session stays ended, a running one is served |
| `ControlSources`, `ControlMatch`, `ControlTypes` | `ControlProofs` | a session that follows a workload captures what it may, and what it lists |
| `StatusTrue`, `Implements` | `ContinuousProofs` | the continuous service's answers are true; it implements `Singleton` |
| `ControlStatusTrue`, `ControlSingleton` | `ControlProofs` | the same of the composed `ControlSpec` |
| `NamesKept`, `CleanupSafe`, `Retention`, `Together` | `RecordingsProofs` | no recording is replaced, only finished ones are deleted, the newest are kept within the limit |
| `LogRetentionKept` | `RecordingsProofs` | the log files keep to their quota, the newest of each log, names apart |
| `DeletionJustified`, `DeletionConfirmed`, `QuotaKept` | `RecordingsProofs` | a cleanup of all sessions deletes what may and must be deleted and what was confirmed; what Create found settled stays below the limit |
| `RecordingsTypes` | `RecordingsProofs` | types of `RecordingsSpec` |
| `ChannelsKept`, `Whole`, `Ordered`, `Together`, `TypeCorrect` | `PacketsProofs` | no panic on a channel, no hole, order within the window |
| `Budget`, `RightFilters` | `PacketsProofs` | rings within the budget, each with the filter of its request |
| `Forwarded`, `PacketsTypes` | `PacketsProofs` | a capture reports what it read, in order; types of `PacketsSpec` |

**RecoveryFileProofs**, from `StarterAssumption` (the starter is not one of the
callers) and `GenerationAssumption` (the bound is a number): for any set of
callers and any number of crashes. The properties are not inductive: whether a
boot finds RUNNING depends on what goroutines still inside `writeRecovery` are
about to write, and where. The inductive invariant `IInv` is `TypeOK` with

* `WritersInv`: who may be inside `writeRecovery` in each phase, and that
  RUNNING is written exactly while starting;
* `StopInv`: from the first acknowledged stop on, neither file says RUNNING, and
  a writer without a `.part` file has lost it to an acknowledged stop;
* `RunInv`: for a session nobody stopped, which of the two files holds RUNNING
  at each step of the starter.

`ReadFacts` reduces `readRecovery` to these three.

**LogCaptureProofs**, from `BoundsAreNat` (a channel capacity of at least one and
bounds that are numbers): for any set of container logs and any number of lines,
runs and deaths. `IInv` adds `ServiceInv` (which status goes with which call in
progress and which state of the job), `JobInv` (what `run` has seen end before it
goes on: nobody can add to the channel once it drains it for the last time) and
`DiskInv` (which runs the disk may still call RUNNING while a call is half-way). `Implements` maps the job in
progress to the one of `Singleton`; a stop that timed out leaves the old job there
until it has ended.

**AgentProofs**, from `QueueAssumption` (capacity at least one) and
`AgentBounds`: for any capacity and any number of captures, commands and
connections. `TrackInv` adds `NewestInv` (only the newest capture can be tracked,
later ones have not begun, one being started is tracked by nobody else) and
`OverlapInv` (without an overlap all older captures are done), which is why the
deferred `remove` of a capture then meets its own entry.

For `Client`, from `ReaderAssumption` (the number of batches is bounded by a
number), `ReaderInv` follows the batches from the session to the output:
`WriterInv` says that the file and the buffer behind it, taken together, can be
read at every moment and that an interface is written before its first packet;
`ReaderRow` that what has been written, what the main loop holds and what is still
to come carry the numbers that follow each other; `WaysOut` which step of the
`defer`s and of `os.Exit` leaves which of the two unfinished. How many packets of a
session a text has is a cardinality here, and the proofs use the library's
theorems about it.

**ControlProofs**, from `KindsAssumption` and the numeric bounds of `Session`:
for any sets of nodes and goroutines. That an ended session is durably ended
depends on the copies of it that goroutines hold and may still write back.
`IInv` adds `YoungInv` (before Create or Restore has opened the pipeline nobody
has a copy), `CopyInv` (a goroutine that holds a copy in a terminal state has
tried to persist the stop before, or is about to and can still only write that state;
for one that is past `persist` the disk says STOPPED, or the write has failed) and `ServedInv` (RUNNING on
disk means that the pipeline and the runtime entry are there or that a named
goroutine is about to provide or to give them up). `HarmlessStep` settles every
step that touches none of this. `Session`'s repository write in CaptureStatus,
the window of finding 2, is one of the cases: it brings back RUNNING in the
repository but not on disk.

For `Workload`, from `FollowedAssumption` (a channel capacity and limits that are
numbers), `FollowedInv` has two halves. `SourcesAreLegal` is not inductive, because
the reconcile loop works on a resolution of the cluster that is out of date while it
applies it: `PlanInv` says that the runtime is within the limits and that what the
loop keeps of it and what it has still to start are parts of one lawful set, so that
no step in between exceeds a limit.
For `CapturesMatch`, `MatchInv` follows each pod by itself: the last command on its
way to the agent, or what the agent does if there is none, is what the runtime wants
of it, unless a replay, the loop or a report is about to make it so. `MCControl`
declares the constants of `Workload` for that (`Shapes`, `PodNodes`, `Joined`,
`PodInterfaces`, `ChannelSize`).

**ContinuousProofs**, from `MaxStarts \in Nat`: for any number of sessions,
failing writes and deaths. `IInv` relates the call in progress, the status, the
owner of the recovery file, and for each session what its recorder and the
goroutines that stop it may still do; `spoiled`, `unsaved` and `missed` record the
three cases of section 4 that the property excludes. `Implements` is the
refinement of `Singleton`: every step of the service is a step of it or a
stutter.

**RecordingsProofs**, from the assumptions of `Segments` (sizes are positive, a
segment of a continuous recording is not larger than the limit, which Start
checks; 0, no limit, stands for one above all packets). For
`NamesKept` and `CleanupSafe` sessions may overlap. `Retention` (and `TypeCorrect` and
`RecordingsTypes`, as `active` is exact only then) is stated under `~Overlap`: a session starts
only when its predecessor's recorder has ended. The code ensures that for normal
sessions, which have a directory each, and not for continuous ones; that is
finding 5, and `segments_overlap` shows that it cannot be dropped. `IInv` adds
`GoalInv` (which goal goes with which step), `NameInv` (a recorder's sequence
number is ahead of every file and `.part` of its run), `MetaInv` and `CleanInv`
(what the metadata says, and what a cleanup still knows of what it read), and
under `~Overlap` `SoleInv`, `AgeInv`, `PartInv`, `SizeBound`, `NearLimit` and
`RollingRoom`: what is stored is below the limit before every packet, so that
one packet is all it can be exceeded by, and each crash can add one. Sizes are
sums over sets of files; the library has no theorem about them that the provers
can use, and `SumTheorems` obtains them by a least counterexample among the
subsets of a finite set.

For `LogFiles`, from `LogAssumption` (a segment is not larger than the quota, which
NewFactory checks; there is a log), `LogInv` says of the files (`FilesInv`) that of
one directory only the newest segment may be `.part` and that a newer one has a
larger number and a later last write; of the recorder (`FinalInv`, `WritersInv`,
`OpenParts`) that `finalized` is exactly the `.log` files, each finished before its
successor was last written, and that a writer that is open has its file and knows
the largest number of its directory. From the order in time follows that the oldest
segment of all is the oldest of its directory (`PrunedInv`), which is
`NewestIsKept`; from the numbers that a run restored after any number of deaths
takes no name twice. `LogQuota` is what each step of Write may count on: room for
the line, or an empty disk before a line larger than the quota and nothing else
after it, for which `SegmentSize <= MaxRetainedSize` is needed: such a line fills
its segment, so that Write cannot return before it has been pruned.

For `Catalog`, from `CatalogAssumption` (sizes and bounds are numbers, and there is a
limit), `CatInv` follows one scan or cleanup while sessions grow, finish and stop.
`CatScan`: what a scan has measured has only grown since, and what it found deletable
is finished. `CatClean`: every deletable directory is deleted, spared or still to come,
the deleted ones older than those to come; `sizeAfter` is the measured size of what is
not deleted, all of which is on the disk, at least as large unless a removal of it
failed. From that `DeletesOnlyAboveTarget` is a comparison of two sums. `CatQuota` says
why the bound of `Create` lasts: what was settled before the check (finished, and
stopped or full) is below the limit and cannot grow: a boot restores only what is not
stopped, and what is full takes nothing more. What finished otherwise is not counted as
settled, and is given the room of a whole session like one that runs. `CatDialogue` holds
as long as nothing has changed: what the user was shown is what a cleanup would list of
the directories as they are, and so what the loop picks, whose arithmetic over the ones
it has deleted is that of the dry run.

**PacketsProofs**, from the assumptions of `Stream` (`FeedAssumption`: a node
publishes sequences of sets of packets; the recorder is a loss-aware subscriber;
limits are positive): for any number of nodes, packets and subscribers, every
window, delay, queue size and batch limit. `IInv` adds

* `ChannelInv`: a subscribed channel is not closed, nobody is subscribed after
  the close, and only the closing pipeline flushes;
* `HoleInv`: what a loss-aware subscriber took and what its channel holds is the
  log from its subscription on, position by position;
* `RecorderInv`: the recorder is subscribed until the pipeline is closed, it was
  dropped or its context is done; what it took it has written;
* `WholeInv`: an accepted packet is in the heap, in the batch or in the log, in
  the end in the recorder's hands;
* `ClockInv` and `OrderInv`: every cutoff is in the past, what left the heap is
  in order with all that is still in it, and older than the window. The last is
  what makes the property hold across passes: a packet that is pushed later and
  is older arrives after its window.

For `CaptureStart`, from `StartAssumption` (limits are numbers), `StartInv` counts
the rings: the open ones are those of the captures in `afpacket` and of the start
that has opened some of its own, and what is reserved is the sum of what each of them
acquired; a failed step gives back what the start has, once. Of the filters it says
that a cached program is that of its key and that a start carries its own request's
program from the compiler to the ring.

For `CapturePipeline`, from `PipelineAssumption` (sizes and limits are positive),
`PipeInv` lines up the packets: what SendBatch got, what forwardBatches holds, the
channel, the relay, the batcher and what is left at the interface are consecutive
parts of the row of packets read (`RowInv`), until somebody gives up; a batch at any
of these places keeps its limits, its bytes being a sum of the packet sizes; and
somebody who gives up leaves the reason with which the capture ends.

The theorems about the sums (`RecoverySpec`, `ControlSpec`, `CaptureSpec`,
`RecordingsSpec`, `PacketsSpec`) follow from those about the parts: a step of
another part is a stutter of this one.

`TypeCorrect`, `RenameRace` (`LostRaceMeansStopped`), `TrackedAlive`
(`TrackedIsAlive`) and `StatusTrue` state parts that no run checks by themselves.

## 6. What is only model-checked

* All liveness (`LogStopCompletes`, `LogListedIsRead`, `ReconnectRestoresCapture`,
  `StopEndsCapture`, `NothingIsHeld`, `CaptureProgresses`, `FollowConverges`,
  `ClientLeavesNothing`): proofs of leads-to under fairness are out of the prover's
  reach.

## 7. What is not modelled

* Benchmark, metrics, logging, flags, TLS, authentication, generated protobuf
  code and message conversion keep no state these properties are about.
* `internal/adapter/kubernetes/interfaces.go` (a read of one mapping), label
  selectors (ownership decides in `Workload`), credentials and URLs.
* Of the log recorder: the sync ticker, `metadata.json`, which nothing reads
  back, and the text of lines. Of the log streams: the time from which a
  reconnected stream asks, which depends on two clocks.
* Of the capture engines: packet contents, VLAN tags, statistics and the route
  lookup. Of the pcapng writer: the bytes.
* Of the client: commands that are one call and a printout.
* Of the recorder: an `os.Stat` that fails right after the `os.Rename` that finished
  the segment (`finishSegment`). The recorder ends FAILED then and the segment is on
  disk but in no account until the next Start of the directory takes it over;
  `RetentionIsRight` is about recorders to which this does not happen.
* The order of the server's shutdown. Disk errors of the recovery file other
  than a lost rename; clock steps.

## 8. Plan

The model covers the components that keep state, and the invariants of all of them
are proved. What is left is the refinement of one abstract recording by `Segments` and
`LogFiles`, which have the same rotation and retention in two implementations.

## 9. Running it

`tlc -config Packets.cfg MCPackets` checks a run, with the module and configuration
`PROJECT.json` names for it; `tlapm RecoveryFileProofs.tla` checks the proofs of a
module. `RecordingsProofs` and `PacketsProofs` take ten to fifteen minutes each, `ControlProofs`
eight, the others less.
