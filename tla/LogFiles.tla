------------------------------ MODULE LogFiles ------------------------------
(***************************************************************************)
(* The files of the workload log recorder: one writer per container log,   *)
(* segments rotated at line boundaries, one quota over all runs.           *)
(*   src/internal/adapter/logrecording/manager.go                          *)
(*                                                                         *)
(* recorder.Write holds the recorder's mutex throughout, but the process   *)
(* can die between any two of its file operations, and each of them can    *)
(* fail, which ends the job (see LogCapture).  A restart works on the same *)
(* run directory, a new run on a new one, and both count what all earlier  *)
(* runs left.  A segment keeps its size, its last write (the modification  *)
(* time a restart goes by) and `id`, the order in which segments were      *)
(* created, by which the properties tell segments of one name apart.       *)
(***************************************************************************)
EXTENDS Naturals, FiniteSets, FiniteSetsExt, Functions

CONSTANTS
    Streams,            \* container logs
    SegmentSize, MaxRetainedSize,
    LineSizes,          \* sizes a line may have
    MaxDirs, MaxLines, MaxDeaths   \* bounds

VARIABLES
    task,       \* "idle", "write", "close" or "none" (no recorder)
    step,       \* where Write or Close is
    line,       \* the record in Write: its stream and size
    writers,    \* r.writers
    finalized,  \* r.finalized
    total,      \* r.totalSize
    files,      \* the .log and .log.part files of every run
    runDir,     \* the run directory
    now, created, lines, deaths,
    pruned      \* history: per directory, the id of the newest pruned segment

vars == <<task, step, line, writers, finalized, total, files, runDir, now,
          created, lines, deaths, pruned>>
rest == <<runDir, created, lines, deaths>>

Dirs == (1..MaxDirs) \X Streams
Dir(s) == <<runDir, s>>
NoWriter == [open |-> FALSE, size |-> 0, sequence |-> 0, openedAt |-> 0]
NoLine == [stream |-> CHOOSE s \in Streams : TRUE, size |-> 0]
Name(f) == <<f.dir, f.sequence, f.part>>
Size(F) == SumFunctionOnSet([f \in F |-> f.size], F)
DiskSize == Size(files)
PartOf(s) == CHOOSE f \in files : f.dir = Dir(s) /\ f.part
                /\ f.sequence = writers[s].sequence

Init ==
    /\ task = "none" /\ step = "none" /\ line = NoLine
    /\ writers = [s \in Streams |-> NoWriter]
    /\ finalized = {} /\ total = 0 /\ files = {}
    /\ runDir = 0 /\ now = 0 /\ created = 0 /\ lines = 0 /\ deaths = 0
    /\ pruned = [d \in Dirs |-> 0]

-----------------------------------------------------------------------------
\* Mutant: only the files of the run that starts are counted.
ScanOwnRun ==
    LET kept == {f \in files : ~f.part} IN
    /\ files' = kept
    /\ finalized' = {[id |-> f.id, size |-> f.size, at |-> f.mtime] :
                        f \in {g \in kept : g.dir[1] = runDir'}}
    /\ total' = Size({g \in kept : g.dir[1] = runDir'})

(* scan: stale .part files are removed, the .log files of every run counted.*)
Scan ==
    LET kept == {f \in files : ~f.part} IN
    /\ files' = kept
    /\ finalized' = {[id |-> f.id, size |-> f.size, at |-> f.mtime] : f \in kept}
    /\ total' = Size(kept)

(* Factory.Start of a new run, or of the same one after a crash; the prune  *)
(* that follows the scan is the first work of the recorder.                 *)
Start ==
    /\ task = "none"
    /\ runDir' \in {runDir, runDir + 1} \cap 1..MaxDirs
    /\ task' = "start" /\ step' = "prune"
    /\ Scan
    /\ writers' = [s \in Streams |-> NoWriter]
    /\ UNCHANGED <<line, now, created, lines, deaths, pruned>>

(* Write: a line that would overrun the segment rotates it first.           *)
WriteBegin(s, n) ==
    /\ task = "idle" /\ lines < MaxLines /\ lines' = lines + 1
    /\ task' = "write" /\ line' = [stream |-> s, size |-> n]
    /\ step' = IF writers[s].open /\ writers[s].size > 0
                    /\ writers[s].size + n > SegmentSize
               THEN "rotate" ELSE "prune"
    /\ UNCHANGED <<writers, finalized, total, files, runDir, now, created,
                   deaths, pruned>>

(* finish: the segment gets its final name; one without a line is removed.  *)
Finish(s) ==
    LET f == PartOf(s)
        g == [f EXCEPT !.part = FALSE] IN
    /\ writers' = [writers EXCEPT ![s].open = FALSE, ![s].size = 0]
    /\ now' = now + 1
    /\ IF f.size = 0
       THEN files' = files \ {f} /\ UNCHANGED finalized
       ELSE /\ files' = (files \ {f}) \cup {g}
            /\ finalized' = finalized \cup
                                {[id |-> f.id, size |-> f.size, at |-> now]}

Rotate ==
    /\ task = "write" /\ step = "rotate" /\ step' = "prune"
    /\ Finish(line.stream)
    /\ UNCHANGED <<task, line, total, rest, pruned>>

-----------------------------------------------------------------------------
(* prune(reserve)                                                           *)
Reserve == IF task = "write" /\ step = "prune" THEN line.size ELSE 0
Pruning == step \in {"prune", "retain"}

Over == total + Reserve > MaxRetainedSize

Active == {s \in Streams : writers[s].open /\ writers[s].size > 0}
OldestActive == {s \in Active : \A t \in Active :
                    writers[s].openedAt <= writers[t].openedAt}

OldestFinalized == {g \in finalized : \A h \in finalized : g.at <= h.at}

(* The oldest finalized segment goes.                                       *)
PruneDelete ==
    /\ Pruning /\ Over /\ finalized # {}
    /\ \E g \in OldestFinalized :
        /\ finalized' = finalized \ {g}
        /\ total' = total - g.size
        /\ files' = {f \in files : f.id # g.id}
        /\ pruned' = [d \in Dirs |->
                        IF \E f \in files : f.id = g.id /\ f.dir = d
                        THEN Max({pruned[d], g.id}) ELSE pruned[d]]
    /\ UNCHANGED <<task, step, line, writers, now, rest>>

(* None is left: the oldest active one is finalized, and the loop goes on.  *)
PruneFinish ==
    /\ Pruning /\ Over /\ finalized = {}
    /\ \E s \in OldestActive :
        IF writers[s].open THEN Finish(s)
        ELSE UNCHANGED <<writers, finalized, files, now>>
    /\ UNCHANGED <<task, step, line, total, rest, pruned>>

(* Enough room, or a line larger than the whole quota.                      *)
PruneDone ==
    /\ Pruning /\ (~Over \/ finalized \cup Active = {})
    /\ step' = IF task = "write" /\ step = "prune" THEN "open" ELSE "none"
    /\ task' = CASE task = "close" -> "none"
                  [] task = "start" -> "idle"
                  [] OTHER -> IF step = "prune" THEN "write" ELSE "idle"
    /\ line' = IF task' = "write" THEN line ELSE NoLine
    /\ UNCHANGED <<writers, finalized, total, files, now, rest, pruned>>

-----------------------------------------------------------------------------
(* open: the first segment of a writer follows the .log files it finds.     *)
NextSequence(s) ==
    IF writers[s].sequence > 0 THEN writers[s].sequence + 1
    ELSE Max({0} \cup {f.sequence : f \in {g \in files : g.dir = Dir(s) /\ ~g.part}}) + 1

Open ==
    LET s == line.stream IN
    /\ task = "write" /\ step = "open" /\ step' = "append"
    /\ IF writers[s].open THEN UNCHANGED <<writers, files, created, now>>
       ELSE /\ writers' = [writers EXCEPT ![s] =
                    [open |-> TRUE, size |-> 0, sequence |-> NextSequence(s),
                     openedAt |-> now]]
            /\ files' = files \cup {[dir |-> Dir(s), part |-> TRUE, size |-> 0,
                    sequence |-> NextSequence(s), mtime |-> now,
                    id |-> created + 1]}
            /\ created' = created + 1 /\ now' = now + 1
    /\ UNCHANGED <<task, line, finalized, total, runDir, lines, deaths, pruned>>

(* The line is written whole; a full segment is finished and the quota      *)
(* enforced again.                                                          *)
Append ==
    LET s == line.stream
        f == PartOf(s) IN
    /\ task = "write" /\ step = "append"
    /\ files' = (files \ {f}) \cup
                    {[f EXCEPT !.size = @ + line.size, !.mtime = now]}
    /\ writers' = [writers EXCEPT ![s].size = @ + line.size]
    /\ total' = total + line.size /\ now' = now + 1
    /\ IF writers[s].size + line.size >= SegmentSize
       THEN step' = "finish" /\ UNCHANGED <<task, line>>
       ELSE step' = "none" /\ task' = "idle" /\ line' = NoLine
    /\ UNCHANGED <<finalized, rest, pruned>>

FinishFull ==
    /\ task = "write" /\ step = "finish" /\ step' = "retain"
    /\ Finish(line.stream)
    /\ UNCHANGED <<task, line, total, rest, pruned>>

-----------------------------------------------------------------------------
(* Close, for a stop or after an error at any step of Write: every open     *)
(* segment is finished in the map's order, one that cannot be stays .part.  *)
CloseBegin ==
    /\ task \in {"idle", "write"}
    /\ task' = "close" /\ step' = "finish" /\ line' = NoLine
    /\ UNCHANGED <<writers, finalized, total, files, now, rest,
                   pruned>>

CloseFinish(s) ==
    /\ task = "close" /\ step = "finish" /\ writers[s].open
    /\ \/ Finish(s)
       \/ /\ writers' = [writers EXCEPT ![s].open = FALSE]
          /\ UNCHANGED <<finalized, files, now>>
    /\ UNCHANGED <<task, step, line, total, rest, pruned>>

CloseRetain ==
    /\ task = "close" /\ step = "finish"
    /\ \A s \in Streams : ~writers[s].open
    /\ step' = "retain"
    /\ UNCHANGED <<task, line, writers, finalized, total, files, now,
                   rest, pruned>>

Crash ==
    /\ task # "none" /\ deaths < MaxDeaths /\ deaths' = deaths + 1
    /\ task' = "none" /\ step' = "none" /\ line' = NoLine
    /\ writers' = [s \in Streams |-> NoWriter] /\ finalized' = {} /\ total' = 0
    /\ UNCHANGED <<files, runDir, now, created, lines, pruned>>

RecorderStep ==
    \/ Rotate \/ PruneDelete \/ PruneFinish \/ PruneDone \/ Open \/ Append
    \/ FinishFull \/ CloseRetain \/ \E s \in Streams : CloseFinish(s)

Next ==
    \/ Start \/ CloseBegin \/ Crash \/ RecorderStep
    \/ \E s \in Streams, n \in LineSizes : WriteBegin(s, n)

Spec == Init /\ [][Next]_vars

-----------------------------------------------------------------------------
(* Types; an open writer has its .part file, of the size it accounts for.   *)
TypeOK ==
    /\ task \in {"none", "start", "idle", "write", "close"}
    /\ step \in {"none", "rotate", "prune", "open", "append", "finish", "retain"}
    /\ line.stream \in Streams /\ line.size \in LineSizes \cup {0}
    /\ \A s \in Streams : writers[s].open =>
            \E f \in files : f.dir = Dir(s) /\ f.part
                            /\ f.sequence = writers[s].sequence
                            /\ f.size = writers[s].size
    /\ total \in Nat /\ runDir \in 0..MaxDirs

(* No two files ever claim one name: neither a rename nor an exclusive      *)
(* create meets an existing file, whatever was pruned and however often the *)
(* run was restored.                                                        *)
NamesAreUnique ==
    \A f, g \in files : f # g => <<f.dir, f.sequence>> # <<g.dir, g.sequence>>

(* Between writes the files of all runs are within the quota; during one,   *)
(* only a line that alone exceeds the quota can break it, and then nothing  *)
(* else is kept.                                                            *)
QuotaHolds ==
    task \in {"idle", "write"} =>
        \/ DiskSize <= MaxRetainedSize
        \/ task = "write" /\ line.size > MaxRetainedSize /\ DiskSize = line.size

(* The recorder's account is the size of the files, at every step and after *)
(* every restart.                                                           *)
AccountMatches == task # "none" => total = DiskSize

(* Retention keeps the newest part of each container's log: no segment      *)
(* older than one it deleted is left in the same directory.                 *)
NewestIsKept ==
    \A f \in files : f.id > pruned[f.dir]

(* Write never gets stuck and the retention loop never spins: a step of     *)
(* Write that needs the open segment has it, and every segment the loop     *)
(* would finish to have one to delete has bytes on the disk to give up.     *)
NeverSpins ==
    /\ task = "write" /\ step \in {"rotate", "append", "finish"} =>
            writers[line.stream].open
    /\ \A s \in Active : \E f \in files :
            f.dir = Dir(s) /\ f.part /\ f.sequence = writers[s].sequence /\ f.size > 0

(* Retention: the files are within the quota and the newest of each log, no *)
(* two claim one name, the accounts are those of the disk, and the loop     *)
(* comes to an end.                                                         *)
RetentionIsRight ==
    QuotaHolds /\ NewestIsKept /\ NamesAreUnique /\ AccountMatches /\ NeverSpins
=============================================================================
