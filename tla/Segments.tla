------------------------------ MODULE Segments ------------------------------
(***************************************************************************)
(* One recording directory                                                 *)
(* (src/internal/adapter/recording/manager.go and catalog.go): the segment *)
(* files of a session recorder, their rotation and rolling retention,      *)
(* metadata.json, what a restart makes of them, and the cleanup of normal  *)
(* sessions.                                                               *)
(*                                                                         *)
(* A normal session has a directory of its own and one run; all continuous *)
(* sessions share one directory, and each is a run.  A restarted process   *)
(* continues the run whose recovery file says RUNNING.  The recovery file  *)
(* is its desired state here; RecoveryFile has its system calls.           *)
(*                                                                         *)
(* A recorder's Manager.Start and its sessionRecorder share the steps of   *)
(* `pc`; `goal` says on whose behalf a step is taken: "start", "rotate" or *)
(* "end" (complete).                                                       *)
(***************************************************************************)
EXTENDS Naturals, FiniteSets, FiniteSetsExt

CONSTANTS
    Modes,          \* of {"normal", "continuous"}: what the directory is for
    SegmentSize,    \* Config.SegmentSize
    MaxSessionSize, \* Config.MaxSessionSize
    PacketSizes,    \* bytes a packet adds to the file, the first one's headers included
    MaxRuns,        \* bound: continuous sessions
    MaxPackets,     \* bound: packets recorded
    MaxCrashes,     \* bound: deaths of the process
    Overlap         \* TRUE: a session may start while its predecessor's recorder drains

ASSUME ModesAssumption == Modes \subseteq {"normal", "continuous"}
\* Start refuses a continuous recording with limits that are not positive, or
\* with a segment larger than the session.  For a normal one 0 disables a limit,
\* as one above all that the packets add up to does.
ASSUME SizesAssumption ==
    /\ SegmentSize \in Nat \ {0} /\ MaxSessionSize \in Nat \ {0}
    /\ "continuous" \in Modes => SegmentSize <= MaxSessionSize
    /\ PacketSizes \subseteq Nat \ {0} /\ IsFiniteSet(PacketSizes)
    /\ PacketSizes # {}
ASSUME SegmentBounds ==
    /\ MaxRuns \in Nat \ {0} /\ MaxPackets \in Nat /\ MaxCrashes \in Nat
    /\ Overlap \in BOOLEAN

VARIABLES
    mode,     \* what the directory is for
    phase,    \* "boot" (the recovery loop), "up" (serving) or "down"
    disk,     \* finalized segments [run, seq, size, mtime]
    clock,    \* segments finalized so far: the next one's mtime
    parts,    \* ".pcapng.part" files [run, seq, size]
    meta,     \* status in metadata.json, "torn" or "absent"
    metaPart, \* the same for metadata.json.part
    desired,  \* DesiredState of the recovery file, or "absent"
    owner,    \* the run of the session in the recovery file
    run,      \* the newest run
    held,     \* the run the service takes to be running, 0 if none
    closed,   \* runs whose pipeline is closed: the recorder drains and ends
    active,   \* Manager.active
    rec,      \* the recorder of each run
    clean,    \* where CleanSessionRecordings is
    packets,  \* packets recorded so far
    crashes,  \* deaths of the process so far
    unfinished \* history: a segment was opened since the last final metadata

fileVars == <<disk, clock, parts>>
metaVars == <<meta, metaPart>>
serviceVars == <<desired, owner, run, held, closed>>
boundVars == <<packets, crashes>>
vars == <<mode, phase, fileVars, metaVars, serviceVars, active, rec, clean,
          boundVars, unfinished>>

Runs == 1..MaxRuns
Rolling == mode = "continuous"
Terminal == {"COMPLETED", "PARTIAL", "TRUNCATED", "FAILED"}
TotalSize(S) == SumFunctionOnSet([f \in S |-> f.size], S)

\* A recorder: its step, on whose behalf, r.sequence, metadata.Segments (which is
\* ordered by mtime), metadata.TotalFileSize, the bytes of the open segment,
\* metadata.Status.
Recorder(pc, goal) ==
    [pc |-> pc, goal |-> goal, seq |-> 0, list |-> {}, total |-> 0,
     size |-> 0, status |-> "RECORDING"]
At(r, l) == rec[r].pc = l
Goto(r, l) == rec' = [rec EXCEPT ![r].pc = l]
OpenPart(r) == [run |-> r, seq |-> rec[r].seq, size |-> rec[r].size]

Init ==
    /\ mode \in Modes /\ phase = "up"
    /\ disk = {} /\ clock = 0 /\ parts = {}
    /\ meta = "absent" /\ metaPart = "absent"
    /\ desired = "absent" /\ owner = 0 /\ run = 0 /\ held = 0 /\ closed = {}
    /\ active = {} /\ rec = [r \in Runs |-> Recorder("none", "start")]
    /\ clean = "idle" /\ packets = 0 /\ crashes = 0 /\ unfinished = FALSE

-----------------------------------------------------------------------------
(* Manager.Start.                                                          *)

Reserve(r) ==
    /\ active' = active \cup {r}
    /\ rec' = [rec EXCEPT ![r] = Recorder("load", "start")]
    /\ held' = r

\* A new session.  The continuous service starts one when it holds none.
Begin(r) ==
    /\ phase = "up" /\ held = 0 /\ r = run + 1 /\ r \in Runs
    /\ Rolling \/ r = 1
    /\ Overlap \/ active = {}
    /\ run' = r
    /\ Reserve(r)
    /\ UNCHANGED <<mode, phase, fileVars, metaVars, desired, owner, closed,
                   clean, boundVars, unfinished>>

\* Mutant: the sequence continues from the number of segments.
LoadSequenceCount(r) == Cardinality({f \in disk : f.run = r})

\* The largest sequence number among the run's own segments.
LoadSequence(r) == Max({0} \cup {f.seq : f \in {g \in disk : g.run = r}})

\* Mutant: only the segments of the recorder's own run are taken over.
LoadOwnRun(r) ==
    LET own == {f \in disk : f.run = r} IN
    /\ At(r, "load")
    /\ parts' = {}
    /\ rec' = [rec EXCEPT
          ![r].pc = "prune", ![r].seq = LoadSequence(r),
          ![r].list = own, ![r].total = TotalSize(own)]
    /\ UNCHANGED <<mode, phase, disk, clock, metaVars, serviceVars, active,
                   clean, boundVars, unfinished>>

\* loadExistingSegments: every .part file of the directory is removed, the
\* finalized segments are taken over by age.
Load(r) ==
    /\ At(r, "load")
    /\ parts' = {}
    /\ rec' = [rec EXCEPT
          ![r].pc = "prune", ![r].seq = LoadSequence(r),
          ![r].list = disk, ![r].total = TotalSize(disk)]
    /\ UNCHANGED <<mode, phase, disk, clock, metaVars, serviceVars, active,
                   clean, boundVars, unfinished>>

\* pruneOldest: room for a whole segment, none at the end.
Reserved(r) == IF rec[r].goal = "end" THEN 0 ELSE SegmentSize
Overfull(r) ==
    Rolling /\ rec[r].total + Reserved(r) > MaxSessionSize /\ rec[r].list # {}

Prune(r) ==
    /\ At(r, "prune") /\ Overfull(r)
    /\ \E oldest \in rec[r].list :
          /\ \A f \in rec[r].list : oldest.mtime <= f.mtime
          /\ disk' = disk \ {oldest}
          /\ rec' = [rec EXCEPT ![r].list = @ \ {oldest},
                                ![r].total = @ - oldest.size]
    /\ UNCHANGED <<mode, phase, clock, parts, metaVars, serviceVars, active,
                   clean, boundVars, unfinished>>

PruneDone(r) ==
    /\ At(r, "prune") /\ ~Overfull(r)
    /\ Goto(r, "meta")
    /\ UNCHANGED <<mode, phase, fileVars, metaVars, serviceVars, active, clean,
                   boundVars, unfinished>>

\* writeMetadata: os.WriteFile truncates metadata.json.part, ...
MetaTruncate(r) ==
    /\ At(r, "meta")
    /\ metaPart' = "torn"
    /\ Goto(r, "metaWrite")
    /\ UNCHANGED <<mode, phase, fileVars, meta, serviceVars, active, clean,
                   boundVars, unfinished>>

\* ... writes it, ...
MetaWrite(r) ==
    /\ At(r, "metaWrite")
    /\ metaPart' = rec[r].status
    /\ unfinished' = (unfinished /\ rec[r].goal # "end")
    /\ Goto(r, "metaRename")
    /\ UNCHANGED <<mode, phase, fileVars, meta, serviceVars, active, clean,
                   boundVars>>

\* ... and renames it at the end of a recording, and always for a continuous
\* one.  An error ends a Start or a rotation and is logged at the end.
MetaRename(r) ==
    LET final == Rolling \/ rec[r].goal = "end" IN
    /\ At(r, "metaRename")
    /\ final => metaPart # "absent"
    /\ meta' = IF final THEN metaPart ELSE meta
    /\ metaPart' = IF final THEN "absent" ELSE metaPart
    /\ Goto(r, IF rec[r].goal = "end" THEN "leave" ELSE "open")
    /\ UNCHANGED <<mode, phase, fileVars, serviceVars, active, clean, boundVars,
                   unfinished>>

\* openSegment, with O_EXCL.
Open(r) ==
    /\ At(r, "open")
    /\ rec' = [rec EXCEPT ![r].pc = IF rec[r].goal = "start" THEN "persist" ELSE "record",
                          ![r].seq = @ + 1, ![r].size = 0]
    /\ \A f \in parts : ~(f.run = r /\ f.seq = rec[r].seq + 1)
    /\ parts' = parts \cup {[run |-> r, seq |-> rec[r].seq + 1, size |-> 0]}
    /\ unfinished' = TRUE
    /\ UNCHANGED <<mode, phase, disk, clock, metaVars, serviceVars, active,
                   clean, boundVars>>

\* RUNNING is persisted, run begins and Start returns.
Persist(r) ==
    /\ At(r, "persist")
    /\ desired' = "RUNNING" /\ owner' = r
    /\ Goto(r, "record") /\ phase' = "up"
    /\ UNCHANGED <<mode, fileVars, metaVars, run, held, closed, active, clean,
                   boundVars, unfinished>>

\* Mutant: the reserved ID is not given back.
StartFailsReserved(r) ==
    /\ rec[r].goal = "start"
    /\ rec[r].pc \in {"load", "prune", "meta", "metaWrite", "metaRename", "open",
                      "persist"}
    /\ parts' = IF At(r, "persist") THEN parts \ {OpenPart(r)} ELSE parts
    /\ rec' = [rec EXCEPT ![r] = Recorder("done", "end")]
    /\ held' = 0 /\ phase' = "up"
    /\ UNCHANGED <<mode, disk, clock, metaVars, desired, owner, run, closed,
                   active, clean, boundVars, unfinished>>

\* Any step of Start fails; an open segment is finished, and has no packets.
StartFails(r) ==
    /\ rec[r].goal = "start"
    /\ rec[r].pc \in {"load", "prune", "meta", "metaWrite", "metaRename", "open",
                      "persist"}
    /\ parts' = IF At(r, "persist") THEN parts \ {OpenPart(r)} ELSE parts
    /\ rec' = [rec EXCEPT ![r] = Recorder("done", "end")]
    /\ active' = active \ {r} /\ held' = 0 /\ phase' = "up"
    /\ UNCHANGED <<mode, disk, clock, metaVars, desired, owner, run, closed,
                   clean, boundVars, unfinished>>

-----------------------------------------------------------------------------
(* sessionRecorder.run.                                                    *)

Ends(r, status) ==
    [rec[r] EXCEPT !.status = status, !.goal = "end", !.pc = "finish"]

\* reachedSessionLimit, which a continuous recording is not subject to.
SessionLimit(r, size) == ~Rolling /\ rec[r].total + size >= MaxSessionSize

\* writeBatch, packet by packet, with the limit checks that follow each one.
WritePacket(r) ==
    \E n \in PacketSizes :
       LET size == rec[r].size + n IN
       /\ At(r, "record") /\ packets < MaxPackets
       /\ packets' = packets + 1
       /\ parts' = IF OpenPart(r) \in parts
                   THEN (parts \ {OpenPart(r)}) \cup {[OpenPart(r) EXCEPT !.size = size]}
                   ELSE parts
       /\ \/ /\ SessionLimit(r, size)
             /\ rec' = [rec EXCEPT ![r] = [Ends(r, "TRUNCATED") EXCEPT !.size = size]]
          \/ /\ ~SessionLimit(r, size) /\ size >= SegmentSize
             /\ rec' = [rec EXCEPT ![r].size = size, ![r].pc = "finish",
                                   ![r].goal = "rotate"]
          \/ /\ ~SessionLimit(r, size) /\ size < SegmentSize
             /\ rec' = [rec EXCEPT ![r].size = size]
       /\ UNCHANGED <<mode, phase, disk, clock, metaVars, serviceVars, active,
                      clean, crashes, unfinished>>

\* The flush ticker finds the limit reached, as it may after a restart.
FlushTick(r) ==
    /\ At(r, "record") /\ SessionLimit(r, rec[r].size)
    /\ rec' = [rec EXCEPT ![r] = Ends(r, "TRUNCATED")]
    /\ UNCHANGED <<mode, phase, fileVars, metaVars, serviceVars, active, clean,
                   boundVars, unfinished>>

\* The drained channel of a closed pipeline, an overflow or a shutdown, or a
\* write error ends the recording; which of them when is module Stream.
End(r, status) ==
    /\ At(r, "record")
    /\ status = "COMPLETED" => r \in closed
    /\ rec' = [rec EXCEPT ![r] = Ends(r, status)]
    /\ UNCHANGED <<mode, phase, fileVars, metaVars, serviceVars, active, clean,
                   boundVars, unfinished>>

AfterFinish(r) == IF rec[r].goal = "end" /\ ~Rolling THEN "meta" ELSE "prune"

\* finishSegment: an empty segment is removed, another one renamed and added
\* to the accounts.
Finish(r) ==
    LET f == [run |-> r, seq |-> rec[r].seq, size |-> rec[r].size, mtime |-> clock + 1]
    IN
    /\ At(r, "finish")
    /\ \/ /\ rec[r].size = 0
          /\ parts' = parts \ {OpenPart(r)}
          /\ Goto(r, AfterFinish(r))
          /\ UNCHANGED <<disk, clock>>
       \/ /\ rec[r].size > 0 /\ OpenPart(r) \in parts
          /\ parts' = parts \ {OpenPart(r)}
          /\ disk' = disk \cup {f} /\ clock' = clock + 1
          /\ rec' = [rec EXCEPT ![r].pc = AfterFinish(r), ![r].list = @ \cup {f},
                                ![r].total = @ + f.size, ![r].size = 0]
    /\ UNCHANGED <<mode, phase, metaVars, serviceVars, active, clean, boundVars,
                   unfinished>>

\* Flush, sync, close or rename fails, the last for want of the .part file;
\* complete tries again on a closed file and fails again.
FinishFails(r) ==
    /\ At(r, "finish") /\ rec[r].size > 0
    /\ rec' = [rec EXCEPT ![r] =
          [@ EXCEPT !.status = "FAILED", !.goal = "end", !.size = 0,
                    !.pc = IF Rolling THEN "prune" ELSE "meta"]]
    /\ UNCHANGED <<mode, phase, fileVars, metaVars, serviceVars, active, clean,
                   boundVars, unfinished>>

\* A rotation fails after its segment was finished: there is no open segment.
RotateFails(r) ==
    /\ rec[r].goal = "rotate"
    /\ rec[r].pc \in {"prune", "meta", "metaWrite", "metaRename", "open"}
    /\ rec' = [rec EXCEPT ![r] = [@ EXCEPT !.status = "FAILED", !.goal = "end",
                 !.pc = IF Rolling THEN "prune" ELSE "meta"]]
    /\ UNCHANGED <<mode, phase, fileVars, metaVars, serviceVars, active, clean,
                   boundVars, unfinished>>

\* complete only logs that its metadata could not be written.
MetaFails(r) ==
    /\ rec[r].goal = "end" /\ rec[r].pc \in {"meta", "metaWrite", "metaRename"}
    /\ Goto(r, "leave")
    /\ UNCHANGED <<mode, phase, fileVars, metaVars, serviceVars, active, clean,
                   boundVars, unfinished>>

\* The goroutine of Start takes the recorder off the map.
Leave(r) ==
    /\ At(r, "leave")
    /\ active' = active \ {r}
    /\ rec' = [rec EXCEPT ![r] = Recorder("done", "end")]
    /\ UNCHANGED <<mode, phase, fileVars, metaVars, serviceVars, clean, boundVars,
                   unfinished>>

-----------------------------------------------------------------------------
(* The service above.  Stop persists the stop and closes the pipeline;     *)
(* CaptureStatus does it in the other order.                               *)

StopPersist ==
    /\ phase = "up" /\ held # 0 /\ owner = held /\ desired = "RUNNING"
    /\ desired' = "STOPPED"
    /\ UNCHANGED <<mode, phase, fileVars, metaVars, owner, run, held, closed,
                   active, rec, clean, boundVars, unfinished>>

CloseSession ==
    /\ phase = "up" /\ held # 0 /\ owner = held /\ held \notin closed
    /\ closed' = closed \cup {held}
    /\ UNCHANGED <<mode, phase, fileVars, metaVars, desired, owner, run, held,
                   active, rec, clean, boundVars, unfinished>>

\* The service is free for the next session; the recorder may still drain.
StopReturns ==
    /\ phase = "up" /\ held \in closed /\ desired = "STOPPED"
    /\ held' = 0
    /\ UNCHANGED <<mode, phase, fileVars, metaVars, desired, owner, run, closed,
                   active, rec, clean, boundVars, unfinished>>

(* The process dies.                                                       *)
Crash ==
    /\ phase # "down" /\ crashes < MaxCrashes
    /\ phase' = "down" /\ crashes' = crashes + 1
    /\ active' = {} /\ held' = 0 /\ closed' = {}
    /\ clean' = IF clean = "deleted" THEN clean ELSE "idle"
    /\ rec' = [r \in Runs |-> Recorder("none", "start")]
    /\ UNCHANGED <<mode, fileVars, metaVars, desired, owner, run, packets,
                   unfinished>>

\* Restore of the session in the recovery file, if it says RUNNING; a normal
\* session whose time is over is stopped instead.
Boot ==
    /\ phase = "down"
    /\ \/ /\ desired # "RUNNING" /\ phase' = "up"
          /\ UNCHANGED <<desired, held, active, rec>>
       \/ /\ desired = "RUNNING" /\ phase' = "boot"
          /\ Reserve(owner)
          /\ UNCHANGED desired
       \/ /\ desired = "RUNNING" /\ ~Rolling
          /\ phase' = "up" /\ desired' = "STOPPED"
          /\ UNCHANGED <<held, active, rec>>
    /\ UNCHANGED <<mode, fileVars, metaVars, owner, run, closed, clean, boundVars,
                   unfinished>>

-----------------------------------------------------------------------------
(* CleanSessionRecordings of a normal session's directory.                 *)

\* Mutant: metadata.json is preferred.
ReadMetadataFinalFirst == IF meta \in {"torn", "absent"} THEN metaPart ELSE meta

\* readSessionMetadata: the first readable one of .part and metadata.json.
ReadMetadata == IF metaPart \in {"torn", "absent"} THEN meta ELSE metaPart

\* scanSessionRecordings asks for the active sessions first ...
CleanActive ==
    /\ phase = "up" /\ ~Rolling /\ clean = "idle" /\ active = {}
    /\ clean' = "scan"
    /\ UNCHANGED <<mode, phase, fileVars, metaVars, serviceVars, active, rec,
                   boundVars, unfinished>>

\* ... and then inspects the directory.
CleanInspect ==
    /\ clean = "scan"
    /\ clean' = IF ReadMetadata \in Terminal /\ desired # "RUNNING"
                THEN "chosen" ELSE "idle"
    /\ UNCHANGED <<mode, phase, fileVars, metaVars, serviceVars, active, rec,
                   boundVars, unfinished>>

\* validateDeletionCandidate.
CleanValidate ==
    /\ clean = "chosen"
    /\ clean' = IF active = {} /\ desired # "RUNNING" THEN "delete" ELSE "idle"
    /\ UNCHANGED <<mode, phase, fileVars, metaVars, serviceVars, active, rec,
                   boundVars, unfinished>>

\* os.RemoveAll.
CleanDelete ==
    /\ clean = "delete"
    /\ clean' = "deleted"
    /\ disk' = {} /\ parts' = {}
    /\ meta' = "absent" /\ metaPart' = "absent" /\ desired' = "absent"
    /\ UNCHANGED <<mode, phase, clock, owner, run, held, closed, active, rec,
                   boundVars, unfinished>>

Clean == CleanActive \/ CleanInspect \/ CleanValidate \/ CleanDelete

Step(r) ==
    \/ Load(r) \/ Prune(r) \/ PruneDone(r) \/ MetaTruncate(r) \/ MetaWrite(r)
    \/ MetaRename(r) \/ Open(r) \/ Persist(r) \/ StartFails(r)
    \/ WritePacket(r) \/ FlushTick(r) \/ Finish(r) \/ FinishFails(r)
    \/ RotateFails(r) \/ MetaFails(r) \/ Leave(r)
    \/ \E s \in {"COMPLETED", "PARTIAL", "FAILED"} : End(r, s)

Next ==
    \/ \E r \in Runs : Begin(r) \/ Step(r)
    \/ StopPersist \/ CloseSession \/ StopReturns \/ Crash \/ Boot \/ Clean

Spec == Init /\ [][Next]_vars

-----------------------------------------------------------------------------
(* Properties.                                                             *)

Pcs == {"none", "load", "prune", "meta", "metaWrite", "metaRename", "open",
        "persist", "record", "finish", "leave", "done"}
Statuses == Terminal \cup {"RECORDING"}

\* Types; Manager.active has exactly the recorders at work, a reserved ID that
\* Start is still setting up included.
TypeOK ==
    /\ mode \in Modes /\ phase \in {"boot", "up", "down"}
    /\ \A f \in disk : /\ f.run \in Runs /\ f.seq \in Nat \ {0}
                       /\ f.size \in Nat \ {0} /\ f.mtime \in 1..clock
    /\ \A f \in parts : f.run \in Runs /\ f.seq \in Nat \ {0} /\ f.size \in Nat
    /\ clock \in Nat
    /\ meta \in Statuses \cup {"torn", "absent"}
    /\ metaPart \in Statuses \cup {"torn", "absent"}
    /\ desired \in {"RUNNING", "STOPPED", "absent"}
    /\ owner \in 0..run /\ run \in 0..MaxRuns /\ held \in 0..run
    /\ closed \subseteq Runs
    /\ active = {r \in Runs : rec[r].pc \notin {"none", "done"}}
    /\ \A r \in Runs :
          /\ rec[r].pc \in Pcs /\ rec[r].goal \in {"start", "rotate", "end"}
          /\ rec[r].seq \in Nat /\ rec[r].total \in Nat /\ rec[r].size \in Nat
          /\ \A f \in rec[r].list : f.mtime \in 1..clock
          /\ rec[r].status \in Statuses
    /\ clean \in {"idle", "scan", "chosen", "delete", "deleted"}
    /\ packets \in 0..MaxPackets /\ crashes \in 0..MaxCrashes
    /\ unfinished \in BOOLEAN

\* A segment that is about to be renamed has a name no finalized segment has:
\* however often the process died and whatever retention deleted, os.Rename
\* never replaces a recording (loadExistingSegments, openSegment).
NoOverwrite ==
    \A r \in Runs, f \in disk :
       At(r, "finish") => ~(f.run = r /\ f.seq = rec[r].seq)

\* What retention keeps are the newest segments, without a gap, across the
\* runs of the directory and restarts; a normal session keeps all of them.
RetainedIsNewest ==
    clean # "deleted" =>
       {f.mtime : f \in disk} =
          (IF Rolling THEN clock - Cardinality(disk) + 1 ELSE 1)..clock

\* The files of the directory, open and stale .part files included, exceed
\* the limit by less than a packet; a normal session that is restarted at its
\* limit may add a packet with each restart.
SizeBound ==
    LET excess == IF Rolling THEN 1 ELSE 1 + crashes IN
    TotalSize(disk) + TotalSize(parts) <
       MaxSessionSize + excess * Max(PacketSizes)

\* The accounts on which a recorder decides what to delete and when to end are
\* those of the files, from loadExistingSegments on.
AccountingMatchesDisk ==
    \A r \in active : rec[r].pc # "load" =>
       rec[r].total = TotalSize(disk) /\ rec[r].list = disk

\* Cleanup is about to delete a directory only when no recorder is active in
\* it, no boot will recover its session, and its recording has finished.  The
\* exception: a crash inside the WriteFile of metadata.json.part leaves it
\* unreadable, and the metadata.json of an earlier process is believed.
CleanupOnlyFinished ==
    clean = "delete" => /\ active = {} /\ desired # "RUNNING"
                        /\ unfinished => metaPart = "torn"

\* The packets a recorder has written to its open segment are in the directory
\* under the .part name, so that the segment can be renamed once it is complete:
\* "The `.part` file is the segment currently being written."
OpenSegmentExists ==
    \A r \in Runs : rec[r].pc \in {"record", "finish"} /\ rec[r].size > 0 =>
       OpenPart(r) \in parts

\* Retention: the newest segments are kept, within the limit, and the accounts it
\* works from are those of the disk.
RetentionIsRight == RetainedIsNewest /\ SizeBound /\ AccountingMatchesDisk
=============================================================================
