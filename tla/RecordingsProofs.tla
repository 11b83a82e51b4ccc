-------------------------- MODULE RecordingsProofs --------------------------
(***************************************************************************)
(* Proofs about one recording directory (module Segments), the files of    *)
(* the workload log recorder (module LogFiles) and the directories of all  *)
(* normal sessions (module Catalog), for every segment size, limit or      *)
(* quota, packet or line size, number of sessions, container logs, runs,   *)
(* packets, lines and crashes:                                             *)
(*                                                                         *)
(*   NamesKept     a finished segment never replaces one on the disk, even *)
(*                 while two sessions overlap;                             *)
(*   CleanupSafe   a cleanup deletes only a finished, unused directory;    *)
(*   Retention     with one recorder at a time, the disk holds the newest  *)
(*                 segments, within the limit, and the recorder's accounts *)
(*                 are those of the disk;                                  *)
(*   LogRetentionKept  the log files of all runs are within their quota,   *)
(*                 the newest of each log, under names of their own;       *)
(*   DeletionJustified, DeletionConfirmed, QuotaKept  what a cleanup of    *)
(*                 all sessions deletes, and what Create admits.           *)
(*                                                                         *)
(* None of them is inductive.  IInv adds, part by part: what step a        *)
(* recorder is at for which goal (GoalInv); that its sequence number is    *)
(* ahead of its files (NameInv); what metadata.json.part says while a      *)
(* session is unfinished (MetaInv); what a cleanup still knows of a        *)
(* directory it looked at earlier (CleanInv); and, for one recorder at a   *)
(* time, which .part files there are (PartInv) and how much room is left   *)
(* before the next packet (NearLimit, RollingRoom).  Each part has a lemma *)
(* that a step keeps it, with one case per action.                         *)
(***************************************************************************)
EXTENDS MCRecordings, SumTheorems

(* The shape of the state.                                                 *)
File == [run : Runs, seq : Nat \ {0}, size : Nat \ {0}, mtime : Nat \ {0}]
Part == [run : Runs, seq : Nat \ {0}, size : Nat]
RecorderType ==
    [pc : Pcs, goal : {"start", "rotate", "end"}, seq : Nat, list : SUBSET File,
     total : Int, size : Nat, status : Statuses]

ServiceTypes ==
    /\ mode \in Modes /\ phase \in {"boot", "up", "down"}
    /\ meta \in Statuses \cup {"torn", "absent"}
    /\ metaPart \in Statuses \cup {"torn", "absent"}
    /\ desired \in {"RUNNING", "STOPPED", "absent"}
    /\ run \in 0..MaxRuns /\ owner \in 0..run /\ held \in 0..run
    /\ desired = "RUNNING" => owner # 0
    /\ closed \subseteq Runs
    /\ clean \in {"idle", "scan", "chosen", "delete", "deleted"}
    /\ packets \in 0..MaxPackets /\ crashes \in 0..MaxCrashes
    /\ unfinished \in BOOLEAN
FileTypes ==
    /\ disk \in SUBSET File /\ IsFiniteSet(disk)
    /\ parts \in SUBSET Part /\ IsFiniteSet(parts)
    /\ clock \in Nat /\ \A f \in disk : f.mtime <= clock
RecorderTypes ==
    /\ rec \in [Runs -> RecorderType]
    /\ active = {r \in Runs : rec[r].pc \notin {"none", "done"}}
    /\ phase = "down" => active = {}
    /\ \A r \in Runs : /\ r > run => rec[r].pc = "none"
                       /\ \A f \in rec[r].list : f.mtime <= clock
Types == ServiceTypes /\ FileTypes /\ RecorderTypes

(* What a recorder is doing, on whose behalf and with which status.        *)
GoalInv ==
    \A r \in Runs :
       /\ rec[r].pc \in {"load", "persist"} => rec[r].goal = "start"
       /\ rec[r].pc \in {"open", "record"} => rec[r].goal # "end"
       /\ rec[r].pc \in {"leave", "done"} => rec[r].goal = "end"
       /\ rec[r].goal # "end" => rec[r].status = "RECORDING"
       /\ rec[r].goal = "end" /\ rec[r].pc # "done" => rec[r].status \in Terminal
       /\ rec[r].pc \notin {"record", "finish"} => rec[r].size = 0
       /\ rec[r].pc \in {"none", "load", "done"} => rec[r].total = 0

(* The names a recorder has used up: none of its own segments has a larger *)
(* sequence number, and none that of the open segment.                     *)
HasSegment == {"persist", "record", "finish"}
NameInv ==
    \A r \in Runs :
       /\ rec[r].pc \in HasSegment => rec[r].seq > 0
       /\ \A f \in disk : f.run = r /\ rec[r].pc \notin {"none", "load", "done"} =>
             f.seq <= rec[r].seq /\ (rec[r].pc \in HasSegment => f.seq < rec[r].seq)

(* A normal session's directory: what its metadata says while a recorder   *)
(* is at work in it, and what a cleanup has seen of it.                    *)
Unused ==
    /\ meta = "absent" /\ metaPart = "absent" /\ desired = "absent"
    /\ disk = {} /\ parts = {} /\ ~unfinished
MetaInv ==
    /\ run = 0 => Unused
    /\ ~Rolling => run <= 1
    /\ ~Rolling /\ clean # "deleted" =>
          /\ unfinished => metaPart \in {"torn", "RECORDING"}
          /\ rec[1].pc = "open" => metaPart = "RECORDING"
          /\ rec[1].pc = "metaRename" =>
                IF rec[1].goal = "end" THEN ~unfinished /\ metaPart \in Terminal
                ELSE metaPart = "RECORDING"

Ended == {"leave", "done", "none"}
CleanInv ==
    /\ clean # "idle" => ~Rolling
    /\ clean \in {"scan", "chosen", "delete"} => phase = "up"
    /\ clean = "scan" =>
          \/ rec[1].pc \in Ended
          \/ meta = "absent" /\ (metaPart \in Terminal => rec[1].pc = "metaRename")
    /\ clean \in {"chosen", "delete"} =>
          /\ run = 1 /\ (unfinished => metaPart = "torn")
          /\ \/ rec[1].pc \in Ended
             \/ rec[1].pc = "metaRename" /\ rec[1].goal = "end"
    /\ clean = "delete" => active = {} /\ desired # "RUNNING"
    /\ clean = "deleted" => run = 1 /\ active = {} /\ desired = "absent"

(* Without overlapping sessions there is one recorder, and its accounts    *)
(* are those of the directory.                                             *)
SoleInv == \A q, r \in active : q = r
AgeInv ==
    /\ \A f, g \in disk : f.mtime = g.mtime => f = g
    /\ RetainedIsNewest
    /\ AccountingMatchesDisk

(* The parts there are, and the room that is left while a recorder works.  *)
Stored == TotalSize(disk) + TotalSize(parts)
PartInv ==
    \A r \in active :
       /\ rec[r].pc \in HasSegment => parts \subseteq {OpenPart(r)}
       /\ rec[r].pc \in {"prune", "meta", "metaWrite", "metaRename", "open"} /\ rec[r].goal # "end"
             => parts = {}
Recording == phase = "down" \/ \E r \in active : rec[r].goal # "end"
NearLimit ==
    ~Rolling /\ Recording =>
       Stored < MaxSessionSize + crashes * Max(PacketSizes)
RollingRoom ==
    \A r \in active :
       Rolling /\ rec[r].goal # "end" =>
          /\ rec[r].pc \in {"meta", "metaWrite", "metaRename", "open", "persist", "record"}
                => rec[r].total + SegmentSize <= MaxSessionSize
          /\ rec[r].pc = "record" => rec[r].size < SegmentSize

RetentionInv == SoleInv /\ AgeInv /\ PartInv /\ SizeBound /\ NearLimit
                /\ RollingRoom

IInv == Types /\ GoalInv /\ NameInv /\ MetaInv /\ CleanInv
        /\ (~Overlap => RetentionInv)

-----------------------------------------------------------------------------
(* The cases of the actions that have several.                             *)

Written(r, n) ==
    /\ At(r, "record") /\ packets < MaxPackets
    /\ packets' = packets + 1
    /\ parts' = IF OpenPart(r) \in parts
                THEN (parts \ {OpenPart(r)})
                        \cup {[OpenPart(r) EXCEPT !.size = rec[r].size + n]}
                ELSE parts
    /\ UNCHANGED <<mode, phase, disk, clock, metaVars, serviceVars, active,
                   clean, crashes, unfinished>>
WriteEnds(r, n) ==
    /\ Written(r, n) /\ SessionLimit(r, rec[r].size + n)
    /\ rec' = [rec EXCEPT ![r] = [Ends(r, "TRUNCATED") EXCEPT !.size = rec[r].size + n]]
WriteRotates(r, n) ==
    /\ Written(r, n) /\ ~SessionLimit(r, rec[r].size + n)
    /\ rec[r].size + n >= SegmentSize
    /\ rec' = [rec EXCEPT ![r].size = rec[r].size + n, ![r].pc = "finish",
                          ![r].goal = "rotate"]
WriteGoesOn(r, n) ==
    /\ Written(r, n) /\ ~SessionLimit(r, rec[r].size + n)
    /\ rec[r].size + n < SegmentSize
    /\ rec' = [rec EXCEPT ![r].size = rec[r].size + n]
Writes(r, n) == WriteEnds(r, n) \/ WriteRotates(r, n) \/ WriteGoesOn(r, n)

Finished(r) ==
    [run |-> r, seq |-> rec[r].seq, size |-> rec[r].size, mtime |-> clock + 1]
FinishEmpty(r) ==
    /\ At(r, "finish") /\ rec[r].size = 0
    /\ parts' = parts \ {OpenPart(r)}
    /\ Goto(r, AfterFinish(r))
    /\ UNCHANGED <<mode, phase, disk, clock, metaVars, serviceVars, active, clean,
                   boundVars, unfinished>>
FinishFull(r) ==
    /\ At(r, "finish") /\ rec[r].size > 0 /\ OpenPart(r) \in parts
    /\ parts' = parts \ {OpenPart(r)}
    /\ disk' = disk \cup {Finished(r)} /\ clock' = clock + 1
    /\ rec' = [rec EXCEPT ![r].pc = AfterFinish(r),
                          ![r].list = rec[r].list \cup {Finished(r)},
                          ![r].total = rec[r].total + rec[r].size, ![r].size = 0]
    /\ UNCHANGED <<mode, phase, metaVars, serviceVars, active, clean, boundVars,
                   unfinished>>

BootIdle ==
    /\ phase = "down" /\ desired # "RUNNING" /\ phase' = "up"
    /\ UNCHANGED <<mode, fileVars, metaVars, serviceVars, active, rec, clean,
                   boundVars, unfinished>>
BootRestores ==
    /\ phase = "down" /\ desired = "RUNNING" /\ phase' = "boot"
    /\ Reserve(owner)
    /\ UNCHANGED <<mode, fileVars, metaVars, desired, owner, run, closed, clean,
                   boundVars, unfinished>>
BootExpires ==
    /\ phase = "down" /\ desired = "RUNNING" /\ ~Rolling
    /\ phase' = "up" /\ desired' = "STOPPED"
    /\ UNCHANGED <<mode, fileVars, metaVars, owner, run, held, closed, active, rec,
                   clean, boundVars, unfinished>>

(* A step is one of the actions, those with several outcomes told apart.   *)
LEMMA StepCases ==
  ASSUME Next
  PROVE  \/ \E r \in Runs :
              \/ Begin(r) \/ Load(r) \/ Prune(r) \/ PruneDone(r) \/ MetaTruncate(r)
              \/ MetaWrite(r) \/ MetaRename(r) \/ Open(r) \/ Persist(r)
              \/ StartFails(r) \/ FlushTick(r) \/ FinishEmpty(r) \/ FinishFull(r)
              \/ FinishFails(r) \/ RotateFails(r) \/ MetaFails(r) \/ Leave(r)
              \/ \E s \in {"COMPLETED", "PARTIAL", "FAILED"} : End(r, s)
              \/ \E n \in PacketSizes :
                    WriteEnds(r, n) \/ WriteRotates(r, n) \/ WriteGoesOn(r, n)
         \/ StopPersist \/ CloseSession \/ StopReturns \/ Crash
         \/ BootIdle \/ BootRestores \/ BootExpires
         \/ CleanActive \/ CleanInspect \/ CleanValidate \/ CleanDelete
<1>1. ASSUME NEW r \in Runs, WritePacket(r)
      PROVE  \E n \in PacketSizes :
                WriteEnds(r, n) \/ WriteRotates(r, n) \/ WriteGoesOn(r, n)
  BY <1>1 DEF WritePacket, Written, WriteEnds, WriteRotates, WriteGoesOn
<1>2. ASSUME NEW r \in Runs, Finish(r) PROVE FinishEmpty(r) \/ FinishFull(r)
  BY <1>2 DEF Finish, Finished, FinishEmpty, FinishFull
<1>3. ASSUME Boot PROVE BootIdle \/ BootRestores \/ BootExpires
  BY <1>3 DEF Boot, BootIdle, BootRestores, BootExpires, serviceVars
<1>4. QED
  BY <1>1, <1>2, <1>3 DEF Next, Step, Clean

(* A step keeps what a recorder does in line with why it does it.          *)
LEMMA GoalStep ==
  ASSUME Types, GoalInv, Next
  PROVE  GoalInv'
<1> USE DEF Types, ServiceTypes, RecorderTypes, RecorderType, GoalInv,
       Pcs, Statuses, Terminal, Runs
<1>1. ASSUME NEW r \in Runs, Begin(r) PROVE GoalInv'
  BY <1>1 DEF Begin, Reserve, Recorder, fileVars, metaVars, serviceVars,
     boundVars
<1>2. ASSUME NEW r \in Runs, Load(r) PROVE GoalInv'
  BY <1>2 DEF Load, At, fileVars, metaVars, serviceVars, boundVars
<1>3. ASSUME NEW r \in Runs, Prune(r) PROVE GoalInv'
  BY <1>3 DEF Prune, At, Overfull, fileVars, metaVars, serviceVars,
     boundVars
<1>4. ASSUME NEW r \in Runs, PruneDone(r) PROVE GoalInv'
  BY <1>4 DEF PruneDone, At, Goto, Overfull, fileVars, metaVars,
     serviceVars, boundVars
<1>5. ASSUME NEW r \in Runs, MetaTruncate(r) PROVE GoalInv'
  BY <1>5 DEF MetaTruncate, At, Goto, fileVars, metaVars, serviceVars,
     boundVars
<1>6. ASSUME NEW r \in Runs, MetaWrite(r) PROVE GoalInv'
  BY <1>6 DEF MetaWrite, At, Goto, fileVars, metaVars, serviceVars,
     boundVars
<1>7. ASSUME NEW r \in Runs, MetaRename(r) PROVE GoalInv'
  BY <1>7 DEF MetaRename, At, Goto, fileVars, metaVars, serviceVars,
     boundVars
<1>8. ASSUME NEW r \in Runs, Open(r) PROVE GoalInv'
  BY <1>8 DEF Open, At, fileVars, metaVars, serviceVars, boundVars
<1>9. ASSUME NEW r \in Runs, Persist(r) PROVE GoalInv'
  BY <1>9 DEF Persist, At, Goto, fileVars, metaVars, serviceVars, boundVars
<1>10. ASSUME NEW r \in Runs, StartFails(r) PROVE GoalInv'
  BY <1>10 DEF StartFails, At, Recorder, OpenPart, fileVars, metaVars,
     serviceVars, boundVars
<1>11. ASSUME NEW r \in Runs, NEW n \in PacketSizes, WriteEnds(r, n)
      PROVE  GoalInv'
  BY <1>11 DEF WriteEnds, Written, At, Ends, OpenPart, fileVars, metaVars,
     serviceVars, boundVars
<1>12. ASSUME NEW r \in Runs, NEW n \in PacketSizes, WriteRotates(r, n)
      PROVE  GoalInv'
  BY <1>12 DEF WriteRotates, Written, At, OpenPart, fileVars, metaVars,
     serviceVars, boundVars
<1>13. ASSUME NEW r \in Runs, NEW n \in PacketSizes, WriteGoesOn(r, n)
      PROVE  GoalInv'
  BY <1>13 DEF WriteGoesOn, Written, At, OpenPart, fileVars, metaVars,
     serviceVars, boundVars
<1>14. ASSUME NEW r \in Runs, FlushTick(r) PROVE GoalInv'
  BY <1>14 DEF FlushTick, At, Ends, fileVars, metaVars, serviceVars,
     boundVars
<1>15. ASSUME NEW r \in Runs, 
             NEW s \in {"COMPLETED", "PARTIAL", "FAILED"}, End(r, s)
      PROVE  GoalInv'
  BY <1>15 DEF End, At, Ends, fileVars, metaVars, serviceVars, boundVars
<1>16. ASSUME NEW r \in Runs, FinishEmpty(r) PROVE GoalInv'
  BY <1>16 DEF FinishEmpty, At, Goto, AfterFinish, OpenPart, fileVars,
     metaVars, serviceVars, boundVars
<1>17. ASSUME NEW r \in Runs, FinishFull(r) PROVE GoalInv'
  <2>1. /\ rec[r].pc = "finish" /\ rec'[r].pc = AfterFinish(r)
        /\ rec'[r].goal = rec[r].goal /\ rec'[r].status = rec[r].status
        /\ rec'[r].size = 0
    BY <1>17 DEF FinishFull, At
  <2>2. \A q \in Runs : q # r => rec'[q] = rec[q]
    BY <1>17 DEF FinishFull
  <2>3. UNCHANGED <<mode, phase, serviceVars, active>>
    BY <1>17 DEF FinishFull
  <2>4. AfterFinish(r) \in {"meta", "prune"}
    BY DEF AfterFinish
  <2>5. QED
    BY <2>1, <2>2, <2>3, <2>4 DEF AfterFinish, serviceVars
<1>18. ASSUME NEW r \in Runs, FinishFails(r) PROVE GoalInv'
  BY <1>18 DEF FinishFails, At, fileVars, metaVars, serviceVars, boundVars
<1>19. ASSUME NEW r \in Runs, RotateFails(r) PROVE GoalInv'
  BY <1>19 DEF RotateFails, fileVars, metaVars, serviceVars, boundVars
<1>20. ASSUME NEW r \in Runs, MetaFails(r) PROVE GoalInv'
  BY <1>20 DEF MetaFails, Goto, fileVars, metaVars, serviceVars, boundVars
<1>21. ASSUME NEW r \in Runs, Leave(r) PROVE GoalInv'
  BY <1>21 DEF Leave, At, Recorder, fileVars, metaVars, serviceVars,
     boundVars
<1>22. ASSUME Crash PROVE GoalInv'
  BY <1>22 DEF Crash, Recorder, fileVars, metaVars, serviceVars, boundVars
<1>23. ASSUME BootRestores PROVE GoalInv'
  BY <1>23 DEF BootRestores, Reserve, Recorder, fileVars, metaVars,
     serviceVars, boundVars
<1>24. ASSUME CleanDelete PROVE GoalInv'
  BY <1>24 DEF CleanDelete, fileVars, metaVars, serviceVars, boundVars
<1>25. ASSUME
             \/ StopPersist \/ CloseSession \/ StopReturns \/ BootIdle
             \/ BootExpires \/ CleanActive \/ CleanInspect \/ CleanValidate
      PROVE  GoalInv'
  <2>1. UNCHANGED <<rec>>
    BY <1>25 DEF StopPersist, CloseSession, StopReturns, BootIdle,
       BootExpires, CleanActive, CleanInspect, CleanValidate, fileVars,
       boundVars
  <2>2. QED
    BY <2>1
<1>26. QED
  BY <1>1, <1>2, <1>3, <1>4, <1>5, <1>6, <1>7, <1>8, <1>9, <1>10, <1>11,
     <1>12, <1>13, <1>14, <1>15, <1>16, <1>17, <1>18, <1>19, <1>20, <1>21,
     <1>22, <1>23, <1>24, <1>25, StepCases

(* A step keeps the types of the service's variables.                      *)
LEMMA ServiceStep ==
  ASSUME Types, GoalInv, Next
  PROVE  ServiceTypes'
<1> USE DEF Types, ServiceTypes, RecorderTypes, RecorderType, GoalInv,
       Pcs, Statuses, Terminal, Runs
<1>1. ASSUME NEW r \in Runs, Begin(r) PROVE ServiceTypes'
  BY <1>1 DEF Begin, Reserve, Recorder, fileVars, metaVars, serviceVars,
     boundVars
<1>2. ASSUME NEW r \in Runs, Load(r) PROVE ServiceTypes'
  BY <1>2 DEF Load, At, fileVars, metaVars, serviceVars, boundVars
<1>3. ASSUME NEW r \in Runs, Prune(r) PROVE ServiceTypes'
  BY <1>3 DEF Prune, At, Overfull, fileVars, metaVars, serviceVars,
     boundVars
<1>4. ASSUME NEW r \in Runs, PruneDone(r) PROVE ServiceTypes'
  BY <1>4 DEF PruneDone, At, Goto, Overfull, fileVars, metaVars,
     serviceVars, boundVars
<1>5. ASSUME NEW r \in Runs, MetaTruncate(r) PROVE ServiceTypes'
  BY <1>5 DEF MetaTruncate, At, Goto, fileVars, metaVars, serviceVars,
     boundVars
<1>6. ASSUME NEW r \in Runs, MetaWrite(r) PROVE ServiceTypes'
  BY <1>6 DEF MetaWrite, At, Goto, fileVars, metaVars, serviceVars,
     boundVars
<1>7. ASSUME NEW r \in Runs, MetaRename(r) PROVE ServiceTypes'
  BY <1>7 DEF MetaRename, At, Goto, fileVars, metaVars, serviceVars,
     boundVars
<1>8. ASSUME NEW r \in Runs, Open(r) PROVE ServiceTypes'
  BY <1>8 DEF Open, At, fileVars, metaVars, serviceVars, boundVars
<1>9. ASSUME NEW r \in Runs, Persist(r) PROVE ServiceTypes'
  BY <1>9 DEF Persist, At, Goto, fileVars, metaVars, serviceVars, boundVars
<1>10. ASSUME NEW r \in Runs, StartFails(r) PROVE ServiceTypes'
  BY <1>10 DEF StartFails, At, Recorder, OpenPart, fileVars, metaVars,
     serviceVars, boundVars
<1>11. ASSUME NEW r \in Runs, NEW n \in PacketSizes, WriteEnds(r, n)
      PROVE  ServiceTypes'
  <2>1. Written(r, n)
    BY <1>11 DEF WriteEnds
  <2>2. packets' \in 0..MaxPackets
    BY SegmentBounds, <2>1 DEF Written
  <2>3. QED
    BY <2>1, <2>2 DEF Written, metaVars, serviceVars
<1>12. ASSUME NEW r \in Runs, NEW n \in PacketSizes, WriteRotates(r, n)
      PROVE  ServiceTypes'
  <2>1. Written(r, n)
    BY <1>12 DEF WriteRotates
  <2>2. packets' \in 0..MaxPackets
    BY SegmentBounds, <2>1 DEF Written
  <2>3. QED
    BY <2>1, <2>2 DEF Written, metaVars, serviceVars
<1>13. ASSUME NEW r \in Runs, NEW n \in PacketSizes, WriteGoesOn(r, n)
      PROVE  ServiceTypes'
  <2>1. Written(r, n)
    BY <1>13 DEF WriteGoesOn
  <2>2. packets' \in 0..MaxPackets
    BY SegmentBounds, <2>1 DEF Written
  <2>3. QED
    BY <2>1, <2>2 DEF Written, metaVars, serviceVars
<1>14. ASSUME NEW r \in Runs, FlushTick(r) PROVE ServiceTypes'
  BY <1>14 DEF FlushTick, At, Ends, fileVars, metaVars, serviceVars,
     boundVars
<1>15. ASSUME NEW r \in Runs, 
             NEW s \in {"COMPLETED", "PARTIAL", "FAILED"}, End(r, s)
      PROVE  ServiceTypes'
  BY <1>15 DEF End, At, Ends, fileVars, metaVars, serviceVars, boundVars
<1>16. ASSUME NEW r \in Runs, FinishEmpty(r) PROVE ServiceTypes'
  BY <1>16 DEF FinishEmpty, At, Goto, AfterFinish, OpenPart, fileVars,
     metaVars, serviceVars, boundVars
<1>17. ASSUME NEW r \in Runs, FinishFull(r) PROVE ServiceTypes'
  BY <1>17 DEF FinishFull, At, AfterFinish, OpenPart, Finished, fileVars,
     metaVars, serviceVars, boundVars
<1>18. ASSUME NEW r \in Runs, FinishFails(r) PROVE ServiceTypes'
  BY <1>18 DEF FinishFails, At, fileVars, metaVars, serviceVars, boundVars
<1>19. ASSUME NEW r \in Runs, RotateFails(r) PROVE ServiceTypes'
  BY <1>19 DEF RotateFails, fileVars, metaVars, serviceVars, boundVars
<1>20. ASSUME NEW r \in Runs, MetaFails(r) PROVE ServiceTypes'
  BY <1>20 DEF MetaFails, Goto, fileVars, metaVars, serviceVars, boundVars
<1>21. ASSUME NEW r \in Runs, Leave(r) PROVE ServiceTypes'
  BY <1>21 DEF Leave, At, Recorder, fileVars, metaVars, serviceVars,
     boundVars
<1>22. ASSUME StopPersist PROVE ServiceTypes'
  BY <1>22 DEF StopPersist, fileVars, metaVars, serviceVars, boundVars
<1>23. ASSUME CloseSession PROVE ServiceTypes'
  <2>1. held \in Runs
    BY SegmentBounds, <1>23 DEF CloseSession
  <2>2. QED
    BY <1>23, <2>1 DEF CloseSession, fileVars, metaVars, boundVars
<1>24. ASSUME StopReturns PROVE ServiceTypes'
  BY <1>24 DEF StopReturns, fileVars, metaVars, serviceVars, boundVars
<1>25. ASSUME Crash PROVE ServiceTypes'
  <2>1. crashes' \in 0..MaxCrashes
    BY SegmentBounds, <1>25 DEF Crash
  <2>2. QED
    BY <1>25, <2>1 DEF Crash, fileVars, metaVars
<1>26. ASSUME BootIdle PROVE ServiceTypes'
  BY <1>26 DEF BootIdle, fileVars, metaVars, serviceVars, boundVars
<1>27. ASSUME BootRestores PROVE ServiceTypes'
  BY <1>27 DEF BootRestores, Reserve, Recorder, fileVars, metaVars,
     serviceVars, boundVars
<1>28. ASSUME BootExpires PROVE ServiceTypes'
  BY <1>28 DEF BootExpires, fileVars, metaVars, serviceVars, boundVars
<1>29. ASSUME CleanActive PROVE ServiceTypes'
  BY <1>29 DEF CleanActive, fileVars, metaVars, serviceVars, boundVars
<1>30. ASSUME CleanInspect PROVE ServiceTypes'
  BY <1>30 DEF CleanInspect, fileVars, metaVars, serviceVars, boundVars
<1>31. ASSUME CleanValidate PROVE ServiceTypes'
  BY <1>31 DEF CleanValidate, fileVars, metaVars, serviceVars, boundVars
<1>32. ASSUME CleanDelete PROVE ServiceTypes'
  BY <1>32 DEF CleanDelete, fileVars, metaVars, serviceVars, boundVars
<1>33. QED
  BY <1>1, <1>2, <1>3, <1>4, <1>5, <1>6, <1>7, <1>8, <1>9, <1>10, <1>11,
     <1>12, <1>13, <1>14, <1>15, <1>16, <1>17, <1>18, <1>19, <1>20, <1>21,
     <1>22, <1>23, <1>24, <1>25, <1>26, <1>27, <1>28, <1>29, <1>30, <1>31,
     <1>32, StepCases

(* loadExistingSegments finds the largest sequence number of the run.      *)
LEMMA SequenceIsLargest ==
  ASSUME FileTypes, NEW r \in Runs
  PROVE  /\ LoadSequence(r) \in Nat
         /\ \A f \in disk : f.run = r => f.seq <= LoadSequence(r)
<1> DEFINE own == {f \in disk : f.run = r}
           seqs == {f.seq : f \in own}
           g == [f \in own |-> f.seq]
<1>1. IsFiniteSet(own) /\ \A f \in own : f.seq \in Nat
  BY FS_Subset DEF FileTypes, File
<1>2. g \in Surjection(own, seqs)
  BY DEF Surjection
<1>3. IsFiniteSet(seqs)
  BY <1>1, <1>2, FS_Surjection
<1>4. IsFiniteSet({0} \cup seqs) /\ {0} \cup seqs \subseteq Nat
  BY <1>1, <1>3, FS_AddElement
<1> HIDE DEF seqs
<1>5. \E n \in {0} \cup seqs : \A m \in {0} \cup seqs : m <= n
  BY <1>4, LargestNumber
<1>6. \E n \in {0} \cup seqs : \A m \in {0} \cup seqs : n >= m
  BY <1>4, <1>5
<1>7. /\ Max({0} \cup seqs) \in {0} \cup seqs
      /\ \A m \in {0} \cup seqs : Max({0} \cup seqs) >= m
  BY <1>6 DEF Max
<1>8. LoadSequence(r) = Max({0} \cup seqs)
  BY DEF LoadSequence, seqs
<1>9. \A f \in disk : f.run = r => f.seq \in seqs
  BY DEF seqs
<1>10. QED
  BY <1>4, <1>7, <1>8, <1>9

(* A directory with a file less is finite.                                 *)
LEMMA FewerFiles ==
  ASSUME FileTypes
  PROVE  \A f : IsFiniteSet(disk \ {f}) /\ IsFiniteSet(parts \ {f})
BY FS_RemoveElement DEF FileTypes

(* A step keeps the types of the files: names, sizes and times.            *)
LEMMA FileStep ==
  ASSUME Types, GoalInv, NameInv, Next
  PROVE  FileTypes'
<1> USE DEF Types, FileTypes, RecorderTypes, RecorderType
<1>1. ASSUME NEW r \in Runs, Begin(r) PROVE FileTypes'
  BY FewerFiles, FS_EmptySet, <1>1 DEF Begin, Reserve, Recorder, fileVars,
     metaVars, serviceVars, boundVars
<1>2. ASSUME NEW r \in Runs, Load(r) PROVE FileTypes'
  BY FewerFiles, FS_EmptySet, <1>2 DEF Load, At, fileVars, metaVars,
     serviceVars, boundVars
<1>3. ASSUME NEW r \in Runs, Prune(r) PROVE FileTypes'
  <2>1. PICK oldest : disk' = disk \ {oldest}
    BY <1>3 DEF Prune
  <2>2. QED
    BY <1>3, <2>1, FewerFiles DEF Prune
<1>4. ASSUME NEW r \in Runs, PruneDone(r) PROVE FileTypes'
  BY FewerFiles, FS_EmptySet, <1>4 DEF PruneDone, At, Goto, Overfull,
     fileVars, metaVars, serviceVars, boundVars
<1>5. ASSUME NEW r \in Runs, MetaTruncate(r) PROVE FileTypes'
  BY FewerFiles, FS_EmptySet, <1>5 DEF MetaTruncate, At, Goto, fileVars,
     metaVars, serviceVars, boundVars
<1>6. ASSUME NEW r \in Runs, MetaWrite(r) PROVE FileTypes'
  BY FewerFiles, FS_EmptySet, <1>6 DEF MetaWrite, At, Goto, fileVars,
     metaVars, serviceVars, boundVars
<1>7. ASSUME NEW r \in Runs, MetaRename(r) PROVE FileTypes'
  BY FewerFiles, FS_EmptySet, <1>7 DEF MetaRename, At, Goto, fileVars,
     metaVars, serviceVars, boundVars
<1>8. ASSUME NEW r \in Runs, Open(r) PROVE FileTypes'
  <2> DEFINE p == [run |-> r, seq |-> rec[r].seq + 1, size |-> 0]
  <2>1. p \in Part
    BY DEF Part
  <2> HIDE DEF p
  <2>2. parts' = parts \cup {p}
    BY <1>8 DEF Open, p
  <2>3. QED
    BY <1>8, <2>1, <2>2, FS_AddElement DEF Open
<1>9. ASSUME NEW r \in Runs, Persist(r) PROVE FileTypes'
  BY FewerFiles, FS_EmptySet, <1>9 DEF Persist, At, Goto, fileVars,
     metaVars, serviceVars, boundVars
<1>10. ASSUME NEW r \in Runs, StartFails(r) PROVE FileTypes'
  BY FewerFiles, FS_EmptySet, <1>10 DEF StartFails, At, Recorder, OpenPart,
     fileVars, metaVars, serviceVars, boundVars
<1>11. ASSUME NEW r \in Runs, NEW n \in PacketSizes, WriteEnds(r, n)
      PROVE  FileTypes'
  <2> DEFINE p == [OpenPart(r) EXCEPT !.size = rec[r].size + n]
  <2>1. p \in Part
    BY SizesAssumption, <1>11 DEF WriteEnds, Written, At, OpenPart, Part, NameInv, HasSegment
  <2> HIDE DEF p
  <2>2. parts' = parts \/ parts' = (parts \ {OpenPart(r)}) \cup {p}
    BY <1>11 DEF WriteEnds, Written, p
  <2>3. IsFiniteSet((parts \ {OpenPart(r)}) \cup {p})
    BY FewerFiles, FS_AddElement
  <2>4. parts' \in SUBSET Part
    BY <2>1, <2>2
  <2>5. QED
    BY <1>11, <2>2, <2>3, <2>4 DEF WriteEnds, Written
<1>12. ASSUME NEW r \in Runs, NEW n \in PacketSizes, WriteRotates(r, n)
      PROVE  FileTypes'
  <2> DEFINE p == [OpenPart(r) EXCEPT !.size = rec[r].size + n]
  <2>1. p \in Part
    BY SizesAssumption, <1>12 DEF WriteRotates, Written, At, OpenPart, Part, NameInv, HasSegment
  <2> HIDE DEF p
  <2>2. parts' = parts \/ parts' = (parts \ {OpenPart(r)}) \cup {p}
    BY <1>12 DEF WriteRotates, Written, p
  <2>3. IsFiniteSet((parts \ {OpenPart(r)}) \cup {p})
    BY FewerFiles, FS_AddElement
  <2>4. parts' \in SUBSET Part
    BY <2>1, <2>2
  <2>5. QED
    BY <1>12, <2>2, <2>3, <2>4 DEF WriteRotates, Written
<1>13. ASSUME NEW r \in Runs, NEW n \in PacketSizes, WriteGoesOn(r, n)
      PROVE  FileTypes'
  <2> DEFINE p == [OpenPart(r) EXCEPT !.size = rec[r].size + n]
  <2>1. p \in Part
    BY SizesAssumption, <1>13 DEF WriteGoesOn, Written, At, OpenPart, Part, NameInv, HasSegment
  <2> HIDE DEF p
  <2>2. parts' = parts \/ parts' = (parts \ {OpenPart(r)}) \cup {p}
    BY <1>13 DEF WriteGoesOn, Written, p
  <2>3. IsFiniteSet((parts \ {OpenPart(r)}) \cup {p})
    BY FewerFiles, FS_AddElement
  <2>4. parts' \in SUBSET Part
    BY <2>1, <2>2
  <2>5. QED
    BY <1>13, <2>2, <2>3, <2>4 DEF WriteGoesOn, Written
<1>14. ASSUME NEW r \in Runs, FlushTick(r) PROVE FileTypes'
  BY FewerFiles, FS_EmptySet, <1>14 DEF FlushTick, At, Ends, fileVars,
     metaVars, serviceVars, boundVars
<1>15. ASSUME NEW r \in Runs, 
             NEW s \in {"COMPLETED", "PARTIAL", "FAILED"}, End(r, s)
      PROVE  FileTypes'
  BY FewerFiles, FS_EmptySet, <1>15 DEF End, At, Ends, fileVars, metaVars,
     serviceVars, boundVars
<1>16. ASSUME NEW r \in Runs, FinishEmpty(r) PROVE FileTypes'
  BY FewerFiles, FS_EmptySet, <1>16 DEF FinishEmpty, At, Goto, AfterFinish,
     OpenPart, fileVars, metaVars, serviceVars, boundVars
<1>17. ASSUME NEW r \in Runs, FinishFull(r) PROVE FileTypes'
  <2>1. Finished(r) \in File /\ Finished(r).mtime = clock + 1
    BY <1>17 DEF FinishFull, At, Finished, File, NameInv, HasSegment
  <2>2. disk' \in SUBSET File /\ IsFiniteSet(disk') /\ \A f \in disk' : f.mtime <= clock'
    BY <1>17, <2>1, FS_AddElement DEF FinishFull, File
  <2>3. QED
    BY <1>17, <2>2, FewerFiles DEF FinishFull
<1>18. ASSUME NEW r \in Runs, FinishFails(r) PROVE FileTypes'
  BY FewerFiles, FS_EmptySet, <1>18 DEF FinishFails, At, fileVars, metaVars,
     serviceVars, boundVars
<1>19. ASSUME NEW r \in Runs, RotateFails(r) PROVE FileTypes'
  BY FewerFiles, FS_EmptySet, <1>19 DEF RotateFails, fileVars, metaVars,
     serviceVars, boundVars
<1>20. ASSUME NEW r \in Runs, MetaFails(r) PROVE FileTypes'
  BY FewerFiles, FS_EmptySet, <1>20 DEF MetaFails, Goto, fileVars, metaVars,
     serviceVars, boundVars
<1>21. ASSUME NEW r \in Runs, Leave(r) PROVE FileTypes'
  BY FewerFiles, FS_EmptySet, <1>21 DEF Leave, At, Recorder, fileVars,
     metaVars, serviceVars, boundVars
<1>22. ASSUME StopPersist PROVE FileTypes'
  BY FewerFiles, FS_EmptySet, <1>22 DEF StopPersist, fileVars, metaVars,
     serviceVars, boundVars
<1>23. ASSUME CloseSession PROVE FileTypes'
  BY FewerFiles, FS_EmptySet, <1>23 DEF CloseSession, fileVars, metaVars,
     serviceVars, boundVars
<1>24. ASSUME StopReturns PROVE FileTypes'
  BY FewerFiles, FS_EmptySet, <1>24 DEF StopReturns, fileVars, metaVars,
     serviceVars, boundVars
<1>25. ASSUME Crash PROVE FileTypes'
  BY FewerFiles, FS_EmptySet, <1>25 DEF Crash, Recorder, fileVars, metaVars,
     serviceVars, boundVars
<1>26. ASSUME BootIdle PROVE FileTypes'
  BY FewerFiles, FS_EmptySet, <1>26 DEF BootIdle, fileVars, metaVars,
     serviceVars, boundVars
<1>27. ASSUME BootRestores PROVE FileTypes'
  BY FewerFiles, FS_EmptySet, <1>27 DEF BootRestores, Reserve, Recorder,
     fileVars, metaVars, serviceVars, boundVars
<1>28. ASSUME BootExpires PROVE FileTypes'
  BY FewerFiles, FS_EmptySet, <1>28 DEF BootExpires, fileVars, metaVars,
     serviceVars, boundVars
<1>29. ASSUME CleanActive PROVE FileTypes'
  BY FewerFiles, FS_EmptySet, <1>29 DEF CleanActive, fileVars, metaVars,
     serviceVars, boundVars
<1>30. ASSUME CleanInspect PROVE FileTypes'
  BY FewerFiles, FS_EmptySet, <1>30 DEF CleanInspect, fileVars, metaVars,
     serviceVars, boundVars
<1>31. ASSUME CleanValidate PROVE FileTypes'
  BY FewerFiles, FS_EmptySet, <1>31 DEF CleanValidate, fileVars, metaVars,
     serviceVars, boundVars
<1>32. ASSUME CleanDelete PROVE FileTypes'
  BY FewerFiles, FS_EmptySet, <1>32 DEF CleanDelete, fileVars, metaVars,
     serviceVars, boundVars
<1>33. QED
  BY <1>1, <1>2, <1>3, <1>4, <1>5, <1>6, <1>7, <1>8, <1>9, <1>10, <1>11,
     <1>12, <1>13, <1>14, <1>15, <1>16, <1>17, <1>18, <1>19, <1>20, <1>21,
     <1>22, <1>23, <1>24, <1>25, <1>26, <1>27, <1>28, <1>29, <1>30, <1>31,
     <1>32, StepCases

(* The size of a set of files.                                             *)
LEMMA TotalType ==
  ASSUME NEW S, IsFiniteSet(S), \A f \in S : f.size \in Nat
  PROVE  TotalSize(S) \in Nat
BY SumType DEF TotalSize

(* A step of one recorder that stays at work keeps the recorders' types.   *)
LEMMA OneRecorder ==
  ASSUME Types, NEW r \in Runs, NEW b \in RecorderType,
         rec' = [rec EXCEPT ![r] = b], UNCHANGED <<active, run>>,
         r \in active, b.pc \notin {"none", "done"}, phase' # "down",
         clock' \in Nat, clock <= clock', \A f \in b.list : f.mtime <= clock'
  PROVE  RecorderTypes'
<1> USE DEF Types, RecorderTypes
<1>1. rec' \in [Runs -> RecorderType] /\ rec'[r] = b
  OBVIOUS
<1>2. active' = {q \in Runs : rec'[q].pc \notin {"none", "done"}}
  OBVIOUS
<1>3. \A q \in Runs : q # r => rec'[q] = rec[q]
  OBVIOUS
<1>4. rec[r].pc # "none"
  OBVIOUS
<1>5. \A q \in Runs : q > run' => rec'[q].pc = "none"
  BY <1>3, <1>4
<1>6. \A q \in Runs : q # r => \A f \in rec'[q].list : f.mtime <= clock'
  <2> SUFFICES ASSUME NEW q \in Runs, q # r, NEW f \in rec'[q].list PROVE f.mtime <= clock'
    OBVIOUS
  <2>1. f \in rec[q].list /\ f \in File
    BY <1>3 DEF RecorderType
  <2>2. f.mtime \in Nat /\ f.mtime <= clock /\ clock \in Nat
    BY <2>1 DEF File, FileTypes
  <2>3. QED
    BY <2>2
<1>7. QED
  BY <1>1, <1>2, <1>5, <1>6

(* A segment that is finished is a file, with the bytes that were written. *)
LEMMA FinishedIsFile ==
  ASSUME Types, NameInv, NEW r \in Runs, FinishFull(r)
  PROVE  /\ Finished(r) \in File
         /\ Finished(r).mtime = clock + 1 /\ Finished(r).size = rec[r].size
BY DEF Types, FileTypes, RecorderTypes, RecorderType, FinishFull, At, Finished, File,
   NameInv, HasSegment

(* A step keeps the types of the recorders.                                *)
LEMMA RecorderStep ==
  ASSUME Types, GoalInv, NameInv, Next
  PROVE  RecorderTypes'
<1> USE DEF Types, RecorderTypes
<1>1. ASSUME NEW r \in Runs, Begin(r) PROVE RecorderTypes'
  <2>1. r = run + 1 /\ run' = r /\ rec' = [rec EXCEPT ![r] = Recorder("load", "start")]
        /\ active' = active \cup {r} /\ clock' = clock /\ phase' # "down"
    BY <1>1 DEF Begin, Reserve, fileVars
  <2>2. /\ Recorder("load", "start") \in RecorderType
        /\ Recorder("load", "start").pc = "load"
        /\ Recorder("load", "start").list = {}
    BY DEF Recorder, RecorderType, Pcs, Statuses
  <2> HIDE DEF Runs
  <2>3. run \in Nat /\ \A q \in Runs : q \in Nat
    BY SegmentBounds DEF ServiceTypes, Runs
  <2>4. QED
    BY <2>1, <2>2, <2>3
<1>2. ASSUME NEW r \in Runs, Load(r) PROVE RecorderTypes'
  <2> DEFINE b == [rec[r] EXCEPT !.pc = "prune", !.seq =
                  LoadSequence(r), !.list = disk, !.total =
                  TotalSize(disk)]
  <2>1. /\ b \in RecorderType /\ b.pc \notin {"none", "done"}
        /\ b.list = disk
    <3>1. TotalSize(disk) \in Int
      BY TotalType DEF FileTypes, File
    <3>2. LoadSequence(r) \in Nat
      BY SequenceIsLargest
    <3>3. disk \in SUBSET File
      BY DEF FileTypes
    <3>4. QED
      BY <3>1, <3>2, <3>3 DEF RecorderType, Pcs
  <2>2. rec' = [rec EXCEPT ![r] = b]
    BY <1>2 DEF Load, At, RecorderType
  <2>3. r \in active /\ phase' # "down" /\ UNCHANGED <<active, run>>
    BY <1>2 DEF Load, serviceVars, fileVars, At
  <2>4. clock' = clock /\ \A f \in b.list : f.mtime <= clock'
    BY <1>2, <2>1 DEF Load, fileVars, FileTypes
  <2> HIDE DEF b
  <2>5. clock \in Nat /\ clock' \in Nat /\ clock <= clock'
    BY <2>4 DEF FileTypes
  <2>6. QED
    BY <2>1, <2>2, <2>3, <2>4, <2>5, OneRecorder
<1>3. ASSUME NEW r \in Runs, Prune(r) PROVE RecorderTypes'
  <2>1. PICK oldest \in rec[r].list :
           rec' = [rec EXCEPT ![r].list = rec[r].list \ {oldest},
                              ![r].total = rec[r].total - oldest.size]
    BY <1>3 DEF Prune
  <2> DEFINE b == [rec[r] EXCEPT !.list = rec[r].list \ {oldest},
                                 !.total = rec[r].total - oldest.size]
  <2>2. b \in RecorderType /\ b.pc = rec[r].pc /\ b.list \subseteq rec[r].list
    <3>1. oldest.size \in Nat /\ rec[r].total \in Int
      BY DEF RecorderType, File
    <3>2. rec[r].total - oldest.size \in Int
      BY <3>1
    <3>3. QED
      BY <3>2 DEF RecorderType
  <2>3. rec' = [rec EXCEPT ![r] = b]
    BY <2>1 DEF RecorderType
  <2>4. /\ r \in active /\ phase' # "down" /\ UNCHANGED <<active, run, clock>>
        /\ rec[r].pc = "prune"
    BY <1>3 DEF Prune, At, serviceVars
  <2>5. clock \in Nat /\ \A f \in b.list : f.mtime <= clock'
    BY <2>2, <2>4 DEF FileTypes
  <2> HIDE DEF b
  <2>6. QED
    BY <2>2, <2>3, <2>4, <2>5, OneRecorder
<1>4. ASSUME NEW r \in Runs, PruneDone(r) PROVE RecorderTypes'
  <2> DEFINE b == [rec[r] EXCEPT !.pc = "meta"]
  <2>1. /\ b \in RecorderType /\ b.pc \notin {"none", "done"}
        /\ b.list \subseteq rec[r].list
    BY DEF RecorderType, Pcs, Statuses, Terminal
  <2>2. rec' = [rec EXCEPT ![r] = b]
    BY <1>4 DEF PruneDone, At, Goto, RecorderType
  <2>3. r \in active /\ phase' # "down" /\ UNCHANGED <<active, run>>
    BY <1>4 DEF PruneDone, serviceVars, fileVars, At
  <2>4. clock' = clock /\ \A f \in b.list : f.mtime <= clock'
    BY <1>4, <2>1 DEF PruneDone, fileVars
  <2> HIDE DEF b
  <2>5. clock \in Nat /\ clock' \in Nat /\ clock <= clock'
    BY <2>4 DEF FileTypes
  <2>6. QED
    BY <2>1, <2>2, <2>3, <2>4, <2>5, OneRecorder
<1>5. ASSUME NEW r \in Runs, MetaTruncate(r) PROVE RecorderTypes'
  <2> DEFINE b == [rec[r] EXCEPT !.pc = "metaWrite"]
  <2>1. /\ b \in RecorderType /\ b.pc \notin {"none", "done"}
        /\ b.list \subseteq rec[r].list
    BY DEF RecorderType, Pcs, Statuses, Terminal
  <2>2. rec' = [rec EXCEPT ![r] = b]
    BY <1>5 DEF MetaTruncate, At, Goto, RecorderType
  <2>3. r \in active /\ phase' # "down" /\ UNCHANGED <<active, run>>
    BY <1>5 DEF MetaTruncate, serviceVars, fileVars, At
  <2>4. clock' = clock /\ \A f \in b.list : f.mtime <= clock'
    BY <1>5, <2>1 DEF MetaTruncate, fileVars
  <2> HIDE DEF b
  <2>5. clock \in Nat /\ clock' \in Nat /\ clock <= clock'
    BY <2>4 DEF FileTypes
  <2>6. QED
    BY <2>1, <2>2, <2>3, <2>4, <2>5, OneRecorder
<1>6. ASSUME NEW r \in Runs, MetaWrite(r) PROVE RecorderTypes'
  <2> DEFINE b == [rec[r] EXCEPT !.pc = "metaRename"]
  <2>1. /\ b \in RecorderType /\ b.pc \notin {"none", "done"}
        /\ b.list \subseteq rec[r].list
    BY DEF RecorderType, Pcs, Statuses, Terminal
  <2>2. rec' = [rec EXCEPT ![r] = b]
    BY <1>6 DEF MetaWrite, At, Goto, RecorderType
  <2>3. r \in active /\ phase' # "down" /\ UNCHANGED <<active, run>>
    BY <1>6 DEF MetaWrite, serviceVars, fileVars, At
  <2>4. clock' = clock /\ \A f \in b.list : f.mtime <= clock'
    BY <1>6, <2>1 DEF MetaWrite, fileVars
  <2> HIDE DEF b
  <2>5. clock \in Nat /\ clock' \in Nat /\ clock <= clock'
    BY <2>4 DEF FileTypes
  <2>6. QED
    BY <2>1, <2>2, <2>3, <2>4, <2>5, OneRecorder
<1>7. ASSUME NEW r \in Runs, MetaRename(r) PROVE RecorderTypes'
  <2> DEFINE b == [rec[r] EXCEPT !.pc = IF rec[r].goal =
                  "end" THEN "leave" ELSE "open"]
  <2>1. /\ b \in RecorderType /\ b.pc \notin {"none", "done"}
        /\ b.list \subseteq rec[r].list
    BY DEF RecorderType, Pcs, Statuses, Terminal
  <2>2. rec' = [rec EXCEPT ![r] = b]
    BY <1>7 DEF MetaRename, At, Goto, RecorderType
  <2>3. r \in active /\ phase' # "down" /\ UNCHANGED <<active, run>>
    BY <1>7 DEF MetaRename, serviceVars, fileVars, At
  <2>4. clock' = clock /\ \A f \in b.list : f.mtime <= clock'
    BY <1>7, <2>1 DEF MetaRename, fileVars
  <2> HIDE DEF b
  <2>5. clock \in Nat /\ clock' \in Nat /\ clock <= clock'
    BY <2>4 DEF FileTypes
  <2>6. QED
    BY <2>1, <2>2, <2>3, <2>4, <2>5, OneRecorder
<1>8. ASSUME NEW r \in Runs, Open(r) PROVE RecorderTypes'
  <2> DEFINE b == [rec[r] EXCEPT !.pc = IF rec[r].goal =
                  "start" THEN "persist" ELSE "record",
                  !.seq = rec[r].seq + 1, !.size = 0]
  <2>1. /\ b \in RecorderType /\ b.pc \notin {"none", "done"}
        /\ b.list \subseteq rec[r].list
    <3>1. rec[r].seq + 1 \in Nat
      BY DEF RecorderType
    <3>2. QED
      BY <3>1 DEF RecorderType, Pcs, Statuses, Terminal
  <2>2. rec' = [rec EXCEPT ![r] = b]
    BY <1>8 DEF Open, At, RecorderType
  <2>3. r \in active /\ phase' # "down" /\ UNCHANGED <<active, run>>
    BY <1>8 DEF Open, serviceVars, fileVars, At
  <2>4. clock' = clock /\ \A f \in b.list : f.mtime <= clock'
    BY <1>8, <2>1 DEF Open, fileVars
  <2> HIDE DEF b
  <2>5. clock \in Nat /\ clock' \in Nat /\ clock <= clock'
    BY <2>4 DEF FileTypes
  <2>6. QED
    BY <2>1, <2>2, <2>3, <2>4, <2>5, OneRecorder
<1>9. ASSUME NEW r \in Runs, Persist(r) PROVE RecorderTypes'
  <2> DEFINE b == [rec[r] EXCEPT !.pc = "record"]
  <2>1. /\ b \in RecorderType /\ b.pc \notin {"none", "done"}
        /\ b.list \subseteq rec[r].list
    BY DEF RecorderType, Pcs, Statuses, Terminal
  <2>2. rec' = [rec EXCEPT ![r] = b]
    BY <1>9 DEF Persist, At, Goto, RecorderType
  <2>3. r \in active /\ phase' # "down" /\ UNCHANGED <<active, run>>
    BY <1>9 DEF Persist, serviceVars, fileVars, At
  <2>4. clock' = clock /\ \A f \in b.list : f.mtime <= clock'
    BY <1>9, <2>1 DEF Persist, fileVars
  <2> HIDE DEF b
  <2>5. clock \in Nat /\ clock' \in Nat /\ clock <= clock'
    BY <2>4 DEF FileTypes
  <2>6. QED
    BY <2>1, <2>2, <2>3, <2>4, <2>5, OneRecorder
<1>10. ASSUME NEW r \in Runs, StartFails(r) PROVE RecorderTypes'
  <2>1. /\ rec' = [rec EXCEPT ![r] = Recorder("done", "end")]
        /\ active' = active \ {r} /\ clock' = clock /\ run' = run /\ phase' # "down"
        /\ rec[r].pc # "none"
    BY <1>10 DEF StartFails
  <2>2. Recorder("done", "end") \in RecorderType /\ Recorder("done", "end").pc = "done"
        /\ Recorder("done", "end").list = {}
    BY DEF Recorder, RecorderType, Pcs, Statuses
  <2>3. QED
    BY <2>1, <2>2
<1>11. ASSUME NEW r \in Runs, NEW n \in PacketSizes, WriteEnds(r, n)
      PROVE  RecorderTypes'
  <2> DEFINE b == [rec[r] EXCEPT !.status = "TRUNCATED",
                  !.goal = "end", !.pc = "finish", !.size =
                  rec[r].size + n]
  <2>1. /\ b \in RecorderType /\ b.pc \notin {"none", "done"}
        /\ b.list \subseteq rec[r].list
    <3>1. rec[r].size + n \in Nat
      BY SizesAssumption DEF RecorderType
    <3>2. QED
      BY <3>1 DEF RecorderType, Pcs, Statuses, Terminal
  <2>2. rec' = [rec EXCEPT ![r] = b]
    BY <1>11 DEF WriteEnds, Written, At, Ends, RecorderType
  <2>3. r \in active /\ phase' # "down" /\ UNCHANGED <<active, run>>
    BY <1>11 DEF WriteEnds, Written, serviceVars, fileVars, At
  <2>4. clock' = clock /\ \A f \in b.list : f.mtime <= clock'
    BY <1>11, <2>1 DEF WriteEnds, Written, fileVars
  <2> HIDE DEF b
  <2>5. clock \in Nat /\ clock' \in Nat /\ clock <= clock'
    BY <2>4 DEF FileTypes
  <2>6. QED
    BY <2>1, <2>2, <2>3, <2>4, <2>5, OneRecorder
<1>12. ASSUME NEW r \in Runs, NEW n \in PacketSizes, WriteRotates(r, n)
      PROVE  RecorderTypes'
  <2> DEFINE b == [rec[r] EXCEPT !.size = rec[r].size + n,
                  !.pc = "finish", !.goal = "rotate"]
  <2>1. /\ b \in RecorderType /\ b.pc \notin {"none", "done"}
        /\ b.list \subseteq rec[r].list
    <3>1. rec[r].size + n \in Nat
      BY SizesAssumption DEF RecorderType
    <3>2. QED
      BY <3>1 DEF RecorderType, Pcs, Statuses, Terminal
  <2>2. rec' = [rec EXCEPT ![r] = b]
    BY <1>12 DEF WriteRotates, Written, At, RecorderType
  <2>3. r \in active /\ phase' # "down" /\ UNCHANGED <<active, run>>
    BY <1>12 DEF WriteRotates, Written, serviceVars, fileVars, At
  <2>4. clock' = clock /\ \A f \in b.list : f.mtime <= clock'
    BY <1>12, <2>1 DEF WriteRotates, Written, fileVars
  <2> HIDE DEF b
  <2>5. clock \in Nat /\ clock' \in Nat /\ clock <= clock'
    BY <2>4 DEF FileTypes
  <2>6. QED
    BY <2>1, <2>2, <2>3, <2>4, <2>5, OneRecorder
<1>13. ASSUME NEW r \in Runs, NEW n \in PacketSizes, WriteGoesOn(r, n)
      PROVE  RecorderTypes'
  <2> DEFINE b == [rec[r] EXCEPT !.size = rec[r].size + n]
  <2>1. /\ b \in RecorderType /\ b.pc \notin {"none", "done"}
        /\ b.list \subseteq rec[r].list
    <3>1. rec[r].size + n \in Nat
      BY SizesAssumption DEF RecorderType
    <3>2. QED
      BY <3>1, <1>13 DEF RecorderType, Pcs, Statuses, Terminal, WriteGoesOn, Written, At
  <2>2. rec' = [rec EXCEPT ![r] = b]
    BY <1>13 DEF WriteGoesOn, Written, At, RecorderType
  <2>3. r \in active /\ phase' # "down" /\ UNCHANGED <<active, run>>
    BY <1>13 DEF WriteGoesOn, Written, serviceVars, fileVars, At
  <2>4. clock' = clock /\ \A f \in b.list : f.mtime <= clock'
    BY <1>13, <2>1 DEF WriteGoesOn, Written, fileVars
  <2> HIDE DEF b
  <2>5. clock \in Nat /\ clock' \in Nat /\ clock <= clock'
    BY <2>4 DEF FileTypes
  <2>6. QED
    BY <2>1, <2>2, <2>3, <2>4, <2>5, OneRecorder
<1>14. ASSUME NEW r \in Runs, FlushTick(r) PROVE RecorderTypes'
  <2> DEFINE b == [rec[r] EXCEPT !.status = "TRUNCATED",
                  !.goal = "end", !.pc = "finish"]
  <2>1. /\ b \in RecorderType /\ b.pc \notin {"none", "done"}
        /\ b.list \subseteq rec[r].list
    BY DEF RecorderType, Pcs, Statuses, Terminal
  <2>2. rec' = [rec EXCEPT ![r] = b]
    BY <1>14 DEF FlushTick, At, Ends, RecorderType
  <2>3. r \in active /\ phase' # "down" /\ UNCHANGED <<active, run>>
    BY <1>14 DEF FlushTick, serviceVars, fileVars, At
  <2>4. clock' = clock /\ \A f \in b.list : f.mtime <= clock'
    BY <1>14, <2>1 DEF FlushTick, fileVars
  <2> HIDE DEF b
  <2>5. clock \in Nat /\ clock' \in Nat /\ clock <= clock'
    BY <2>4 DEF FileTypes
  <2>6. QED
    BY <2>1, <2>2, <2>3, <2>4, <2>5, OneRecorder
<1>15. ASSUME NEW r \in Runs, 
             NEW s \in {"COMPLETED", "PARTIAL", "FAILED"}, End(r, s)
      PROVE  RecorderTypes'
  <2> DEFINE b == [rec[r] EXCEPT !.status = s, !.goal =
                  "end", !.pc = "finish"]
  <2>1. /\ b \in RecorderType /\ b.pc \notin {"none", "done"}
        /\ b.list \subseteq rec[r].list
    BY DEF RecorderType, Pcs, Statuses, Terminal
  <2>2. rec' = [rec EXCEPT ![r] = b]
    BY <1>15 DEF End, At, Ends, RecorderType
  <2>3. r \in active /\ phase' # "down" /\ UNCHANGED <<active, run>>
    BY <1>15 DEF End, serviceVars, fileVars, At
  <2>4. clock' = clock /\ \A f \in b.list : f.mtime <= clock'
    BY <1>15, <2>1 DEF End, fileVars
  <2> HIDE DEF b
  <2>5. clock \in Nat /\ clock' \in Nat /\ clock <= clock'
    BY <2>4 DEF FileTypes
  <2>6. QED
    BY <2>1, <2>2, <2>3, <2>4, <2>5, OneRecorder
<1>16. ASSUME NEW r \in Runs, FinishEmpty(r) PROVE RecorderTypes'
  <2> DEFINE b == [rec[r] EXCEPT !.pc = AfterFinish(r)]
  <2>1. /\ b \in RecorderType /\ b.pc \notin {"none", "done"}
        /\ b.list \subseteq rec[r].list
    BY DEF RecorderType, Pcs, Statuses, Terminal, AfterFinish
  <2>2. rec' = [rec EXCEPT ![r] = b]
    BY <1>16 DEF FinishEmpty, At, Goto, RecorderType
  <2>3. r \in active /\ phase' # "down" /\ UNCHANGED <<active, run>>
    BY <1>16 DEF FinishEmpty, serviceVars, fileVars, At
  <2>4. clock' = clock /\ \A f \in b.list : f.mtime <= clock'
    BY <1>16, <2>1 DEF FinishEmpty, fileVars
  <2> HIDE DEF b
  <2>5. clock \in Nat /\ clock' \in Nat /\ clock <= clock'
    BY <2>4 DEF FileTypes
  <2>6. QED
    BY <2>1, <2>2, <2>3, <2>4, <2>5, OneRecorder
<1>17. ASSUME NEW r \in Runs, FinishFull(r) PROVE RecorderTypes'
  <2> DEFINE b == [rec[r] EXCEPT !.pc = AfterFinish(r),
                  !.list = rec[r].list \cup {Finished(r)},
                  !.total = rec[r].total + rec[r].size,
                  !.size = 0]
  <2>1. /\ b \in RecorderType /\ b.pc \notin {"none", "done"}
        /\ b.list = rec[r].list \cup {Finished(r)}
    <3>1. rec[r].total + rec[r].size \in Int /\ Finished(r) \in File
      BY <1>17, FinishedIsFile DEF RecorderType
    <3>2. QED
      BY <3>1 DEF RecorderType, AfterFinish, Pcs
  <2>2. rec' = [rec EXCEPT ![r] = b]
    BY <1>17 DEF FinishFull, At, Finished, RecorderType
  <2>3. r \in active /\ phase' # "down" /\ UNCHANGED <<active, run>>
    BY <1>17 DEF FinishFull, serviceVars, fileVars, At
  <2>4. clock' = clock + 1 /\ \A f \in b.list : f.mtime <= clock'
    <3>1. clock' = clock + 1
      BY <1>17 DEF FinishFull
    <3>2. \A f \in rec[r].list : f.mtime \in Nat /\ f.mtime <= clock
      BY DEF RecorderType, File
    <3>3. QED
      BY <2>1, <3>1, <3>2, <1>17, FinishedIsFile DEF FileTypes
  <2> HIDE DEF b
  <2>5. clock \in Nat /\ clock' \in Nat /\ clock <= clock'
    BY <2>4 DEF FileTypes
  <2>6. QED
    BY <2>1, <2>2, <2>3, <2>4, <2>5, OneRecorder
<1>18. ASSUME NEW r \in Runs, FinishFails(r) PROVE RecorderTypes'
  <2> DEFINE b == [rec[r] EXCEPT !.status = "FAILED", !.goal
                  = "end", !.size = 0, !.pc = IF Rolling
                  THEN "prune" ELSE "meta"]
  <2>1. /\ b \in RecorderType /\ b.pc \notin {"none", "done"}
        /\ b.list \subseteq rec[r].list
    BY DEF RecorderType, Pcs, Statuses, Terminal
  <2>2. rec' = [rec EXCEPT ![r] = b]
    BY <1>18 DEF FinishFails, At, RecorderType
  <2>3. r \in active /\ phase' # "down" /\ UNCHANGED <<active, run>>
    BY <1>18 DEF FinishFails, serviceVars, fileVars, At
  <2>4. clock' = clock /\ \A f \in b.list : f.mtime <= clock'
    BY <1>18, <2>1 DEF FinishFails, fileVars
  <2> HIDE DEF b
  <2>5. clock \in Nat /\ clock' \in Nat /\ clock <= clock'
    BY <2>4 DEF FileTypes
  <2>6. QED
    BY <2>1, <2>2, <2>3, <2>4, <2>5, OneRecorder
<1>19. ASSUME NEW r \in Runs, RotateFails(r) PROVE RecorderTypes'
  <2> DEFINE b == [rec[r] EXCEPT !.status = "FAILED", !.goal
                  = "end", !.pc = IF Rolling THEN "prune"
                  ELSE "meta"]
  <2>1. /\ b \in RecorderType /\ b.pc \notin {"none", "done"}
        /\ b.list \subseteq rec[r].list
    BY DEF RecorderType, Pcs, Statuses, Terminal
  <2>2. rec' = [rec EXCEPT ![r] = b]
    BY <1>19 DEF RotateFails, RecorderType
  <2>3. r \in active /\ phase' # "down" /\ UNCHANGED <<active, run>>
    BY <1>19 DEF RotateFails, serviceVars, fileVars, At
  <2>4. clock' = clock /\ \A f \in b.list : f.mtime <= clock'
    BY <1>19, <2>1 DEF RotateFails, fileVars
  <2> HIDE DEF b
  <2>5. clock \in Nat /\ clock' \in Nat /\ clock <= clock'
    BY <2>4 DEF FileTypes
  <2>6. QED
    BY <2>1, <2>2, <2>3, <2>4, <2>5, OneRecorder
<1>20. ASSUME NEW r \in Runs, MetaFails(r) PROVE RecorderTypes'
  <2> DEFINE b == [rec[r] EXCEPT !.pc = "leave"]
  <2>1. /\ b \in RecorderType /\ b.pc \notin {"none", "done"}
        /\ b.list \subseteq rec[r].list
    BY DEF RecorderType, Pcs, Statuses, Terminal
  <2>2. rec' = [rec EXCEPT ![r] = b]
    BY <1>20 DEF MetaFails, Goto, RecorderType
  <2>3. r \in active /\ phase' # "down" /\ UNCHANGED <<active, run>>
    BY <1>20 DEF MetaFails, serviceVars, fileVars, At
  <2>4. clock' = clock /\ \A f \in b.list : f.mtime <= clock'
    BY <1>20, <2>1 DEF MetaFails, fileVars
  <2> HIDE DEF b
  <2>5. clock \in Nat /\ clock' \in Nat /\ clock <= clock'
    BY <2>4 DEF FileTypes
  <2>6. QED
    BY <2>1, <2>2, <2>3, <2>4, <2>5, OneRecorder
<1>21. ASSUME NEW r \in Runs, Leave(r) PROVE RecorderTypes'
  BY SegmentBounds, <1>21 DEF Leave, At, Recorder, fileVars, metaVars,
     serviceVars, boundVars, FileTypes, RecorderType, ServiceTypes, Pcs,
     Statuses, Terminal, Runs, File
<1>22. ASSUME StopPersist PROVE RecorderTypes'
  BY SegmentBounds, <1>22 DEF StopPersist, fileVars, metaVars, serviceVars,
     boundVars, FileTypes, RecorderType, ServiceTypes, Pcs, Statuses,
     Terminal, Runs, File
<1>23. ASSUME CloseSession PROVE RecorderTypes'
  BY SegmentBounds, <1>23 DEF CloseSession, fileVars, metaVars, serviceVars,
     boundVars, FileTypes, RecorderType, ServiceTypes, Pcs, Statuses,
     Terminal, Runs, File
<1>24. ASSUME StopReturns PROVE RecorderTypes'
  BY SegmentBounds, <1>24 DEF StopReturns, fileVars, metaVars, serviceVars,
     boundVars, FileTypes, RecorderType, ServiceTypes, Pcs, Statuses,
     Terminal, Runs, File
<1>25. ASSUME Crash PROVE RecorderTypes'
  BY SegmentBounds, <1>25 DEF Crash, Recorder, fileVars, metaVars,
     serviceVars, boundVars, FileTypes, RecorderType, ServiceTypes, Pcs,
     Statuses, Terminal, Runs, File
<1>26. ASSUME BootIdle PROVE RecorderTypes'
  BY SegmentBounds, <1>26 DEF BootIdle, fileVars, metaVars, serviceVars,
     boundVars, FileTypes, RecorderType, ServiceTypes, Pcs, Statuses,
     Terminal, Runs, File
<1>27. ASSUME BootRestores PROVE RecorderTypes'
  <2>1. owner \in Runs /\ owner <= run
    BY <1>27, SegmentBounds DEF BootRestores, ServiceTypes, Runs
  <2>2. /\ Recorder("load", "start") \in RecorderType
        /\ Recorder("load", "start").pc = "load"
        /\ Recorder("load", "start").list = {}
    BY DEF Recorder, RecorderType, Pcs, Statuses
  <2>3. QED
    BY <1>27, <2>1, <2>2 DEF BootRestores, Reserve, fileVars, ServiceTypes, Runs
<1>28. ASSUME BootExpires PROVE RecorderTypes'
  BY SegmentBounds, <1>28 DEF BootExpires, fileVars, metaVars, serviceVars,
     boundVars, FileTypes, RecorderType, ServiceTypes, Pcs, Statuses,
     Terminal, Runs, File
<1>29. ASSUME CleanActive PROVE RecorderTypes'
  BY SegmentBounds, <1>29 DEF CleanActive, fileVars, metaVars, serviceVars,
     boundVars, FileTypes, RecorderType, ServiceTypes, Pcs, Statuses,
     Terminal, Runs, File
<1>30. ASSUME CleanInspect PROVE RecorderTypes'
  BY SegmentBounds, <1>30 DEF CleanInspect, fileVars, metaVars, serviceVars,
     boundVars, FileTypes, RecorderType, ServiceTypes, Pcs, Statuses,
     Terminal, Runs, File
<1>31. ASSUME CleanValidate PROVE RecorderTypes'
  BY SegmentBounds, <1>31 DEF CleanValidate, fileVars, metaVars,
     serviceVars, boundVars, FileTypes, RecorderType, ServiceTypes, Pcs,
     Statuses, Terminal, Runs, File
<1>32. ASSUME CleanDelete PROVE RecorderTypes'
  BY SegmentBounds, <1>32 DEF CleanDelete, fileVars, metaVars, serviceVars,
     boundVars, FileTypes, RecorderType, ServiceTypes, Pcs, Statuses,
     Terminal, Runs, File
<1>33. QED
  BY <1>1, <1>2, <1>3, <1>4, <1>5, <1>6, <1>7, <1>8, <1>9, <1>10, <1>11,
     <1>12, <1>13, <1>14, <1>15, <1>16, <1>17, <1>18, <1>19, <1>20, <1>21,
     <1>22, <1>23, <1>24, <1>25, <1>26, <1>27, <1>28, <1>29, <1>30, <1>31,
     <1>32, StepCases

(* A step keeps a recorder's sequence number ahead of its files.           *)
LEMMA NameStep ==
  ASSUME Types, GoalInv, NameInv, Next
  PROVE  NameInv'
<1> USE DEF Types, FileTypes, RecorderTypes, RecorderType, ServiceTypes,
       Pcs, Statuses, Terminal, Runs, File, NameInv, HasSegment
<1>1. ASSUME NEW r \in Runs, Begin(r) PROVE NameInv'
  BY <1>1 DEF Begin, Reserve, Recorder, fileVars, metaVars, serviceVars,
     boundVars
<1>2. ASSUME NEW r \in Runs, Load(r) PROVE NameInv'
  <2>1. rec' = [rec EXCEPT ![r].pc = "prune", ![r].seq = LoadSequence(r),
                           ![r].list = disk, ![r].total = TotalSize(disk)]
        /\ disk' = disk
    BY <1>2 DEF Load
  <2>2. rec'[r].pc = "prune" /\ rec'[r].seq = LoadSequence(r)
    BY <2>1
  <2>3. \A f \in disk : f.run = r => f.seq <= LoadSequence(r)
    BY SequenceIsLargest
  <2>4. \A q \in Runs : q # r => rec'[q] = rec[q]
    BY <2>1
  <2>5. QED
    BY <2>1, <2>2, <2>3, <2>4
<1>3. ASSUME NEW r \in Runs, Prune(r) PROVE NameInv'
  <2>1. PICK oldest \in rec[r].list :
           /\ disk' = disk \ {oldest}
           /\ rec' = [rec EXCEPT ![r].list = rec[r].list \ {oldest},
                                 ![r].total = rec[r].total - oldest.size]
    BY <1>3 DEF Prune
  <2>2. \A q \in Runs : rec'[q].pc = rec[q].pc /\ rec'[q].seq = rec[q].seq
    BY <2>1
  <2>3. QED
    BY <2>1, <2>2
<1>4. ASSUME NEW r \in Runs, PruneDone(r) PROVE NameInv'
  BY <1>4 DEF PruneDone, At, Goto, Overfull, fileVars, metaVars,
     serviceVars, boundVars
<1>5. ASSUME NEW r \in Runs, MetaTruncate(r) PROVE NameInv'
  BY <1>5 DEF MetaTruncate, At, Goto, fileVars, metaVars, serviceVars,
     boundVars
<1>6. ASSUME NEW r \in Runs, MetaWrite(r) PROVE NameInv'
  BY <1>6 DEF MetaWrite, At, Goto, fileVars, metaVars, serviceVars,
     boundVars
<1>7. ASSUME NEW r \in Runs, MetaRename(r) PROVE NameInv'
  BY <1>7 DEF MetaRename, At, Goto, fileVars, metaVars, serviceVars,
     boundVars
<1>8. ASSUME NEW r \in Runs, Open(r) PROVE NameInv'
  <2>1. rec'[r].seq = rec[r].seq + 1 /\ rec'[r].pc \in HasSegment /\ disk' = disk
    BY <1>8 DEF Open
  <2>2. \A f \in disk : f.run = r => f.seq \in Nat /\ f.seq <= rec[r].seq
    BY <1>8 DEF Open, At
  <2>3. \A q \in Runs : q # r => rec'[q] = rec[q]
    BY <1>8 DEF Open
  <2>4. QED
    BY <2>1, <2>2, <2>3
<1>9. ASSUME NEW r \in Runs, Persist(r) PROVE NameInv'
  BY <1>9 DEF Persist, At, Goto, fileVars, metaVars, serviceVars, boundVars
<1>10. ASSUME NEW r \in Runs, StartFails(r) PROVE NameInv'
  BY <1>10 DEF StartFails, At, Recorder, OpenPart, fileVars, metaVars,
     serviceVars, boundVars
<1>11. ASSUME NEW r \in Runs, NEW n \in PacketSizes, WriteEnds(r, n)
      PROVE  NameInv'
  BY <1>11 DEF WriteEnds, Written, At, Ends, OpenPart, fileVars, metaVars,
     serviceVars, boundVars
<1>12. ASSUME NEW r \in Runs, NEW n \in PacketSizes, WriteRotates(r, n)
      PROVE  NameInv'
  <2>1. disk' = disk /\ \A q \in Runs : rec'[q].seq = rec[q].seq
    BY <1>12 DEF WriteRotates, Written
  <2>2. rec[r].pc = "record" /\ rec'[r].pc = "finish"
    BY <1>12 DEF WriteRotates, Written, At
  <2>3. \A q \in Runs : q # r => rec'[q] = rec[q]
    BY <1>12 DEF WriteRotates
  <2>4. QED
    BY <2>1, <2>2, <2>3
<1>13. ASSUME NEW r \in Runs, NEW n \in PacketSizes, WriteGoesOn(r, n)
      PROVE  NameInv'
  BY <1>13 DEF WriteGoesOn, Written, At, OpenPart, fileVars, metaVars,
     serviceVars, boundVars
<1>14. ASSUME NEW r \in Runs, FlushTick(r) PROVE NameInv'
  BY <1>14 DEF FlushTick, At, Ends, fileVars, metaVars, serviceVars,
     boundVars
<1>15. ASSUME NEW r \in Runs, 
             NEW s \in {"COMPLETED", "PARTIAL", "FAILED"}, End(r, s)
      PROVE  NameInv'
  BY <1>15 DEF End, At, Ends, fileVars, metaVars, serviceVars, boundVars
<1>16. ASSUME NEW r \in Runs, FinishEmpty(r) PROVE NameInv'
  BY <1>16 DEF FinishEmpty, At, Goto, AfterFinish, OpenPart, fileVars,
     metaVars, serviceVars, boundVars
<1>17. ASSUME NEW r \in Runs, FinishFull(r) PROVE NameInv'
  <2>1. /\ rec'[r].seq = rec[r].seq /\ rec'[r].pc \in {"meta", "prune"}
        /\ disk' = disk \cup {Finished(r)}
        /\ Finished(r).run = r /\ Finished(r).seq = rec[r].seq
    BY <1>17 DEF FinishFull, AfterFinish, Finished
  <2>2. \A f \in disk : f.run = r => f.seq \in Nat /\ f.seq <= rec[r].seq
    BY <1>17 DEF FinishFull, At
  <2>3. \A q \in Runs : q # r => rec'[q] = rec[q]
    BY <1>17 DEF FinishFull
  <2>4. QED
    BY <2>1, <2>2, <2>3
<1>18. ASSUME NEW r \in Runs, FinishFails(r) PROVE NameInv'
  BY <1>18 DEF FinishFails, At, fileVars, metaVars, serviceVars, boundVars
<1>19. ASSUME NEW r \in Runs, RotateFails(r) PROVE NameInv'
  BY <1>19 DEF RotateFails, fileVars, metaVars, serviceVars, boundVars
<1>20. ASSUME NEW r \in Runs, MetaFails(r) PROVE NameInv'
  BY <1>20 DEF MetaFails, Goto, fileVars, metaVars, serviceVars, boundVars
<1>21. ASSUME NEW r \in Runs, Leave(r) PROVE NameInv'
  BY <1>21 DEF Leave, At, Recorder, fileVars, metaVars, serviceVars,
     boundVars
<1>22. ASSUME Crash PROVE NameInv'
  BY <1>22 DEF Crash, Recorder, fileVars, metaVars, serviceVars, boundVars
<1>23. ASSUME BootRestores PROVE NameInv'
  BY <1>23 DEF BootRestores, Reserve, Recorder, fileVars, metaVars,
     serviceVars, boundVars
<1>24. ASSUME CleanDelete PROVE NameInv'
  BY <1>24 DEF CleanDelete, fileVars, metaVars, serviceVars, boundVars
<1>25. ASSUME
             \/ StopPersist \/ CloseSession \/ StopReturns \/ BootIdle
             \/ BootExpires \/ CleanActive \/ CleanInspect \/ CleanValidate
      PROVE  NameInv'
  <2>1. UNCHANGED <<disk, rec>>
    BY <1>25 DEF StopPersist, CloseSession, StopReturns, BootIdle,
       BootExpires, CleanActive, CleanInspect, CleanValidate, fileVars,
       boundVars
  <2>2. QED
    BY <2>1
<1>26. QED
  BY <1>1, <1>2, <1>3, <1>4, <1>5, <1>6, <1>7, <1>8, <1>9, <1>10, <1>11,
     <1>12, <1>13, <1>14, <1>15, <1>16, <1>17, <1>18, <1>19, <1>20, <1>21,
     <1>22, <1>23, <1>24, <1>25, StepCases

(* A step keeps what the metadata of a session says of it.                 *)
LEMMA MetaStep ==
  ASSUME Types, GoalInv, MetaInv, CleanInv, Next
  PROVE  MetaInv'
<1> USE DEF Types, RecorderTypes, RecorderType, ServiceTypes, Pcs,
       Statuses, Terminal, Runs, MetaInv, Unused, Rolling, CleanInv,
       GoalInv
<1>1. ASSUME NEW r \in Runs, Begin(r) PROVE MetaInv'
  BY <1>1 DEF Begin, Reserve, Recorder, fileVars, metaVars, serviceVars,
     boundVars
<1>2. ASSUME NEW r \in Runs, Load(r) PROVE MetaInv'
  BY <1>2 DEF Load, At, fileVars, metaVars, serviceVars, boundVars
<1>3. ASSUME NEW r \in Runs, Prune(r) PROVE MetaInv'
  <2>1. PICK oldest \in rec[r].list :
           /\ disk' = disk \ {oldest}
           /\ rec' = [rec EXCEPT ![r].list = rec[r].list \ {oldest},
                                 ![r].total = rec[r].total - oldest.size]
    BY <1>3 DEF Prune
  <2>2. QED
    BY <1>3, <2>1 DEF Prune, At, metaVars, serviceVars
<1>4. ASSUME NEW r \in Runs, PruneDone(r) PROVE MetaInv'
  BY <1>4 DEF PruneDone, At, Goto, Overfull, fileVars, metaVars,
     serviceVars, boundVars
<1>5. ASSUME NEW r \in Runs, MetaTruncate(r) PROVE MetaInv'
  BY <1>5 DEF MetaTruncate, At, Goto, fileVars, metaVars, serviceVars,
     boundVars
<1>6. ASSUME NEW r \in Runs, MetaWrite(r) PROVE MetaInv'
  <2>1. ~Rolling => r = 1
    BY <1>6 DEF MetaWrite, At
  <2>2. /\ rec' = [rec EXCEPT ![r].pc = "metaRename"] /\ metaPart' = rec[r].status
        /\ unfinished' <=> unfinished /\ rec[r].goal # "end"
        /\ UNCHANGED <<mode, clean, run, meta, desired, disk, parts>>
    BY <1>6 DEF MetaWrite, At, Goto, fileVars, serviceVars
  <2>3. rec'[r].pc = "metaRename" /\ rec'[r].goal = rec[r].goal
    BY <2>2
  <2>4. run # 0
    BY <1>6 DEF MetaWrite, At
  <2>5. CASE rec[r].goal = "end"
    BY <2>1, <2>2, <2>3, <2>4, <2>5, <1>6 DEF MetaWrite, At
  <2>6. CASE rec[r].goal # "end"
    BY <2>1, <2>2, <2>3, <2>4, <2>6
  <2>7. QED
    BY <2>5, <2>6
<1>7. ASSUME NEW r \in Runs, MetaRename(r) PROVE MetaInv'
  BY <1>7 DEF MetaRename, At, Goto, fileVars, metaVars, serviceVars,
     boundVars
<1>8. ASSUME NEW r \in Runs, Open(r) PROVE MetaInv'
  BY <1>8 DEF Open, At, fileVars, metaVars, serviceVars, boundVars
<1>9. ASSUME NEW r \in Runs, Persist(r) PROVE MetaInv'
  BY <1>9 DEF Persist, At, Goto, fileVars, metaVars, serviceVars, boundVars
<1>10. ASSUME NEW r \in Runs, StartFails(r) PROVE MetaInv'
  BY <1>10 DEF StartFails, At, Recorder, OpenPart, fileVars, metaVars,
     serviceVars, boundVars
<1>11. ASSUME NEW r \in Runs, NEW n \in PacketSizes, WriteEnds(r, n)
      PROVE  MetaInv'
  BY <1>11 DEF WriteEnds, Written, At, Ends, OpenPart, fileVars, metaVars,
     serviceVars, boundVars
<1>12. ASSUME NEW r \in Runs, NEW n \in PacketSizes, WriteRotates(r, n)
      PROVE  MetaInv'
  BY <1>12 DEF WriteRotates, Written, At, OpenPart, fileVars, metaVars,
     serviceVars, boundVars
<1>13. ASSUME NEW r \in Runs, NEW n \in PacketSizes, WriteGoesOn(r, n)
      PROVE  MetaInv'
  BY <1>13 DEF WriteGoesOn, Written, At, OpenPart, fileVars, metaVars,
     serviceVars, boundVars
<1>14. ASSUME NEW r \in Runs, FlushTick(r) PROVE MetaInv'
  BY <1>14 DEF FlushTick, At, Ends, fileVars, metaVars, serviceVars,
     boundVars
<1>15. ASSUME NEW r \in Runs, 
             NEW s \in {"COMPLETED", "PARTIAL", "FAILED"}, End(r, s)
      PROVE  MetaInv'
  BY <1>15 DEF End, At, Ends, fileVars, metaVars, serviceVars, boundVars
<1>16. ASSUME NEW r \in Runs, FinishEmpty(r) PROVE MetaInv'
  BY <1>16 DEF FinishEmpty, At, Goto, AfterFinish, OpenPart, fileVars,
     metaVars, serviceVars, boundVars
<1>17. ASSUME NEW r \in Runs, FinishFull(r) PROVE MetaInv'
  BY <1>17 DEF FinishFull, At, AfterFinish, OpenPart, Finished, fileVars,
     metaVars, serviceVars, boundVars
<1>18. ASSUME NEW r \in Runs, FinishFails(r) PROVE MetaInv'
  BY <1>18 DEF FinishFails, At, fileVars, metaVars, serviceVars, boundVars
<1>19. ASSUME NEW r \in Runs, RotateFails(r) PROVE MetaInv'
  BY <1>19 DEF RotateFails, fileVars, metaVars, serviceVars, boundVars
<1>20. ASSUME NEW r \in Runs, MetaFails(r) PROVE MetaInv'
  BY <1>20 DEF MetaFails, Goto, fileVars, metaVars, serviceVars, boundVars
<1>21. ASSUME NEW r \in Runs, Leave(r) PROVE MetaInv'
  BY <1>21 DEF Leave, At, Recorder, fileVars, metaVars, serviceVars,
     boundVars
<1>22. ASSUME StopPersist PROVE MetaInv'
  BY <1>22 DEF StopPersist, fileVars, metaVars, serviceVars, boundVars
<1>23. ASSUME CloseSession PROVE MetaInv'
  BY <1>23 DEF CloseSession, fileVars, metaVars, serviceVars, boundVars
<1>24. ASSUME StopReturns PROVE MetaInv'
  BY <1>24 DEF StopReturns, fileVars, metaVars, serviceVars, boundVars
<1>25. ASSUME Crash PROVE MetaInv'
  <2>1. rec'[1].pc = "none"
    BY <1>25, SegmentBounds DEF Crash, Recorder
  <2>2. QED
    BY <1>25, <2>1 DEF Crash, fileVars, metaVars
<1>26. ASSUME BootIdle PROVE MetaInv'
  BY <1>26 DEF BootIdle, fileVars, metaVars, serviceVars, boundVars
<1>27. ASSUME BootRestores PROVE MetaInv'
  BY <1>27 DEF BootRestores, Reserve, Recorder, fileVars, metaVars,
     serviceVars, boundVars
<1>28. ASSUME BootExpires PROVE MetaInv'
  BY <1>28 DEF BootExpires, fileVars, metaVars, serviceVars, boundVars
<1>29. ASSUME CleanActive PROVE MetaInv'
  BY <1>29 DEF CleanActive, fileVars, metaVars, serviceVars, boundVars
<1>30. ASSUME CleanInspect PROVE MetaInv'
  BY <1>30 DEF CleanInspect, fileVars, metaVars, serviceVars, boundVars
<1>31. ASSUME CleanValidate PROVE MetaInv'
  BY <1>31 DEF CleanValidate, fileVars, metaVars, serviceVars, boundVars
<1>32. ASSUME CleanDelete PROVE MetaInv'
  BY <1>32 DEF CleanDelete, fileVars, metaVars, serviceVars, boundVars
<1>33. QED
  BY <1>1, <1>2, <1>3, <1>4, <1>5, <1>6, <1>7, <1>8, <1>9, <1>10, <1>11,
     <1>12, <1>13, <1>14, <1>15, <1>16, <1>17, <1>18, <1>19, <1>20, <1>21,
     <1>22, <1>23, <1>24, <1>25, <1>26, <1>27, <1>28, <1>29, <1>30, <1>31,
     <1>32, StepCases

(* A step keeps what a cleanup has seen true: no recorder starts in        *)
(* between.                                                                *)
LEMMA CleanStep ==
  ASSUME Types, GoalInv, MetaInv, CleanInv, Next
  PROVE  CleanInv'
<1> USE DEF Types, RecorderTypes, RecorderType, ServiceTypes, Pcs,
       Statuses, Terminal, Runs, MetaInv, Unused, Rolling, CleanInv,
       GoalInv, Ended, ReadMetadata
<1>1. ASSUME NEW r \in Runs, Begin(r) PROVE CleanInv'
  BY <1>1 DEF Begin, Reserve, Recorder, fileVars, metaVars, serviceVars,
     boundVars
<1>2. ASSUME NEW r \in Runs, Load(r) PROVE CleanInv'
  BY <1>2 DEF Load, At, fileVars, metaVars, serviceVars, boundVars
<1>3. ASSUME NEW r \in Runs, Prune(r) PROVE CleanInv'
  <2>1. PICK oldest \in rec[r].list :
           /\ disk' = disk \ {oldest}
           /\ rec' = [rec EXCEPT ![r].list = rec[r].list \ {oldest},
                                 ![r].total = rec[r].total - oldest.size]
    BY <1>3 DEF Prune
  <2>2. QED
    BY <1>3, <2>1 DEF Prune, At, metaVars, serviceVars
<1>4. ASSUME NEW r \in Runs, PruneDone(r) PROVE CleanInv'
  BY <1>4 DEF PruneDone, At, Goto, Overfull, fileVars, metaVars,
     serviceVars, boundVars
<1>5. ASSUME NEW r \in Runs, MetaTruncate(r) PROVE CleanInv'
  BY <1>5 DEF MetaTruncate, At, Goto, fileVars, metaVars, serviceVars,
     boundVars
<1>6. ASSUME NEW r \in Runs, MetaWrite(r) PROVE CleanInv'
  BY <1>6 DEF MetaWrite, At, Goto, fileVars, metaVars, serviceVars,
     boundVars
<1>7. ASSUME NEW r \in Runs, MetaRename(r) PROVE CleanInv'
  BY <1>7 DEF MetaRename, At, Goto, fileVars, metaVars, serviceVars,
     boundVars
<1>8. ASSUME NEW r \in Runs, Open(r) PROVE CleanInv'
  BY <1>8 DEF Open, At, fileVars, metaVars, serviceVars, boundVars
<1>9. ASSUME NEW r \in Runs, Persist(r) PROVE CleanInv'
  BY <1>9 DEF Persist, At, Goto, fileVars, metaVars, serviceVars, boundVars
<1>10. ASSUME NEW r \in Runs, StartFails(r) PROVE CleanInv'
  BY <1>10 DEF StartFails, At, Recorder, OpenPart, fileVars, metaVars,
     serviceVars, boundVars
<1>11. ASSUME NEW r \in Runs, NEW n \in PacketSizes, WriteEnds(r, n)
      PROVE  CleanInv'
  BY <1>11 DEF WriteEnds, Written, At, Ends, OpenPart, fileVars, metaVars,
     serviceVars, boundVars
<1>12. ASSUME NEW r \in Runs, NEW n \in PacketSizes, WriteRotates(r, n)
      PROVE  CleanInv'
  BY <1>12 DEF WriteRotates, Written, At, OpenPart, fileVars, metaVars,
     serviceVars, boundVars
<1>13. ASSUME NEW r \in Runs, NEW n \in PacketSizes, WriteGoesOn(r, n)
      PROVE  CleanInv'
  BY <1>13 DEF WriteGoesOn, Written, At, OpenPart, fileVars, metaVars,
     serviceVars, boundVars
<1>14. ASSUME NEW r \in Runs, FlushTick(r) PROVE CleanInv'
  BY <1>14 DEF FlushTick, At, Ends, fileVars, metaVars, serviceVars,
     boundVars
<1>15. ASSUME NEW r \in Runs, 
             NEW s \in {"COMPLETED", "PARTIAL", "FAILED"}, End(r, s)
      PROVE  CleanInv'
  BY <1>15 DEF End, At, Ends, fileVars, metaVars, serviceVars, boundVars
<1>16. ASSUME NEW r \in Runs, FinishEmpty(r) PROVE CleanInv'
  BY <1>16 DEF FinishEmpty, At, Goto, AfterFinish, OpenPart, fileVars,
     metaVars, serviceVars, boundVars
<1>17. ASSUME NEW r \in Runs, FinishFull(r) PROVE CleanInv'
  BY <1>17 DEF FinishFull, At, AfterFinish, OpenPart, Finished, fileVars,
     metaVars, serviceVars, boundVars
<1>18. ASSUME NEW r \in Runs, FinishFails(r) PROVE CleanInv'
  BY <1>18 DEF FinishFails, At, fileVars, metaVars, serviceVars, boundVars
<1>19. ASSUME NEW r \in Runs, RotateFails(r) PROVE CleanInv'
  BY <1>19 DEF RotateFails, fileVars, metaVars, serviceVars, boundVars
<1>20. ASSUME NEW r \in Runs, MetaFails(r) PROVE CleanInv'
  BY <1>20 DEF MetaFails, Goto, fileVars, metaVars, serviceVars, boundVars
<1>21. ASSUME NEW r \in Runs, Leave(r) PROVE CleanInv'
  BY <1>21 DEF Leave, At, Recorder, fileVars, metaVars, serviceVars,
     boundVars
<1>22. ASSUME StopPersist PROVE CleanInv'
  BY <1>22 DEF StopPersist, fileVars, metaVars, serviceVars, boundVars
<1>23. ASSUME CloseSession PROVE CleanInv'
  BY <1>23 DEF CloseSession, fileVars, metaVars, serviceVars, boundVars
<1>24. ASSUME StopReturns PROVE CleanInv'
  BY <1>24 DEF StopReturns, fileVars, metaVars, serviceVars, boundVars
<1>25. ASSUME Crash PROVE CleanInv'
  BY <1>25 DEF Crash, Recorder, fileVars, metaVars, serviceVars, boundVars
<1>26. ASSUME BootIdle PROVE CleanInv'
  BY <1>26 DEF BootIdle, fileVars, metaVars, serviceVars, boundVars
<1>27. ASSUME BootRestores PROVE CleanInv'
  BY <1>27 DEF BootRestores, Reserve, Recorder, fileVars, metaVars,
     serviceVars, boundVars
<1>28. ASSUME BootExpires PROVE CleanInv'
  BY <1>28 DEF BootExpires, fileVars, metaVars, serviceVars, boundVars
<1>29. ASSUME CleanActive PROVE CleanInv'
  BY <1>29 DEF CleanActive, fileVars, metaVars, serviceVars, boundVars
<1>30. ASSUME CleanInspect PROVE CleanInv'
  BY <1>30 DEF CleanInspect, fileVars, metaVars, serviceVars, boundVars
<1>31. ASSUME CleanValidate PROVE CleanInv'
  BY <1>31 DEF CleanValidate, fileVars, metaVars, serviceVars, boundVars
<1>32. ASSUME CleanDelete PROVE CleanInv'
  BY <1>32 DEF CleanDelete, fileVars, metaVars, serviceVars, boundVars
<1>33. QED
  BY <1>1, <1>2, <1>3, <1>4, <1>5, <1>6, <1>7, <1>8, <1>9, <1>10, <1>11,
     <1>12, <1>13, <1>14, <1>15, <1>16, <1>17, <1>18, <1>19, <1>20, <1>21,
     <1>22, <1>23, <1>24, <1>25, <1>26, <1>27, <1>28, <1>29, <1>30, <1>31,
     <1>32, StepCases

-----------------------------------------------------------------------------
(* Sizes of sets of files.                                                 *)
LEMMA TotalAdd ==
  ASSUME NEW S, IsFiniteSet(S), NEW e, e \notin S, \A f \in S \cup {e} : f.size \in Nat
  PROVE  TotalSize(S \cup {e}) = TotalSize(S) + e.size
<1> DEFINE w == [f \in S \cup {e} |-> f.size]
           v == [f \in S |-> f.size]
<1>1. \A f \in S \cup {e} : w[f] \in Nat
  OBVIOUS
<1>2. \A f \in S : w[f] = v[f]
  OBVIOUS
<1>3. w[e] = e.size /\ e.size \in Nat
  OBVIOUS
<1>4. /\ TotalSize(S) = SumFunctionOnSet(v, S)
      /\ TotalSize(S \cup {e}) = SumFunctionOnSet(w, S \cup {e})
  BY DEF TotalSize
<1> HIDE DEF w, v
<1>5. SumFunctionOnSet(w, S \cup {e}) = w[e] + SumFunctionOnSet(w, S)
  BY <1>1, SumAdd
<1>6. SumFunctionOnSet(w, S) = SumFunctionOnSet(v, S)
  BY <1>2, SumSame
<1>7. TotalSize(S) \in Nat
  BY TotalType
<1>8. QED
  BY <1>3, <1>4, <1>5, <1>6, <1>7

(* No files have no bytes.                                                 *)
LEMMA TotalNone == TotalSize({}) = 0
BY SumEmpty DEF TotalSize

(* A file less takes its bytes away.                                       *)
LEMMA TotalRemove ==
  ASSUME NEW S, IsFiniteSet(S), \A f \in S : f.size \in Nat, NEW e
  PROVE  /\ e \in S => TotalSize(S \ {e}) = TotalSize(S) - e.size
         /\ TotalSize(S \ {e}) <= TotalSize(S)
<1>1. IsFiniteSet(S \ {e})
  BY FS_RemoveElement
<1>2. TotalSize(S \ {e}) \in Nat /\ TotalSize(S) \in Nat
  BY <1>1, TotalType
<1>3. CASE e \in S
  <2>1. (S \ {e}) \cup {e} = S
    BY <1>3
  <2>2. TotalSize((S \ {e}) \cup {e}) = TotalSize(S \ {e}) + e.size
    BY <1>1, <2>1, TotalAdd
  <2>3. e.size \in Nat
    BY <1>3
  <2>4. QED
    BY <1>2, <2>1, <2>2, <2>3
<1>4. CASE e \notin S
  <2>1. S \ {e} = S
    BY <1>4
  <2>2. TotalSize(S \ {e}) = TotalSize(S)
    BY <2>1
  <2>3. QED
    BY <1>2, <1>4, <2>2
<1>5. QED
  BY <1>3, <1>4

(* The bytes on the disk and in .part files are natural numbers.           *)
LEMMA DiskAndParts ==
  ASSUME FileTypes
  PROVE  /\ TotalSize(disk) \in Nat /\ TotalSize(parts) \in Nat
         /\ \A f \in disk : f.size \in Nat
         /\ \A f \in parts : f.size \in Nat
<1>1. /\ \A f \in disk : f.size \in Nat
      /\ \A f \in parts : f.size \in Nat
  BY DEF FileTypes, File, Part
<1>2. QED
  BY <1>1, TotalType DEF FileTypes

(* Without overlap a session starts only when no recorder is at work.      *)
LEMMA SoleStep ==
  ASSUME Types, SoleInv, ~Overlap, Next
  PROVE  SoleInv'
<1> USE DEF Types, RecorderTypes, SoleInv
<1>1. ASSUME NEW r \in Runs, Begin(r) PROVE SoleInv'
  BY <1>1 DEF Begin, Reserve, Recorder, fileVars, metaVars, serviceVars,
     boundVars
<1>2. ASSUME NEW r \in Runs, StartFails(r) PROVE SoleInv'
  BY <1>2 DEF StartFails, At, Recorder, OpenPart, fileVars, metaVars,
     serviceVars, boundVars
<1>3. ASSUME NEW r \in Runs, Leave(r) PROVE SoleInv'
  BY <1>3 DEF Leave, At, Recorder, fileVars, metaVars, serviceVars,
     boundVars
<1>4. ASSUME Crash PROVE SoleInv'
  BY <1>4 DEF Crash, Recorder, fileVars, metaVars, serviceVars, boundVars
<1>5. ASSUME BootIdle PROVE SoleInv'
  BY <1>5 DEF BootIdle, fileVars, metaVars, serviceVars, boundVars
<1>6. ASSUME BootRestores PROVE SoleInv'
  BY <1>6 DEF BootRestores, Reserve, Recorder, fileVars, metaVars,
     serviceVars, boundVars
<1>7. ASSUME BootExpires PROVE SoleInv'
  BY <1>7 DEF BootExpires, fileVars, metaVars, serviceVars, boundVars
<1>8. ASSUME NEW r \in Runs,
             \/ Load(r) \/ Prune(r) \/ PruneDone(r) \/ MetaTruncate(r)
             \/ MetaWrite(r) \/ MetaRename(r) \/ Open(r) \/ Persist(r)
             \/ (\E n \in PacketSizes : WriteEnds(r, n))
             \/ (\E n \in PacketSizes : WriteRotates(r, n))
             \/ (\E n \in PacketSizes : WriteGoesOn(r, n)) \/ FlushTick(r)
             \/ (\E s \in {"COMPLETED", "PARTIAL", "FAILED"} : End(r, s))
             \/ FinishEmpty(r) \/ FinishFull(r) \/ FinishFails(r)
             \/ RotateFails(r) \/ MetaFails(r)
      PROVE  SoleInv'
  <2>1. active' = active
    BY <1>8 DEF Load, Prune, PruneDone, MetaTruncate, MetaWrite, MetaRename,
       Open, Persist, WriteEnds, Written, WriteRotates, WriteGoesOn,
       FlushTick, End, FinishEmpty, FinishFull, FinishFails, RotateFails,
       MetaFails
  <2>2. QED
    BY <2>1
<1>9. ASSUME
             \/ StopPersist \/ CloseSession \/ StopReturns \/ CleanActive
             \/ CleanInspect \/ CleanValidate \/ CleanDelete
      PROVE  SoleInv'
  <2>1. active' = active
    BY <1>9 DEF StopPersist, CloseSession, StopReturns, CleanActive,
       CleanInspect, CleanValidate, CleanDelete
  <2>2. QED
    BY <2>1
<1>10. QED
  BY <1>1, <1>2, <1>3, <1>4, <1>5, <1>6, <1>7, <1>8, <1>9, StepCases

(* A step that moves neither files nor accounts keeps both in agreement.   *)
LEMMA AgeFrame ==
  ASSUME AgeInv, UNCHANGED <<mode, disk, clock>>, clean' # "deleted" => clean # "deleted",
         \A q \in active' : rec'[q].pc # "load" =>
            /\ q \in active /\ rec[q].pc # "load"
            /\ rec'[q].list = rec[q].list /\ rec'[q].total = rec[q].total
  PROVE  AgeInv'
<1>1. RetainedIsNewest'
  BY DEF AgeInv, RetainedIsNewest, Rolling
<1>2. AccountingMatchesDisk'
  BY DEF AgeInv, AccountingMatchesDisk
<1>3. QED
  BY <1>1, <1>2 DEF AgeInv

(* A step keeps the newest segments and the accounts: pruning takes the    *)
(* oldest, a finished segment is the newest, a start takes over what is on *)
(* the disk.                                                               *)
LEMMA AgeStep ==
  ASSUME Types, NameInv, CleanInv, SoleInv, AgeInv, ~Overlap, Next
  PROVE  AgeInv'
<1>1. ASSUME NEW r \in Runs, Begin(r) PROVE AgeInv'
  <2>1. UNCHANGED <<mode, disk, clock, clean>>
    BY <1>1 DEF Begin, fileVars
  <2>2. \A q \in active' : rec'[q].pc # "load" =>
            /\ q \in active /\ rec[q].pc # "load"
            /\ rec'[q].list = rec[q].list /\ rec'[q].total = rec[q].total
    BY <1>1 DEF Begin, Reserve, Recorder, fileVars, metaVars, serviceVars,
       boundVars, Types, ServiceTypes, RecorderTypes, RecorderType, Pcs,
       Runs
  <2>3. QED
    BY <2>1, <2>2, AgeFrame
<1>2. ASSUME NEW r \in Runs, Load(r) PROVE AgeInv'
  <2>1. \A q \in active' : q = r
    BY <1>2 DEF Load, At, SoleInv, Types, RecorderTypes
  <2>2. UNCHANGED <<mode, disk, clock, clean>>
    BY <1>2 DEF Load
  <2>3. rec'[r].list = disk /\ rec'[r].total = TotalSize(disk)
    BY <1>2 DEF Load, Types, RecorderTypes, RecorderType
  <2>4. AccountingMatchesDisk'
    BY <2>1, <2>2, <2>3 DEF AccountingMatchesDisk
  <2>5. RetainedIsNewest'
    BY <2>2 DEF AgeInv, RetainedIsNewest, Rolling
  <2>6. QED
    BY <2>2, <2>4, <2>5 DEF AgeInv
<1>3. ASSUME NEW r \in Runs, Prune(r) PROVE AgeInv'
  <2>1. \A q \in active' : q = r
    BY <1>3 DEF Prune, At, SoleInv, Types, RecorderTypes
  <2>2. UNCHANGED <<mode, clock, clean, active>> /\ Rolling /\ r \in active
        /\ rec[r].pc = "prune"
    BY <1>3 DEF Prune, At, Overfull, Types, RecorderTypes
  <2>3. PICK oldest \in rec[r].list :
           /\ \A f \in rec[r].list : oldest.mtime <= f.mtime
           /\ disk' = disk \ {oldest}
           /\ rec' = [rec EXCEPT ![r].list = rec[r].list \ {oldest},
                                 ![r].total = rec[r].total - oldest.size]
    BY <1>3 DEF Prune
  <2>4. rec[r].total = TotalSize(disk) /\ rec[r].list = disk
    BY <2>2 DEF AgeInv, AccountingMatchesDisk
  <2>5. TotalSize(disk \ {oldest}) = TotalSize(disk) - oldest.size
    BY <2>3, <2>4, DiskAndParts, TotalRemove DEF Types, FileTypes
  <2>6. rec'[r].list = disk' /\ rec'[r].total = TotalSize(disk')
    BY <2>3, <2>4, <2>5 DEF Types, RecorderTypes, RecorderType
  <2>7. AccountingMatchesDisk'
    BY <2>1, <2>6 DEF AccountingMatchesDisk
  <2>8. clean # "deleted"
    BY <2>2 DEF CleanInv
  <2>9. RetainedIsNewest'
    <3> DEFINE low == clock - Cardinality(disk) + 1
    <3>1. {f.mtime : f \in disk} = low..clock
      BY <2>2, <2>8 DEF AgeInv, RetainedIsNewest
    <3>2. Cardinality(disk) \in Nat /\ Cardinality(disk') = Cardinality(disk) - 1
      BY <2>3, <2>4, FS_CardinalityType, FS_RemoveElement DEF Types, FileTypes
    <3>3. clock \in Nat /\ low \in Int
      BY <3>2 DEF Types, FileTypes
    <3> HIDE DEF low
    <3>4. oldest.mtime \in low..clock /\ oldest \in disk
      BY <2>3, <2>4, <3>1
    <3>5. PICK g \in disk : g.mtime = low
      BY <3>1, <3>3, <3>4
    <3>6. oldest.mtime <= low
      BY <2>3, <2>4, <3>5
    <3>7. oldest.mtime = low
      BY <3>3, <3>4, <3>6
    <3>8. {f.mtime : f \in disk'} = (low + 1)..clock
      <4>1. ASSUME NEW f \in disk' PROVE f.mtime \in (low + 1)..clock
        <5>1. f \in disk /\ f # oldest
          BY <2>3
        <5>2. f.mtime \in low..clock /\ f.mtime # low
          BY <3>1, <3>4, <3>7, <5>1 DEF AgeInv
        <5>3. QED
          BY <3>3, <5>2
      <4>2. ASSUME NEW t \in (low + 1)..clock PROVE \E f \in disk' : f.mtime = t
        <5>1. t \in low..clock /\ t # low
          BY <3>3
        <5>2. PICK f \in disk : f.mtime = t
          BY <3>1, <5>1
        <5>3. QED
          BY <2>3, <3>7, <5>1, <5>2
      <4>3. QED
        BY <4>1, <4>2
    <3>9. clock' - Cardinality(disk') + 1 = low + 1
      BY <2>2, <3>2, <3>3 DEF low
    <3>10. QED
      BY <2>2, <3>8, <3>9 DEF RetainedIsNewest, Rolling
  <2>10. QED
    BY <2>3, <2>7, <2>9 DEF AgeInv
<1>4. ASSUME NEW r \in Runs, PruneDone(r) PROVE AgeInv'
  <2>1. UNCHANGED <<mode, disk, clock, clean>>
    BY <1>4 DEF PruneDone, fileVars
  <2>2. \A q \in active' : rec'[q].pc # "load" =>
            /\ q \in active /\ rec[q].pc # "load"
            /\ rec'[q].list = rec[q].list /\ rec'[q].total = rec[q].total
    BY <1>4 DEF PruneDone, At, Goto, Overfull, fileVars, metaVars,
       serviceVars, boundVars, Types, ServiceTypes, RecorderTypes,
       RecorderType, Pcs, Runs
  <2>3. QED
    BY <2>1, <2>2, AgeFrame
<1>5. ASSUME NEW r \in Runs, MetaTruncate(r) PROVE AgeInv'
  <2>1. UNCHANGED <<mode, disk, clock, clean>>
    BY <1>5 DEF MetaTruncate, fileVars
  <2>2. \A q \in active' : rec'[q].pc # "load" =>
            /\ q \in active /\ rec[q].pc # "load"
            /\ rec'[q].list = rec[q].list /\ rec'[q].total = rec[q].total
    BY <1>5 DEF MetaTruncate, At, Goto, fileVars, metaVars, serviceVars,
       boundVars, Types, ServiceTypes, RecorderTypes, RecorderType, Pcs,
       Runs
  <2>3. QED
    BY <2>1, <2>2, AgeFrame
<1>6. ASSUME NEW r \in Runs, MetaWrite(r) PROVE AgeInv'
  <2>1. UNCHANGED <<mode, disk, clock, clean>>
    BY <1>6 DEF MetaWrite, fileVars
  <2>2. \A q \in active' : rec'[q].pc # "load" =>
            /\ q \in active /\ rec[q].pc # "load"
            /\ rec'[q].list = rec[q].list /\ rec'[q].total = rec[q].total
    BY <1>6 DEF MetaWrite, At, Goto, fileVars, metaVars, serviceVars,
       boundVars, Types, ServiceTypes, RecorderTypes, RecorderType, Pcs,
       Runs
  <2>3. QED
    BY <2>1, <2>2, AgeFrame
<1>7. ASSUME NEW r \in Runs, MetaRename(r) PROVE AgeInv'
  <2>1. UNCHANGED <<mode, disk, clock, clean>>
    BY <1>7 DEF MetaRename, fileVars
  <2>2. \A q \in active' : rec'[q].pc # "load" =>
            /\ q \in active /\ rec[q].pc # "load"
            /\ rec'[q].list = rec[q].list /\ rec'[q].total = rec[q].total
    BY <1>7 DEF MetaRename, At, Goto, fileVars, metaVars, serviceVars,
       boundVars, Types, ServiceTypes, RecorderTypes, RecorderType, Pcs,
       Runs
  <2>3. QED
    BY <2>1, <2>2, AgeFrame
<1>8. ASSUME NEW r \in Runs, Open(r) PROVE AgeInv'
  <2>1. UNCHANGED <<mode, disk, clock, clean>>
    BY <1>8 DEF Open, fileVars
  <2>2. \A q \in active' : rec'[q].pc # "load" =>
            /\ q \in active /\ rec[q].pc # "load"
            /\ rec'[q].list = rec[q].list /\ rec'[q].total = rec[q].total
    BY <1>8 DEF Open, At, fileVars, metaVars, serviceVars, boundVars, Types,
       ServiceTypes, RecorderTypes, RecorderType, Pcs, Runs
  <2>3. QED
    BY <2>1, <2>2, AgeFrame
<1>9. ASSUME NEW r \in Runs, Persist(r) PROVE AgeInv'
  <2>1. UNCHANGED <<mode, disk, clock, clean>>
    BY <1>9 DEF Persist, fileVars
  <2>2. \A q \in active' : rec'[q].pc # "load" =>
            /\ q \in active /\ rec[q].pc # "load"
            /\ rec'[q].list = rec[q].list /\ rec'[q].total = rec[q].total
    BY <1>9 DEF Persist, At, Goto, fileVars, metaVars, serviceVars,
       boundVars, Types, ServiceTypes, RecorderTypes, RecorderType, Pcs,
       Runs
  <2>3. QED
    BY <2>1, <2>2, AgeFrame
<1>10. ASSUME NEW r \in Runs, StartFails(r) PROVE AgeInv'
  <2>1. UNCHANGED <<mode, disk, clock, clean>>
    BY <1>10 DEF StartFails, fileVars
  <2>2. \A q \in active' : rec'[q].pc # "load" =>
            /\ q \in active /\ rec[q].pc # "load"
            /\ rec'[q].list = rec[q].list /\ rec'[q].total = rec[q].total
    BY <1>10 DEF StartFails, At, Recorder, fileVars, metaVars, serviceVars,
       boundVars, Types, ServiceTypes, RecorderTypes, RecorderType, Pcs,
       Runs
  <2>3. QED
    BY <2>1, <2>2, AgeFrame
<1>11. ASSUME NEW r \in Runs, NEW n \in PacketSizes, WriteEnds(r, n)
      PROVE  AgeInv'
  <2>1. UNCHANGED <<mode, disk, clock, clean>>
    BY <1>11 DEF WriteEnds, Written, fileVars
  <2>2. \A q \in active' : rec'[q].pc # "load" =>
            /\ q \in active /\ rec[q].pc # "load"
            /\ rec'[q].list = rec[q].list /\ rec'[q].total = rec[q].total
    BY <1>11 DEF WriteEnds, Written, At, Ends, fileVars, metaVars,
       serviceVars, boundVars, Types, ServiceTypes, RecorderTypes,
       RecorderType, Pcs, Runs
  <2>3. QED
    BY <2>1, <2>2, AgeFrame
<1>12. ASSUME NEW r \in Runs, NEW n \in PacketSizes, WriteRotates(r, n)
      PROVE  AgeInv'
  <2>1. UNCHANGED <<mode, disk, clock, clean>>
    BY <1>12 DEF WriteRotates, Written, fileVars
  <2>2. \A q \in active' : rec'[q].pc # "load" =>
            /\ q \in active /\ rec[q].pc # "load"
            /\ rec'[q].list = rec[q].list /\ rec'[q].total = rec[q].total
    BY <1>12 DEF WriteRotates, Written, At, fileVars, metaVars, serviceVars,
       boundVars, Types, ServiceTypes, RecorderTypes, RecorderType, Pcs,
       Runs
  <2>3. QED
    BY <2>1, <2>2, AgeFrame
<1>13. ASSUME NEW r \in Runs, NEW n \in PacketSizes, WriteGoesOn(r, n)
      PROVE  AgeInv'
  <2>1. UNCHANGED <<mode, disk, clock, clean>>
    BY <1>13 DEF WriteGoesOn, Written, fileVars
  <2>2. \A q \in active' : rec'[q].pc # "load" =>
            /\ q \in active /\ rec[q].pc # "load"
            /\ rec'[q].list = rec[q].list /\ rec'[q].total = rec[q].total
    BY <1>13 DEF WriteGoesOn, Written, At, fileVars, metaVars, serviceVars,
       boundVars, Types, ServiceTypes, RecorderTypes, RecorderType, Pcs,
       Runs
  <2>3. QED
    BY <2>1, <2>2, AgeFrame
<1>14. ASSUME NEW r \in Runs, FlushTick(r) PROVE AgeInv'
  <2>1. UNCHANGED <<mode, disk, clock, clean>>
    BY <1>14 DEF FlushTick, fileVars
  <2>2. \A q \in active' : rec'[q].pc # "load" =>
            /\ q \in active /\ rec[q].pc # "load"
            /\ rec'[q].list = rec[q].list /\ rec'[q].total = rec[q].total
    BY <1>14 DEF FlushTick, At, Ends, fileVars, metaVars, serviceVars,
       boundVars, Types, ServiceTypes, RecorderTypes, RecorderType, Pcs,
       Runs
  <2>3. QED
    BY <2>1, <2>2, AgeFrame
<1>15. ASSUME NEW r \in Runs, 
             NEW s \in {"COMPLETED", "PARTIAL", "FAILED"}, End(r, s)
      PROVE  AgeInv'
  <2>1. UNCHANGED <<mode, disk, clock, clean>>
    BY <1>15 DEF End, fileVars
  <2>2. \A q \in active' : rec'[q].pc # "load" =>
            /\ q \in active /\ rec[q].pc # "load"
            /\ rec'[q].list = rec[q].list /\ rec'[q].total = rec[q].total
    BY <1>15 DEF End, At, Ends, fileVars, metaVars, serviceVars, boundVars,
       Types, ServiceTypes, RecorderTypes, RecorderType, Pcs, Runs
  <2>3. QED
    BY <2>1, <2>2, AgeFrame
<1>16. ASSUME NEW r \in Runs, FinishEmpty(r) PROVE AgeInv'
  <2>1. UNCHANGED <<mode, disk, clock, clean>>
    BY <1>16 DEF FinishEmpty, fileVars
  <2>2. \A q \in active' : rec'[q].pc # "load" =>
            /\ q \in active /\ rec[q].pc # "load"
            /\ rec'[q].list = rec[q].list /\ rec'[q].total = rec[q].total
    BY <1>16 DEF FinishEmpty, At, Goto, AfterFinish, fileVars, metaVars,
       serviceVars, boundVars, Types, ServiceTypes, RecorderTypes,
       RecorderType, Pcs, Runs
  <2>3. QED
    BY <2>1, <2>2, AgeFrame
<1>17. ASSUME NEW r \in Runs, FinishFull(r) PROVE AgeInv'
  <2>1. \A q \in active' : q = r
    BY <1>17 DEF FinishFull, At, SoleInv, Types, RecorderTypes
  <2>2. UNCHANGED <<mode, clean, active>> /\ r \in active /\ rec[r].pc = "finish"
        /\ clock' = clock + 1 /\ disk' = disk \cup {Finished(r)}
    BY <1>17 DEF FinishFull, At, Types, RecorderTypes
  <2>3. Finished(r).mtime = clock + 1 /\ Finished(r).size = rec[r].size /\ rec[r].size \in Nat
    BY <1>17, FinishedIsFile DEF Types, RecorderTypes, RecorderType
  <2>4. clock \in Nat /\ IsFiniteSet(disk) /\ \A f \in disk : f.mtime \in Nat /\ f.mtime <= clock
    BY DEF Types, FileTypes, File
  <2>5. Finished(r) \notin disk
    BY <2>3, <2>4
  <2>6. rec[r].total = TotalSize(disk) /\ rec[r].list = disk
    BY <2>2 DEF AgeInv, AccountingMatchesDisk
  <2>7. TotalSize(disk') = TotalSize(disk) + rec[r].size
    BY <2>2, <2>3, <2>4, <2>5, DiskAndParts, TotalAdd DEF Types
  <2>8. rec'[r].list = disk' /\ rec'[r].total = TotalSize(disk')
    BY <1>17, <2>2, <2>6, <2>7 DEF FinishFull, Types, RecorderTypes, RecorderType
  <2>9. AccountingMatchesDisk'
    BY <2>1, <2>8 DEF AccountingMatchesDisk
  <2>10. clean # "deleted"
    BY <2>2 DEF CleanInv
  <2>11. RetainedIsNewest'
    <3> DEFINE low == IF Rolling THEN clock - Cardinality(disk) + 1 ELSE 1
    <3>1. {f.mtime : f \in disk} = low..clock
      BY <2>2, <2>10 DEF AgeInv, RetainedIsNewest
    <3>2. Cardinality(disk) \in Nat /\ Cardinality(disk') = Cardinality(disk) + 1
      BY <2>2, <2>4, <2>5, FS_CardinalityType, FS_AddElement
    <3>3. low \in Int /\ low <= clock + 1
      BY <2>4, <3>2
    <3>4. low = IF Rolling THEN clock' - Cardinality(disk') + 1 ELSE 1
      BY <2>2, <2>4, <3>2
    <3> HIDE DEF low
    <3>5. {f.mtime : f \in disk'} = {f.mtime : f \in disk} \cup {clock + 1}
      BY <2>2, <2>3
    <3>6. (low..clock) \cup {clock + 1} = low..(clock + 1)
      BY <2>4, <3>3
    <3>7. QED
      BY <2>2, <3>1, <3>4, <3>5, <3>6 DEF RetainedIsNewest, Rolling
  <2>12. \A f, g \in disk' : f.mtime = g.mtime => f = g
    <3>1. \A f \in disk : f.mtime # Finished(r).mtime
      BY <2>3, <2>4
    <3>2. QED
      BY <2>2, <3>1 DEF AgeInv
  <2>13. QED
    BY <2>9, <2>11, <2>12 DEF AgeInv
<1>18. ASSUME NEW r \in Runs, FinishFails(r) PROVE AgeInv'
  <2>1. UNCHANGED <<mode, disk, clock, clean>>
    BY <1>18 DEF FinishFails, fileVars
  <2>2. \A q \in active' : rec'[q].pc # "load" =>
            /\ q \in active /\ rec[q].pc # "load"
            /\ rec'[q].list = rec[q].list /\ rec'[q].total = rec[q].total
    BY <1>18 DEF FinishFails, At, fileVars, metaVars, serviceVars, boundVars,
       Types, ServiceTypes, RecorderTypes, RecorderType, Pcs, Runs
  <2>3. QED
    BY <2>1, <2>2, AgeFrame
<1>19. ASSUME NEW r \in Runs, RotateFails(r) PROVE AgeInv'
  <2>1. UNCHANGED <<mode, disk, clock, clean>>
    BY <1>19 DEF RotateFails, fileVars
  <2>2. \A q \in active' : rec'[q].pc # "load" =>
            /\ q \in active /\ rec[q].pc # "load"
            /\ rec'[q].list = rec[q].list /\ rec'[q].total = rec[q].total
    BY <1>19 DEF RotateFails, fileVars, metaVars, serviceVars, boundVars,
       Types, ServiceTypes, RecorderTypes, RecorderType, Pcs, Runs
  <2>3. QED
    BY <2>1, <2>2, AgeFrame
<1>20. ASSUME NEW r \in Runs, MetaFails(r) PROVE AgeInv'
  <2>1. UNCHANGED <<mode, disk, clock, clean>>
    BY <1>20 DEF MetaFails, fileVars
  <2>2. \A q \in active' : rec'[q].pc # "load" =>
            /\ q \in active /\ rec[q].pc # "load"
            /\ rec'[q].list = rec[q].list /\ rec'[q].total = rec[q].total
    BY <1>20 DEF MetaFails, Goto, fileVars, metaVars, serviceVars, boundVars,
       Types, ServiceTypes, RecorderTypes, RecorderType, Pcs, Runs
  <2>3. QED
    BY <2>1, <2>2, AgeFrame
<1>21. ASSUME NEW r \in Runs, Leave(r) PROVE AgeInv'
  <2>1. UNCHANGED <<mode, disk, clock, clean>>
    BY <1>21 DEF Leave, fileVars
  <2>2. \A q \in active' : rec'[q].pc # "load" =>
            /\ q \in active /\ rec[q].pc # "load"
            /\ rec'[q].list = rec[q].list /\ rec'[q].total = rec[q].total
    BY <1>21 DEF Leave, At, Recorder, fileVars, metaVars, serviceVars,
       boundVars, Types, ServiceTypes, RecorderTypes, RecorderType, Pcs,
       Runs
  <2>3. QED
    BY <2>1, <2>2, AgeFrame
<1>22. ASSUME Crash PROVE AgeInv'
  <2>1. UNCHANGED <<mode, disk, clock>> /\ (clean' # "deleted" => clean # "deleted")
    BY <1>22 DEF Crash, fileVars
  <2>2. \A q \in active' : rec'[q].pc # "load" =>
            /\ q \in active /\ rec[q].pc # "load"
            /\ rec'[q].list = rec[q].list /\ rec'[q].total = rec[q].total
    BY <1>22 DEF Crash, Recorder, fileVars, metaVars, serviceVars, boundVars,
       Types, ServiceTypes, RecorderTypes, RecorderType, Pcs, Runs
  <2>3. QED
    BY <2>1, <2>2, AgeFrame
<1>23. ASSUME BootRestores PROVE AgeInv'
  <2>1. UNCHANGED <<mode, disk, clock, clean>>
    BY <1>23 DEF BootRestores, fileVars
  <2>2. owner \in Runs /\ active = {}
    BY <1>23, SegmentBounds
       DEF BootRestores, Types, ServiceTypes, RecorderTypes, Runs
  <2>3. active' = {owner} /\ rec'[owner].pc = "load"
    BY <1>23, <2>2 DEF BootRestores, Reserve, Recorder, Types, RecorderTypes
  <2>4. QED
    BY <2>1, <2>3, AgeFrame
<1>24. ASSUME CleanDelete PROVE AgeInv'
  <2>1. disk' = {} /\ clean' = "deleted" /\ active' = {}
    BY <1>24 DEF CleanDelete, CleanInv
  <2>2. QED
    BY <2>1 DEF AgeInv, RetainedIsNewest, AccountingMatchesDisk
<1>25. ASSUME
             \/ StopPersist \/ CloseSession \/ StopReturns \/ BootIdle
             \/ BootExpires \/ CleanActive \/ CleanInspect \/ CleanValidate
      PROVE  AgeInv'
  <2>1. /\ UNCHANGED <<mode, disk, clock, active, rec>>
        /\ clean' # "deleted" => clean # "deleted"
    BY <1>25 DEF StopPersist, CloseSession, StopReturns, BootIdle,
       BootExpires, CleanActive, CleanInspect, CleanValidate, fileVars,
       boundVars
  <2>2. QED
    BY <2>1, AgeFrame
<1>26. QED
  BY <1>1, <1>2, <1>3, <1>4, <1>5, <1>6, <1>7, <1>8, <1>9, <1>10, <1>11,
     <1>12, <1>13, <1>14, <1>15, <1>16, <1>17, <1>18, <1>19, <1>20, <1>21,
     <1>22, <1>23, <1>24, <1>25, StepCases

(* A step keeps the .part files down to the open segment's.                *)
LEMMA PartStep ==
  ASSUME Types, GoalInv, CleanInv, SoleInv, PartInv, ~Overlap, Next
  PROVE  PartInv'
<1> USE DEF Types, RecorderTypes, RecorderType, GoalInv, SoleInv, PartInv,
       HasSegment
<1>1. ASSUME NEW r \in Runs, Begin(r) PROVE PartInv'
  BY <1>1 DEF Begin, Reserve, Recorder, fileVars, metaVars, serviceVars,
     boundVars, OpenPart, Pcs
<1>2. ASSUME NEW r \in Runs, Load(r) PROVE PartInv'
  BY <1>2 DEF Load, At, fileVars, metaVars, serviceVars, boundVars,
     OpenPart, Pcs
<1>3. ASSUME NEW r \in Runs, Prune(r) PROVE PartInv'
  BY <1>3 DEF Prune, At, Overfull, fileVars, metaVars, serviceVars,
     boundVars, OpenPart, Pcs
<1>4. ASSUME NEW r \in Runs, PruneDone(r) PROVE PartInv'
  BY <1>4 DEF PruneDone, At, Goto, Overfull, fileVars, metaVars,
     serviceVars, boundVars, OpenPart, Pcs
<1>5. ASSUME NEW r \in Runs, MetaTruncate(r) PROVE PartInv'
  BY <1>5 DEF MetaTruncate, At, Goto, fileVars, metaVars, serviceVars,
     boundVars, OpenPart, Pcs
<1>6. ASSUME NEW r \in Runs, MetaWrite(r) PROVE PartInv'
  BY <1>6 DEF MetaWrite, At, Goto, fileVars, metaVars, serviceVars,
     boundVars, OpenPart, Pcs
<1>7. ASSUME NEW r \in Runs, MetaRename(r) PROVE PartInv'
  BY <1>7 DEF MetaRename, At, Goto, fileVars, metaVars, serviceVars,
     boundVars, OpenPart, Pcs
<1>8. ASSUME NEW r \in Runs, Open(r) PROVE PartInv'
  BY <1>8 DEF Open, At, fileVars, metaVars, serviceVars, boundVars,
     OpenPart, Pcs
<1>9. ASSUME NEW r \in Runs, Persist(r) PROVE PartInv'
  BY <1>9 DEF Persist, At, Goto, fileVars, metaVars, serviceVars, boundVars,
     OpenPart, Pcs
<1>10. ASSUME NEW r \in Runs, StartFails(r) PROVE PartInv'
  BY <1>10 DEF StartFails, At, Recorder, OpenPart, fileVars, metaVars,
     serviceVars, boundVars, OpenPart, Pcs
<1>11. ASSUME NEW r \in Runs, NEW n \in PacketSizes, WriteEnds(r, n)
      PROVE  PartInv'
  BY <1>11 DEF WriteEnds, Written, At, Ends, OpenPart, fileVars, metaVars,
     serviceVars, boundVars, OpenPart, Pcs
<1>12. ASSUME NEW r \in Runs, NEW n \in PacketSizes, WriteRotates(r, n)
      PROVE  PartInv'
  BY <1>12 DEF WriteRotates, Written, At, OpenPart, fileVars, metaVars,
     serviceVars, boundVars, OpenPart, Pcs
<1>13. ASSUME NEW r \in Runs, NEW n \in PacketSizes, WriteGoesOn(r, n)
      PROVE  PartInv'
  BY <1>13 DEF WriteGoesOn, Written, At, OpenPart, fileVars, metaVars,
     serviceVars, boundVars, OpenPart, Pcs
<1>14. ASSUME NEW r \in Runs, FlushTick(r) PROVE PartInv'
  BY <1>14 DEF FlushTick, At, Ends, fileVars, metaVars, serviceVars,
     boundVars, OpenPart, Pcs
<1>15. ASSUME NEW r \in Runs, 
             NEW s \in {"COMPLETED", "PARTIAL", "FAILED"}, End(r, s)
      PROVE  PartInv'
  BY <1>15 DEF End, At, Ends, fileVars, metaVars, serviceVars, boundVars,
     OpenPart, Pcs
<1>16. ASSUME NEW r \in Runs, FinishEmpty(r) PROVE PartInv'
  BY <1>16 DEF FinishEmpty, At, Goto, AfterFinish, OpenPart, fileVars,
     metaVars, serviceVars, boundVars, OpenPart, Pcs
<1>17. ASSUME NEW r \in Runs, FinishFull(r) PROVE PartInv'
  BY <1>17 DEF FinishFull, At, AfterFinish, OpenPart, Finished, fileVars,
     metaVars, serviceVars, boundVars, OpenPart, Pcs
<1>18. ASSUME NEW r \in Runs, FinishFails(r) PROVE PartInv'
  BY <1>18 DEF FinishFails, At, fileVars, metaVars, serviceVars, boundVars,
     OpenPart, Pcs
<1>19. ASSUME NEW r \in Runs, RotateFails(r) PROVE PartInv'
  BY <1>19 DEF RotateFails, fileVars, metaVars, serviceVars, boundVars,
     OpenPart, Pcs
<1>20. ASSUME NEW r \in Runs, MetaFails(r) PROVE PartInv'
  BY <1>20 DEF MetaFails, Goto, fileVars, metaVars, serviceVars, boundVars,
     OpenPart, Pcs
<1>21. ASSUME NEW r \in Runs, Leave(r) PROVE PartInv'
  BY <1>21 DEF Leave, At, Recorder, fileVars, metaVars, serviceVars,
     boundVars, OpenPart, Pcs
<1>22. ASSUME Crash PROVE PartInv'
  BY <1>22 DEF Crash, Recorder, fileVars, metaVars, serviceVars, boundVars,
     OpenPart, Pcs
<1>23. ASSUME BootRestores PROVE PartInv'
  <2>1. owner \in Runs /\ active = {}
    BY <1>23, SegmentBounds
       DEF BootRestores, Types, ServiceTypes, RecorderTypes, Runs
  <2>2. active' = {owner} /\ rec'[owner].pc = "load"
    BY <1>23, <2>1 DEF BootRestores, Reserve, Recorder, Types, RecorderTypes
  <2>3. QED
    BY <1>23, <2>1, <2>2 DEF PartInv, HasSegment, BootRestores
<1>24. ASSUME CleanDelete PROVE PartInv'
  BY <1>24 DEF CleanDelete, fileVars, metaVars, serviceVars, boundVars,
     OpenPart, Pcs
<1>25. ASSUME
             \/ StopPersist \/ CloseSession \/ StopReturns \/ BootIdle
             \/ BootExpires \/ CleanActive \/ CleanInspect \/ CleanValidate
      PROVE  PartInv'
  <2>1. UNCHANGED <<active, parts, rec>>
    BY <1>25 DEF StopPersist, CloseSession, StopReturns, BootIdle,
       BootExpires, CleanActive, CleanInspect, CleanValidate, fileVars,
       boundVars
  <2>2. QED
    BY <2>1 DEF OpenPart
<1>26. QED
  BY <1>1, <1>2, <1>3, <1>4, <1>5, <1>6, <1>7, <1>8, <1>9, <1>10, <1>11,
     <1>12, <1>13, <1>14, <1>15, <1>16, <1>17, <1>18, <1>19, <1>20, <1>21,
     <1>22, <1>23, <1>24, <1>25, StepCases

(* Only a packet adds to what is stored.                                   *)
OnlyPackets == Stored' <= Stored \/ \E r \in Runs, n \in PacketSizes : Writes(r, n)

(* No other step than a packet's adds to the bytes of the directory.       *)
LEMMA StoredStep ==
  ASSUME Types, GoalInv, NameInv, Next
  PROVE  OnlyPackets
<1> USE DEF Stored, OnlyPackets
<1>0. /\ TotalSize(disk) \in Nat /\ TotalSize(parts) \in Nat
      /\ IsFiniteSet(disk) /\ IsFiniteSet(parts)
      /\ \A f \in disk : f.size \in Nat
      /\ \A f \in parts : f.size \in Nat
  BY DiskAndParts DEF Types, FileTypes
<1>00. TotalSize(disk') \in Nat /\ TotalSize(parts') \in Nat
  <2>1. FileTypes'
    BY FileStep
  <2>2. /\ IsFiniteSet(disk') /\ \A f \in disk' : f.size \in Nat
        /\ IsFiniteSet(parts') /\ \A f \in parts' : f.size \in Nat
    BY <2>1 DEF FileTypes, File, Part
  <2>3. QED
    BY <2>2, TotalType
<1>1. ASSUME NEW r \in Runs, Load(r) PROVE OnlyPackets
  <2>1. disk' = disk /\ parts' = {}
    BY <1>1 DEF Load
  <2>2. TotalSize(parts') = 0
    BY <2>1, TotalNone
  <2>3. QED
    BY <1>0, <2>1, <2>2
<1>2. ASSUME NEW r \in Runs, Prune(r) PROVE OnlyPackets
  <2>1. PICK oldest \in rec[r].list : disk' = disk \ {oldest}
    BY <1>2 DEF Prune
  <2>2. parts' = parts
    BY <1>2 DEF Prune
  <2>3. TotalSize(disk') <= TotalSize(disk)
    BY <2>1, <1>0, TotalRemove
  <2>4. TotalSize(disk') \in Nat
    BY <1>00
  <2>5. QED
    BY <1>0, <2>2, <2>3, <2>4
<1>3. ASSUME NEW r \in Runs, Open(r) PROVE OnlyPackets
  <2> DEFINE p == [run |-> r, seq |-> rec[r].seq + 1, size |-> 0]
  <2>1. disk' = disk /\ parts' = parts \cup {p} /\ p \notin parts /\ p.size = 0
    BY <1>3 DEF Open
  <2> HIDE DEF p
  <2>2. TotalSize(parts') = TotalSize(parts) + p.size
    BY <1>0, <2>1, TotalAdd
  <2>3. QED
    BY <1>0, <2>1, <2>2
<1>4. ASSUME NEW r \in Runs, StartFails(r) PROVE OnlyPackets
  <2>1. disk' = disk /\ (parts' = parts \/ parts' = parts \ {OpenPart(r)})
    BY <1>4 DEF StartFails
  <2>2. TotalSize(parts') <= TotalSize(parts)
    BY <1>0, <2>1, TotalRemove
  <2>3. QED
    BY <1>0, <1>00, <2>1, <2>2
<1>5. ASSUME NEW r \in Runs, NEW n \in PacketSizes, WriteEnds(r, n)
      PROVE  OnlyPackets
  <2>1. Writes(r, n)
    BY <1>5 DEF WriteEnds, Writes
  <2>2. QED
    BY <2>1
<1>6. ASSUME NEW r \in Runs, NEW n \in PacketSizes, WriteRotates(r, n)
      PROVE  OnlyPackets
  <2>1. Writes(r, n)
    BY <1>6 DEF WriteRotates, Writes
  <2>2. QED
    BY <2>1
<1>7. ASSUME NEW r \in Runs, NEW n \in PacketSizes, WriteGoesOn(r, n)
      PROVE  OnlyPackets
  <2>1. Writes(r, n)
    BY <1>7 DEF WriteGoesOn, Writes
  <2>2. QED
    BY <2>1
<1>8. ASSUME NEW r \in Runs, FinishEmpty(r) PROVE OnlyPackets
  <2>1. disk' = disk /\ (parts' = parts \/ parts' = parts \ {OpenPart(r)})
    BY <1>8 DEF FinishEmpty
  <2>2. TotalSize(parts') <= TotalSize(parts)
    BY <1>0, <2>1, TotalRemove
  <2>3. QED
    BY <1>0, <1>00, <2>1, <2>2
<1>9. ASSUME NEW r \in Runs, FinishFull(r) PROVE OnlyPackets
  <2>1. disk' = disk \cup {Finished(r)} /\ OpenPart(r) \in parts
        /\ parts' = parts \ {OpenPart(r)}
    BY <1>9 DEF FinishFull
  <2>2. /\ Finished(r) \in File /\ Finished(r).mtime = clock + 1
        /\ Finished(r).size = OpenPart(r).size /\ OpenPart(r).size \in Nat
    BY <1>9, FinishedIsFile DEF OpenPart, Types, RecorderTypes, RecorderType
  <2>3. Finished(r) \notin disk
    BY <2>2 DEF Types, FileTypes
  <2>4. TotalSize(disk') = TotalSize(disk) + OpenPart(r).size
    BY <1>0, <2>1, <2>2, <2>3, TotalAdd
  <2>5. TotalSize(parts') = TotalSize(parts) - OpenPart(r).size
    BY <1>0, <2>1, TotalRemove
  <2>6. QED
    BY <1>0, <2>2, <2>4, <2>5
<1>10. ASSUME CleanDelete PROVE OnlyPackets
  <2>1. disk' = {} /\ parts' = {}
    BY <1>10 DEF CleanDelete
  <2>2. TotalSize(disk') = 0 /\ TotalSize(parts') = 0
    BY <2>1, TotalNone
  <2>3. QED
    BY <1>0, <2>2
<1>11. ASSUME NEW r \in Runs,
             \/ Begin(r) \/ PruneDone(r) \/ MetaTruncate(r) \/ MetaWrite(r)
             \/ MetaRename(r) \/ Persist(r) \/ FlushTick(r)
             \/ (\E s \in {"COMPLETED", "PARTIAL", "FAILED"} : End(r, s))
             \/ FinishFails(r) \/ RotateFails(r) \/ MetaFails(r) \/ Leave(r)
      PROVE  OnlyPackets
  <2>1. disk' = disk /\ parts' = parts
    BY <1>11 DEF Begin, PruneDone, MetaTruncate, MetaWrite, MetaRename,
       Persist, FlushTick, End, FinishFails, RotateFails, MetaFails,
       Leave, fileVars
  <2>2. QED
    BY <1>0, <2>1
<1>12. ASSUME
             \/ StopPersist \/ CloseSession \/ StopReturns \/ Crash
             \/ BootIdle \/ BootRestores \/ BootExpires \/ CleanActive
             \/ CleanInspect \/ CleanValidate
      PROVE  OnlyPackets
  <2>1. disk' = disk /\ parts' = parts
    BY <1>12 DEF StopPersist, CloseSession, StopReturns, Crash, BootIdle,
       BootRestores, BootExpires, CleanActive, CleanInspect,
       CleanValidate, fileVars
  <2>2. QED
    BY <1>0, <2>1
<1>13. QED
  BY <1>1, <1>2, <1>3, <1>4, <1>5, <1>6, <1>7, <1>8, <1>9, <1>10, <1>11,
     <1>12, StepCases

(* There is a largest packet, and it is a natural number.                  *)
LEMMA LargestPacket ==
  /\ Max(PacketSizes) \in Nat
  /\ \A n \in PacketSizes : n \in Nat /\ n <= Max(PacketSizes)
<1>1. PacketSizes \subseteq Nat /\ IsFiniteSet(PacketSizes) /\ PacketSizes # {}
  BY SizesAssumption
<1>2. \E n \in PacketSizes : \A m \in PacketSizes : m <= n
  BY <1>1, LargestNumber
<1>3. \E n \in PacketSizes : \A m \in PacketSizes : n >= m
  BY <1>1, <1>2
<1>4. /\ Max(PacketSizes) \in PacketSizes
      /\ \A m \in PacketSizes : Max(PacketSizes) >= m
  BY <1>3 DEF Max
<1>5. QED
  BY <1>1, <1>4

(* Products with the largest packet, as the bound of a session counts      *)
(* them.                                                                   *)
LEMMA Multiples ==
  ASSUME NEW k \in Nat
  PROVE  /\ k * Max(PacketSizes) \in Nat /\ (1 + k) * Max(PacketSizes) \in Nat
         /\ (1 + k) * Max(PacketSizes) = k * Max(PacketSizes) + Max(PacketSizes)
         /\ 1 * Max(PacketSizes) = Max(PacketSizes)
<1> DEFINE M == Max(PacketSizes)
<1>1. M \in Nat
  BY LargestPacket
<1> HIDE DEF M
<1>2. /\ k * M \in Nat /\ (1 + k) * M \in Nat
      /\ (1 + k) * M = k * M + M /\ 1 * M = M
  BY <1>1
<1>3. QED
  BY <1>2 DEF M

(* A packet adds its bytes, and the open segment is all there is beside    *)
(* the finalized ones.                                                     *)
LEMMA PacketIsStored ==
  ASSUME Types, AgeInv, PartInv, NEW r \in Runs, NEW n \in PacketSizes, Written(r, n)
  PROVE  /\ r \in active /\ rec[r].pc = "record" /\ rec[r].total \in Nat /\ rec[r].size \in Nat
         /\ Stored \in Nat /\ Stored' \in Nat
         /\ Stored' <= Stored + n
         /\ Stored' <= rec[r].total + rec[r].size + n
<1> DEFINE p == [OpenPart(r) EXCEPT !.size = rec[r].size + n]
<1>1. r \in active /\ rec[r].pc = "record"
  BY DEF Types, RecorderTypes, Written, At
<1>2. rec[r].size \in Nat /\ n \in Nat
  BY LargestPacket DEF Types, RecorderTypes, RecorderType
<1>3. /\ rec[r].total = TotalSize(disk)
      /\ TotalSize(disk) \in Nat /\ TotalSize(parts) \in Nat
  BY <1>1, DiskAndParts DEF AgeInv, AccountingMatchesDisk, Types
<1>4. OpenPart(r).size = rec[r].size /\ p.size = rec[r].size + n /\ p.size \in Nat
  BY <1>2 DEF OpenPart
<1> HIDE DEF p
<1>5. \A q : q.size \in Nat => TotalSize({q}) = q.size
  <2> SUFFICES ASSUME NEW q, q.size \in Nat PROVE TotalSize({q}) = q.size
    OBVIOUS
  <2>1. TotalSize({} \cup {q}) = TotalSize({}) + q.size
    BY TotalAdd, FS_EmptySet
  <2>2. {} \cup {q} = {q}
    OBVIOUS
  <2>3. QED
    BY <2>1, <2>2, TotalNone
<1>6. disk' = disk
  BY DEF Written
<1>7. CASE OpenPart(r) \in parts
  <2>1. parts = {OpenPart(r)}
    BY <1>1, <1>7 DEF PartInv, HasSegment
  <2>2. parts' = {p}
    BY <1>7, <2>1 DEF Written, p
  <2>3. TotalSize(parts) = rec[r].size /\ TotalSize(parts') = rec[r].size + n
    BY <1>2, <1>4, <1>5, <2>1, <2>2
  <2>4. QED
    BY <1>1, <1>2, <1>3, <1>6, <2>3 DEF Stored
<1>8. CASE OpenPart(r) \notin parts
  <2>1. parts = {} /\ parts' = {}
    BY <1>1, <1>8 DEF PartInv, HasSegment, Written
  <2>2. TotalSize(parts) = 0 /\ TotalSize(parts') = 0
    BY <2>1, TotalNone
  <2>3. QED
    BY <1>1, <1>2, <1>3, <1>6, <2>2 DEF Stored
<1>9. QED
  BY <1>7, <1>8

Counted == mode' = mode /\ crashes \in Nat /\ crashes' \in {crashes, crashes + 1}

(* A step keeps the mode and counts a crash at most.                       *)
LEMMA BoundsStep ==
  ASSUME Types, Next
  PROVE  Counted
<1> USE DEF Types, ServiceTypes, Counted
<1>1. ASSUME Crash PROVE Counted
  BY <1>1 DEF Crash, Recorder, fileVars, metaVars, serviceVars, boundVars
<1>2. ASSUME NEW r \in Runs,
             \/ Begin(r) \/ Load(r) \/ Prune(r) \/ PruneDone(r)
             \/ MetaTruncate(r) \/ MetaWrite(r) \/ MetaRename(r) \/ Open(r)
             \/ Persist(r) \/ StartFails(r)
             \/ (\E n \in PacketSizes : WriteEnds(r, n))
             \/ (\E n \in PacketSizes : WriteRotates(r, n))
             \/ (\E n \in PacketSizes : WriteGoesOn(r, n)) \/ FlushTick(r)
             \/ (\E s \in {"COMPLETED", "PARTIAL", "FAILED"} : End(r, s))
             \/ FinishEmpty(r) \/ FinishFull(r) \/ FinishFails(r)
             \/ RotateFails(r) \/ MetaFails(r) \/ Leave(r)
      PROVE  Counted
  <2>1. mode' = mode /\ crashes' = crashes
    BY <1>2 DEF Begin, Load, Prune, PruneDone, MetaTruncate, MetaWrite,
       MetaRename, Open, Persist, StartFails, WriteEnds, Written,
       WriteRotates, WriteGoesOn, FlushTick, End, FinishEmpty, FinishFull,
       FinishFails, RotateFails, MetaFails, Leave, boundVars
  <2>2. QED
    BY <2>1
<1>3. ASSUME
             \/ StopPersist \/ CloseSession \/ StopReturns \/ BootIdle
             \/ BootRestores \/ BootExpires \/ CleanActive \/ CleanInspect
             \/ CleanValidate \/ CleanDelete
      PROVE  Counted
  <2>1. mode' = mode /\ crashes' = crashes
    BY <1>3 DEF StopPersist, CloseSession, StopReturns, BootIdle,
       BootRestores, BootExpires, CleanActive, CleanInspect,
       CleanValidate, CleanDelete, boundVars
  <2>2. QED
    BY <2>1
<1>4. QED
  BY <1>1, <1>2, <1>3, StepCases

(* The bytes of the directory are a natural number before and after a      *)
(* step.                                                                   *)
LEMMA StoredType ==
  ASSUME Types, GoalInv, NameInv, Next
  PROVE  Stored \in Nat /\ Stored' \in Nat
<1>1. FileTypes /\ FileTypes'
  BY FileStep DEF Types
<1>2. /\ IsFiniteSet(disk') /\ \A f \in disk' : f.size \in Nat
      /\ IsFiniteSet(parts') /\ \A f \in parts' : f.size \in Nat
  BY <1>1 DEF FileTypes, File, Part
<1>3. TotalSize(disk') \in Nat /\ TotalSize(parts') \in Nat
  BY <1>2, TotalType
<1>4. QED
  BY <1>1, <1>3, DiskAndParts DEF Stored

(* A step keeps the size within the limit and a packet.                    *)
LEMMA SizeStep ==
  ASSUME Types, GoalInv, NameInv, AgeInv, PartInv, SizeBound, NearLimit,
         RollingRoom, Next
  PROVE  SizeBound'
<1> DEFINE M == Max(PacketSizes)
           over(k) == MaxSessionSize + k * M
<1>1. mode' = mode /\ crashes \in Nat /\ crashes' \in {crashes, crashes + 1}
  BY BoundsStep DEF Counted
<1>2. /\ M \in Nat /\ MaxSessionSize \in Nat /\ SegmentSize \in Nat
      /\ crashes * M \in Nat /\ (1 + crashes) * M = crashes * M + M
      /\ 1 * M = M
      /\ (1 + crashes') * M >= (1 + crashes) * M
  <2>1. (1 + (1 + crashes)) * M = (1 + crashes) * M + M /\ (1 + crashes) * M \in Nat
    BY <1>1, Multiples
  <2>2. M \in Nat
    BY LargestPacket
  <2>3. crashes + 1 = 1 + crashes
    BY <1>1
  <2>4. (1 + crashes') * M \in {(1 + crashes) * M, (1 + (1 + crashes)) * M}
    BY <1>1, <2>3
  <2> HIDE DEF M
  <2>5. (1 + crashes') * M >= (1 + crashes) * M
    BY <2>1, <2>2, <2>4
  <2>6. QED
    BY <1>1, <2>2, <2>5, Multiples, SizesAssumption DEF M
<1>3. SizeBound <=>
         Stored < MaxSessionSize + (IF Rolling THEN M ELSE (1 + crashes) * M)
  BY <1>2 DEF SizeBound, Stored
<1>4. SizeBound' <=>
         Stored' < MaxSessionSize + (IF Rolling THEN M ELSE (1 + crashes') * M)
  BY <1>1, <1>2 DEF SizeBound, Stored, Rolling
<1>5. Stored \in Nat /\ Stored' \in Nat
  BY StoredType
<1>6. CASE Stored' <= Stored
  <2> DEFINE a == (1 + crashes) * M
             b == (1 + crashes') * M
  <2>1. a \in Nat /\ b \in Nat /\ a <= b
    <3>1. crashes \in Nat /\ crashes' \in Nat
      BY <1>1
    <3>2. a \in Nat /\ b \in Nat
      BY <3>1, Multiples
    <3>3. QED
      BY <1>2, <3>2
  <2>2. CASE Rolling
    <3>1. Stored < MaxSessionSize + M
      BY <1>3, <2>2
    <3>2. Stored' < MaxSessionSize + M
      BY <1>2, <1>5, <1>6, <3>1
    <3>3. QED
      BY <1>4, <2>2, <3>2
  <2>3. CASE ~Rolling
    <3>1. Stored < MaxSessionSize + a
      BY <1>3, <2>3
    <3> HIDE DEF a, b, M
    <3>2. Stored' < MaxSessionSize + b
      BY <1>2, <1>5, <1>6, <2>1, <3>1
    <3>3. QED
      BY <1>4, <2>3, <3>2 DEF b
  <2>4. QED
    BY <2>2, <2>3
<1>7. ASSUME NEW r \in Runs, NEW n \in PacketSizes, Writes(r, n) PROVE SizeBound'
  <2>0. Written(r, n)
    BY <1>7 DEF Writes, WriteEnds, WriteRotates, WriteGoesOn
  <2>1. /\ r \in active /\ rec[r].pc = "record" /\ rec[r].total \in Nat /\ rec[r].size \in Nat
        /\ Stored' <= Stored + n /\ Stored' <= rec[r].total + rec[r].size + n
    BY <2>0, PacketIsStored
  <2>2. rec[r].goal # "end"
    BY <2>1 DEF GoalInv
  <2>3. n \in Nat /\ n <= M
    BY LargestPacket
  <2> HIDE DEF M
  <2>4. CASE Rolling
    <3>1. rec[r].total + SegmentSize <= MaxSessionSize /\ rec[r].size < SegmentSize
      BY <2>1, <2>2, <2>4 DEF RollingRoom
    <3>2. QED
      BY <1>2, <1>4, <1>5, <2>1, <2>3, <2>4, <3>1
  <2>5. CASE ~Rolling
    <3>1. Stored < MaxSessionSize + crashes * M
      BY <2>1, <2>2, <2>5 DEF NearLimit, Recording, M
    <3>2. Stored' < MaxSessionSize + (1 + crashes) * M
      BY <1>2, <1>5, <2>1, <2>3, <3>1
    <3>3. crashes' = crashes
      BY <2>0 DEF Written
    <3>4. QED
      BY <1>4, <2>5, <3>2, <3>3
  <2>6. QED
    BY <2>4, <2>5
<1>8. QED
  BY <1>6, <1>7, StoredStep DEF OnlyPackets

(* A recording goes on only if it was going on, ...                        *)
Carries ==
    \/ Recording' => Recording /\ crashes' = crashes
    \/ Crash
    \/ \E q \in Runs : Begin(q)

(* A recording that goes on went on before, unless a session begins or the *)
(* process dies.                                                           *)
LEMMA RecordingStep ==
  ASSUME Types, GoalInv, Next
  PROVE  Carries
<1> USE DEF Types, RecorderTypes, RecorderType, Recording, GoalInv,
       Carries
<1>1. ASSUME NEW r \in Runs, Begin(r) PROVE Carries
  BY <1>1
<1>2. ASSUME NEW r \in Runs, Load(r) PROVE Carries
  BY <1>2 DEF Load, At, fileVars, metaVars, serviceVars, boundVars
<1>3. ASSUME NEW r \in Runs, Prune(r) PROVE Carries
  BY <1>3 DEF Prune, At, Overfull, fileVars, metaVars, serviceVars,
     boundVars
<1>4. ASSUME NEW r \in Runs, PruneDone(r) PROVE Carries
  BY <1>4 DEF PruneDone, At, Goto, Overfull, fileVars, metaVars,
     serviceVars, boundVars
<1>5. ASSUME NEW r \in Runs, MetaTruncate(r) PROVE Carries
  BY <1>5 DEF MetaTruncate, At, Goto, fileVars, metaVars, serviceVars,
     boundVars
<1>6. ASSUME NEW r \in Runs, MetaWrite(r) PROVE Carries
  BY <1>6 DEF MetaWrite, At, Goto, fileVars, metaVars, serviceVars,
     boundVars
<1>7. ASSUME NEW r \in Runs, MetaRename(r) PROVE Carries
  BY <1>7 DEF MetaRename, At, Goto, fileVars, metaVars, serviceVars,
     boundVars
<1>8. ASSUME NEW r \in Runs, Open(r) PROVE Carries
  BY <1>8 DEF Open, At, fileVars, metaVars, serviceVars, boundVars
<1>9. ASSUME NEW r \in Runs, Persist(r) PROVE Carries
  BY <1>9 DEF Persist, At, Goto, fileVars, metaVars, serviceVars, boundVars
<1>10. ASSUME NEW r \in Runs, StartFails(r) PROVE Carries
  BY <1>10 DEF StartFails, At, Recorder, OpenPart, fileVars, metaVars,
     serviceVars, boundVars
<1>11. ASSUME NEW r \in Runs, NEW n \in PacketSizes, WriteEnds(r, n)
      PROVE  Carries
  BY <1>11 DEF WriteEnds, Written, At, Ends, OpenPart, fileVars, metaVars,
     serviceVars, boundVars
<1>12. ASSUME NEW r \in Runs, NEW n \in PacketSizes, WriteRotates(r, n)
      PROVE  Carries
  BY <1>12 DEF WriteRotates, Written, At, OpenPart, fileVars, metaVars,
     serviceVars, boundVars
<1>13. ASSUME NEW r \in Runs, NEW n \in PacketSizes, WriteGoesOn(r, n)
      PROVE  Carries
  BY <1>13 DEF WriteGoesOn, Written, At, OpenPart, fileVars, metaVars,
     serviceVars, boundVars
<1>14. ASSUME NEW r \in Runs, FlushTick(r) PROVE Carries
  BY <1>14 DEF FlushTick, At, Ends, fileVars, metaVars, serviceVars,
     boundVars
<1>15. ASSUME NEW r \in Runs, 
             NEW s \in {"COMPLETED", "PARTIAL", "FAILED"}, End(r, s)
      PROVE  Carries
  BY <1>15 DEF End, At, Ends, fileVars, metaVars, serviceVars, boundVars
<1>16. ASSUME NEW r \in Runs, FinishEmpty(r) PROVE Carries
  BY <1>16 DEF FinishEmpty, At, Goto, AfterFinish, OpenPart, fileVars,
     metaVars, serviceVars, boundVars
<1>17. ASSUME NEW r \in Runs, FinishFull(r) PROVE Carries
  BY <1>17 DEF FinishFull, At, AfterFinish, OpenPart, Finished, fileVars,
     metaVars, serviceVars, boundVars
<1>18. ASSUME NEW r \in Runs, FinishFails(r) PROVE Carries
  BY <1>18 DEF FinishFails, At, fileVars, metaVars, serviceVars, boundVars
<1>19. ASSUME NEW r \in Runs, RotateFails(r) PROVE Carries
  BY <1>19 DEF RotateFails, fileVars, metaVars, serviceVars, boundVars
<1>20. ASSUME NEW r \in Runs, MetaFails(r) PROVE Carries
  BY <1>20 DEF MetaFails, Goto, fileVars, metaVars, serviceVars, boundVars
<1>21. ASSUME NEW r \in Runs, Leave(r) PROVE Carries
  BY <1>21 DEF Leave, At, Recorder, fileVars, metaVars, serviceVars,
     boundVars
<1>22. ASSUME StopPersist PROVE Carries
  BY <1>22 DEF StopPersist, fileVars, metaVars, serviceVars, boundVars
<1>23. ASSUME CloseSession PROVE Carries
  BY <1>23 DEF CloseSession, fileVars, metaVars, serviceVars, boundVars
<1>24. ASSUME StopReturns PROVE Carries
  BY <1>24 DEF StopReturns, fileVars, metaVars, serviceVars, boundVars
<1>25. ASSUME Crash PROVE Carries
  BY <1>25
<1>26. ASSUME BootIdle PROVE Carries
  BY <1>26 DEF BootIdle, boundVars
<1>27. ASSUME BootRestores PROVE Carries
  BY <1>27 DEF BootRestores, boundVars
<1>28. ASSUME BootExpires PROVE Carries
  BY <1>28 DEF BootExpires, boundVars
<1>29. ASSUME CleanActive PROVE Carries
  BY <1>29 DEF CleanActive, fileVars, metaVars, serviceVars, boundVars
<1>30. ASSUME CleanInspect PROVE Carries
  BY <1>30 DEF CleanInspect, fileVars, metaVars, serviceVars, boundVars
<1>31. ASSUME CleanValidate PROVE Carries
  BY <1>31 DEF CleanValidate, fileVars, metaVars, serviceVars, boundVars
<1>32. ASSUME CleanDelete PROVE Carries
  BY <1>32 DEF CleanDelete, fileVars, metaVars, serviceVars, boundVars
<1>33. QED
  BY <1>1, <1>2, <1>3, <1>4, <1>5, <1>6, <1>7, <1>8, <1>9, <1>10, <1>11,
     <1>12, <1>13, <1>14, <1>15, <1>16, <1>17, <1>18, <1>19, <1>20, <1>21,
     <1>22, <1>23, <1>24, <1>25, <1>26, <1>27, <1>28, <1>29, <1>30, <1>31,
     <1>32, StepCases

(* A normal session that records is below its limit, but for a packet for  *)
(* each crash: the limit check follows every packet and ends it.           *)
LEMMA NearStep ==
  ASSUME Types, GoalInv, NameInv, MetaInv, SoleInv, AgeInv, PartInv, SizeBound,
         NearLimit, Next
  PROVE  NearLimit'
<1> DEFINE M == Max(PacketSizes)
<1>1. mode' = mode /\ crashes \in Nat /\ crashes' \in {crashes, crashes + 1}
  BY BoundsStep DEF Counted
<1>2. M \in Nat /\ MaxSessionSize \in Nat \ {0} /\ SegmentSize \in Nat
  BY LargestPacket, SizesAssumption
<1>3. Stored \in Nat /\ Stored' \in Nat
  BY StoredType
<1> SUFFICES ASSUME ~Rolling, Recording'
             PROVE  Stored' < MaxSessionSize + crashes' * M
  BY <1>1 DEF NearLimit, Rolling, Stored
<1>4. crashes * M \in Nat /\ crashes' * M \in Nat
  BY <1>1, Multiples
<1>5. CASE Stored' <= Stored
  <2>1. CASE Recording /\ crashes' = crashes
    <3>1. Stored < MaxSessionSize + crashes * M
      BY <2>1 DEF NearLimit
    <3> HIDE DEF M
    <3>2. Stored' < MaxSessionSize + crashes * M
      BY <1>2, <1>3, <1>4, <1>5, <3>1
    <3>3. QED
      BY <2>1, <3>2
  <2>2. CASE Crash
    <3>1. Stored < MaxSessionSize + (1 + crashes) * M
      BY DEF SizeBound, Stored
    <3>2. crashes' = 1 + crashes
      BY <1>1, <2>2 DEF Crash
    <3>3. QED
      BY <1>2, <1>3, <1>4, <1>5, <3>1, <3>2
  <2>3. CASE \E q \in Runs : Begin(q)
    <3>1. run = 0
      BY <2>3 DEF Begin, Types, ServiceTypes
    <3>2. Stored = 0
      BY <3>1, TotalNone DEF MetaInv, Unused, Stored
    <3> HIDE DEF M
    <3>3. QED
      BY <1>2, <1>3, <1>4, <1>5, <3>2
  <2>4. QED
    BY <2>1, <2>2, <2>3, RecordingStep DEF Carries
<1>6. ASSUME NEW r \in Runs, NEW n \in PacketSizes, Writes(r, n)
      PROVE  Stored' < MaxSessionSize + crashes' * M
  <2>1. Written(r, n)
    BY <1>6 DEF Writes, WriteEnds, WriteRotates, WriteGoesOn
  <2>2. /\ r \in active /\ rec[r].pc = "record" /\ rec[r].total \in Nat /\ rec[r].size \in Nat
        /\ Stored' <= rec[r].total + rec[r].size + n
    BY <2>1, PacketIsStored
  <2>3. ~WriteEnds(r, n)
    <3>1. SUFFICES ASSUME WriteEnds(r, n) PROVE FALSE
      OBVIOUS
    <3>2. phase' # "down" /\ active' = {r}
      BY <2>1, <2>2 DEF Written, SoleInv, Types, RecorderTypes
    <3>3. rec'[r].goal = "end"
      BY <3>1 DEF WriteEnds, Ends, Types, RecorderTypes, RecorderType
    <3>4. QED
      BY <3>2, <3>3 DEF Recording
  <2>4. ~SessionLimit(r, rec[r].size + n)
    BY <1>6, <2>3 DEF Writes, WriteRotates, WriteGoesOn
  <2>5. n \in Nat
    BY LargestPacket
  <2>6. rec[r].total + (rec[r].size + n) < MaxSessionSize
    BY <1>2, <2>2, <2>4, <2>5 DEF SessionLimit
  <2> HIDE DEF M
  <2>7. QED
    BY <1>2, <1>3, <1>4, <2>2, <2>5, <2>6
<1>7. QED
  BY <1>5, <1>6, StoredStep DEF OnlyPackets

(* A continuous recorder that writes has room for a whole segment:         *)
(* pruneOldest made it.                                                    *)
LEMMA RollingStep ==
  ASSUME Types, GoalInv, AgeInv, RollingRoom, Next
  PROVE  RollingRoom'
<1> USE DEF Types, RecorderTypes, RecorderType, RollingRoom, Rolling,
       GoalInv
<1>1. ASSUME NEW r \in Runs, Begin(r) PROVE RollingRoom'
  BY <1>1 DEF Begin, Reserve, Recorder, fileVars, metaVars, serviceVars,
     boundVars
<1>2. ASSUME NEW r \in Runs, Load(r) PROVE RollingRoom'
  BY <1>2 DEF Load, At, fileVars, metaVars, serviceVars, boundVars
<1>3. ASSUME NEW r \in Runs, Prune(r) PROVE RollingRoom'
  <2>1. PICK oldest \in rec[r].list :
           /\ disk' = disk \ {oldest}
           /\ rec' = [rec EXCEPT ![r].list = rec[r].list \ {oldest},
                                 ![r].total = rec[r].total - oldest.size]
    BY <1>3 DEF Prune
  <2>2. QED
    BY <1>3, <2>1 DEF Prune, At, metaVars, serviceVars
<1>4. ASSUME NEW r \in Runs, PruneDone(r) PROVE RollingRoom'
  <2>1. \A q \in Runs : q # r => rec'[q] = rec[q]
    BY <1>4 DEF PruneDone, Goto
  <2>2. /\ UNCHANGED <<mode, active>> /\ rec'[r].total = rec[r].total
        /\ rec'[r].goal = rec[r].goal /\ rec'[r].pc = "meta" /\ rec[r].total \in Int
    BY <1>4 DEF PruneDone, Goto
  <2>3. ASSUME Rolling, rec[r].goal # "end" PROVE rec[r].total + SegmentSize <= MaxSessionSize
    <3>1. CASE rec[r].list = {}
      <4>1. rec[r].pc = "prune" /\ r \in active
        BY <1>4 DEF PruneDone, At
      <4>2. rec[r].total = 0
        BY <3>1, <4>1, TotalNone DEF AgeInv, AccountingMatchesDisk
      <4>3. "continuous" \in Modes
        BY <2>3 DEF ServiceTypes
      <4>4. QED
        BY <4>2, <4>3, SizesAssumption
    <3>2. CASE rec[r].list # {}
      BY <1>4, <2>2, <2>3, <3>2, SizesAssumption DEF PruneDone, Overfull, Reserved
    <3>3. QED
      BY <3>1, <3>2
  <2>4. QED
    BY <2>1, <2>2, <2>3
<1>5. ASSUME NEW r \in Runs, MetaTruncate(r) PROVE RollingRoom'
  BY <1>5 DEF MetaTruncate, At, Goto, fileVars, metaVars, serviceVars,
     boundVars
<1>6. ASSUME NEW r \in Runs, MetaWrite(r) PROVE RollingRoom'
  BY <1>6 DEF MetaWrite, At, Goto, fileVars, metaVars, serviceVars,
     boundVars
<1>7. ASSUME NEW r \in Runs, MetaRename(r) PROVE RollingRoom'
  BY <1>7 DEF MetaRename, At, Goto, fileVars, metaVars, serviceVars,
     boundVars
<1>8. ASSUME NEW r \in Runs, Open(r) PROVE RollingRoom'
  <2>1. rec'[r].size < SegmentSize
    BY <1>8, SizesAssumption DEF Open
  <2>2. QED
    BY <1>8, <2>1 DEF Open, At
<1>9. ASSUME NEW r \in Runs, Persist(r) PROVE RollingRoom'
  <2>1. \A q \in Runs : q # r => rec'[q] = rec[q]
    BY <1>9 DEF Persist, Goto
  <2>2. /\ UNCHANGED <<mode, active>> /\ r \in active /\ rec[r].pc = "persist"
        /\ rec'[r].total = rec[r].total /\ rec'[r].goal = rec[r].goal
        /\ rec'[r].size = rec[r].size
    BY <1>9 DEF Persist, At, Goto
  <2>3. rec[r].size < SegmentSize
    BY <2>2, SizesAssumption
  <2>4. QED
    BY <2>1, <2>2, <2>3
<1>10. ASSUME NEW r \in Runs, StartFails(r) PROVE RollingRoom'
  BY <1>10 DEF StartFails, At, Recorder, OpenPart, fileVars, metaVars,
     serviceVars, boundVars
<1>11. ASSUME NEW r \in Runs, NEW n \in PacketSizes, WriteEnds(r, n)
      PROVE  RollingRoom'
  BY <1>11 DEF WriteEnds, Written, At, Ends, OpenPart, fileVars, metaVars,
     serviceVars, boundVars
<1>12. ASSUME NEW r \in Runs, NEW n \in PacketSizes, WriteRotates(r, n)
      PROVE  RollingRoom'
  BY <1>12 DEF WriteRotates, Written, At, OpenPart, fileVars, metaVars,
     serviceVars, boundVars
<1>13. ASSUME NEW r \in Runs, NEW n \in PacketSizes, WriteGoesOn(r, n)
      PROVE  RollingRoom'
  BY <1>13 DEF WriteGoesOn, Written, At, OpenPart, fileVars, metaVars,
     serviceVars, boundVars
<1>14. ASSUME NEW r \in Runs, FlushTick(r) PROVE RollingRoom'
  BY <1>14 DEF FlushTick, At, Ends, fileVars, metaVars, serviceVars,
     boundVars
<1>15. ASSUME NEW r \in Runs, 
             NEW s \in {"COMPLETED", "PARTIAL", "FAILED"}, End(r, s)
      PROVE  RollingRoom'
  BY <1>15 DEF End, At, Ends, fileVars, metaVars, serviceVars, boundVars
<1>16. ASSUME NEW r \in Runs, FinishEmpty(r) PROVE RollingRoom'
  BY <1>16 DEF FinishEmpty, At, Goto, AfterFinish, OpenPart, fileVars,
     metaVars, serviceVars, boundVars
<1>17. ASSUME NEW r \in Runs, FinishFull(r) PROVE RollingRoom'
  BY <1>17 DEF FinishFull, At, AfterFinish, OpenPart, Finished, fileVars,
     metaVars, serviceVars, boundVars
<1>18. ASSUME NEW r \in Runs, FinishFails(r) PROVE RollingRoom'
  BY <1>18 DEF FinishFails, At, fileVars, metaVars, serviceVars, boundVars
<1>19. ASSUME NEW r \in Runs, RotateFails(r) PROVE RollingRoom'
  BY <1>19 DEF RotateFails, fileVars, metaVars, serviceVars, boundVars
<1>20. ASSUME NEW r \in Runs, MetaFails(r) PROVE RollingRoom'
  BY <1>20 DEF MetaFails, Goto, fileVars, metaVars, serviceVars, boundVars
<1>21. ASSUME NEW r \in Runs, Leave(r) PROVE RollingRoom'
  BY <1>21 DEF Leave, At, Recorder, fileVars, metaVars, serviceVars,
     boundVars
<1>22. ASSUME Crash PROVE RollingRoom'
  BY <1>22 DEF Crash, Recorder, fileVars, metaVars, serviceVars, boundVars
<1>23. ASSUME BootRestores PROVE RollingRoom'
  <2>1. owner \in Runs /\ active = {}
    BY <1>23, SegmentBounds
       DEF BootRestores, Types, ServiceTypes, RecorderTypes, Runs
  <2>2. active' = {owner} /\ rec'[owner].pc = "load"
    BY <1>23, <2>1 DEF BootRestores, Reserve, Recorder, Types, RecorderTypes
  <2>3. QED
    BY <1>23, <2>1, <2>2 DEF BootRestores, RollingRoom
<1>24. ASSUME CleanDelete PROVE RollingRoom'
  BY <1>24 DEF CleanDelete, fileVars, metaVars, serviceVars, boundVars
<1>25. ASSUME
             \/ StopPersist \/ CloseSession \/ StopReturns \/ BootIdle
             \/ BootExpires \/ CleanActive \/ CleanInspect \/ CleanValidate
      PROVE  RollingRoom'
  <2>1. UNCHANGED <<mode, active, rec>>
    BY <1>25 DEF StopPersist, CloseSession, StopReturns, BootIdle,
       BootExpires, CleanActive, CleanInspect, CleanValidate, fileVars,
       boundVars
  <2>2. QED
    BY <2>1
<1>26. QED
  BY <1>1, <1>2, <1>3, <1>4, <1>5, <1>6, <1>7, <1>8, <1>9, <1>10, <1>11,
     <1>12, <1>13, <1>14, <1>15, <1>16, <1>17, <1>18, <1>19, <1>20, <1>21,
     <1>22, <1>23, <1>24, <1>25, StepCases

-----------------------------------------------------------------------------
(* The invariant holds at the start, is kept by every step, and gives the  *)
(* properties of the component.                                            *)

(* The invariant holds in the initial states.                              *)
LEMMA InitInv == ASSUME Init PROVE IInv
<1>1. /\ mode \in Modes /\ disk = {} /\ parts = {} /\ clock = 0 /\ run = 0 /\ crashes = 0
      /\ active = {} /\ phase = "up" /\ clean = "idle"
      /\ rec = [r \in Runs |-> Recorder("none", "start")]
      /\ meta = "absent" /\ metaPart = "absent" /\ desired = "absent"
      /\ owner = 0 /\ held = 0 /\ closed = {} /\ packets = 0 /\ unfinished = FALSE
  BY DEF Init
<1>2. Types
  <2>1. ServiceTypes
    <3>1. unfinished \in BOOLEAN
      BY <1>1, Zenon
    <3>2. 0 \in 0..MaxRuns /\ 0 \in 0..MaxPackets /\ 0 \in 0..MaxCrashes /\ 0 \in 0..0
      BY SegmentBounds
    <3>3. QED
      BY <1>1, <3>1, <3>2 DEF ServiceTypes
  <2>2. FileTypes
    BY <1>1, FS_EmptySet DEF FileTypes
  <2>3. Recorder("none", "start") \in RecorderType
    BY DEF Recorder, RecorderType, Pcs, Statuses
  <2>4. \A r \in Runs : rec[r].pc = "none" /\ rec[r].list = {}
    BY <1>1 DEF Recorder
  <2>5. RecorderTypes
    BY <1>1, <2>3, <2>4 DEF RecorderTypes
  <2>6. QED
    BY <2>1, <2>2, <2>5 DEF Types
<1>3. GoalInv
  BY <1>1 DEF GoalInv, Recorder
<1>4. NameInv
  BY <1>1 DEF NameInv, Recorder, HasSegment
<1>5. 1 \in Runs /\ rec[1].pc = "none"
  BY <1>1, SegmentBounds DEF Runs, Recorder
<1>6. MetaInv
  BY <1>1, <1>5 DEF MetaInv, Unused
<1>7. CleanInv
  BY <1>1 DEF CleanInv
<1>8. SoleInv /\ PartInv /\ RollingRoom
  BY <1>1 DEF SoleInv, PartInv, RollingRoom
<1>9. NearLimit
  BY <1>1 DEF NearLimit, Recording
<1>10. AgeInv
  <2>1. Cardinality(disk) = 0
    BY <1>1, FS_EmptySet
  <2>2. {f.mtime : f \in disk} = {}
    BY <1>1
  <2>3. (IF Rolling THEN clock - Cardinality(disk) + 1 ELSE 1)..clock = {}
    BY <1>1, <2>1
  <2>4. RetainedIsNewest
    BY <2>2, <2>3 DEF RetainedIsNewest
  <2>5. QED
    BY <1>1, <2>4 DEF AgeInv, AccountingMatchesDisk
<1>11. SizeBound
  <2> DEFINE M == Max(PacketSizes)
  <2>1. TotalSize(disk) = 0 /\ TotalSize(parts) = 0
    BY <1>1, TotalNone
  <2>2. M \in Nat /\ 1 * M = M /\ MaxSessionSize \in Nat \ {0}
    BY LargestPacket, Multiples, SizesAssumption
  <2>3. (IF Rolling THEN 1 ELSE 1 + crashes) = 1
    BY <1>1
  <2>4. 0 + 0 < MaxSessionSize + M
    BY <2>2
  <2>5. QED
    BY <2>1, <2>2, <2>3, <2>4 DEF SizeBound
<1>12. QED
  BY <1>2, <1>3, <1>4, <1>6, <1>7, <1>8, <1>9, <1>10, <1>11 DEF IInv, RetentionInv

(* Every step keeps the invariant.                                         *)
LEMMA StepInv == ASSUME IInv, Next PROVE IInv'
<1> USE DEF IInv
<1>1. Types'
  BY ServiceStep, FileStep, RecorderStep DEF Types
<1>2. GoalInv' /\ NameInv' /\ MetaInv' /\ CleanInv'
  BY GoalStep, NameStep, MetaStep, CleanStep
<1>3. ASSUME ~Overlap PROVE RetentionInv'
  <2>1. RetentionInv
    BY <1>3
  <2>2. SoleInv' /\ AgeInv' /\ PartInv'
    BY <1>3, <2>1, SoleStep, AgeStep, PartStep DEF RetentionInv
  <2>3. SizeBound' /\ NearLimit' /\ RollingRoom'
    BY <2>1, SizeStep, NearStep, RollingStep DEF RetentionInv
  <2>4. QED
    BY <2>2, <2>3 DEF RetentionInv
<1>4. QED
  BY <1>1, <1>2, <1>3

(* A step of something else keeps the invariant.                           *)
LEMMA StutterInv == ASSUME IInv, UNCHANGED vars PROVE IInv'
<1> USE DEF vars, fileVars, metaVars, serviceVars, boundVars
<1>1. Types'
  BY DEF IInv, Types, ServiceTypes, FileTypes, RecorderTypes
<1>2. GoalInv' /\ NameInv' /\ MetaInv' /\ CleanInv'
  BY DEF IInv, GoalInv, NameInv, MetaInv, CleanInv, Unused, Rolling
<1>3. RetentionInv => RetentionInv'
  <2> SUFFICES ASSUME RetentionInv PROVE RetentionInv'
    OBVIOUS
  <2>1. SoleInv' /\ AgeInv' /\ PartInv' /\ RollingRoom'
    BY DEF RetentionInv, SoleInv, AgeInv, RetainedIsNewest, AccountingMatchesDisk,
           PartInv, OpenPart, RollingRoom, Rolling
  <2>2. SizeBound' /\ NearLimit'
    BY DEF RetentionInv, SizeBound, NearLimit, Recording, Stored, Rolling
  <2>3. QED
    BY <2>1, <2>2 DEF RetentionInv
<1>4. QED
  BY <1>1, <1>2, <1>3 DEF IInv

(* The invariant holds in every reachable state of a recording directory.  *)
THEOREM Inductive == Spec => []IInv
<1>1. Init => IInv
  BY InitInv
<1>2. IInv /\ [Next]_vars => IInv'
  BY StepInv, StutterInv
<1>3. QED
  BY <1>1, <1>2, PTL DEF Spec

(* What the invariant says of types, while sessions do not overlap.        *)
LEMMA TypesFollow == IInv /\ ~Overlap => TypeOK
<1> SUFFICES ASSUME IInv, ~Overlap PROVE TypeOK
  OBVIOUS
<1> USE DEF IInv, Types
<1>1. \A f \in disk : /\ f.run \in Runs /\ f.seq \in Nat \ {0}
                      /\ f.size \in Nat \ {0} /\ f.mtime \in 1..clock
  BY DEF FileTypes, File
<1>2. \A f \in parts : f.run \in Runs /\ f.seq \in Nat \ {0} /\ f.size \in Nat
  BY DEF FileTypes, Part
<1>3. clock \in Nat
  BY DEF FileTypes
<1>4. ASSUME NEW r \in Runs
      PROVE  /\ rec[r].pc \in Pcs /\ rec[r].goal \in {"start", "rotate", "end"}
             /\ rec[r].seq \in Nat /\ rec[r].size \in Nat /\ rec[r].status \in Statuses
             /\ rec[r].list \subseteq File
  BY DEF RecorderTypes, RecorderType
<1>5. ASSUME NEW r \in Runs PROVE rec[r].total \in Nat
  <2>1. CASE rec[r].pc \in {"none", "load", "done"}
    BY <2>1 DEF GoalInv
  <2>2. CASE rec[r].pc \notin {"none", "load", "done"}
    <3>1. r \in active /\ rec[r].pc # "load"
      BY <2>2 DEF RecorderTypes
    <3>2. rec[r].total = TotalSize(disk)
      BY <3>1 DEF RetentionInv, AgeInv, AccountingMatchesDisk
    <3>3. QED
      BY <3>2, DiskAndParts
  <2>3. QED
    BY <2>1, <2>2
<1>6. ASSUME NEW r \in Runs, NEW f \in rec[r].list PROVE f.mtime \in 1..clock
  <2>1. f.mtime \in Nat \ {0} /\ f.mtime <= clock
    BY <1>4 DEF File, RecorderTypes
  <2>2. QED
    BY <1>3, <2>1
<1>7. active = {r \in Runs : rec[r].pc \notin {"none", "done"}}
  BY DEF RecorderTypes
<1>8. QED
  BY <1>1, <1>2, <1>3, <1>4, <1>5, <1>6, <1>7 DEF TypeOK, ServiceTypes

(* Types, in every state in which sessions do not overlap; Manager.active  *)
(* has exactly the recorders at work.                                      *)
THEOREM TypeCorrect == ASSUME ~Overlap PROVE Spec => []TypeOK
<1>1. IInv => TypeOK
  BY TypesFollow
<1>2. QED
  BY <1>1, Inductive, PTL

(* The invariant keeps names apart: a recorder that finishes a segment is  *)
(* ahead of every file of its run.                                         *)
LEMMA NamesAreKept == IInv => NoOverwrite
<1> SUFFICES ASSUME IInv, NEW r \in Runs, NEW f \in disk, rec[r].pc = "finish", f.run = r
             PROVE  f.seq # rec[r].seq
  BY DEF NoOverwrite, At
<1>1. f.seq < rec[r].seq
  BY DEF IInv, NameInv, HasSegment
<1>2. f.seq \in Nat /\ rec[r].seq \in Nat
  BY DEF IInv, Types, FileTypes, File, RecorderTypes, RecorderType
<1>3. QED
  BY <1>1, <1>2

(* The invariant of a cleanup is the property.                             *)
LEMMA CleanupIsSafe == IInv => CleanupOnlyFinished
BY DEF IInv, CleanInv, CleanupOnlyFinished

(* The invariant of a single recorder is the property.                     *)
LEMMA RetentionFollows == IInv /\ ~Overlap => RetentionIsRight
BY DEF IInv, RetentionInv, AgeInv, RetentionIsRight

(* os.Rename in finishSegment never replaces a recording, whatever         *)
(* crashes, restarts, retention and overlapping sessions did before        *)
(* (openSegment, loadExistingSegments).                                    *)
THEOREM NamesKept == Spec => []NoOverwrite
BY Inductive, NamesAreKept, PTL

(* CleanSessionRecordings deletes a directory only if no recorder is       *)
(* active, no boot will resume it and its recording has finished, or a     *)
(* crash tore its metadata.                                                *)
THEOREM CleanupSafe == Spec => []CleanupOnlyFinished
BY Inductive, CleanupIsSafe, PTL

(* pruneOldest, finishSegment and loadExistingSegments keep exactly the    *)
(* newest segments, the directory within its limit and the accounts right, *)
(* as long as a session starts only when its predecessor's recorder has    *)
(* ended.                                                                  *)
THEOREM Retention == ASSUME ~Overlap PROVE Spec => []RetentionIsRight
<1>1. IInv => RetentionIsRight
  BY RetentionFollows
<1>2. QED
  BY <1>1, Inductive, PTL

-----------------------------------------------------------------------------
(* The files of the workload log recorder (module LogFiles).               *)

LogFile ==
    [dir : Logs!Dirs, part : BOOLEAN, size : Nat, sequence : Nat \ {0},
     mtime : Nat, id : Nat \ {0}]
Kept == [id : Nat \ {0}, size : Nat, at : Nat]
Writer == [open : BOOLEAN, size : Nat, sequence : Nat, openedAt : Nat]

\* The directories: of one directory only the newest segment may still be
\* .part, and a newer segment has a larger number and a later last write.
FilesInv(F, t, c) ==
    /\ F \in SUBSET LogFile /\ IsFiniteSet(F)
    /\ \A f \in F : f.mtime < t /\ f.id <= c
    /\ \A f, g \in F : f.id = g.id => f = g
    /\ \A f, g \in F : f.dir = g.dir /\ f.id < g.id =>
          ~f.part /\ f.sequence < g.sequence /\ f.mtime < g.mtime

\* r.finalized: exactly the .log files, each finished before the next one of its
\* directory was last written.
FinalInv(E, F, t) ==
    /\ E \in SUBSET Kept
    /\ \A e \in E : /\ e.at < t
                    /\ \E f \in F : /\ f.id = e.id /\ ~f.part /\ f.size = e.size
                                    /\ f.mtime <= e.at
    /\ \A d, e \in E : d.id = e.id => d = e
    /\ \A f \in F : ~f.part => \E e \in E : e.id = f.id
    /\ \A e \in E : \A f, g \in F :
          e.id = f.id /\ f.dir = g.dir /\ f.id < g.id => e.at < g.mtime

\* r.writers: an open one has its .part file, and one that has opened a segment
\* knows the largest number of its directory.
WritersInv(W, F, R) ==
    /\ W \in [Streams -> Writer]
    /\ \A s \in Streams : W[s].open =>
          \E f \in F : /\ f.dir = <<R, s>> /\ f.part /\ f.sequence = W[s].sequence
                       /\ f.size = W[s].size
    /\ \A s \in Streams : \A f \in F :
          f.dir = <<R, s>> /\ W[s].sequence > 0 => f.sequence <= W[s].sequence

\* Until the recorder closes, every .part file is that of an open writer.
OpenParts(W, F, R) ==
    \A f \in F : f.part =>
        \E s \in Streams : /\ f.dir = <<R, s>> /\ W[s].open
                           /\ f.sequence = W[s].sequence

\* What was deleted of a directory is older than all that is left of it.
PrunedInv(F, P, c) ==
    /\ P \in [Logs!Dirs -> Nat]
    /\ \A d \in Logs!Dirs : P[d] <= c
    /\ \A f \in F : f.id > P[f.dir]

\* Where Write, Close and Start are.
LogControl ==
    /\ task \in {"none", "start", "idle", "write", "close"}
    /\ task \in {"none", "idle"} => step = "none"
    /\ task = "start" => step = "prune"
    /\ task = "write" => step \in {"rotate", "prune", "open", "append", "finish", "retain"}
    /\ task = "close" => step \in {"finish", "retain"}
    /\ line.stream \in Streams /\ line.size \in LineSizes \cup {0}
    /\ task = "write" /\ step \in {"rotate", "append", "finish"} => writers[line.stream].open
    /\ total \in Nat /\ runDir \in 0..MaxDirs /\ (task # "none" => runDir \in 1..MaxDirs)
    /\ now \in Nat /\ created \in Nat

\* Only one line, larger than the quota, is on the disk.
Lone == /\ line.size > MaxRetainedSize /\ TotalSize(files) = line.size
        /\ \A f \in files : f.size \in {0, line.size}

\* The quota: what a step of Write may count on.
LogQuota ==
    /\ task \in {"idle", "write"} /\ step \in {"none", "rotate", "prune"} =>
          TotalSize(files) <= MaxRetainedSize
    /\ task = "write" /\ step \in {"open", "append"} =>
          \/ TotalSize(files) + line.size <= MaxRetainedSize
          \/ line.size > MaxRetainedSize /\ TotalSize(files) = 0
    /\ task = "write" /\ step \in {"finish", "retain"} =>
          TotalSize(files) <= MaxRetainedSize \/ Lone

LogInv ==
    /\ LogControl
    /\ FilesInv(files, now, created)
    /\ PrunedInv(files, pruned, created)
    /\ WritersInv(writers, files, runDir)
    /\ task \in {"start", "idle", "write"} => OpenParts(writers, files, runDir)
    /\ task # "none" => FinalInv(finalized, files, now) /\ total = TotalSize(files)
    /\ LogQuota

-----------------------------------------------------------------------------
(* Sets of log files.                                                      *)

(* The instance's sum is the sum.                                          *)
LEMMA LogSize == \A F : Logs!Size(F) = TotalSize(F)
BY DEF Logs!Size, TotalSize, Logs!SumFunctionOnSet, SumFunctionOnSet,
   Logs!FoldFunctionOnSet, FoldFunctionOnSet, Logs!MapThenFoldSet, MapThenFoldSet

LEMMA LogMax == \A S : Logs!Max(S) = Max(S)
BY DEF Logs!Max, Max

(* Files of no size have no bytes, and no bytes mean files of no size.     *)
LEMMA TotalZero ==
  ASSUME NEW S, IsFiniteSet(S), \A f \in S : f.size \in Nat
  PROVE  TotalSize(S) = 0 <=> \A f \in S : f.size = 0
<1>1. ASSUME TotalSize(S) = 0, NEW f \in S PROVE f.size = 0
  <2>1. TotalSize(S \ {f}) = TotalSize(S) - f.size
    BY TotalRemove
  <2>2. TotalSize(S \ {f}) \in Nat
    BY FS_RemoveElement, TotalType
  <2>3. f.size \in Nat
    OBVIOUS
  <2>4. QED
    BY <1>1, <2>1, <2>2, <2>3
<1>2. ASSUME \A f \in S : f.size = 0 PROVE TotalSize(S) = 0
  <2> DEFINE Bad == {s \in SUBSET S : TotalSize(s) # 0}
  <2>1. SUFFICES ASSUME Bad # {} PROVE FALSE
    OBVIOUS
  <2>2. PICK s \in Bad : \A t \in Bad : t \subseteq s => t = s
    <3>1. Bad \in SUBSET SUBSET S
      OBVIOUS
    <3> HIDE DEF Bad
    <3>2. HasLeast(Bad)
      BY <2>1, <3>1, LeastSet
    <3>3. QED
      BY <3>2 DEF HasLeast
  <2>3. s \subseteq S /\ TotalSize(s) # 0 /\ IsFiniteSet(s)
    BY FS_Subset
  <2>4. s # {}
    BY <2>3, TotalNone
  <2>5. PICK e \in s : TRUE
    BY <2>4
  <2>6. TotalSize(s \ {e}) = TotalSize(s) - 0
    BY <1>2, <2>3, TotalRemove
  <2>7. TotalSize(s) \in Nat
    BY <2>3, TotalType
  <2>8. s \ {e} \in Bad
    BY <2>3, <2>6, <2>7
  <2>9. QED
    BY <2>2, <2>5, <2>8
<1>3. QED
  BY <1>1, <1>2

(* A file that replaces one: the total changes by the difference.          *)
LEMMA TotalReplace ==
  ASSUME NEW S, IsFiniteSet(S), \A x \in S : x.size \in Nat, NEW f \in S,
         NEW g, g \notin S \ {f}, g.size \in Nat
  PROVE  /\ TotalSize((S \ {f}) \cup {g}) = TotalSize(S) - f.size + g.size
         /\ IsFiniteSet((S \ {f}) \cup {g})
<1>1. IsFiniteSet(S \ {f}) /\ IsFiniteSet((S \ {f}) \cup {g})
  BY FS_RemoveElement, FS_AddElement
<1>2. TotalSize(S \ {f}) = TotalSize(S) - f.size
  BY TotalRemove
<1>3. TotalSize((S \ {f}) \cup {g}) = TotalSize(S \ {f}) + g.size
  BY <1>1, TotalAdd
<1>4. QED
  BY <1>1, <1>2, <1>3

(* The larger of two numbers.                                              *)
LEMMA LargerOfTwo ==
  ASSUME NEW a \in Nat, NEW b \in Nat
  PROVE  Max({a, b}) \in {a, b} /\ Max({a, b}) >= a /\ Max({a, b}) >= b
<1>1. \E n \in {a, b} : \A m \in {a, b} : n >= m
  OBVIOUS
<1>2. QED
  BY <1>1 DEF Max

(* Fewer files, later: the directories stay in order.                      *)
LEMMA FewerLogs ==
  ASSUME NEW F, NEW t \in Nat, NEW c \in Nat, FilesInv(F, t, c),
         NEW G, G \subseteq F, NEW u \in Nat, u >= t
  PROVE  FilesInv(G, u, c)
<1>1. IsFiniteSet(G)
  BY FS_Subset DEF FilesInv
<1>2. \A f \in F : f.mtime \in Nat /\ f.id \in Nat
  BY DEF FilesInv, LogFile
<1>3. QED
  BY <1>1, <1>2 DEF FilesInv

(* Of a file, of the order it belongs to and of its sizes.                 *)
LEMMA LogFields ==
  ASSUME NEW F, NEW t, NEW c, FilesInv(F, t, c)
  PROVE  \A f \in F : /\ f.dir \in Logs!Dirs /\ f.part \in BOOLEAN /\ f.size \in Nat
                      /\ f.sequence \in Nat \ {0} /\ f.mtime \in Nat /\ f.id \in Nat \ {0}
BY DEF FilesInv, LogFile

(* An open writer's .part file is the one that CHOOSE finds.               *)
LEMMA PartOfWriter ==
  ASSUME FilesInv(files, now, created), WritersInv(writers, files, runDir),
         NEW s \in Streams, writers[s].open
  PROVE  LET f == Logs!PartOf(s) IN
         /\ f \in files /\ f.dir = <<runDir, s>> /\ f.part
         /\ f.sequence = writers[s].sequence /\ f.size = writers[s].size
         /\ \A g \in files : g.dir = f.dir /\ g # f => g.id < f.id
<1> DEFINE Is(f) == f.dir = <<runDir, s>> /\ f.part /\ f.sequence = writers[s].sequence
<1>1. PICK f \in files : Is(f) /\ f.size = writers[s].size
  BY DEF WritersInv
<1>2. \A g \in files : g.dir = f.dir /\ g # f => g.id < f.id
  <2> SUFFICES ASSUME NEW g \in files, g.dir = f.dir, g # f PROVE g.id < f.id
    OBVIOUS
  <2>1. g.id # f.id /\ g.id \in Nat /\ f.id \in Nat
    BY <1>1, LogFields DEF FilesInv
  <2>2. ~(f.id < g.id)
    BY <1>1 DEF FilesInv
  <2>3. QED
    BY <2>1, <2>2
<1>3. \A g \in files : Is(g) => g = f
  <2> SUFFICES ASSUME NEW g \in files, Is(g), g # f PROVE FALSE
    OBVIOUS
  <2>1. g.id < f.id
    BY <1>1, <1>2
  <2>2. QED
    BY <1>1, <2>1 DEF FilesInv
<1>4. Logs!PartOf(s) = CHOOSE g \in files : Is(g)
  BY DEF Logs!PartOf, Logs!Dir
<1>5. Logs!PartOf(s) = f
  BY <1>1, <1>3, <1>4
<1>6. QED
  BY <1>1, <1>2, <1>5

-----------------------------------------------------------------------------
(* finish: what becomes of the .part file of a writer.                     *)

(* A segment without a line is removed.                                    *)
LEMMA RemovedPart ==
  ASSUME NEW F, NEW t \in Nat, NEW c \in Nat, FilesInv(F, t, c),
         NEW E, FinalInv(E, F, t), NEW f \in F, f.part
  PROVE  /\ FilesInv(F \ {f}, t + 1, c) /\ FinalInv(E, F \ {f}, t + 1)
         /\ TotalSize(F \ {f}) = TotalSize(F) - f.size
<1>1. FilesInv(F \ {f}, t + 1, c)
  BY FewerLogs
<1>2. FinalInv(E, F \ {f}, t + 1)
  BY LogFields DEF FinalInv, Kept
<1>3. TotalSize(F \ {f}) = TotalSize(F) - f.size
  BY TotalRemove, LogFields DEF FilesInv
<1>4. QED
  BY <1>1, <1>2, <1>3

(* Any other gets its final name, and is added to what may be pruned.      *)
Renamed(f, g, e, F, E, t, c) ==
    /\ FilesInv((F \ {f}) \cup {g}, t + 1, c)
    /\ FinalInv(E \cup {e}, (F \ {f}) \cup {g}, t + 1)
    /\ TotalSize((F \ {f}) \cup {g}) = TotalSize(F)

LEMMA RenamedPart ==
  ASSUME NEW F, NEW t \in Nat, NEW c \in Nat, FilesInv(F, t, c),
         NEW E, FinalInv(E, F, t), NEW f \in F, f.part,
         \A h \in F : h.dir = f.dir /\ h # f => h.id < f.id,
         NEW g \in LogFile, g.dir = f.dir, ~g.part, g.size = f.size,
         g.sequence = f.sequence, g.mtime = f.mtime, g.id = f.id,
         NEW e \in Kept, e.id = f.id, e.size = f.size, e.at = t
  PROVE  Renamed(f, g, e, F, E, t, c)
<1> DEFINE G == (F \ {f}) \cup {g}
<1>1. /\ f \in LogFile /\ f.mtime < t /\ f.id <= c
      /\ f.mtime \in Nat /\ f.id \in Nat \ {0} /\ f.size \in Nat
  BY LogFields DEF FilesInv
<1>2. /\ g \in LogFile /\ g.dir = f.dir /\ ~g.part /\ g.size = f.size
      /\ g.sequence = f.sequence /\ g.mtime = f.mtime /\ g.id = f.id
  OBVIOUS
<1>3. g \notin F
  <2>1. g # f
    BY <1>2
  <2>2. \A h \in F : h.id = f.id => h = f
    BY DEF FilesInv
  <2>3. QED
    BY <1>2, <2>1, <2>2
<1>4. IsFiniteSet(F) /\ \A h \in F : h.size \in Nat
  BY LogFields DEF FilesInv
<1>5. TotalSize(G) = TotalSize(F) /\ IsFiniteSet(G)
  <2>1. TotalSize(G) = TotalSize(F) - f.size + g.size /\ IsFiniteSet(G)
    BY <1>1, <1>2, <1>3, <1>4, TotalReplace
  <2>2. TotalSize(F) \in Nat
    BY <1>4, TotalType
  <2>3. QED
    BY <1>1, <1>2, <2>1, <2>2
<1>6. FilesInv(G, t + 1, c)
  <2>1. G \in SUBSET LogFile
    BY <1>2 DEF FilesInv
  <2>2. \A h \in G : h.mtime < t + 1 /\ h.id <= c
    <3>1. \A h \in F : h.mtime < t /\ h.id <= c /\ h.mtime \in Nat
      BY LogFields DEF FilesInv
    <3>2. g.mtime < t + 1 /\ g.id <= c
      BY <1>1, <1>2
    <3>3. QED
      BY <3>1, <3>2
  <2>3. \A h, k \in G : h.id = k.id => h = k
    BY <1>2 DEF FilesInv
  <2>4. \A h, k \in G : h.dir = k.dir /\ h.id < k.id =>
          ~h.part /\ h.sequence < k.sequence /\ h.mtime < k.mtime
    <3> SUFFICES ASSUME NEW h \in G, NEW k \in G, h.dir = k.dir, h.id < k.id
        PROVE  ~h.part /\ h.sequence < k.sequence /\ h.mtime < k.mtime
      OBVIOUS
    <3>1. CASE h \in F \ {f} /\ k \in F \ {f}
      BY <3>1 DEF FilesInv
    <3>2. CASE h \in F \ {f} /\ k = g
      BY <1>2, <3>2 DEF FilesInv
    <3>3. CASE h = g /\ k \in F \ {f}
      <4>1. k.id < f.id /\ f.id < k.id /\ k.id \in Nat
        BY <1>2, <3>3, LogFields
      <4>2. QED
        BY <1>1, <4>1
    <3>4. CASE h = g /\ k = g
      BY <1>1, <1>2, <3>4
    <3>5. QED
      BY <3>1, <3>2, <3>3, <3>4
  <2>5. QED
    BY <1>5, <2>1, <2>2, <2>3, <2>4 DEF FilesInv
<1>7. FinalInv(E \cup {e}, G, t + 1)
  <2>1. e \in Kept /\ e.id = f.id /\ e.size = f.size /\ e.at = t
    OBVIOUS
  <2>2. \A d \in E : d.id # f.id /\ d.at \in Nat /\ d \in Kept
    <3> SUFFICES ASSUME NEW d \in E PROVE d.id # f.id /\ d.at \in Nat /\ d \in Kept
      OBVIOUS
    <3>1. PICK h \in F : h.id = d.id /\ ~h.part
      BY DEF FinalInv
    <3>2. h # f
      BY <3>1
    <3>3. QED
      BY <3>1, <3>2 DEF FilesInv, FinalInv, Kept
  <2>3. E \cup {e} \in SUBSET Kept
    BY <2>1, <2>2
  <2>4. ASSUME NEW d \in E \cup {e}
        PROVE  /\ d.at < t + 1
               /\ \E h \in G : h.id = d.id /\ ~h.part /\ h.size = d.size /\ h.mtime <= d.at
    <3>1. CASE d = e
      BY <1>1, <1>2, <2>1, <3>1
    <3>2. CASE d \in E
      <4>1. PICK h \in F : h.id = d.id /\ ~h.part /\ h.size = d.size /\ h.mtime <= d.at
        BY <3>2 DEF FinalInv
      <4>2. h \in G /\ d.at < t
        BY <3>2, <4>1 DEF FinalInv
      <4>3. QED
        BY <2>2, <3>2, <4>1, <4>2
    <3>3. QED
      BY <3>1, <3>2
  <2>5. \A d, k \in E \cup {e} : d.id = k.id => d = k
    BY <2>1, <2>2 DEF FinalInv
  <2>6. \A h \in G : ~h.part => \E d \in E \cup {e} : d.id = h.id
    BY <1>2, <2>1 DEF FinalInv
  <2>7. ASSUME NEW d \in E \cup {e}, NEW h \in G, NEW k \in G,
               d.id = h.id, h.dir = k.dir, h.id < k.id
        PROVE  d.at < k.mtime
    <3>1. CASE h = g
      <4>1. k # g /\ k \in F \ {f}
        BY <1>1, <1>2, <2>7, <3>1
      <4>2. k.id < f.id /\ f.id < k.id /\ k.id \in Nat
        BY <1>2, <2>7, <3>1, <4>1, LogFields
      <4>3. QED
        BY <1>1, <4>2
    <3>2. CASE h \in F \ {f}
      <4>1. h.id # f.id
        BY <3>2 DEF FilesInv
      <4>2. d \in E
        BY <2>1, <2>7, <4>1
      <4>3. CASE k = g
        BY <1>2, <2>7, <3>2, <4>2, <4>3 DEF FinalInv
      <4>4. CASE k \in F \ {f}
        BY <2>7, <3>2, <4>2, <4>4 DEF FinalInv
      <4>5. QED
        BY <4>3, <4>4
    <3>3. QED
      BY <3>1, <3>2
  <2>8. QED
    BY <2>3, <2>4, <2>5, <2>6, <2>7 DEF FinalInv
<1>8. QED
  BY <1>2, <1>5, <1>6, <1>7 DEF Renamed

\* What finish(writer) leaves of the invariant, whoever calls it.
LogFinished(s) ==
    /\ FilesInv(files', now', created) /\ now' \in Nat
    /\ FinalInv(finalized', files', now')
    /\ TotalSize(files') = TotalSize(files)
    /\ WritersInv(writers', files', runDir)
    /\ OpenParts(writers, files, runDir) => OpenParts(writers', files', runDir)
    /\ PrunedInv(files, pruned, created) => PrunedInv(files', pruned, created)
    /\ \A g \in files' : \E f \in files : g.size = f.size
    /\ ~writers'[s].open
    /\ \A q \in Streams \ {s} : writers'[q] = writers[q]

LEMMA FinishStep ==
  ASSUME FilesInv(files, now, created), FinalInv(finalized, files, now),
         WritersInv(writers, files, runDir), now \in Nat, created \in Nat,
         NEW s \in Streams, writers[s].open, Logs!Finish(s)
  PROVE  LogFinished(s)
<1> DEFINE f == Logs!PartOf(s)
           g == [f EXCEPT !.part = FALSE]
           e == [id |-> f.id, size |-> f.size, at |-> now]
<1>1. /\ f \in files /\ f.dir = <<runDir, s>> /\ f.part
      /\ f.sequence = writers[s].sequence /\ f.size = writers[s].size
      /\ \A h \in files : h.dir = f.dir /\ h # f => h.id < f.id
  BY PartOfWriter
<1>2. /\ writers' = [writers EXCEPT ![s].open = FALSE, ![s].size = 0]
      /\ now' = now + 1
      /\ \/ f.size = 0 /\ files' = files \ {f} /\ finalized' = finalized
         \/ /\ files' = (files \ {f}) \cup {g}
            /\ finalized' = finalized \cup {e}
  BY DEF Logs!Finish
<1> HIDE DEF f
<1>3. /\ writers' \in [Streams -> Writer]
      /\ ~writers'[s].open /\ writers'[s].sequence = writers[s].sequence
      /\ \A q \in Streams \ {s} : writers'[q] = writers[q]
  BY <1>2 DEF WritersInv, Writer
<1>4. /\ g \in LogFile /\ g.dir = f.dir /\ ~g.part /\ g.size = f.size
      /\ g.sequence = f.sequence /\ g.mtime = f.mtime /\ g.id = f.id
      /\ e \in Kept /\ e.id = f.id /\ e.size = f.size /\ e.at = now
  BY <1>1 DEF FilesInv, LogFile, Kept
<1> HIDE DEF g, e
<1>5. /\ FilesInv(files', now', created) /\ FinalInv(finalized', files', now')
      /\ TotalSize(files') = TotalSize(files)
  <2>1. CASE f.size = 0 /\ files' = files \ {f} /\ finalized' = finalized
    <3>1. /\ FilesInv(files \ {f}, now + 1, created)
          /\ FinalInv(finalized, files \ {f}, now + 1)
          /\ TotalSize(files \ {f}) = TotalSize(files) - f.size
      BY <1>1, RemovedPart
    <3>2. TotalSize(files) \in Nat
      BY TotalType, LogFields DEF FilesInv
    <3>3. QED
      BY <1>2, <2>1, <3>1, <3>2
  <2>2. CASE files' = (files \ {f}) \cup {g} /\ finalized' = finalized \cup {e}
    <3>1. /\ FilesInv((files \ {f}) \cup {g}, now + 1, created)
          /\ FinalInv(finalized \cup {e}, (files \ {f}) \cup {g}, now + 1)
          /\ TotalSize((files \ {f}) \cup {g}) = TotalSize(files)
      <4>1. Renamed(f, g, e, files, finalized, now, created)
        BY <1>1, <1>4, RenamedPart
      <4>2. QED
        BY <4>1 DEF Renamed
    <3>2. QED
      BY <1>2, <2>2, <3>1
  <2>3. QED
    BY <1>2, <2>1, <2>2
<1>6. \A h \in files' : h \in files \ {f} \/ h = g
  BY <1>2
<1>7. \A h \in files \ {f} : h \in files'
  BY <1>2
<1>8. WritersInv(writers', files', runDir)
  <2>1. ASSUME NEW q \in Streams, writers'[q].open
        PROVE  \E h \in files' : /\ h.dir = <<runDir, q>> /\ h.part
                                 /\ h.sequence = writers'[q].sequence
                                 /\ h.size = writers'[q].size
    <3>1. q # s /\ writers'[q] = writers[q]
      BY <1>3, <2>1
    <3>2. PICK h \in files : /\ h.dir = <<runDir, q>> /\ h.part
                             /\ h.sequence = writers[q].sequence
                             /\ h.size = writers[q].size
      BY <2>1, <3>1 DEF WritersInv
    <3>3. h # f
      BY <1>1, <3>1, <3>2
    <3>4. QED
      BY <1>7, <3>1, <3>2, <3>3
  <2>2. ASSUME NEW q \in Streams, NEW h \in files', h.dir = <<runDir, q>>,
               writers'[q].sequence > 0
        PROVE  h.sequence <= writers'[q].sequence
    <3>1. writers'[q].sequence = writers[q].sequence
      BY <1>3
    <3>2. CASE h \in files \ {f}
      BY <2>2, <3>1, <3>2 DEF WritersInv
    <3>3. CASE h = g
      <4>1. f.dir = <<runDir, q>> /\ h.sequence = f.sequence
        BY <1>4, <2>2, <3>3
      <4>2. QED
        BY <1>1, <2>2, <3>1, <4>1 DEF WritersInv
    <3>4. QED
      BY <1>6, <3>2, <3>3
  <2>3. QED
    BY <1>3, <2>1, <2>2 DEF WritersInv
<1>9. ASSUME OpenParts(writers, files, runDir) PROVE OpenParts(writers', files', runDir)
  <2> SUFFICES ASSUME NEW h \in files', h.part
      PROVE  \E q \in Streams : /\ h.dir = <<runDir, q>> /\ writers'[q].open
                                /\ h.sequence = writers'[q].sequence
    BY DEF OpenParts
  <2>1. h \in files \ {f}
    BY <1>4, <1>6
  <2>2. PICK q \in Streams : /\ h.dir = <<runDir, q>> /\ writers[q].open
                             /\ h.sequence = writers[q].sequence
    BY <1>9, <2>1 DEF OpenParts
  <2>3. q # s
    <3> SUFFICES ASSUME q = s PROVE FALSE
      OBVIOUS
    <3>1. h.id < f.id /\ h.dir = f.dir
      BY <1>1, <2>1, <2>2
    <3>2. QED
      BY <1>1, <2>1, <3>1 DEF FilesInv
  <2>4. QED
    BY <1>3, <2>2, <2>3
<1>10. ASSUME PrunedInv(files, pruned, created) PROVE PrunedInv(files', pruned, created)
  BY <1>1, <1>4, <1>6, <1>10 DEF PrunedInv
<1>11. \A h \in files' : \E k \in files : h.size = k.size
  BY <1>1, <1>4, <1>6
<1>12. now' \in Nat
  BY <1>2
<1>13. QED
  BY <1>3, <1>5, <1>8, <1>9, <1>10, <1>11, <1>12 DEF LogFinished

-----------------------------------------------------------------------------
(* What scan, prune, open and Write make of the directories.               *)

(* scan counts the .log files by their last write.                         *)
LEMMA ScannedFiles ==
  ASSUME NEW F, NEW t \in Nat, NEW c \in Nat, FilesInv(F, t, c),
         NEW G, G = {f \in F : ~f.part},
         NEW E, E = {[id |-> f.id, size |-> f.size, at |-> f.mtime] : f \in G}
  PROVE  FilesInv(G, t, c) /\ FinalInv(E, G, t)
<1>1. G \subseteq F /\ \A f \in G : ~f.part
  OBVIOUS
<1>2. FilesInv(G, t, c)
  BY <1>1, FewerLogs
<1>3. \A f \in G : /\ f.mtime \in Nat /\ f.id \in Nat \ {0} /\ f.size \in Nat
                   /\ f.mtime < t
  BY <1>2, LogFields DEF FilesInv
<1>4. \A e \in E : \E f \in G : e.id = f.id /\ e.size = f.size /\ e.at = f.mtime
  OBVIOUS
<1>5. \A f \in G : \E e \in E : e.id = f.id
  <2> SUFFICES ASSUME NEW f \in G PROVE \E e \in E : e.id = f.id
    OBVIOUS
  <2>1. [id |-> f.id, size |-> f.size, at |-> f.mtime] \in E
    OBVIOUS
  <2>2. QED
    BY <2>1
<1>6. E \in SUBSET Kept
  BY <1>3 DEF Kept
<1>7. \A d, e \in E : d.id = e.id => d = e
  <2> SUFFICES ASSUME NEW d \in E, NEW e \in E, d.id = e.id PROVE d = e
    OBVIOUS
  <2>1. PICK f \in G : d = [id |-> f.id, size |-> f.size, at |-> f.mtime]
    OBVIOUS
  <2>2. PICK g \in G : e = [id |-> g.id, size |-> g.size, at |-> g.mtime]
    OBVIOUS
  <2>3. f.id = g.id
    BY <2>1, <2>2
  <2>4. f = g
    BY <1>2, <2>3 DEF FilesInv
  <2>5. QED
    BY <2>1, <2>2, <2>4
<1>8. ASSUME NEW e \in E
      PROVE  /\ e.at < t
             /\ \E f \in G : f.id = e.id /\ ~f.part /\ f.size = e.size /\ f.mtime <= e.at
  <2>1. PICK f \in G : e.id = f.id /\ e.size = f.size /\ e.at = f.mtime
    BY <1>4
  <2>2. ~f.part /\ f.mtime \in Nat /\ f.mtime < t
    BY <1>1, <1>3
  <2>3. QED
    BY <2>1, <2>2
<1>9. ASSUME NEW e \in E, NEW f \in G, NEW g \in G, e.id = f.id, f.dir = g.dir, f.id < g.id
      PROVE  e.at < g.mtime
  <2>1. PICK h \in G : e.id = h.id /\ e.at = h.mtime
    BY <1>4
  <2>2. h = f
    BY <1>2, <1>9, <2>1 DEF FilesInv
  <2>3. f.mtime < g.mtime
    BY <1>2, <1>9 DEF FilesInv
  <2>4. QED
    BY <2>1, <2>2, <2>3
<1>10. QED
  BY <1>2, <1>5, <1>6, <1>7, <1>8, <1>9 DEF FinalInv

(* prune deletes the file of a segment.                                    *)
Deleted(h, e, F, G, E, t, c) ==
    /\ h.id = e.id /\ ~h.part /\ h.size = e.size /\ h.mtime <= e.at
    /\ G = F \ {h} /\ FilesInv(G, t, c) /\ FinalInv(E \ {e}, G, t)
    /\ TotalSize(G) = TotalSize(F) - e.size

LEMMA DeletedFile ==
  ASSUME NEW F, NEW t \in Nat, NEW c \in Nat, FilesInv(F, t, c),
         NEW E, FinalInv(E, F, t), NEW e \in E,
         NEW G, G = {f \in F : f.id # e.id}
  PROVE  \E h \in F : Deleted(h, e, F, G, E, t, c)
<1>1. PICK h \in F : h.id = e.id /\ ~h.part /\ h.size = e.size /\ h.mtime <= e.at
  BY DEF FinalInv
<1>2. G = F \ {h}
  BY <1>1 DEF FilesInv
<1>3. FilesInv(G, t, c)
  BY <1>2, FewerLogs
<1>4. FinalInv(E \ {e}, G, t)
  <2>1. \A d \in E \ {e} : d.id # e.id
    BY DEF FinalInv
  <2>2. \A f \in G : f \in F /\ f.id # e.id
    OBVIOUS
  <2>3. \A f \in F : f.id # e.id => f \in G
    OBVIOUS
  <2>4. E \ {e} \in SUBSET Kept
    BY DEF FinalInv
  <2>5. \A d \in E \ {e} : /\ d.at < t
                           /\ \E f \in G : /\ f.id = d.id /\ ~f.part /\ f.size = d.size
                                           /\ f.mtime <= d.at
    <3> SUFFICES ASSUME NEW d \in E \ {e}
        PROVE  /\ d.at < t
               /\ \E f \in G : /\ f.id = d.id /\ ~f.part /\ f.size = d.size
                               /\ f.mtime <= d.at
      OBVIOUS
    <3>1. PICK f \in F : f.id = d.id /\ ~f.part /\ f.size = d.size /\ f.mtime <= d.at
      BY DEF FinalInv
    <3>2. f \in G
      BY <2>1, <2>3, <3>1
    <3>3. QED
      BY <3>1, <3>2 DEF FinalInv
  <2>6. \A f \in G : ~f.part => \E d \in E \ {e} : d.id = f.id
    BY <2>2 DEF FinalInv
  <2>7. QED
    BY <2>2, <2>4, <2>5, <2>6 DEF FinalInv
<1>5. TotalSize(G) = TotalSize(F) - e.size
  BY <1>1, <1>2, TotalRemove, LogFields DEF FilesInv
<1>6. QED
  BY <1>1, <1>2, <1>3, <1>4, <1>5 DEF Deleted

(* open creates the newest file of a directory without a .part file.       *)
LEMMA OpenedFile ==
  ASSUME NEW F, NEW t \in Nat, NEW c \in Nat, FilesInv(F, t, c),
         NEW E, FinalInv(E, F, t), NEW f \in LogFile, f.part, f.size = 0, f.mtime = t,
         f.id = c + 1,
         \A h \in F : h.dir = f.dir => ~h.part /\ h.sequence < f.sequence
  PROVE  /\ FilesInv(F \cup {f}, t + 1, c + 1) /\ FinalInv(E, F \cup {f}, t + 1)
         /\ TotalSize(F \cup {f}) = TotalSize(F) /\ f \notin F
<1>1. \A h \in F : h.mtime < t /\ h.id <= c /\ h.mtime \in Nat /\ h.id \in Nat
  BY LogFields DEF FilesInv
<1>2. f \notin F
  BY <1>1
<1>3. IsFiniteSet(F \cup {f})
  BY FS_AddElement DEF FilesInv
<1>4. FilesInv(F \cup {f}, t + 1, c + 1)
  <2>1. \A h \in F \cup {f} : h.mtime < t + 1 /\ h.id <= c + 1
    BY <1>1
  <2>2. \A h, k \in F \cup {f} : h.id = k.id => h = k
    BY <1>1 DEF FilesInv
  <2>3. \A h, k \in F \cup {f} : h.dir = k.dir /\ h.id < k.id =>
          ~h.part /\ h.sequence < k.sequence /\ h.mtime < k.mtime
    <3> SUFFICES ASSUME NEW h \in F \cup {f}, NEW k \in F \cup {f},
                        h.dir = k.dir, h.id < k.id
        PROVE  ~h.part /\ h.sequence < k.sequence /\ h.mtime < k.mtime
      OBVIOUS
    <3>1. h # f
      <4> SUFFICES ASSUME h = f PROVE FALSE
        OBVIOUS
      <4>1. k.id <= c + 1 /\ k.id \in Nat
        BY <1>1
      <4>2. QED
        BY <4>1
    <3>2. CASE k = f
      BY <1>1, <3>1, <3>2
    <3>3. CASE k \in F
      BY <3>1, <3>3 DEF FilesInv
    <3>4. QED
      BY <3>2, <3>3
  <2>4. QED
    BY <1>3, <2>1, <2>2, <2>3 DEF FilesInv
<1>5. FinalInv(E, F \cup {f}, t + 1)
  <2>1. \A e \in E : e.id <= c /\ e.at < t /\ e.at \in Nat /\ e.id \in Nat
    BY <1>1 DEF FinalInv, Kept
  <2>2. \A e \in E : e.at < t + 1
    BY <2>1
  <2>3. \A e \in E : e.id # f.id
    BY <2>1
  <2>4. QED
    BY <1>1, <2>1, <2>2, <2>3 DEF FinalInv
<1>6. TotalSize(F \cup {f}) = TotalSize(F)
  <2>1. TotalSize(F \cup {f}) = TotalSize(F) + 0
    <3>1. IsFiniteSet(F) /\ \A h \in F \cup {f} : h.size \in Nat
      <4>1. \A h \in F : h.size \in Nat
        BY LogFields
      <4>2. f.size \in Nat
        OBVIOUS
      <4>3. QED
        BY <4>1, <4>2 DEF FilesInv
    <3>2. QED
      BY <1>2, <3>1, TotalAdd
  <2>2. TotalSize(F) \in Nat
    BY TotalType, LogFields DEF FilesInv
  <2>3. QED
    BY <2>1, <2>2
<1>7. QED
  BY <1>2, <1>4, <1>5, <1>6

(* A line is appended to the .part file of a directory.                    *)
LEMMA WrittenFile ==
  ASSUME NEW F, NEW t \in Nat, NEW c \in Nat, FilesInv(F, t, c),
         NEW E, FinalInv(E, F, t), NEW f \in F, f.part,
         \A h \in F : h.dir = f.dir /\ h # f => h.id < f.id,
         NEW n \in Nat,
         NEW g \in LogFile, g.dir = f.dir, g.part, g.size = f.size + n,
         g.sequence = f.sequence, g.mtime = t, g.id = f.id
  PROVE  /\ FilesInv((F \ {f}) \cup {g}, t + 1, c)
         /\ FinalInv(E, (F \ {f}) \cup {g}, t + 1)
         /\ TotalSize((F \ {f}) \cup {g}) = TotalSize(F) + n
<1> DEFINE G == (F \ {f}) \cup {g}
<1>1. \A h \in F : h.mtime < t /\ h.id <= c /\ h.mtime \in Nat /\ h.id \in Nat /\ h.size \in Nat
  BY LogFields DEF FilesInv
<1>2. g \notin F
  BY <1>1
<1>3. TotalSize(G) = TotalSize(F) + n /\ IsFiniteSet(G)
  <2>1. TotalSize(G) = TotalSize(F) - f.size + g.size /\ IsFiniteSet(G)
    BY <1>1, <1>2, TotalReplace DEF FilesInv
  <2>2. TotalSize(F) \in Nat
    BY <1>1, TotalType DEF FilesInv
  <2>3. f.size \in Nat
    BY <1>1
  <2>4. QED
    BY <2>1, <2>2, <2>3
<1>4. FilesInv(G, t + 1, c)
  <2>1. G \in SUBSET LogFile
    BY DEF FilesInv
  <2>2. \A h \in G : h.mtime < t + 1 /\ h.id <= c
    <3>1. g.mtime < t + 1 /\ g.id <= c
      BY <1>1
    <3>2. QED
      BY <1>1, <3>1
  <2>3. \A h, k \in G : h.id = k.id => h = k
    BY DEF FilesInv
  <2>4. \A h, k \in G : h.dir = k.dir /\ h.id < k.id =>
          ~h.part /\ h.sequence < k.sequence /\ h.mtime < k.mtime
    <3> SUFFICES ASSUME NEW h \in G, NEW k \in G, h.dir = k.dir, h.id < k.id
        PROVE  ~h.part /\ h.sequence < k.sequence /\ h.mtime < k.mtime
      OBVIOUS
    <3>1. CASE h \in F \ {f} /\ k \in F \ {f}
      BY <3>1 DEF FilesInv
    <3>2. CASE h \in F \ {f} /\ k = g
      <4>1. h.dir = f.dir /\ h.id < f.id /\ h.mtime < t
        BY <1>1, <3>2
      <4>2. QED
        BY <3>2, <4>1 DEF FilesInv
    <3>3. CASE h = g /\ k \in F \ {f}
      <4>1. k.id < f.id /\ f.id < k.id /\ k.id \in Nat /\ f.id \in Nat
        BY <1>1, <3>3
      <4>2. QED
        BY <4>1
    <3>4. CASE h = g /\ k = g
      BY <1>1, <3>4
    <3>5. QED
      BY <3>1, <3>2, <3>3, <3>4
  <2>5. QED
    BY <1>3, <2>1, <2>2, <2>3, <2>4 DEF FilesInv
<1>5. FinalInv(E, G, t + 1)
  <2>1. \A d \in E : d.id # f.id /\ d.at \in Nat /\ d.at < t
    <3> SUFFICES ASSUME NEW d \in E PROVE d.id # f.id /\ d.at \in Nat /\ d.at < t
      OBVIOUS
    <3>1. PICK h \in F : h.id = d.id /\ ~h.part
      BY DEF FinalInv
    <3>2. h # f
      BY <3>1
    <3>3. QED
      BY <3>1, <3>2 DEF FilesInv, FinalInv, Kept
  <2>2. \A d \in E : /\ d.at < t + 1
                     /\ \E h \in G : h.id = d.id /\ ~h.part /\ h.size = d.size /\ h.mtime <= d.at
    <3> SUFFICES ASSUME NEW d \in E
        PROVE  /\ d.at < t + 1
               /\ \E h \in G : h.id = d.id /\ ~h.part /\ h.size = d.size /\ h.mtime <= d.at
      OBVIOUS
    <3>1. PICK h \in F : h.id = d.id /\ ~h.part /\ h.size = d.size /\ h.mtime <= d.at
      BY DEF FinalInv
    <3>2. h \in G
      BY <3>1
    <3>3. d.at < t + 1
      BY <2>1
    <3>4. QED
      BY <3>1, <3>2, <3>3
  <2>3. \A h \in G : ~h.part => \E d \in E : d.id = h.id
    BY DEF FinalInv
  <2>4. ASSUME NEW d \in E, NEW h \in G, NEW k \in G, d.id = h.id, h.dir = k.dir, h.id < k.id
        PROVE  d.at < k.mtime
    <3>1. h \in F
      BY <2>1, <2>4
    <3>2. CASE k = g
      BY <2>1, <3>2
    <3>3. CASE k \in F
      BY <2>4, <3>1, <3>3 DEF FinalInv
    <3>4. QED
      BY <3>2, <3>3
  <2>5. QED
    BY <2>2, <2>3, <2>4 DEF FinalInv
<1>6. QED
  BY <1>3, <1>4, <1>5

-----------------------------------------------------------------------------
(* The steps of the log recorder.                                          *)

LEMMA LogStart == Logs!Init => LogInv
<1> SUFFICES ASSUME Logs!Init PROVE LogInv
  OBVIOUS
<1> USE LogAssumption DEF Logs!Init
<1>1. IsFiniteSet({}) /\ TotalSize({}) = 0
  BY FS_EmptySet, TotalNone
<1>2. LogControl
  BY DEF LogControl, Logs!NoLine
<1>3. FilesInv(files, now, created)
  BY <1>1 DEF FilesInv
<1>4. PrunedInv(files, pruned, created)
  BY DEF PrunedInv
<1>5. WritersInv(writers, files, runDir)
  BY DEF WritersInv, Writer, Logs!NoWriter
<1>6. LogQuota
  BY DEF LogQuota
<1>7. QED
  BY <1>2, <1>3, <1>4, <1>5, <1>6 DEF LogInv

(* The sizes of the files are natural numbers, and so is their sum.        *)
LEMMA LogNumbers ==
  ASSUME LogInv
  PROVE  /\ \A f \in files : f.size \in Nat
         /\ IsFiniteSet(files) /\ TotalSize(files) \in Nat
         /\ line.size \in Nat /\ now \in Nat /\ created \in Nat
         /\ MaxRetainedSize \in Nat /\ SegmentSize \in Nat /\ SegmentSize <= MaxRetainedSize
<1>1. FilesInv(files, now, created) /\ LogControl
  BY DEF LogInv
<1>2. /\ \A f \in files : f.size \in Nat
      /\ IsFiniteSet(files) /\ TotalSize(files) \in Nat
  BY <1>1, LogFields, TotalType DEF FilesInv
<1>3. line.size \in Nat /\ now \in Nat /\ created \in Nat
  <2>1. line.size \in LineSizes \cup {0} /\ now \in Nat /\ created \in Nat
    BY <1>1 DEF LogControl
  <2>2. LineSizes \subseteq Nat
    BY LogAssumption
  <2>3. PICK n \in LineSizes \cup {0} : line.size = n
    BY <2>1
  <2>4. n \in Nat
    BY <2>2
  <2>5. QED
    BY <2>1, <2>3, <2>4
<1>4. MaxRetainedSize \in Nat /\ SegmentSize \in Nat /\ SegmentSize <= MaxRetainedSize
  BY LogAssumption, SizesAssumption
<1>5. QED
  BY <1>2, <1>3, <1>4

(* Factory.Start: what it finds is in order, and no writer is open.        *)
LEMMA StartStep == LogInv /\ Logs!Start => LogInv'
<1> SUFFICES ASSUME LogInv, Logs!Start PROVE LogInv'
  OBVIOUS
<1> USE DEF LogInv
<1>1. /\ task' = "start" /\ step' = "prune" /\ runDir' \in 1..MaxDirs
      /\ writers' = [s \in Streams |-> Logs!NoWriter]
      /\ UNCHANGED <<line, now, created, pruned>>
  BY DEF Logs!Start
<1> DEFINE G == {f \in files : ~f.part}
           E == {[id |-> f.id, size |-> f.size, at |-> f.mtime] : f \in G}
<1>2. files' = G /\ finalized' = E /\ total' = TotalSize(G)
  BY LogSize DEF Logs!Start, Logs!Scan
<1>3. now \in Nat /\ created \in Nat
  BY DEF LogControl
<1> HIDE DEF LogInv
<1>4. FilesInv(G, now, created) /\ FinalInv(E, G, now)
  <2>1. FilesInv(files, now, created)
    BY DEF LogInv
  <2>2. QED
    BY <1>3, <2>1, ScannedFiles
<1>5. G \subseteq files /\ \A f \in G : ~f.part
  OBVIOUS
<1> HIDE DEF E, G
<1>6. PrunedInv(files', pruned', created')
  BY <1>1, <1>2, <1>5 DEF LogInv, PrunedInv
<1>7. WritersInv(writers', files', runDir')
  BY <1>1 DEF WritersInv, Writer, Logs!NoWriter
<1>8. OpenParts(writers', files', runDir')
  BY <1>2, <1>5 DEF OpenParts
<1>9. TotalSize(G) \in Nat
  BY <1>4, TotalType, LogFields DEF FilesInv
<1>10. LogControl'
  BY <1>1, <1>2, <1>9 DEF LogInv, LogControl
<1>11. LogQuota'
  BY <1>1 DEF LogQuota
<1>12. FilesInv(files', now', created') /\ FinalInv(finalized', files', now')
  BY <1>1, <1>2, <1>4
<1>13. QED
  BY <1>1, <1>2, <1>6, <1>7, <1>8, <1>10, <1>11, <1>12 DEF LogInv

(* Steps that leave the disk and the accounts alone: a line arrives, the   *)
(* recorder begins to close, closes its last segment, or dies.             *)
LEMMA LogQuietStep ==
    /\ LogInv
    /\ \/ \E s \in Streams, n \in LineSizes : Logs!WriteBegin(s, n)
       \/ Logs!CloseBegin \/ Logs!CloseRetain \/ Logs!Crash \/ UNCHANGED logVars
    => LogInv'
<1> SUFFICES ASSUME LogInv,
        \/ \E s \in Streams, n \in LineSizes : Logs!WriteBegin(s, n)
        \/ Logs!CloseBegin \/ Logs!CloseRetain \/ Logs!Crash \/ UNCHANGED logVars
    PROVE  LogInv'
  OBVIOUS
<1>1. /\ files' = files /\ runDir' = runDir /\ now' = now /\ created' = created
      /\ pruned' = pruned
  BY DEF Logs!WriteBegin, Logs!CloseBegin, Logs!CloseRetain, Logs!Crash, logVars, Logs!rest
<1>2. FilesInv(files', now', created') /\ PrunedInv(files', pruned', created')
  BY <1>1 DEF LogInv
<1>3. \/ writers' = writers /\ finalized' = finalized /\ total' = total
         /\ (task' = "none" <=> task = "none")
      \/ writers' = [s \in Streams |-> Logs!NoWriter] /\ task' = "none" /\ total' = 0
         /\ step' = "none" /\ line' = Logs!NoLine
  BY DEF Logs!WriteBegin, Logs!CloseBegin, Logs!CloseRetain, Logs!Crash, logVars,
     LogInv, LogControl
<1>4. WritersInv(writers', files', runDir')
  <2>1. CASE writers' = writers
    BY <1>1, <2>1 DEF LogInv
  <2>2. CASE writers' = [s \in Streams |-> Logs!NoWriter]
    BY <2>2 DEF WritersInv, Writer, Logs!NoWriter
  <2>3. QED
    BY <1>3, <2>1, <2>2
<1>5. task' # "none" => FinalInv(finalized', files', now') /\ total' = TotalSize(files')
  BY <1>1, <1>3 DEF LogInv
<1>6. task' \in {"start", "idle", "write"} => OpenParts(writers', files', runDir')
  <2>1. CASE \E s \in Streams, n \in LineSizes : Logs!WriteBegin(s, n)
    BY <1>1, <2>1 DEF LogInv, Logs!WriteBegin
  <2>2. CASE Logs!CloseBegin \/ Logs!CloseRetain \/ Logs!Crash
    BY <2>2 DEF Logs!CloseBegin, Logs!CloseRetain, Logs!Crash
  <2>3. CASE UNCHANGED logVars
    BY <1>1, <2>3 DEF LogInv, logVars
  <2>4. QED
    BY <2>1, <2>2, <2>3
<1>7. LogControl' /\ LogQuota'
  <2>1. ASSUME NEW s \in Streams, NEW n \in LineSizes, Logs!WriteBegin(s, n)
        PROVE  LogControl' /\ LogQuota'
    <3>1. /\ task = "idle" /\ task' = "write" /\ line' = [stream |-> s, size |-> n]
          /\ writers' = writers /\ total' = total
          /\ \/ step' = "rotate" /\ writers[s].open
             \/ step' = "prune"
      BY <2>1 DEF Logs!WriteBegin
    <3>2. LogControl'
      BY <1>1, <3>1 DEF LogInv, LogControl
    <3>3. TotalSize(files) <= MaxRetainedSize
      BY <3>1 DEF LogInv, LogQuota, LogControl
    <3>4. LogQuota'
      BY <1>1, <3>1, <3>3 DEF LogQuota
    <3>5. QED
      BY <3>2, <3>4
  <2>2. CASE Logs!CloseBegin
    BY <1>1, <2>2, LogAssumption DEF Logs!CloseBegin, LogInv, LogControl, LogQuota, Logs!NoLine
  <2>3. CASE Logs!CloseRetain
    BY <1>1, <2>3 DEF Logs!CloseRetain, LogInv, LogControl, LogQuota
  <2>4. CASE Logs!Crash
    BY <1>1, <2>4, LogAssumption DEF Logs!Crash, LogInv, LogControl, LogQuota, Logs!NoLine
  <2>5. CASE UNCHANGED logVars
    BY <1>1, <2>5 DEF logVars, LogInv, LogControl, LogQuota, Lone
  <2>6. QED
    BY <2>1, <2>2, <2>3, <2>4, <2>5
<1>8. QED
  BY <1>2, <1>4, <1>5, <1>6, <1>7 DEF LogInv

(* finish, for a line that would overrun the segment, for a full segment,  *)
(* for the prune loop, and for each open segment when the recorder closes. *)
LEMMA FinishSteps ==
    /\ LogInv
    /\ \/ Logs!Rotate \/ Logs!FinishFull \/ Logs!PruneFinish
       \/ \E s \in Streams : Logs!CloseFinish(s)
    => LogInv'
<1> SUFFICES ASSUME LogInv,
        \/ Logs!Rotate \/ Logs!FinishFull \/ Logs!PruneFinish
        \/ \E s \in Streams : Logs!CloseFinish(s)
    PROVE  LogInv'
  OBVIOUS
<1>1. /\ FilesInv(files, now, created) /\ PrunedInv(files, pruned, created)
      /\ WritersInv(writers, files, runDir) /\ LogControl /\ LogQuota
      /\ now \in Nat /\ created \in Nat
  BY DEF LogInv, LogControl
<1>2. /\ task # "none" /\ task' = task /\ line' = line /\ total' = total
      /\ runDir' = runDir /\ created' = created /\ pruned' = pruned
      /\ line.stream \in Streams
  BY <1>1 DEF Logs!Rotate, Logs!FinishFull, Logs!PruneFinish, Logs!CloseFinish, Logs!rest,
     LogControl, Logs!Pruning
<1>3. FinalInv(finalized, files, now) /\ total = TotalSize(files)
  BY <1>2 DEF LogInv
<1>4. ASSUME NEW s \in Streams, writers[s].open, Logs!Finish(s),
             \/ task = "write" /\ step = "rotate" /\ step' = "prune"
             \/ task = "write" /\ step = "finish" /\ step' = "retain"
             \/ step \in {"prune", "retain"} /\ step' = step
             \/ task = "close" /\ step' = step
      PROVE  LogInv'
  <2>1. LogFinished(s)
    BY <1>1, <1>3, <1>4, FinishStep
  <2>2. /\ FilesInv(files', now', created') /\ PrunedInv(files', pruned', created')
        /\ FinalInv(finalized', files', now')
        /\ WritersInv(writers', files', runDir')
        /\ TotalSize(files') = TotalSize(files)
        /\ \A g \in files' : \E f \in files : g.size = f.size
        /\ now' \in Nat
    BY <1>1, <1>2, <2>1 DEF LogFinished
  <2>3. task' \in {"start", "idle", "write"} => OpenParts(writers', files', runDir')
    BY <1>2, <2>1 DEF LogInv, LogFinished
  <2>4. LogControl'
    BY <1>1, <1>2, <1>4, <2>2 DEF LogControl
  <2>5. Lone => Lone'
    BY <1>2, <2>2 DEF Lone
  <2>6. LogQuota'
    BY <1>1, <1>2, <1>4, <2>2, <2>5 DEF LogQuota, LogControl
  <2>7. QED
    BY <1>2, <1>3, <2>2, <2>3, <2>4, <2>6 DEF LogInv
<1>5. CASE Logs!Rotate
  <2>1. writers[line.stream].open /\ Logs!Finish(line.stream)
        /\ task = "write" /\ step = "rotate" /\ step' = "prune"
    BY <1>1, <1>5 DEF Logs!Rotate, LogControl
  <2>2. QED
    BY <1>2, <1>4, <2>1
<1>6. CASE Logs!FinishFull
  <2>1. writers[line.stream].open /\ Logs!Finish(line.stream)
        /\ task = "write" /\ step = "finish" /\ step' = "retain"
    BY <1>1, <1>6 DEF Logs!FinishFull, LogControl
  <2>2. QED
    BY <1>2, <1>4, <2>1
<1>7. CASE Logs!PruneFinish
  <2>1. PICK s \in Streams : writers[s].open /\ Logs!Finish(s)
    BY <1>7 DEF Logs!PruneFinish, Logs!OldestActive, Logs!Active
  <2>2. step \in {"prune", "retain"} /\ step' = step
    BY <1>7 DEF Logs!PruneFinish, Logs!Pruning
  <2>3. QED
    BY <1>4, <2>1, <2>2
<1>8. ASSUME NEW s \in Streams, Logs!CloseFinish(s) PROVE LogInv'
  <2>1. writers[s].open /\ task = "close" /\ step' = step
    BY <1>8 DEF Logs!CloseFinish
  <2>2. CASE Logs!Finish(s)
    BY <1>4, <2>1, <2>2
  <2>3. CASE /\ writers' = [writers EXCEPT ![s].open = FALSE]
             /\ finalized' = finalized /\ files' = files /\ now' = now
    <3>1. /\ writers' \in [Streams -> Writer]
          /\ ~writers'[s].open
          /\ \A q \in Streams : /\ writers'[q].sequence = writers[q].sequence
                                /\ q # s => writers'[q] = writers[q]
      BY <1>1, <2>3 DEF WritersInv, Writer
    <3>2. WritersInv(writers', files', runDir')
      BY <1>1, <1>2, <2>3, <3>1 DEF WritersInv
    <3>3. /\ FilesInv(files', now', created') /\ PrunedInv(files', pruned', created')
          /\ FinalInv(finalized', files', now') /\ total' = TotalSize(files')
      BY <1>1, <1>2, <1>3, <2>3
    <3>4. LogControl' /\ LogQuota'
      BY <1>1, <1>2, <2>1, <2>3 DEF LogControl, LogQuota
    <3>5. task' = "close"
      BY <1>2, <2>1
    <3>6. QED
      BY <3>2, <3>3, <3>4, <3>5 DEF LogInv
  <2>4. QED
    BY <1>8, <2>2, <2>3 DEF Logs!CloseFinish
<1>9. QED
  BY <1>5, <1>6, <1>7, <1>8

(* prune deletes the oldest segment there is: of each directory, what is   *)
(* left is newer than that.                                                *)
LEMMA DeleteStep == LogInv /\ Logs!PruneDelete => LogInv'
<1> SUFFICES ASSUME LogInv, Logs!PruneDelete PROVE LogInv'
  OBVIOUS
<1>1. PICK e \in Logs!OldestFinalized :
        /\ finalized' = finalized \ {e} /\ total' = total - e.size
        /\ files' = {f \in files : f.id # e.id}
        /\ pruned' = [d \in Logs!Dirs |->
                        IF \E f \in files : f.id = e.id /\ f.dir = d
                        THEN Logs!Max({pruned[d], e.id}) ELSE pruned[d]]
  BY DEF Logs!PruneDelete
<1>2. /\ UNCHANGED <<task, step, line, writers, now, runDir, created>>
      /\ step \in {"prune", "retain"}
  BY DEF Logs!PruneDelete, Logs!rest, Logs!Pruning
<1>3. e \in finalized /\ \A d \in finalized : e.at <= d.at
  BY DEF Logs!OldestFinalized
<1>4. /\ FilesInv(files, now, created) /\ PrunedInv(files, pruned, created)
      /\ WritersInv(writers, files, runDir) /\ LogControl /\ LogQuota
      /\ FinalInv(finalized, files, now) /\ total = TotalSize(files)
      /\ now \in Nat /\ created \in Nat
  BY <1>2 DEF LogInv, LogControl
<1> DEFINE G == {f \in files : f.id # e.id}
<1>g. G = {f \in files : f.id # e.id}
  OBVIOUS
<1> HIDE DEF G
<1>5. PICK h \in files : /\ h.id = e.id /\ ~h.part /\ h.size = e.size /\ h.mtime <= e.at
                         /\ G = files \ {h} /\ FilesInv(G, now, created)
                         /\ FinalInv(finalized \ {e}, G, now)
                         /\ TotalSize(G) = TotalSize(files) - e.size
  <2>1. e \in finalized /\ FilesInv(files, now, created) /\ FinalInv(finalized, files, now)
        /\ now \in Nat /\ created \in Nat
    BY <1>3, <1>4
  <2>2. PICK h \in files : Deleted(h, e, files, G, finalized, now, created)
    BY <1>g, <2>1, DeletedFile
  <2>3. QED
    BY <2>2 DEF Deleted
<1>6. files' = G /\ FilesInv(files', now', created') /\ FinalInv(finalized', files', now')
      /\ total' = TotalSize(files')
  BY <1>1, <1>2, <1>4, <1>5, <1>g
<1>7. TotalSize(files) \in Nat /\ TotalSize(files') \in Nat /\ e.size \in Nat
  <2>1. TotalSize(files) \in Nat
    BY LogNumbers
  <2>2. TotalSize(G) \in Nat
    BY <1>5, TotalType, LogFields DEF FilesInv
  <2>3. QED
    BY <1>3, <1>4, <1>6, <2>1, <2>2 DEF FinalInv, Kept
<1>8. WritersInv(writers', files', runDir')
  <2>1. \A f \in files : f.part => f \in files'
    BY <1>5, <1>6
  <2>2. \A f \in files' : f \in files
    BY <1>5, <1>6
  <2>3. QED
    BY <1>2, <1>4, <2>1, <2>2 DEF WritersInv
<1>9. task' \in {"start", "idle", "write"} => OpenParts(writers', files', runDir')
  BY <1>2, <1>5, <1>6 DEF LogInv, OpenParts
<1>10. PrunedInv(files', pruned', created')
  <2>1. /\ h.dir \in Logs!Dirs /\ h.id \in Nat /\ h.id <= created /\ e.id \in Nat
        /\ \A f \in files : f.dir \in Logs!Dirs /\ f.id \in Nat /\ f.mtime \in Nat
    BY <1>4, <1>5, LogFields DEF FilesInv
  <2>2. \A d \in Logs!Dirs : (\E f \in files : f.id = e.id /\ f.dir = d) <=> d = h.dir
    BY <1>4, <1>5 DEF FilesInv
  <2>3. pruned \in [Logs!Dirs -> Nat] /\ \A d \in Logs!Dirs : pruned[d] <= created
    BY <1>4 DEF PrunedInv
  <2>4. \A d \in Logs!Dirs :
          pruned'[d] = IF d = h.dir THEN Max({pruned[d], e.id}) ELSE pruned[d]
    BY <1>1, <2>2, LogMax
  <2>5. Max({pruned[h.dir], e.id}) \in {pruned[h.dir], e.id}
    BY <2>1, <2>3, LargerOfTwo
  <2>6. pruned' \in [Logs!Dirs -> Nat]
    <3>1. \A d \in Logs!Dirs : pruned'[d] \in Nat
      BY <2>1, <2>3, <2>4, <2>5
    <3>2. pruned' = [d \in Logs!Dirs |-> pruned'[d]]
      BY <1>1
    <3>3. QED
      BY <3>1, <3>2
  <2>7. \A d \in Logs!Dirs : pruned'[d] <= created
    BY <1>5, <2>1, <2>3, <2>4, <2>5
  <2>8. ASSUME NEW f \in files' PROVE f.id > pruned'[f.dir]
    <3>1. f \in files /\ f # h /\ f.id > pruned[f.dir] /\ f.dir \in Logs!Dirs
      BY <1>4, <1>5, <1>6, <2>1 DEF PrunedInv
    <3>2. CASE f.dir # h.dir
      BY <2>4, <3>1, <3>2
    <3>3. CASE f.dir = h.dir
      <4>1. f.id > h.id
        <5> SUFFICES ASSUME ~(f.id > h.id) PROVE FALSE
          OBVIOUS
        <5>1. f.id < h.id
          BY <1>4, <2>1, <3>1 DEF FilesInv
        <5>2. ~f.part
          BY <1>4, <3>1, <3>3, <5>1 DEF FilesInv
        <5>3. PICK d \in finalized : d.id = f.id
          BY <1>4, <3>1, <5>2 DEF FinalInv
        <5>4. d.at < h.mtime
          BY <1>4, <3>1, <3>3, <5>1, <5>3 DEF FinalInv
        <5>5. d.at \in Nat /\ e.at \in Nat
          BY <1>3, <1>4, <5>3 DEF FinalInv, Kept
        <5>6. e.at <= d.at /\ h.mtime <= e.at /\ h.mtime \in Nat
          BY <1>3, <1>5, <2>1, <5>3
        <5>7. QED
          BY <5>4, <5>5, <5>6
      <4>2. pruned'[f.dir] \in {pruned[f.dir], h.id}
        BY <1>5, <2>4, <2>5, <3>1, <3>3
      <4>3. QED
        BY <3>1, <4>1, <4>2
    <3>4. QED
      BY <3>2, <3>3
  <2>9. QED
    BY <1>2, <2>6, <2>7, <2>8 DEF PrunedInv
<1>11. LogControl'
  BY <1>2, <1>4, <1>6, <1>7 DEF LogControl
<1>12. LogQuota'
  <2>1. TotalSize(files') = TotalSize(files) - e.size
    BY <1>5, <1>6
  <2>2. TotalSize(files') <= TotalSize(files)
    BY <1>7, <2>1
  <2>3. MaxRetainedSize \in Nat /\ line.size \in Nat
    BY LogNumbers
  <2>4. ASSUME Lone PROVE Lone' \/ TotalSize(files') <= MaxRetainedSize
    <3>1. e.size \in {0, line.size} /\ TotalSize(files) = line.size
      BY <1>5, <2>4 DEF Lone
    <3>2. CASE e.size = 0
      <4>1. TotalSize(files') = line.size
        BY <1>7, <2>1, <3>1, <3>2
      <4>2. \A f \in files' : f.size \in {0, line.size}
        BY <1>5, <1>6, <2>4 DEF Lone
      <4>3. QED
        BY <1>2, <2>4, <4>1, <4>2 DEF Lone
    <3>3. CASE e.size = line.size
      BY <1>7, <2>1, <2>3, <3>1, <3>3
    <3>4. QED
      BY <3>1, <3>2, <3>3
  <2>5. TotalSize(files) <= MaxRetainedSize => TotalSize(files') <= MaxRetainedSize
    BY <1>7, <2>2, <2>3
  <2>6. QED
    BY <1>2, <1>4, <2>4, <2>5 DEF LogQuota
<1>13. QED
  BY <1>2, <1>6, <1>8, <1>9, <1>10, <1>11, <1>12 DEF LogInv

(* The loop ends with room for the line, or with nothing left to delete:   *)
(* then nothing is on the disk.                                            *)
LEMMA DoneStep == LogInv /\ Logs!PruneDone => LogInv'
<1> SUFFICES ASSUME LogInv, Logs!PruneDone PROVE LogInv'
  OBVIOUS
<1>1. /\ UNCHANGED <<writers, finalized, total, files, now, runDir, created, pruned>>
      /\ step \in {"prune", "retain"}
      /\ ~Logs!Over \/ finalized \cup Logs!Active = {}
  BY DEF Logs!PruneDone, Logs!Pruning, Logs!rest
<1>2. /\ FilesInv(files, now, created) /\ PrunedInv(files, pruned, created)
      /\ WritersInv(writers, files, runDir) /\ LogControl /\ LogQuota
      /\ FinalInv(finalized, files, now) /\ total = TotalSize(files)
      /\ task \in {"start", "write", "close"}
  BY <1>1 DEF LogInv, LogControl
<1>3. /\ task = "close" => task' = "none" /\ step' = "none" /\ line' = Logs!NoLine
      /\ task = "start" => task' = "idle" /\ step' = "none" /\ line' = Logs!NoLine
      /\ task = "write" /\ step = "prune" => task' = "write" /\ step' = "open" /\ line' = line
      /\ task = "write" /\ step = "retain" =>
           task' = "idle" /\ step' = "none" /\ line' = Logs!NoLine
  BY <1>1, <1>2 DEF Logs!PruneDone, LogControl
<1>4. LogControl'
  BY <1>1, <1>2, <1>3, LogAssumption DEF LogControl, Logs!NoLine
<1>5. task' \in {"start", "idle", "write"} => OpenParts(writers', files', runDir')
  BY <1>1, <1>2, <1>3 DEF LogInv
<1>6. ASSUME task \in {"start", "write"}, finalized \cup Logs!Active = {}
      PROVE  TotalSize(files) = 0
  <2>1. OpenParts(writers, files, runDir)
    BY <1>6 DEF LogInv
  <2>2. ASSUME NEW f \in files PROVE f.size = 0
    <3>1. f.part
      BY <1>2, <1>6 DEF FinalInv
    <3>2. PICK s \in Streams : /\ f.dir = <<runDir, s>> /\ writers[s].open
                               /\ f.sequence = writers[s].sequence
      BY <2>1, <3>1 DEF OpenParts
    <3>3. ~(writers[s].size > 0)
      BY <1>6, <3>2 DEF Logs!Active
    <3>4. LET p == Logs!PartOf(s) IN
          /\ p \in files /\ p.dir = <<runDir, s>> /\ p.part /\ p.size = writers[s].size
          /\ \A g \in files : g.dir = p.dir /\ g # p => g.id < p.id
      BY <1>2, <3>2, PartOfWriter
    <3>5. PICK p \in files : /\ p.dir = <<runDir, s>> /\ p.size = writers[s].size
                             /\ \A g \in files : g.dir = p.dir /\ g # p => g.id < p.id
      BY <3>4
    <3>6. f = p
      BY <1>2, <3>1, <3>2, <3>5 DEF FilesInv
    <3>7. writers[s].size \in Nat
      BY <1>2 DEF WritersInv, Writer
    <3>8. QED
      BY <3>3, <3>5, <3>6, <3>7
  <2>3. QED
    BY <2>2, LogNumbers, TotalZero
<1>7. /\ TotalSize(files) \in Nat /\ MaxRetainedSize \in Nat /\ line.size \in Nat
  BY LogNumbers
<1>8. ~Logs!Over <=> TotalSize(files) + Logs!Reserve <= MaxRetainedSize
  BY <1>2, <1>7 DEF Logs!Over, Logs!Reserve
<1>9. LogQuota'
  <2>1. CASE task = "write" /\ step = "prune"
    <3>1. \/ TotalSize(files) + line.size <= MaxRetainedSize
          \/ line.size > MaxRetainedSize /\ TotalSize(files) = 0
      <4>1. Logs!Reserve = line.size
        BY <2>1 DEF Logs!Reserve
      <4>2. QED
        BY <1>1, <1>6, <1>7, <1>8, <2>1, <4>1
    <3>2. QED
      BY <1>1, <1>3, <2>1, <3>1 DEF LogQuota
  <2>2. CASE task = "start" \/ (task = "write" /\ step = "retain")
    <3>1. Logs!Reserve = 0
      BY <2>2 DEF Logs!Reserve
    <3>2. TotalSize(files) <= MaxRetainedSize
      BY <1>1, <1>6, <1>7, <1>8, <2>2, <3>1
    <3>3. QED
      BY <1>1, <1>3, <2>2, <3>2 DEF LogQuota
  <2>3. CASE task = "close"
    BY <1>3, <2>3 DEF LogQuota
  <2>4. QED
    BY <1>1, <1>2, <2>1, <2>2, <2>3
<1>10. QED
  BY <1>1, <1>2, <1>4, <1>5, <1>9 DEF LogInv

(* The number of a new segment is larger than that of every file of its    *)
(* directory.                                                              *)
LEMMA NextIsLarger ==
  ASSUME FilesInv(files, now, created), WritersInv(writers, files, runDir),
         OpenParts(writers, files, runDir), NEW s \in Streams, ~writers[s].open
  PROVE  /\ Logs!NextSequence(s) \in Nat \ {0}
         /\ \A h \in files : h.dir = <<runDir, s>> =>
               ~h.part /\ h.sequence < Logs!NextSequence(s)
<1>1. \A h \in files : h.dir = <<runDir, s>> => ~h.part
  BY DEF OpenParts
<1>2. writers[s].sequence \in Nat
  BY DEF WritersInv, Writer
<1>3. \A h \in files : h.sequence \in Nat
  BY LogFields
<1>4. CASE writers[s].sequence > 0
  <2>1. Logs!NextSequence(s) = writers[s].sequence + 1
    BY <1>4 DEF Logs!NextSequence
  <2>2. \A h \in files : h.dir = <<runDir, s>> => h.sequence <= writers[s].sequence
    BY <1>4 DEF WritersInv
  <2>3. QED
    BY <1>1, <1>2, <1>3, <2>1, <2>2
<1>5. CASE ~(writers[s].sequence > 0)
  <2> DEFINE own == {g \in files : g.dir = <<runDir, s>> /\ ~g.part}
             seqs == {f.sequence : f \in own}
             m == [f \in own |-> f.sequence]
  <2>1. IsFiniteSet(own) /\ \A f \in own : f.sequence \in Nat
    BY <1>3, FS_Subset DEF FilesInv
  <2>2. m \in Surjection(own, seqs)
    BY DEF Surjection
  <2>3. IsFiniteSet(seqs)
    BY <2>1, <2>2, FS_Surjection
  <2>4. IsFiniteSet({0} \cup seqs) /\ {0} \cup seqs \subseteq Nat
    <3>1. seqs \subseteq Nat
      BY <2>1
    <3> HIDE DEF seqs
    <3>2. IsFiniteSet(seqs \cup {0})
      BY <2>3, FS_AddElement
    <3>3. {0} \cup seqs = seqs \cup {0}
      OBVIOUS
    <3>4. QED
      BY <3>1, <3>2, <3>3
  <2>5. Logs!NextSequence(s) = Max({0} \cup seqs) + 1
    <3>1. Logs!NextSequence(s) = Logs!Max({0} \cup seqs) + 1
      BY <1>5 DEF Logs!NextSequence, Logs!Dir
    <3>2. QED
      BY <3>1, LogMax
  <2>6. \A h \in files : h.dir = <<runDir, s>> => h.sequence \in seqs
    BY <1>1
  <2> HIDE DEF seqs
  <2>7. \E n \in {0} \cup seqs : \A k \in {0} \cup seqs : k <= n
    BY <2>4, LargestNumber
  <2>8. \E n \in {0} \cup seqs : \A k \in {0} \cup seqs : n >= k
    BY <2>4, <2>7
  <2>9. /\ Max({0} \cup seqs) \in {0} \cup seqs
        /\ \A k \in {0} \cup seqs : Max({0} \cup seqs) >= k
    BY <2>8 DEF Max
  <2>10. Max({0} \cup seqs) \in Nat /\ \A k \in seqs : k \in Nat
    BY <2>4, <2>9
  <2>11. \A k \in seqs : k < Logs!NextSequence(s)
    BY <2>5, <2>9, <2>10
  <2>12. Logs!NextSequence(s) \in Nat \ {0}
    BY <2>5, <2>10
  <2>13. QED
    BY <1>1, <2>6, <2>11, <2>12
<1>6. QED
  BY <1>4, <1>5

(* open gives the writer a segment, if it has none.                        *)
LEMMA OpenStep == LogInv /\ Logs!Open => LogInv'
<1> SUFFICES ASSUME LogInv, Logs!Open PROVE LogInv'
  OBVIOUS
<1> DEFINE s == line.stream
<1>1. /\ UNCHANGED <<task, line, finalized, total, runDir, pruned>>
      /\ task = "write" /\ step = "open" /\ step' = "append"
  BY DEF Logs!Open
<1>2. /\ FilesInv(files, now, created) /\ PrunedInv(files, pruned, created)
      /\ WritersInv(writers, files, runDir) /\ LogControl /\ LogQuota
      /\ FinalInv(finalized, files, now) /\ total = TotalSize(files)
      /\ OpenParts(writers, files, runDir)
      /\ now \in Nat /\ created \in Nat /\ s \in Streams
      /\ runDir \in 1..MaxDirs
  BY <1>1 DEF LogInv, LogControl
<1>3. \/ TotalSize(files) + line.size <= MaxRetainedSize
      \/ line.size > MaxRetainedSize /\ TotalSize(files) = 0
  BY <1>1, <1>2 DEF LogQuota
<1>4. CASE writers[s].open
  <2>1. UNCHANGED <<writers, files, created, now>>
    BY <1>4 DEF Logs!Open
  <2>2. LogControl'
    BY <1>1, <1>2, <1>4, <2>1 DEF LogControl
  <2>3. LogQuota'
    BY <1>1, <1>3, <2>1 DEF LogQuota
  <2>4. QED
    BY <1>1, <1>2, <2>1, <2>2, <2>3 DEF LogInv
<1>5. CASE ~writers[s].open
  <2> DEFINE n == Logs!NextSequence(s)
             f == [dir |-> <<runDir, s>>, part |-> TRUE, size |-> 0, sequence |-> n,
                   mtime |-> now, id |-> created + 1]
             w == [open |-> TRUE, size |-> 0, sequence |-> n, openedAt |-> now]
  <2>1. /\ writers' = [writers EXCEPT ![s] = w] /\ files' = files \cup {f}
        /\ created' = created + 1 /\ now' = now + 1
    BY <1>5 DEF Logs!Open, Logs!Dir
  <2>2. /\ n \in Nat \ {0}
        /\ \A h \in files : h.dir = <<runDir, s>> => ~h.part /\ h.sequence < n
    BY <1>2, <1>5, NextIsLarger
  <2> HIDE DEF n
  <2>3. <<runDir, s>> \in Logs!Dirs
    BY <1>2 DEF Logs!Dirs
  <2>4. /\ f \in LogFile /\ f.dir = <<runDir, s>> /\ f.part /\ f.size = 0
        /\ f.sequence = n /\ f.mtime = now /\ f.id = created + 1
    BY <1>2, <2>2, <2>3 DEF LogFile
  <2>5. w \in Writer /\ w.open /\ w.size = 0 /\ w.sequence = n
    BY <1>2, <2>2 DEF Writer
  <2> HIDE DEF f, w
  <2>6. /\ FilesInv(files \cup {f}, now + 1, created + 1)
        /\ FinalInv(finalized, files \cup {f}, now + 1)
        /\ TotalSize(files \cup {f}) = TotalSize(files)
    <3>1. \A h \in files : h.dir = f.dir => ~h.part /\ h.sequence < f.sequence
      BY <2>2, <2>4
    <3>2. QED
      BY <1>2, <2>4, <3>1, OpenedFile
  <2>7. /\ writers' \in [Streams -> Writer] /\ writers'[s] = w
        /\ \A q \in Streams \ {s} : writers'[q] = writers[q]
    BY <1>2, <2>1, <2>5 DEF WritersInv
  <2>8. WritersInv(writers', files', runDir')
    <3>1. ASSUME NEW q \in Streams, writers'[q].open
          PROVE  \E h \in files' : /\ h.dir = <<runDir, q>> /\ h.part
                                   /\ h.sequence = writers'[q].sequence
                                   /\ h.size = writers'[q].size
      <4>1. CASE q = s
        BY <2>1, <2>4, <2>5, <2>7, <4>1
      <4>2. CASE q # s
        BY <1>2, <2>1, <2>7, <3>1, <4>2 DEF WritersInv
      <4>3. QED
        BY <4>1, <4>2
    <3>2. ASSUME NEW q \in Streams, NEW h \in files', h.dir = <<runDir, q>>,
                 writers'[q].sequence > 0
          PROVE  h.sequence <= writers'[q].sequence
      <4>1. CASE q = s
        <5>1. CASE h = f
          BY <2>2, <2>4, <2>5, <2>7, <4>1, <5>1
        <5>2. CASE h \in files
          <6>1. h.sequence < n /\ h.sequence \in Nat
            BY <1>2, <2>2, <3>2, <4>1, <5>2, LogFields
          <6>2. QED
            BY <2>2, <2>5, <2>7, <4>1, <6>1
        <5>3. QED
          BY <2>1, <5>1, <5>2
      <4>2. CASE q # s
        <5>1. h \in files
          BY <2>1, <2>4, <3>2, <4>2
        <5>2. QED
          BY <1>2, <2>7, <3>2, <4>2, <5>1 DEF WritersInv
      <4>3. QED
        BY <4>1, <4>2
    <3>3. QED
      BY <1>1, <2>7, <3>1, <3>2 DEF WritersInv
  <2>9. OpenParts(writers', files', runDir')
    <3>1. ASSUME NEW h \in files', h.part
          PROVE  \E q \in Streams : /\ h.dir = <<runDir, q>> /\ writers'[q].open
                                    /\ h.sequence = writers'[q].sequence
      <4>1. CASE h = f
        BY <1>2, <2>4, <2>5, <2>7, <4>1
      <4>2. CASE h \in files
        <5>1. PICK q \in Streams : /\ h.dir = <<runDir, q>> /\ writers[q].open
                                   /\ h.sequence = writers[q].sequence
          BY <1>2, <3>1, <4>2 DEF OpenParts
        <5>2. q # s
          BY <1>5, <5>1
        <5>3. QED
          BY <2>7, <5>1, <5>2
      <4>3. QED
        BY <2>1, <4>1, <4>2
    <3>2. QED
      BY <1>1, <3>1 DEF OpenParts
  <2>10. PrunedInv(files', pruned', created')
    <3>1. /\ pruned \in [Logs!Dirs -> Nat] /\ \A d \in Logs!Dirs : pruned[d] <= created
          /\ \A h \in files : h.id > pruned[h.dir]
      BY <1>2 DEF PrunedInv
    <3>2. \A d \in Logs!Dirs : pruned[d] < created + 1 /\ pruned[d] <= created + 1
      BY <1>2, <3>1
    <3>3. f.id > pruned[f.dir]
      BY <2>3, <2>4, <3>1, <3>2
    <3>4. QED
      BY <1>1, <2>1, <3>1, <3>2, <3>3 DEF PrunedInv
  <2>11. LogControl'
    <3>1. now' \in Nat /\ created' \in Nat
      BY <1>2, <2>1
    <3>2. writers'[s].open
      BY <2>5, <2>7
    <3>3. QED
      BY <1>1, <1>2, <3>1, <3>2 DEF LogControl
  <2>12. TotalSize(files') = TotalSize(files)
    BY <2>1, <2>6
  <2>13. LogQuota'
    BY <1>1, <1>3, <2>12 DEF LogQuota
  <2>14. QED
    BY <1>1, <1>2, <2>1, <2>6, <2>8, <2>9, <2>10, <2>11, <2>12, <2>13 DEF LogInv
<1>6. QED
  BY <1>4, <1>5

(* The line goes to the writer's .part file.                               *)
LEMMA AppendStep == LogInv /\ Logs!Append => LogInv'
<1> SUFFICES ASSUME LogInv, Logs!Append PROVE LogInv'
  OBVIOUS
<1> DEFINE s == line.stream
           n == line.size
           f == Logs!PartOf(s)
           g == [f EXCEPT !.size = @ + n, !.mtime = now]
<1>1. /\ UNCHANGED <<finalized, runDir, created, pruned>>
      /\ task = "write" /\ step = "append"
      /\ files' = (files \ {f}) \cup {g}
      /\ writers' = [writers EXCEPT ![s].size = @ + n]
      /\ total' = total + n /\ now' = now + 1
      /\ \/ step' = "finish" /\ UNCHANGED <<task, line>>
         \/ /\ ~(writers[s].size + n >= SegmentSize)
            /\ step' = "none" /\ task' = "idle" /\ line' = Logs!NoLine
  BY DEF Logs!Append, Logs!rest
<1>2. /\ FilesInv(files, now, created) /\ PrunedInv(files, pruned, created)
      /\ WritersInv(writers, files, runDir) /\ LogControl /\ LogQuota
      /\ FinalInv(finalized, files, now) /\ total = TotalSize(files)
      /\ OpenParts(writers, files, runDir)
      /\ now \in Nat /\ created \in Nat /\ s \in Streams
      /\ runDir \in 1..MaxDirs /\ writers[s].open
  BY <1>1 DEF LogInv, LogControl
<1>3. /\ \A h \in files : h.size \in Nat
      /\ IsFiniteSet(files) /\ TotalSize(files) \in Nat /\ n \in Nat
      /\ MaxRetainedSize \in Nat /\ SegmentSize \in Nat /\ SegmentSize <= MaxRetainedSize
  BY LogNumbers
<1>4. /\ f \in files /\ f.dir = <<runDir, s>> /\ f.part
      /\ f.sequence = writers[s].sequence /\ f.size = writers[s].size
      /\ \A h \in files : h.dir = f.dir /\ h # f => h.id < f.id
  BY <1>2, PartOfWriter
<1> HIDE DEF f, n, s
<1>5. /\ g \in LogFile /\ g.dir = f.dir /\ g.part /\ g.size = f.size + n
      /\ g.sequence = f.sequence /\ g.mtime = now /\ g.id = f.id
  <2>1. f \in LogFile
    BY <1>2, <1>4 DEF FilesInv
  <2>2. f.size + n \in Nat
    BY <1>3, <1>4
  <2>3. QED
    BY <1>2, <1>4, <2>1, <2>2 DEF LogFile
<1> HIDE DEF g
<1>6. /\ FilesInv(files', now', created') /\ FinalInv(finalized', files', now')
      /\ TotalSize(files') = TotalSize(files) + n
  <2>1. /\ FilesInv((files \ {f}) \cup {g}, now + 1, created)
        /\ FinalInv(finalized, (files \ {f}) \cup {g}, now + 1)
        /\ TotalSize((files \ {f}) \cup {g}) = TotalSize(files) + n
    BY <1>2, <1>3, <1>4, <1>5, WrittenFile
  <2>2. QED
    BY <1>1, <2>1
<1>7. /\ writers' \in [Streams -> Writer]
      /\ writers'[s].size = writers[s].size + n /\ writers'[s].open
      /\ \A q \in Streams : /\ writers'[q].sequence = writers[q].sequence
                            /\ writers'[q].open = writers[q].open
                            /\ q # s => writers'[q] = writers[q]
  BY <1>1, <1>2, <1>3 DEF WritersInv, Writer
<1>8. /\ \A h \in files' : h \in files \ {f} \/ h = g
      /\ \A h \in files \ {f} : h \in files'
      /\ g \in files'
  BY <1>1
<1>9. WritersInv(writers', files', runDir')
  <2>1. ASSUME NEW q \in Streams, writers'[q].open
        PROVE  \E h \in files' : /\ h.dir = <<runDir, q>> /\ h.part
                                 /\ h.sequence = writers'[q].sequence
                                 /\ h.size = writers'[q].size
    <3>1. CASE q = s
      BY <1>4, <1>5, <1>7, <1>8, <3>1
    <3>2. CASE q # s
      <4>1. PICK h \in files : /\ h.dir = <<runDir, q>> /\ h.part
                               /\ h.sequence = writers[q].sequence
                               /\ h.size = writers[q].size
        BY <1>2, <1>7, <2>1, <3>2 DEF WritersInv
      <4>2. h # f
        BY <1>4, <3>2, <4>1
      <4>3. QED
        BY <1>7, <1>8, <3>2, <4>1, <4>2
    <3>3. QED
      BY <3>1, <3>2
  <2>2. ASSUME NEW q \in Streams, NEW h \in files', h.dir = <<runDir, q>>,
               writers'[q].sequence > 0
        PROVE  h.sequence <= writers'[q].sequence
    <3>1. CASE h \in files \ {f}
      BY <1>2, <1>7, <2>2, <3>1 DEF WritersInv
    <3>2. CASE h = g
      <4>1. f.dir = <<runDir, q>> /\ h.sequence = f.sequence
        BY <1>5, <2>2, <3>2
      <4>2. QED
        BY <1>2, <1>4, <1>7, <2>2, <4>1 DEF WritersInv
    <3>3. QED
      BY <1>8, <3>1, <3>2
  <2>3. QED
    BY <1>1, <1>7, <2>1, <2>2 DEF WritersInv
<1>10. OpenParts(writers', files', runDir')
  <2>1. ASSUME NEW h \in files', h.part
        PROVE  \E q \in Streams : /\ h.dir = <<runDir, q>> /\ writers'[q].open
                                  /\ h.sequence = writers'[q].sequence
    <3>1. CASE h = g
      BY <1>2, <1>4, <1>5, <1>7, <3>1
    <3>2. CASE h \in files \ {f}
      <4>1. PICK q \in Streams : /\ h.dir = <<runDir, q>> /\ writers[q].open
                                 /\ h.sequence = writers[q].sequence
        BY <1>2, <2>1, <3>2 DEF OpenParts
      <4>2. QED
        BY <1>7, <4>1
    <3>3. QED
      BY <1>8, <3>1, <3>2
  <2>2. QED
    BY <1>1, <2>1 DEF OpenParts
<1>11. PrunedInv(files', pruned', created')
  <2>1. \A h \in files' : h.id > pruned[h.dir]
    BY <1>2, <1>4, <1>5, <1>8 DEF PrunedInv
  <2>2. QED
    BY <1>1, <1>2, <2>1 DEF PrunedInv
<1>12. LogControl'
  <2>1. now' \in Nat /\ created' \in Nat /\ total' \in Nat
    BY <1>1, <1>2, <1>3
  <2>2. CASE step' = "finish" /\ UNCHANGED <<task, line>>
    BY <1>1, <1>2, <1>7, <2>1, <2>2 DEF LogControl, s
  <2>3. CASE step' = "none" /\ task' = "idle" /\ line' = Logs!NoLine
    BY <1>1, <1>2, <2>1, <2>3, LogAssumption DEF LogControl, Logs!NoLine
  <2>4. QED
    BY <1>1, <2>2, <2>3
<1>13. \/ TotalSize(files) + n <= MaxRetainedSize
       \/ n > MaxRetainedSize /\ TotalSize(files) = 0
  BY <1>1, <1>2 DEF LogQuota, n
<1>14. LogQuota'
  <2>1. CASE step' = "finish" /\ UNCHANGED <<task, line>>
    <3>1. ASSUME n > MaxRetainedSize, TotalSize(files) = 0 PROVE Lone'
      <4>1. \A h \in files : h.size = 0
        BY <1>3, <3>1, TotalZero
      <4>2. \A h \in files' : h.size \in {0, n}
        BY <1>3, <1>4, <1>5, <1>8, <4>1
      <4>3. TotalSize(files') = n
        BY <1>3, <1>6, <3>1
      <4>4. QED
        BY <2>1, <3>1, <4>2, <4>3 DEF Lone, n
    <3>2. TotalSize(files') <= MaxRetainedSize \/ Lone'
      BY <1>6, <1>13, <3>1
    <3>3. QED
      BY <1>1, <2>1, <3>2 DEF LogQuota
  <2>2. CASE /\ ~(writers[s].size + n >= SegmentSize)
             /\ step' = "none" /\ task' = "idle" /\ line' = Logs!NoLine
    <3>1. writers[s].size \in Nat
      BY <1>2 DEF WritersInv, Writer
    <3>2. ~(n > MaxRetainedSize)
      BY <1>3, <2>2, <3>1
    <3>3. TotalSize(files') <= MaxRetainedSize
      BY <1>6, <1>13, <3>2
    <3>4. QED
      BY <2>2, <3>3 DEF LogQuota
  <2>3. QED
    BY <1>1, <2>1, <2>2
<1>15. total' = TotalSize(files')
  BY <1>1, <1>2, <1>6
<1>16. QED
  BY <1>6, <1>9, <1>10, <1>11, <1>12, <1>14, <1>15 DEF LogInv

LEMMA LogStep == LogInv /\ (Logs!Next \/ UNCHANGED logVars) => LogInv'
<1> SUFFICES ASSUME LogInv, Logs!Next \/ UNCHANGED logVars PROVE LogInv'
  OBVIOUS
<1>1. CASE Logs!Start
  BY <1>1, StartStep
<1>2. CASE \/ \E s \in Streams, n \in LineSizes : Logs!WriteBegin(s, n)
           \/ Logs!CloseBegin \/ Logs!CloseRetain \/ Logs!Crash \/ UNCHANGED logVars
  BY <1>2, LogQuietStep
<1>3. CASE \/ Logs!Rotate \/ Logs!FinishFull \/ Logs!PruneFinish
           \/ \E s \in Streams : Logs!CloseFinish(s)
  BY <1>3, FinishSteps
<1>4. CASE Logs!PruneDelete
  BY <1>4, DeleteStep
<1>5. CASE Logs!PruneDone
  BY <1>5, DoneStep
<1>6. CASE Logs!Open
  BY <1>6, OpenStep
<1>7. CASE Logs!Append
  BY <1>7, AppendStep
<1>8. QED
  BY <1>1, <1>2, <1>3, <1>4, <1>5, <1>6, <1>7 DEF Logs!Next, Logs!RecorderStep

(* What the invariant says of the files.                                   *)
LEMMA LogRetention == LogInv => Logs!TypeOK /\ Logs!RetentionIsRight
<1> SUFFICES ASSUME LogInv PROVE Logs!TypeOK /\ Logs!RetentionIsRight
  OBVIOUS
<1>1. /\ FilesInv(files, now, created) /\ PrunedInv(files, pruned, created)
      /\ WritersInv(writers, files, runDir) /\ LogControl /\ LogQuota
  BY DEF LogInv
<1>2. Logs!DiskSize = TotalSize(files)
  BY LogSize DEF Logs!DiskSize
<1>3. Logs!TypeOK
  BY <1>1 DEF Logs!TypeOK, LogControl, WritersInv, Logs!Dir
<1>4. Logs!NewestIsKept
  BY <1>1 DEF Logs!NewestIsKept, PrunedInv
<1>5. Logs!AccountMatches
  BY <1>2 DEF LogInv, Logs!AccountMatches
<1>6. Logs!NamesAreUnique
  <2> SUFFICES ASSUME NEW f \in files, NEW g \in files, f # g,
                      f.dir = g.dir, f.sequence = g.sequence
      PROVE  FALSE
    BY DEF Logs!NamesAreUnique
  <2>1. f.id # g.id
    BY <1>1 DEF FilesInv
  <2>2. /\ f.id \in Nat /\ g.id \in Nat /\ f.sequence \in Nat
    BY <1>1, LogFields
  <2>3. f.id < g.id \/ g.id < f.id
    BY <2>1, <2>2
  <2>4. f.sequence < g.sequence \/ g.sequence < f.sequence
    BY <1>1, <2>3 DEF FilesInv
  <2>5. QED
    BY <2>2, <2>4
<1>7. Logs!QuotaHolds
  <2>1. TotalSize(files) \in Nat /\ line.size \in Nat /\ MaxRetainedSize \in Nat
    BY LogNumbers
  <2>2. CASE task \in {"idle", "write"} /\ step \in {"none", "rotate", "prune"}
    BY <1>1, <1>2, <2>2 DEF LogQuota, Logs!QuotaHolds
  <2>3. CASE task = "write" /\ step \in {"open", "append"}
    <3>1. TotalSize(files) <= MaxRetainedSize
      BY <1>1, <2>1, <2>3 DEF LogQuota
    <3>2. QED
      BY <1>2, <3>1 DEF Logs!QuotaHolds
  <2>4. CASE task = "write" /\ step \in {"finish", "retain"}
    BY <1>1, <1>2, <2>4 DEF LogQuota, Lone, Logs!QuotaHolds
  <2>5. QED
    BY <1>1, <2>2, <2>3, <2>4 DEF LogControl, Logs!QuotaHolds
<1>8. Logs!NeverSpins
  <2>1. task = "write" /\ step \in {"rotate", "append", "finish"} => writers[line.stream].open
    BY <1>1 DEF LogControl
  <2>2. \A s \in Logs!Active :
          \E f \in files : /\ f.dir = Logs!Dir(s) /\ f.part
                          /\ f.sequence = writers[s].sequence /\ f.size > 0
    BY <1>1 DEF WritersInv, Logs!Active, Logs!Dir
  <2>3. QED
    BY <2>1, <2>2 DEF Logs!NeverSpins
<1>9. QED
  BY <1>3, <1>4, <1>5, <1>6, <1>7, <1>8 DEF Logs!RetentionIsRight

-----------------------------------------------------------------------------
(* The directories of all normal sessions (module Catalog).                *)

\* What nobody uses, and what a cleanup would list of it.
Free == final \ (recording \cup wanted)
Listing(w, all, D) ==
    {s \in D : SumFunctionOnSet(w, all)
                  - SumFunctionOnSet(w, {t \in D : <<t, s>> \in older}) > Normal!Target}
Weights == [Normal!Sessions -> 0..SessionSize]
Scanning == {"check", "preview", "clean"}
\* The directories that had finished before the last passed check.
Held == settledAtCheck \cap dirs

CatTypes ==
    /\ op \in {"none", "delete"} \cup Scanning
    /\ client \in {"idle", "preview", "prompt", "clean"}
    /\ begun \in 0..MaxSessions /\ (op = "check" => begun < MaxSessions)
    /\ dirs \cup admitted \cup settledAtCheck \cup checking \cup seen \subseteq 1..begun
    /\ size \in Weights /\ measured \in Weights
    /\ older \subseteq (1..begun) \X (1..begun)
    /\ sizeAfter \in Int

\* A directory that is new, or whose recording goes on, is in no order; one that has
\* finished and is not stopped cannot grow.
CatDirs ==
    /\ recording \cup final \cup wanted \subseteq dirs
    /\ admitted \cap (dirs \cup settledAtCheck \cup checking) = {}
    /\ Normal!Linear(older, final)
    /\ \A s \in admitted \cup (recording \ final), t \in 1..begun :
          <<s, t>> \notin older /\ <<t, s>> \notin older

\* A scan: what it has measured has only grown, what it found deletable is finished.
CatScan ==
    /\ todo \subseteq dirs /\ deletable \subseteq seen
    /\ op = "none" => todo = {} /\ seen = {}
    /\ op = "delete" => todo = {}
    /\ op \in Scanning =>
          /\ seen \subseteq dirs /\ seen \cap todo = {} /\ deletable \subseteq final
          /\ \A s \in seen : measured[s] <= size[s]
    /\ checking # {} => op = "check"
    /\ checking \subseteq (seen \cup todo) \cap final
    /\ \A s \in checking \cap seen : measured[s] = size[s]
    /\ \A s \in checking \cap wanted : size[s] = SessionSize
    /\ client = "preview" <=> op = "preview"
    /\ client = "clean" <=> op \in {"clean", "delete"}

\* A cleanup: each deletable directory is deleted, passed over or still to come.
CatClean ==
    /\ op # "delete" => plan = {} /\ removing = {} /\ deleted = {}
    /\ op = "clean" => spared = {}
    /\ op = "delete" =>
          /\ removing \subseteq Normal!Oldest(plan) /\ removing \subseteq Free
          /\ removing # {} => sizeAfter > Normal!Target
          /\ plan \subseteq final
          /\ deleted \cap plan = {} /\ spared \cap plan = {} /\ deleted \cap spared = {}
          /\ deletable = deleted \cup spared \cup plan
          /\ \A s \in deleted, t \in plan : <<s, t>> \in older
          /\ sizeAfter = Normal!Measured(seen) - Normal!Measured(deleted)
          /\ seen \ deleted \subseteq dirs
          /\ \A s \in (seen \ deleted) \ spared : measured[s] <= size[s]

\* Create: what was settled is below the limit and cannot grow.
CatQuota ==
    /\ SumFunctionOnSet(size, Held) < MaxTotal
    /\ \A s \in Held \cap (wanted \cup (recording \ final)) : size[s] = SessionSize

\* The dialogue, as long as nothing has changed: what was listed is what a cleanup
\* would delete.
CatDialogue ==
    ~changed =>
       /\ op \in {"preview", "clean"} =>
             /\ seen \cup todo = dirs /\ deletable = seen \cap Free
             /\ \A s \in seen : measured[s] = size[s]
             /\ snapshot = recording \cap todo
       /\ client \in {"prompt", "clean"} /\ op # "delete" =>
             listed = Listing(size, dirs, Free)
       /\ op = "delete" =>
             /\ listed = Listing(measured, seen, deletable)
             /\ deleted \subseteq listed /\ spared = {}
             /\ plan \cap (recording \cup wanted) = {}

CatInv == CatTypes /\ CatDirs /\ CatScan /\ CatClean /\ CatQuota /\ CatDialogue
-----------------------------------------------------------------------------
(* Sizes, sums and orders of directories.                                  *)

LEMMA CatNumbers ==
  /\ MaxSessions \in Nat /\ SessionSize \in Nat
  /\ MaxTotal \in Nat \ {0} /\ Normal!Target \in Int
BY CatalogAssumption DEF Normal!Target

\* The instance's sums and cardinalities are those of the library.
LEMMA CatSums ==
  /\ \A w, S : Normal!SumFunctionOnSet(w, S) = SumFunctionOnSet(w, S)
  /\ \A S : Normal!Cardinality(S) = Cardinality(S)
<1>1. \A w, S : Normal!SumFunctionOnSet(w, S) = SumFunctionOnSet(w, S)
  BY DEF Normal!SumFunctionOnSet, SumFunctionOnSet, Normal!FoldFunctionOnSet,
     FoldFunctionOnSet, Normal!MapThenFoldSet, MapThenFoldSet
<1>2. \A S : Normal!Cardinality(S) = Cardinality(S)
  BY DEF Normal!Cardinality, Cardinality
<1>3. QED
  BY <1>1, <1>2

\* The next directory of a scan is one that is left.
LEMMA CatMin == \A S \in SUBSET Nat : S # {} => Normal!Min(S) \in S
<1> SUFFICES ASSUME NEW S \in SUBSET Nat, S # {} PROVE Normal!Min(S) \in S
  OBVIOUS
<1>1. \E x \in S : \A y \in S : x <= y
  BY LeastNumber
<1>2. QED
  BY <1>1 DEF Normal!Min

\* A set of directories is finite and its size a number.
LEMMA SizeType ==
  \A w \in Weights, S \in SUBSET Normal!Sessions :
      /\ IsFiniteSet(S) /\ SumFunctionOnSet(w, S) \in Nat
      /\ \A x \in S : w[x] \in Nat /\ w[x] \in 0..SessionSize
<1> SUFFICES ASSUME NEW w \in Weights, NEW S \in SUBSET Normal!Sessions
             PROVE  /\ IsFiniteSet(S) /\ SumFunctionOnSet(w, S) \in Nat
                    /\ \A x \in S : w[x] \in Nat /\ w[x] \in 0..SessionSize
  OBVIOUS
<1>1. IsFiniteSet(S)
  <2>1. IsFiniteSet(1..MaxSessions)
    BY CatNumbers, FS_Interval
  <2>2. QED
    BY <2>1, FS_Subset DEF Normal!Sessions
<1>2. \A x \in S : w[x] \in Nat /\ w[x] \in 0..SessionSize
  BY CatNumbers DEF Weights
<1>3. QED
  BY <1>1, <1>2, SumType

\* Sizes that agree have the same sum; larger ones a larger one.
LEMMA SizeSame ==
  \A v, w \in Weights, S \in SUBSET Normal!Sessions :
      (\A x \in S : v[x] = w[x]) => SumFunctionOnSet(v, S) = SumFunctionOnSet(w, S)
BY SizeType, SumSame

LEMMA SizeMore ==
  \A v, w \in Weights, T \in SUBSET Normal!Sessions : \A S \in SUBSET T :
      (\A x \in S : v[x] <= w[x]) => SumFunctionOnSet(v, S) <= SumFunctionOnSet(w, T)
<1> SUFFICES ASSUME NEW v \in Weights, NEW w \in Weights,
                    NEW T \in SUBSET Normal!Sessions, NEW S \in SUBSET T,
                    \A x \in S : v[x] <= w[x]
             PROVE  SumFunctionOnSet(v, S) <= SumFunctionOnSet(w, T)
  OBVIOUS
<1>1. IsFiniteSet(T) /\ \A x \in T : w[x] \in Nat
  BY SizeType
<1>2. \A x \in S : v[x] \in Nat /\ v[x] <= w[x]
  BY SizeType
<1>3. QED
  BY <1>1, <1>2, SumMore

\* The size of a set is that of a part of it and that of the rest.
LEMMA SizeSplit ==
  \A w \in Weights, S \in SUBSET Normal!Sessions : \A T \in SUBSET S :
      SumFunctionOnSet(w, S) = SumFunctionOnSet(w, T) + SumFunctionOnSet(w, S \ T)
<1> SUFFICES ASSUME NEW w \in Weights, NEW S \in SUBSET Normal!Sessions,
                    NEW T \in SUBSET S
             PROVE  SumFunctionOnSet(w, S)
                       = SumFunctionOnSet(w, T) + SumFunctionOnSet(w, S \ T)
  OBVIOUS
<1>1. /\ IsFiniteSet(T) /\ IsFiniteSet(S \ T) /\ T \cap (S \ T) = {}
      /\ \A x \in T \cup (S \ T) : w[x] \in Nat
  BY SizeType
<1>2. SumFunctionOnSet(w, T \cup (S \ T))
         = SumFunctionOnSet(w, T) + SumFunctionOnSet(w, S \ T)
  BY <1>1, SumUnion
<1>3. T \cup (S \ T) = S
  OBVIOUS
<1>4. QED
  BY <1>2, <1>3

LEMMA SizeAdd ==
  \A w \in Weights, S \in SUBSET Normal!Sessions : \A e \in Normal!Sessions \ S :
      SumFunctionOnSet(w, S \cup {e}) = w[e] + SumFunctionOnSet(w, S)
BY SizeType, SumAdd

\* What a listing shows depends on the order of what it is made from, and on
\* the sizes.
LEMMA ListingSame ==
  \A v, w \in Weights, S \in SUBSET Normal!Sessions : \A D \in SUBSET S :
      (\A x \in S : v[x] = w[x]) => Listing(v, S, D) = Listing(w, S, D)
<1> SUFFICES ASSUME NEW v \in Weights, NEW w \in Weights,
                    NEW S \in SUBSET Normal!Sessions, NEW D \in SUBSET S,
                    \A x \in S : v[x] = w[x]
             PROVE  Listing(v, S, D) = Listing(w, S, D)
  OBVIOUS
<1>1. SumFunctionOnSet(v, S) = SumFunctionOnSet(w, S)
  BY SizeSame
<1>2. ASSUME NEW s \in D
      PROVE  SumFunctionOnSet(v, {t \in D : <<t, s>> \in older})
                = SumFunctionOnSet(w, {t \in D : <<t, s>> \in older})
  <2>1. /\ {t \in D : <<t, s>> \in older} \in SUBSET Normal!Sessions
        /\ \A x \in {t \in D : <<t, s>> \in older} : v[x] = w[x]
    OBVIOUS
  <2>2. QED
    BY <2>1, SizeSame
<1>3. QED
  BY <1>1, <1>2 DEF Listing

\* The answer of a dry run.
LEMMA PreviewLists == Normal!Preview = Listing(measured, seen, deletable)
BY CatSums DEF Normal!Preview, Normal!Needed, Normal!Left, Normal!Measured, Listing

\* A part of an order.
LEMMA LinearPart ==
  \A r, S : \A T \in SUBSET S : Normal!Linear(r, S) => Normal!Linear(r, T)
BY DEF Normal!Linear

\* One more at the end of an order.
LEMMA LinearLast ==
  ASSUME NEW r, NEW S, Normal!Linear(r, S), NEW e, e \notin S,
         \A s \in S \cup {e} : <<s, e>> \notin r /\ <<e, s>> \notin r
  PROVE  Normal!Linear(r \cup (S \X {e}), S \cup {e})
BY DEF Normal!Linear

\* One order after another.
LEMMA LinearJoin ==
  ASSUME NEW r, NEW S, Normal!Linear(r, S), NEW o, NEW T, Normal!Linear(o, T),
         S \cap T = {}, o \subseteq T \X T,
         \A s \in T, t \in S \cup T :
             <<s, t>> \notin r /\ <<t, s>> \notin r
  PROVE  Normal!Linear(r \cup (S \X T) \cup o, S \cup T)
<1> DEFINE q == r \cup (S \X T) \cup o
<1>1. \A s, t \in S : <<s, t>> \in q <=> <<s, t>> \in r
  OBVIOUS
<1>2. \A s, t \in T : <<s, t>> \in q <=> <<s, t>> \in o
  OBVIOUS
<1>3. \A s \in S, t \in T : <<s, t>> \in q /\ <<t, s>> \notin q /\ s # t
  OBVIOUS
<1> HIDE DEF q
<1>4. \A s, t \in S \cup T : <<s, t>> \in q <=> s # t /\ <<t, s>> \notin q
  BY <1>1, <1>2, <1>3 DEF Normal!Linear
<1>5. \A s, t, u \in S \cup T : <<s, t>> \in q /\ <<t, u>> \in q => <<s, u>> \in q
  BY <1>1, <1>2, <1>3 DEF Normal!Linear
<1>6. Normal!Linear(q, S \cup T)
  BY <1>4, <1>5 DEF Normal!Linear
<1>7. QED
  BY <1>6 DEF q

LEMMA InspectsLeft ==
  ASSUME CatTypes, CatScan, NEW s, Normal!Inspect(s)
  PROVE  s \in todo /\ s \in dirs /\ todo' = todo \ {s}
<1>1. todo \in SUBSET Nat /\ todo # {} /\ s = Normal!Min(todo)
  BY CatNumbers DEF CatTypes, CatScan, Normal!Inspect
<1>2. QED
  BY <1>1, CatMin DEF CatScan, Normal!Inspect

-----------------------------------------------------------------------------
(* Each part of the invariant is kept by a step.                           *)

LEMMA CatStart == Normal!Init => CatInv
<1> SUFFICES ASSUME Normal!Init PROVE CatInv
  OBVIOUS
<1>1. SumFunctionOnSet(size, Held) = 0
  BY SumEmpty DEF Normal!Init, Held
<1>2. QED
  BY <1>1, CatNumbers
  DEF Normal!Init, CatInv, CatTypes, CatDirs, CatScan, CatClean, CatQuota,
      CatDialogue, Weights, Scanning, Held, Normal!Sessions, Normal!Nothing,
      Normal!Linear

\* Nothing of a state changes in a stuttering step.
LEMMA CatStutter == CatInv /\ UNCHANGED normalVars => CatInv'
<1> SUFFICES ASSUME CatInv, UNCHANGED normalVars PROVE CatInv'
  OBVIOUS
<1> USE DEF CatInv, normalVars
<1>1. CatTypes'
  BY DEF CatTypes
<1>2. CatDirs'
  BY DEF CatDirs, Normal!Linear
<1>3. CatScan'
  BY DEF CatScan
<1>4. CatClean'
  BY DEF CatClean, Free, Normal!Oldest, Normal!Measured
<1>5. CatQuota'
  BY DEF CatQuota, Held
<1>6. CatDialogue'
  BY DEF CatDialogue, Free, Listing
<1>7. QED
  BY <1>1, <1>2, <1>3, <1>4, <1>5, <1>6

LEMMA CatTypesStep == CatInv /\ Normal!Next => CatTypes'
<1> SUFFICES ASSUME CatInv, Normal!Next PROVE CatTypes'
  OBVIOUS
<1>a. CatTypes /\ recording \cup final \cup wanted \subseteq dirs /\ deletable \subseteq seen
  BY DEF CatInv, CatDirs, CatScan
<1>b. MaxSessions \in Nat /\ SessionSize \in Nat
  BY CatNumbers
<1> USE <1>a, <1>b
    DEF CatTypes, Weights, Scanning, Normal!Sessions, Normal!Nothing,
        Normal!createVars, Normal!sessionVars, Normal!scanVars, Normal!cleanVars,
        Normal!clientVars, Normal!history
<1>1. CASE \E s \in Normal!Sessions :
              \/ Normal!Begin(s) \/ Normal!Complete(s) \/ Normal!Leave(s)
              \/ Normal!Stop(s) \/ Normal!Inspect(s)
  <2>1. \A s : Normal!Inspect(s) => s \in dirs
    BY InspectsLeft DEF CatInv
  <2>2. PICK s \in Normal!Sessions :
              \/ Normal!Begin(s) \/ Normal!Complete(s) \/ Normal!Leave(s)
              \/ Normal!Stop(s) \/ Normal!Inspect(s)
    BY <1>1
  <2>3. CASE Normal!Inspect(s)
    <3>1. measured' \in Weights
      BY <2>3 DEF Normal!Inspect
    <3>2. /\ seen' \subseteq seen \cup dirs
          /\ UNCHANGED <<op, client, begun, dirs, admitted, settledAtCheck, checking,
                         size, older, sizeAfter>>
      BY <2>1, <2>3 DEF Normal!Inspect
    <3>3. QED
      BY <3>1, <3>2
  <2>4. CASE Normal!Begin(s) \/ Normal!Complete(s) \/ Normal!Leave(s) \/ Normal!Stop(s)
    BY <2>4 DEF Normal!Begin, Normal!Complete, Normal!Leave, Normal!Stop
  <2>5. QED
    BY <2>2, <2>3, <2>4
<1>2. ASSUME NEW s \in Normal!Sessions, Normal!Grow(s) PROVE CatTypes'
  <2>1. size[s] \in Nat /\ size[s] + 1 <= SessionSize
    BY <1>2 DEF Normal!Grow
  <2>2. size' \in Weights
    BY <1>2, <2>1 DEF Normal!Grow
  <2>3. QED
    BY <1>2, <2>2 DEF Normal!Grow
<1>3. CASE \/ Normal!CheckBegin \/ Normal!PreviewBegin \/ Normal!PreviewEnd
           \/ Normal!Decline \/ Normal!Confirm \/ Normal!Validate \/ Normal!CleanDone
  <2>1. CASE Normal!CheckBegin \/ Normal!PreviewBegin \/ Normal!Confirm
    <3>1. /\ seen' = {} /\ measured' = [s \in 1..MaxSessions |-> 0]
          /\ op' \in {"check", "preview", "clean"}
          /\ client' \in {client, "preview", "clean"}
          /\ checking' \subseteq checking \cup final
          /\ op' = "check" => begun < MaxSessions
          /\ UNCHANGED <<dirs, admitted, settledAtCheck, size, older, begun, sizeAfter>>
      BY <2>1 DEF Normal!CheckBegin, Normal!PreviewBegin, Normal!Confirm,
                  Normal!ScanBegin, Normal!Settled
    <3>2. measured' \in Weights
      BY <3>1
    <3>3. QED
      BY <3>1, <3>2
  <2>2. CASE Normal!PreviewEnd
    BY <2>2 DEF Normal!PreviewEnd, Normal!Released
  <2>3. CASE Normal!Decline \/ Normal!Validate
    BY <2>3 DEF Normal!Decline, Normal!Validate
  <2>4. CASE Normal!CleanDone
    BY <2>4 DEF Normal!CleanDone, Normal!Released
  <2>5. QED
    BY <1>3, <2>1, <2>2, <2>3, <2>4
<1>4. CASE Normal!ScanFails
  <2>1. CASE op = "check"
    BY <1>4, <2>1 DEF Normal!ScanFails, Normal!Released
  <2>2. CASE op # "check"
    BY <1>4, <2>2 DEF Normal!ScanFails, Normal!Released
  <2>3. QED
    BY <2>1, <2>2
<1>5. CASE Normal!CheckEnd
  <2>1. \/ begun < MaxSessions /\ begun' = begun + 1 /\ admitted' = admitted \cup {begun'}
        \/ UNCHANGED <<begun, admitted>>
    BY <1>5 DEF Normal!CheckEnd
  <2>2. /\ begun' \in 0..MaxSessions /\ 1..begun \subseteq 1..begun'
        /\ admitted' \subseteq 1..begun'
    BY <2>1
  <2>3. /\ UNCHANGED <<dirs, size, older, sizeAfter, client>>
        /\ seen' = {} /\ checking' = {} /\ measured' = Normal!Nothing /\ op' = "none"
        /\ settledAtCheck' \in {checking, settledAtCheck}
    BY <1>5 DEF Normal!CheckEnd, Normal!Released
  <2>4. dirs' \cup admitted' \cup settledAtCheck' \cup checking' \cup seen'
            \subseteq 1..begun'
    BY <2>2, <2>3
  <2>5. older' \subseteq (1..begun') \X (1..begun')
    BY <2>2, <2>3
  <2>6. QED
    BY <2>2, <2>3, <2>4, <2>5
<1>6. CASE Normal!CleanSort
  <2>1. seen \in SUBSET Normal!Sessions
    OBVIOUS
  <2>2. Normal!Measured(seen) \in Nat
    BY <2>1, SizeType, CatSums DEF Normal!Measured
  <2>3. QED
    BY <1>6, <2>2 DEF Normal!CleanSort
<1>7. CASE Normal!RemoveAll
  <2>1. PICK s \in removing :
          /\ dirs' = dirs \ {s} /\ final' = final \ {s}
          /\ sizeAfter' = sizeAfter - measured[s]
          /\ size' = [size EXCEPT ![s] = 0]
    BY <1>7 DEF Normal!RemoveAll
  <2>2. s \in Normal!Sessions
    BY <1>7 DEF Normal!RemoveAll, CatInv, CatClean, Normal!Oldest
  <2>3. sizeAfter' \in Int /\ size' \in Weights
    BY <2>1, <2>2
  <2>4. QED
    BY <1>7, <2>1, <2>3 DEF Normal!RemoveAll
<1>8. CASE Normal!RemoveFails
  BY <1>8 DEF Normal!RemoveFails
<1>9. CASE Normal!Restart
  <2>1. older' \subseteq older \cup (dirs \X dirs)
    BY <1>9 DEF Normal!Restart, Normal!Orders
  <2>2. QED
    BY <1>9, <2>1 DEF Normal!Restart, Normal!Released
<1>10. QED
  BY <1>1, <1>2, <1>3, <1>4, <1>5, <1>6, <1>7, <1>8, <1>9 DEF Normal!Next

LEMMA CatDirsStep == CatInv /\ Normal!Next => CatDirs'
<1> SUFFICES ASSUME CatInv, Normal!Next PROVE CatDirs'
  OBVIOUS
<1>a. CatTypes /\ CatDirs /\ (op # "check" => checking = {})
      /\ checking \subseteq final
  BY DEF CatInv, CatScan
<1>b. MaxSessions \in Nat /\ SessionSize \in Nat
  BY CatNumbers
<1> USE <1>a, <1>b
    DEF CatTypes, CatDirs, Weights, Scanning, Normal!Sessions, Normal!Nothing,
        Normal!createVars, Normal!sessionVars, Normal!scanVars, Normal!cleanVars,
        Normal!clientVars, Normal!history
<1>1. CASE \/ Normal!ScanFails \/ Normal!CheckBegin \/ Normal!PreviewBegin
           \/ Normal!PreviewEnd \/ Normal!Decline \/ Normal!Confirm
           \/ Normal!CleanSort \/ Normal!Validate
           \/ \E s \in Normal!Sessions : Normal!Inspect(s)
  BY <1>1 DEF Normal!ScanFails, Normal!CheckBegin, Normal!PreviewBegin,
              Normal!PreviewEnd, Normal!Decline, Normal!Confirm, Normal!CleanSort,
              Normal!Validate, Normal!Inspect, Normal!Linear, Normal!Released,
              Normal!Settled
<1>2. ASSUME NEW s \in Normal!Sessions,
             Normal!Begin(s) \/ Normal!Grow(s) \/ Normal!Leave(s) \/ Normal!Stop(s)
      PROVE  CatDirs'
  BY <1>2 DEF Normal!Begin, Normal!Grow, Normal!Leave, Normal!Stop, Normal!Linear
<1>3. ASSUME NEW s \in Normal!Sessions, Normal!Complete(s) PROVE CatDirs'
  <2>1. /\ s \in recording \ final
        /\ final' = final \cup {s} /\ older' = older \cup (final \X {s})
        /\ UNCHANGED <<dirs, recording, wanted, size, begun, admitted, settledAtCheck,
                       checking>>
    BY <1>3 DEF Normal!Complete
  <2>2. \A t \in final \cup {s} : <<t, s>> \notin older /\ <<s, t>> \notin older
    BY <2>1
  <2>3. Normal!Linear(older \cup (final \X {s}), final \cup {s})
    BY <2>1, <2>2, LinearLast
  <2>4. Normal!Linear(older', final')
    BY <2>1, <2>3
  <2>5. \A t \in admitted \cup (recording \ final'), u \in 1..begun :
           <<t, u>> \notin older' /\ <<u, t>> \notin older'
    <3> SUFFICES ASSUME NEW t \in admitted \cup (recording \ final'), NEW u \in 1..begun
                 PROVE  <<t, u>> \notin older' /\ <<u, t>> \notin older'
      OBVIOUS
    <3>1. t # s /\ t \notin final /\ <<t, u>> \notin older /\ <<u, t>> \notin older
      BY <2>1
    <3>2. QED
      BY <2>1, <3>1
  <2>6. recording' \cup final' \cup wanted' \subseteq dirs'
    BY <2>1
  <2>7. QED
    BY <2>1, <2>4, <2>5, <2>6
<1>4. CASE Normal!CheckEnd
  <2>1. /\ UNCHANGED <<dirs, recording, final, wanted, size, older>>
        /\ settledAtCheck' \subseteq final \cup settledAtCheck /\ checking' = {}
        /\ \/ UNCHANGED <<begun, admitted, settledAtCheck>>
           \/ /\ begun' = begun + 1 /\ admitted' = admitted \cup {begun'}
              /\ settledAtCheck' = checking
    BY <1>4 DEF Normal!CheckEnd
  <2>2. CASE UNCHANGED <<begun, admitted, settledAtCheck>>
    BY <2>1, <2>2, LinearPart
  <2>3. CASE /\ begun' = begun + 1 /\ admitted' = admitted \cup {begun'}
             /\ settledAtCheck' = checking
    <3>1. begun' \notin 1..begun /\ begun \in Nat
      BY <2>3
    <3>2. \A t : <<begun', t>> \notin older /\ <<t, begun'>> \notin older
      BY <3>1
    <3>3. \A t, u : t \notin 1..begun => <<u, t>> \notin older /\ <<t, u>> \notin older
      OBVIOUS
    <3>4. \A t \in admitted' \cup (recording' \ final'), u \in 1..begun' :
             <<t, u>> \notin older' /\ <<u, t>> \notin older'
      BY <2>1, <2>3, <3>2, <3>3
    <3>5. admitted' \cap (dirs' \cup settledAtCheck' \cup checking') = {}
      BY <2>1, <2>3, <3>1
    <3>6. QED
      BY <2>1, <3>4, <3>5, LinearPart
  <2>4. QED
    BY <2>1, <2>2, <2>3
<1>5. CASE Normal!RemoveAll
  <2>1. PICK s \in removing :
          /\ dirs' = dirs \ {s} /\ final' = final \ {s}
          /\ size' = [size EXCEPT ![s] = 0]
    BY <1>5 DEF Normal!RemoveAll
  <2>2. s \notin recording \cup wanted
    BY <1>5 DEF Normal!RemoveAll, CatInv, CatClean, Free
  <2>3. UNCHANGED <<recording, wanted, older, begun, admitted, settledAtCheck,
                    checking>>
    BY <1>5 DEF Normal!RemoveAll
  <2>4. Normal!Linear(older', final')
    BY <2>1, <2>3, LinearPart
  <2>5. QED
    BY <2>1, <2>2, <2>3, <2>4
<1>6. CASE Normal!RemoveFails
  <2>1. PICK s \in removing, n \in 0..SessionSize :
          /\ size' = [size EXCEPT ![s] = n] /\ final' \in {final, final \ {s}}
    BY <1>6 DEF Normal!RemoveFails
  <2>2. s \notin recording \cup wanted
    BY <1>6 DEF Normal!RemoveFails, CatInv, CatClean, Free
  <2>3. UNCHANGED <<dirs, recording, wanted, older, begun, admitted, settledAtCheck,
                    checking>>
    BY <1>6 DEF Normal!RemoveFails
  <2>4. Normal!Linear(older', final')
    BY <2>1, <2>3, LinearPart
  <2>5. QED
    BY <2>1, <2>2, <2>3, <2>4
<1>7. CASE Normal!CleanDone
  <2>1. /\ UNCHANGED <<dirs, recording, final, wanted, size, begun, admitted, checking>>
        /\ older' = older \cap (dirs \X dirs)
        /\ settledAtCheck' = settledAtCheck \cap dirs
    BY <1>7 DEF Normal!CleanDone
  <2>2. Normal!Linear(older', final')
    <3>1. \A s, t \in final : <<s, t>> \in older' <=> <<s, t>> \in older
      BY <2>1
    <3>2. Normal!Linear(older, final) /\ final' = final
      BY <2>1
    <3> DEFINE r == older'
    <3>3. \A s, t \in final : <<s, t>> \in r <=> <<s, t>> \in older
      BY <3>1
    <3> HIDE DEF r
    <3>4. Normal!Linear(r, final)
      BY <3>2, <3>3 DEF Normal!Linear
    <3>5. QED
      BY <3>2, <3>4 DEF r
  <2>3. QED
    BY <2>1, <2>2
<1>8. CASE Normal!Restart
  <2>1. PICK expired \in SUBSET wanted, partial \in {{}, recording \ final} :
          LET ended == final \cup partial
              restored == wanted \ expired
              stopped == partial \ restored IN
          /\ wanted' = restored /\ recording' = restored /\ final' = ended \ restored
          /\ \E o \in Normal!Orders(stopped) :
               older' = (older \cap ((dirs \ restored) \X (dirs \ restored)))
                          \cup ((final \ restored) \X stopped) \cup o
    BY <1>8 DEF Normal!Restart
  <2> DEFINE restored == wanted \ expired
             stopped == partial \ restored
             kept == final \ restored
             r == older \cap ((dirs \ restored) \X (dirs \ restored))
  <2>2. PICK o \in Normal!Orders(stopped) :
          older' = (r \cup (kept \X stopped)) \cup o
    BY <2>1
  <2>3. /\ wanted' = restored /\ recording' = restored
        /\ final' = kept \cup stopped
    BY <2>1
  <2>4. Normal!Linear(o, stopped) /\ o \subseteq stopped \X stopped
    BY <2>2 DEF Normal!Orders
  <2>5. /\ kept \cap stopped = {} /\ kept \subseteq final
        /\ stopped \subseteq recording \ final
        /\ restored \cap (kept \cup stopped) = {} /\ restored \subseteq wanted
    OBVIOUS
  <2>6. Normal!Linear(r, kept)
    <3>1. \A s, t \in kept : <<s, t>> \in r <=> <<s, t>> \in older
      OBVIOUS
    <3>2. Normal!Linear(older, kept)
      BY DEF Normal!Linear
    <3> HIDE DEF r, kept
    <3>3. QED
      BY <3>1, <3>2 DEF Normal!Linear
  <2>7. \A s \in stopped, t \in kept \cup stopped :
           <<s, t>> \notin r /\ <<t, s>> \notin r
    <3>1. \A s \in stopped, t \in 1..begun : <<s, t>> \notin older /\ <<t, s>> \notin older
      OBVIOUS
    <3>2. r \subseteq older /\ older \subseteq (1..begun) \X (1..begun)
      OBVIOUS
    <3> HIDE DEF r, stopped, kept
    <3>3. QED
      BY <3>1, <3>2
  <2>8. \A s \in restored : \A t : <<s, t>> \notin r /\ <<t, s>> \notin r
    OBVIOUS
  <2>9. /\ UNCHANGED <<dirs, size, begun, settledAtCheck>> /\ admitted' = {}
        /\ checking' = {}
    BY <1>8 DEF Normal!Restart
  <2> HIDE DEF r, kept, stopped, restored
  <2>10. Normal!Linear(r \cup (kept \X stopped) \cup o, kept \cup stopped)
    BY <2>4, <2>5, <2>6, <2>7, LinearJoin
  <2>11. Normal!Linear(older', final')
    BY <2>2, <2>3, <2>10
  <2>12. recording' \cup final' \cup wanted' \subseteq dirs'
    BY <2>3, <2>5, <2>9
  <2>13. \A s \in restored : \A t : <<s, t>> \notin older' /\ <<t, s>> \notin older'
    BY <2>2, <2>4, <2>5, <2>8
  <2>14. QED
    BY <2>3, <2>5, <2>9, <2>11, <2>12, <2>13
<1>9. QED
  BY <1>1, <1>2, <1>3, <1>4, <1>5, <1>6, <1>7, <1>8 DEF Normal!Next

LEMMA CatScanStep == CatInv /\ Normal!Next => CatScan'
<1> SUFFICES ASSUME CatInv, Normal!Next PROVE CatScan'
  OBVIOUS
<1>a. /\ CatTypes /\ CatScan /\ recording \cup final \cup wanted \subseteq dirs
      /\ admitted \cap (dirs \cup settledAtCheck \cup checking) = {}
      /\ (op # "delete" => removing = {})
  BY DEF CatInv, CatDirs, CatClean
<1>b. MaxSessions \in Nat /\ SessionSize \in Nat
  BY CatNumbers
<1> USE <1>a, <1>b
    DEF CatTypes, CatScan, Weights, Scanning, Normal!Sessions, Normal!Nothing,
        Normal!createVars, Normal!sessionVars, Normal!scanVars, Normal!cleanVars,
        Normal!clientVars, Normal!history
<1>1. ASSUME NEW s \in Normal!Sessions,
             \/ Normal!Begin(s) \/ Normal!Grow(s) \/ Normal!Complete(s)
             \/ Normal!Leave(s) \/ Normal!Stop(s)
      PROVE  CatScan'
  <2>1. CASE \/ Normal!Begin(s) \/ Normal!Complete(s) \/ Normal!Leave(s)
             \/ Normal!Stop(s)
    <3>1. /\ UNCHANGED <<op, client, seen, measured, deletable, checking, size>>
          /\ dirs \subseteq dirs' /\ final \subseteq final'
          /\ checking \cap wanted' \subseteq wanted
      BY <2>1 DEF Normal!Begin, Normal!Complete, Normal!Leave, Normal!Stop
    <3>2. /\ todo \subseteq todo' /\ todo' \subseteq dirs' /\ seen \cap todo' = {}
          /\ op \notin Scanning => todo' = todo
      <4>1. CASE Normal!Begin(s)
        <5>1. s \notin dirs /\ dirs' = dirs \cup {s} /\ todo' \in {todo, todo \cup {s}}
              /\ (todo' # todo => op \in Scanning)
          BY <4>1 DEF Normal!Begin
        <5>2. QED
          BY <5>1
      <4>2. CASE ~Normal!Begin(s)
        BY <2>1, <4>2 DEF Normal!Complete, Normal!Leave, Normal!Stop
      <4>3. QED
        BY <4>1, <4>2
    <3>3. QED
      BY <3>1, <3>2
  <2>2. CASE Normal!Grow(s)
    <3>1. /\ s \in recording \ final /\ size' = [size EXCEPT ![s] = @ + 1]
          /\ UNCHANGED <<op, client, todo, seen, measured, deletable, checking, dirs,
                         final, wanted>>
      BY <2>2 DEF Normal!Grow
    <3>2. \A t \in seen \cap dirs : measured[t] \in Nat /\ size[t] \in Nat
      OBVIOUS
    <3>3. \A t \in seen \cap dirs : measured[t] <= size[t] => measured[t] <= size'[t]
      BY <3>1, <3>2
    <3>4. \A t \in checking : size'[t] = size[t]
      BY <3>1
    <3>5. QED
      BY <3>1, <3>3, <3>4
  <2>3. QED
    BY <1>1, <2>1, <2>2
<1>2. ASSUME NEW s \in Normal!Sessions, Normal!Inspect(s) PROVE CatScan'
  <2>1. s \in todo /\ s \in dirs /\ todo' = todo \ {s}
    BY <1>2, InspectsLeft
  <2>2. /\ seen' = seen \cup {s} /\ measured' = [measured EXCEPT ![s] = size[s]]
        /\ deletable' \in {deletable, deletable \cup {s}}
        /\ deletable' = deletable \cup {s} => s \in final
        /\ UNCHANGED <<op, client, dirs, final, size, wanted, checking>>
        /\ op \in Scanning
    BY <1>2, <2>1 DEF Normal!Inspect
  <2>3. size[s] \in Nat
    OBVIOUS
  <2>4. \A t \in seen' : measured'[t] <= size'[t]
    BY <2>2, <2>3
  <2>5. \A t \in checking' \cap seen' : measured'[t] = size'[t]
    BY <2>2
  <2>6. seen' \subseteq dirs' /\ seen' \cap todo' = {} /\ deletable' \subseteq final'
        /\ deletable' \subseteq seen'
    BY <2>1, <2>2
  <2>7. QED
    BY <2>1, <2>2, <2>4, <2>5, <2>6
<1>3. CASE \/ Normal!ScanFails \/ Normal!CheckBegin \/ Normal!PreviewBegin
           \/ Normal!PreviewEnd \/ Normal!Decline \/ Normal!Confirm
           \/ Normal!CleanSort \/ Normal!Validate \/ Normal!CheckEnd
           \/ Normal!CleanDone \/ Normal!Restart
  BY <1>3 DEF Normal!ScanFails, Normal!CheckBegin, Normal!PreviewBegin,
              Normal!PreviewEnd, Normal!Decline, Normal!Confirm, Normal!CleanSort,
              Normal!Validate, Normal!CheckEnd, Normal!CleanDone, Normal!Restart,
              Normal!Released, Normal!ScanBegin, Normal!Settled
<1>4. CASE Normal!RemoveAll \/ Normal!RemoveFails
  BY <1>4 DEF Normal!RemoveAll, Normal!RemoveFails
<1>5. QED
  BY <1>1, <1>2, <1>3, <1>4 DEF Normal!Next

LEMMA CatCleanStep == CatInv /\ Normal!Next => CatClean'
<1> SUFFICES ASSUME CatInv, Normal!Next PROVE CatClean'
  OBVIOUS
<1>a. /\ CatTypes /\ CatScan /\ CatDirs /\ CatClean
  BY DEF CatInv
<1>b. MaxSessions \in Nat /\ SessionSize \in Nat
  BY CatNumbers
<1>c. /\ \A s \in seen : measured[s] \in Nat
      /\ \A s \in dirs : size[s] \in Nat
  BY <1>a, <1>b DEF CatTypes, Weights, Normal!Sessions
<1> USE DEF Normal!createVars, Normal!sessionVars, Normal!scanVars, Normal!cleanVars,
        Normal!clientVars, Normal!history, Scanning
<1>1. ASSUME op # "delete", UNCHANGED <<op, plan, removing, deleted, spared>>
      PROVE  CatClean'
  BY <1>a, <1>1 DEF CatClean
<1>2. ASSUME op' # "delete", op' # "clean", plan' = {}, removing' = {}, deleted' = {}
      PROVE  CatClean'
  BY <1>2 DEF CatClean
<1>3. ASSUME NEW s \in Normal!Sessions,
             \/ Normal!Begin(s) \/ Normal!Grow(s) \/ Normal!Complete(s)
             \/ Normal!Leave(s) \/ Normal!Stop(s)
      PROVE  CatClean'
  <2>1. /\ UNCHANGED <<op, plan, removing, deleted, spared, deletable, seen, measured,
                       sizeAfter>>
    BY <1>3 DEF Normal!Begin, Normal!Grow, Normal!Complete, Normal!Leave, Normal!Stop
  <2>2. CASE op # "delete"
    BY <1>1, <2>1, <2>2
  <2>3. CASE op = "delete"
    <3>1. /\ final \subseteq final' /\ dirs \subseteq dirs' /\ older \subseteq older'
          /\ (recording' \cup wanted') \cap final \subseteq recording \cup wanted
      BY <1>3, <1>a DEF CatDirs, Normal!Begin, Normal!Grow, Normal!Complete,
         Normal!Leave, Normal!Stop
    <3>2. \A t \in dirs : size[t] <= size'[t]
      <4>1. CASE Normal!Grow(s)
        <5>1. size' = [size EXCEPT ![s] = size[s] + 1]
          BY <4>1 DEF Normal!Grow
        <5>2. \A t \in dirs : size'[t] = IF t = s THEN size[t] + 1 ELSE size[t]
          BY <1>a, <1>b, <5>1 DEF CatTypes, Weights, Normal!Sessions
        <5>3. QED
          BY <1>c, <5>2
      <4>2. CASE ~Normal!Grow(s)
        <5>1. size' = size
          BY <1>3, <4>2 DEF Normal!Begin, Normal!Complete, Normal!Leave, Normal!Stop
        <5>2. QED
          BY <1>c, <5>1
      <4>3. QED
        BY <4>1, <4>2
    <3>3. removing' \subseteq Normal!Oldest(plan)' /\ removing' \subseteq Free'
      BY <1>a, <2>1, <2>3, <3>1 DEF CatClean, Normal!Oldest, Free
    <3>4. Normal!Measured(seen)' = Normal!Measured(seen)
          /\ Normal!Measured(deleted)' = Normal!Measured(deleted)
      BY <2>1 DEF Normal!Measured
    <3>5. \A t \in (seen \ deleted) \ spared : measured[t] <= size'[t]
      <4>1. ASSUME NEW t \in (seen \ deleted) \ spared PROVE measured[t] <= size'[t]
        <5>1. measured[t] <= size[t] /\ t \in dirs
          BY <1>a, <2>3 DEF CatClean
        <5>2. size'[t] \in Nat
          <6>1. size' \in Weights
            BY CatTypesStep DEF CatTypes
          <6>2. t \in Normal!Sessions
            BY <5>1, <1>a, <1>b DEF CatTypes, Normal!Sessions
          <6>3. QED
            BY <6>1, <6>2, <1>b DEF Weights
        <5>3. measured[t] \in Nat /\ size[t] \in Nat /\ size[t] <= size'[t]
          BY <5>1, <3>2, <1>c
        <5>4. QED
          BY <5>1, <5>2, <5>3
      <4>2. QED
        BY <4>1
    <3>6. QED
      BY <1>a, <2>1, <2>3, <3>1, <3>3, <3>4, <3>5 DEF CatClean
  <2>4. QED
    BY <2>2, <2>3
<1>4. CASE \E s \in Normal!Sessions : Normal!Inspect(s)
  <2>1. op # "delete"
    BY <1>4, <1>a DEF CatScan, Normal!Inspect
  <2>2. UNCHANGED <<op, plan, removing, deleted, spared>>
    BY <1>4 DEF Normal!Inspect
  <2>3. QED
    BY <1>1, <2>1, <2>2
<1>5. CASE Normal!ScanFails \/ Normal!CheckBegin \/ Normal!PreviewBegin
           \/ Normal!PreviewEnd \/ Normal!CheckEnd \/ Normal!CleanDone \/ Normal!Restart
  BY <1>5, <1>2, <1>a
     DEF CatClean, Normal!ScanFails, Normal!CheckBegin, Normal!PreviewBegin,
         Normal!PreviewEnd, Normal!CheckEnd, Normal!CleanDone, Normal!Restart,
         Normal!Released, Normal!ScanBegin
<1>6. CASE Normal!Decline
  <2>1. op # "delete" /\ UNCHANGED <<op, plan, removing, deleted, spared>>
    BY <1>6, <1>a DEF CatScan, Normal!Decline
  <2>2. QED
    BY <1>1, <2>1
<1>7. CASE Normal!Confirm
  BY <1>7, <1>a DEF CatClean, Normal!Confirm, Normal!ScanBegin
<1>8. CASE Normal!CleanSort
  <2>1. /\ op = "clean" /\ op' = "delete" /\ plan' = deletable
        /\ sizeAfter' = Normal!Measured(seen)
        /\ UNCHANGED <<seen, measured, deletable, dirs, final, size, recording, wanted,
                       older, removing, deleted, spared>>
    BY <1>8 DEF Normal!CleanSort
  <2>2. deleted = {} /\ spared = {} /\ removing = {}
    BY <1>a, <2>1 DEF CatClean
  <2>3. /\ deletable \subseteq final /\ seen \subseteq dirs
        /\ \A s \in seen : measured[s] <= size[s]
    BY <1>a, <2>1 DEF CatScan
  <2>4. Normal!Measured(seen)' = Normal!Measured(seen) /\ Normal!Measured(deleted)' = 0
    BY <2>1, <2>2, CatSums, SumEmpty DEF Normal!Measured
  <2>5. Normal!Measured(seen) \in Nat
    <3>1. seen \in SUBSET Normal!Sessions /\ measured \in Weights
      BY <1>a, <1>b DEF CatTypes, Normal!Sessions
    <3>2. QED
      BY <3>1, SizeType, CatSums DEF Normal!Measured
  <2>6. sizeAfter' = Normal!Measured(seen)' - Normal!Measured(deleted)'
    BY <2>1, <2>4, <2>5
  <2>7. QED
    BY <2>1, <2>2, <2>3, <2>6 DEF CatClean
<1>9. CASE Normal!Validate
  <2>1. PICK s \in Normal!Oldest(plan) :
          \/ /\ s \in recording \cup wanted
             /\ plan' = plan \ {s} /\ spared' = spared \cup {s} /\ UNCHANGED removing
          \/ /\ s \notin recording \cup wanted
             /\ removing' = {s} /\ UNCHANGED <<plan, spared>>
    BY <1>9 DEF Normal!Validate
  <2>2. /\ op = "delete" /\ removing = {} /\ sizeAfter > Normal!Target
        /\ UNCHANGED <<op, seen, measured, deletable, dirs, final, size, recording,
                       wanted, older, deleted, sizeAfter>>
    BY <1>9 DEF Normal!Validate, Normal!Needed
  <2>3. Normal!Measured(seen)' = Normal!Measured(seen)
        /\ Normal!Measured(deleted)' = Normal!Measured(deleted)
    BY <2>2 DEF Normal!Measured
  <2>4. s \in plan /\ s \in final
    BY <2>2, <1>a DEF CatClean, Normal!Oldest
  <2>5. removing' \subseteq Normal!Oldest(plan)' /\ removing' \subseteq Free'
        /\ (removing' # {} => sizeAfter' > Normal!Target)
    BY <2>1, <2>2, <2>4 DEF Normal!Oldest, Free
  <2>6. /\ plan' \subseteq plan /\ deleted \cap plan' = {} /\ spared' \cap plan' = {}
        /\ deleted \cap spared' = {} /\ spared' \cup plan' = spared \cup plan
        /\ spared \subseteq spared'
    BY <2>1, <2>2, <2>4, <1>a DEF CatClean
  <2>7. QED
    BY <1>a, <2>2, <2>3, <2>5, <2>6 DEF CatClean
<1>10. CASE Normal!RemoveAll
  <2>1. PICK s \in removing :
          /\ dirs' = dirs \ {s} /\ final' = final \ {s}
          /\ sizeAfter' = sizeAfter - measured[s]
          /\ deleted' = deleted \cup {s}
          /\ size' = [size EXCEPT ![s] = 0]
          /\ plan' = plan \ {s}
    BY <1>10 DEF Normal!RemoveAll
  <2>2. /\ op = "delete" /\ removing' = {}
        /\ UNCHANGED <<op, seen, measured, deletable, older, spared>>
    BY <1>10 DEF Normal!RemoveAll
  <2>3. s \in plan /\ (\A t \in plan \ {s} : <<s, t>> \in older)
        /\ s \in seen /\ s \notin deleted /\ s \notin spared /\ deleted \subseteq seen
    BY <2>2, <1>a DEF CatClean, CatScan, Normal!Oldest
  <2>4. Normal!Measured(deleted)' = measured[s] + Normal!Measured(deleted)
    <3>1. /\ deleted \in SUBSET Normal!Sessions /\ s \in Normal!Sessions \ deleted
          /\ measured \in Weights
      BY <2>3, <1>a, <1>b DEF CatTypes, Normal!Sessions
    <3>2. SumFunctionOnSet(measured, deleted \cup {s})
             = measured[s] + SumFunctionOnSet(measured, deleted)
      BY <3>1, SizeAdd
    <3>3. QED
      BY <2>1, <2>2, <3>2, CatSums DEF Normal!Measured
  <2>5. sizeAfter' = Normal!Measured(seen)' - Normal!Measured(deleted)'
    <3>1. /\ deleted \in SUBSET Normal!Sessions /\ seen \in SUBSET Normal!Sessions
          /\ measured \in Weights /\ measured[s] \in Nat
      BY <2>3, <1>a, <1>b, <1>c DEF CatTypes, Normal!Sessions
    <3>2. Normal!Measured(seen) \in Nat /\ Normal!Measured(deleted) \in Nat
      BY <3>1, SizeType, CatSums DEF Normal!Measured
    <3>3. Normal!Measured(seen)' = Normal!Measured(seen)
      BY <2>2 DEF Normal!Measured
    <3>4. sizeAfter = Normal!Measured(seen) - Normal!Measured(deleted)
      BY <1>a, <2>2 DEF CatClean
    <3>5. QED
      BY <2>1, <2>4, <3>1, <3>2, <3>3, <3>4
  <2>6. /\ deletable = deleted' \cup spared \cup plan'
        /\ deleted' \cap plan' = {} /\ spared \cap plan' = {} /\ deleted' \cap spared = {}
        /\ plan' \subseteq final' /\ seen \ deleted' \subseteq dirs'
    BY <1>a, <2>1, <2>2, <2>3 DEF CatClean
  <2>7. \A u \in deleted', t \in plan' : <<u, t>> \in older
    BY <1>a, <2>1, <2>2, <2>3 DEF CatClean
  <2>8. \A t \in (seen \ deleted') \ spared : measured[t] <= size'[t]
    <3>1. \A t \in (seen \ deleted') \ spared : size'[t] = size[t]
      BY <1>a, <2>1, <2>2 DEF CatTypes, Weights
    <3>2. QED
      BY <1>a, <2>1, <2>2, <3>1 DEF CatClean
  <2>9. QED
    BY <2>2, <2>5, <2>6, <2>7, <2>8 DEF CatClean
<1>11. CASE Normal!RemoveFails
  <2>1. PICK s \in removing, n \in 0..SessionSize :
          /\ size' = [size EXCEPT ![s] = n] /\ final' \in {final, final \ {s}}
          /\ plan' = plan \ {s} /\ spared' = spared \cup {s}
    BY <1>11 DEF Normal!RemoveFails
  <2>2. /\ op = "delete" /\ removing' = {}
        /\ UNCHANGED <<op, seen, measured, deletable, older, deleted, dirs, sizeAfter>>
    BY <1>11 DEF Normal!RemoveFails
  <2>3. s \in plan
    BY <2>2, <1>a DEF CatClean, Normal!Oldest
  <2>4. Normal!Measured(seen)' = Normal!Measured(seen)
        /\ Normal!Measured(deleted)' = Normal!Measured(deleted)
    BY <2>2 DEF Normal!Measured
  <2>5. /\ deletable = deleted \cup spared' \cup plan'
        /\ deleted \cap plan' = {} /\ spared' \cap plan' = {} /\ deleted \cap spared' = {}
        /\ plan' \subseteq final'
    BY <1>a, <2>1, <2>2, <2>3 DEF CatClean
  <2>6. \A t \in (seen \ deleted) \ spared' : measured[t] <= size'[t]
    <3>1. \A t \in (seen \ deleted) \ spared' : size'[t] = size[t]
      BY <1>a, <2>1, <2>2 DEF CatTypes, Weights
    <3>2. QED
      BY <1>a, <2>1, <2>2, <3>1 DEF CatClean
  <2>7. QED
    BY <1>a, <2>1, <2>2, <2>4, <2>5, <2>6 DEF CatClean
<1>12. QED
  BY <1>3, <1>4, <1>5, <1>6, <1>7, <1>8, <1>9, <1>10, <1>11 DEF Normal!Next

\* What had finished before the last passed check.
LEMMA CatQuotaStep == CatInv /\ Normal!Next => CatQuota'
<1> SUFFICES ASSUME CatInv, Normal!Next PROVE CatQuota'
  OBVIOUS
<1>a. CatTypes /\ CatScan /\ CatDirs /\ CatClean /\ CatQuota
  BY DEF CatInv
<1>b. MaxSessions \in Nat /\ SessionSize \in Nat /\ MaxTotal \in Nat
  BY CatNumbers
<1>c. size \in Weights /\ size' \in Weights /\ Held \in SUBSET Normal!Sessions
  BY <1>a, <1>b, CatTypesStep DEF CatTypes, Held, Normal!Sessions
<1>d. \A s \in Held : size[s] \in Nat /\ size'[s] \in Nat
  BY <1>c, SizeType
<1> USE DEF Normal!createVars, Normal!sessionVars, Normal!scanVars, Normal!cleanVars,
        Normal!clientVars, Normal!history
\* Fewer or smaller directories are below the limit.
<1>1. ASSUME Held' \subseteq Held, \A s \in Held' : size'[s] <= size[s]
      PROVE  SumFunctionOnSet(size, Held)' < MaxTotal
  <2> DEFINE v == size'
             S == Held'
  <2>1. v \in Weights /\ S \in SUBSET Held /\ \A s \in S : v[s] <= size[s]
    BY <1>1, <1>c
  <2> HIDE DEF v, S
  <2>2. SumFunctionOnSet(v, S) <= SumFunctionOnSet(size, Held)
    BY <2>1, <1>c, SizeMore
  <2>3. SumFunctionOnSet(v, S) \in Nat /\ SumFunctionOnSet(size, Held) \in Nat
    BY <2>1, <1>c, SizeType
  <2>4. SumFunctionOnSet(size, Held) < MaxTotal
    BY <1>a DEF CatQuota
  <2>5. SumFunctionOnSet(v, S) < MaxTotal
    BY <2>2, <2>3, <2>4, <1>b
  <2>6. QED
    BY <2>5 DEF v, S
<1>2. ASSUME UNCHANGED <<dirs, settledAtCheck, size>>,
             (wanted' \cup (recording' \ final')) \cap Held
                \subseteq wanted \cup (recording \ final)
      PROVE  CatQuota'
  <2>1. Held' = Held
    BY <1>2 DEF Held
  <2>2. SumFunctionOnSet(size, Held)' < MaxTotal
    BY <1>1, <1>2, <1>d, <2>1
  <2>3. QED
    BY <1>2, <1>a, <2>1, <2>2 DEF CatQuota
<1>3. ASSUME NEW s \in Normal!Sessions, Normal!Begin(s) PROVE CatQuota'
  <2>1. /\ s \in admitted /\ dirs' = dirs \cup {s} /\ recording' = recording \cup {s}
        /\ wanted' = wanted \cup {s} /\ UNCHANGED <<settledAtCheck, size, final>>
    BY <1>3 DEF Normal!Begin
  <2>2. s \notin settledAtCheck
    BY <2>1, <1>a DEF CatDirs
  <2>3. Held' = Held /\ s \notin Held
    BY <2>1, <2>2 DEF Held
  <2>4. SumFunctionOnSet(size, Held)' < MaxTotal
    BY <1>1, <2>1, <1>d, <2>3
  <2>5. QED
    BY <1>a, <2>1, <2>3, <2>4 DEF CatQuota
<1>4. ASSUME NEW s \in Normal!Sessions, Normal!Grow(s) PROVE CatQuota'
  <2>1. /\ s \in recording \ final /\ size[s] < SessionSize
        /\ size' = [size EXCEPT ![s] = @ + 1]
        /\ UNCHANGED <<dirs, recording, final, wanted, settledAtCheck>>
    BY <1>4 DEF Normal!Grow
  <2>2. s \notin Held
    <3>1. s \in Held => size[s] = SessionSize
      BY <2>1, <1>a DEF CatQuota
    <3>2. QED
      BY <2>1, <3>1, <1>b
  <2>3. Held' = Held /\ \A t \in Held : size'[t] = size[t]
    BY <2>1, <2>2, <1>c DEF Held, Weights
  <2>4. SumFunctionOnSet(size, Held)' < MaxTotal
    BY <1>1, <1>d, <2>3
  <2>5. QED
    BY <1>a, <2>1, <2>3, <2>4 DEF CatQuota
<1>5. ASSUME NEW s \in Normal!Sessions,
             \/ Normal!Complete(s) \/ Normal!Leave(s) \/ Normal!Stop(s)
             \/ Normal!Inspect(s)
      PROVE  CatQuota'
  BY <1>2, <1>5 DEF Normal!Complete, Normal!Leave, Normal!Stop, Normal!Inspect
<1>6. CASE \/ Normal!ScanFails \/ Normal!CheckBegin \/ Normal!PreviewBegin
           \/ Normal!PreviewEnd \/ Normal!Decline \/ Normal!Confirm
           \/ Normal!CleanSort \/ Normal!Validate
  BY <1>2, <1>6
     DEF Normal!ScanFails, Normal!CheckBegin, Normal!PreviewBegin,
         Normal!PreviewEnd, Normal!Decline, Normal!Confirm, Normal!CleanSort,
         Normal!Validate, Normal!ScanBegin
<1>7. CASE Normal!CheckEnd
  <2>1. /\ UNCHANGED <<dirs, size, recording, final, wanted>>
        /\ op = "check" /\ todo = {}
        /\ \/ Normal!HasRoom /\ settledAtCheck' = checking
           \/ UNCHANGED settledAtCheck
    BY <1>7 DEF Normal!CheckEnd
  <2>2. CASE UNCHANGED settledAtCheck
    BY <1>2, <2>1, <2>2
  <2>3. CASE Normal!HasRoom /\ settledAtCheck' = checking
    <3>1. /\ checking \subseteq seen /\ checking \subseteq final /\ checking \subseteq dirs
          /\ \A s \in checking : measured[s] = size[s]
          /\ \A s \in checking \cap wanted : size[s] = SessionSize
      BY <2>1, <1>a DEF CatScan, CatDirs
    <3>2. Held' = checking
      BY <2>1, <2>3, <3>1 DEF Held
    <3>3. /\ checking \in SUBSET seen /\ seen \in SUBSET Normal!Sessions
          /\ checking \in SUBSET Normal!Sessions /\ measured \in Weights
      BY <3>1, <1>a, <1>b DEF CatTypes, Normal!Sessions
    <3>4. \A s \in checking : size[s] \in Nat /\ measured[s] \in Nat
      BY <3>3, <1>c, SizeType
    <3>5. SumFunctionOnSet(size, checking) <= SumFunctionOnSet(measured, seen)
      BY <3>1, <3>3, <3>4, <1>c, SizeMore
    <3>6. SumFunctionOnSet(measured, seen) < MaxTotal
      BY <2>3, CatSums DEF Normal!HasRoom, Normal!Measured
    <3>7. /\ SumFunctionOnSet(size, checking) \in Nat
          /\ SumFunctionOnSet(measured, seen) \in Nat
      BY <3>3, <1>c, SizeType
    <3>8. SumFunctionOnSet(size, checking) < MaxTotal
      BY <3>5, <3>6, <3>7, <1>b
    <3>9. SumFunctionOnSet(size, Held)' < MaxTotal
      BY <2>1, <3>2, <3>8
    <3>10. \A s \in checking \cap (wanted \cup (recording \ final)) : size[s] = SessionSize
      BY <3>1
    <3>11. QED
      BY <2>1, <3>2, <3>9, <3>10 DEF CatQuota
  <2>4. QED
    BY <2>1, <2>2, <2>3
<1>8. CASE Normal!RemoveAll
  <2>1. PICK s \in removing :
          /\ dirs' = dirs \ {s} /\ final' = final \ {s}
          /\ size' = [size EXCEPT ![s] = 0]
    BY <1>8 DEF Normal!RemoveAll
  <2>2. UNCHANGED <<recording, wanted, settledAtCheck>>
    BY <1>8 DEF Normal!RemoveAll
  <2>3. Held' = Held \ {s}
    BY <2>1, <2>2 DEF Held
  <2>4. \A t \in Held' : size'[t] = size[t]
    BY <2>1, <2>3, <1>c DEF Weights
  <2>5. SumFunctionOnSet(size, Held)' < MaxTotal
    BY <1>1, <1>d, <2>3, <2>4
  <2>6. QED
    BY <1>a, <2>1, <2>2, <2>3, <2>4, <2>5 DEF CatQuota
<1>9. CASE Normal!RemoveFails
  <2>1. PICK s \in removing, n \in 0..SessionSize :
          /\ n <= size[s]
          /\ size' = [size EXCEPT ![s] = n] /\ final' \in {final, final \ {s}}
    BY <1>9 DEF Normal!RemoveFails
  <2>2. s \notin recording \cup wanted
    BY <1>9, <1>a DEF Normal!RemoveFails, CatClean, Free
  <2>3. UNCHANGED <<dirs, recording, wanted, settledAtCheck>>
    BY <1>9 DEF Normal!RemoveFails
  <2>4. Held' = Held
    BY <2>3 DEF Held
  <2>5. \A t \in Held : size'[t] = IF t = s THEN n ELSE size[t]
    BY <2>1, <1>c DEF Weights
  <2>6. \A t \in Held' : size'[t] <= size[t]
    BY <2>1, <2>4, <2>5, <1>d
  <2>7. SumFunctionOnSet(size, Held)' < MaxTotal
    BY <1>1, <2>4, <2>6
  <2>8. \A t \in Held \cap (wanted' \cup (recording' \ final')) : size'[t] = SessionSize
    BY <1>a, <2>1, <2>2, <2>3, <2>5 DEF CatQuota
  <2>9. QED
    BY <2>4, <2>7, <2>8 DEF CatQuota
<1>10. CASE Normal!CleanDone
  <2>1. /\ UNCHANGED <<dirs, recording, final, wanted, size>>
        /\ settledAtCheck' = settledAtCheck \cap dirs
    BY <1>10 DEF Normal!CleanDone
  <2>2. Held' = Held
    BY <2>1 DEF Held
  <2>3. SumFunctionOnSet(size, Held)' < MaxTotal
    BY <1>1, <1>d, <2>1, <2>2
  <2>4. QED
    BY <1>a, <2>1, <2>2, <2>3 DEF CatQuota
<1>11. CASE Normal!Restart
  <2>1. /\ wanted' \subseteq wanted /\ recording' \subseteq wanted
        /\ UNCHANGED <<dirs, size, settledAtCheck>>
    BY <1>11 DEF Normal!Restart
  <2>2. QED
    BY <1>2, <2>1
<1>12. QED
  BY <1>3, <1>4, <1>5, <1>6, <1>7, <1>8, <1>9, <1>10, <1>11 DEF Normal!Next

\* The dialogue of the client.
LEMMA CatDialogueStep == CatInv /\ Normal!Next => CatDialogue'
<1> SUFFICES ASSUME CatInv, Normal!Next PROVE CatDialogue'
  OBVIOUS
<1>a. CatTypes /\ CatScan /\ CatDirs /\ CatClean /\ CatDialogue
  BY DEF CatInv
<1>b. MaxSessions \in Nat /\ SessionSize \in Nat
  BY CatNumbers
<1> USE DEF Normal!createVars, Normal!sessionVars, Normal!scanVars, Normal!cleanVars,
        Normal!clientVars, Normal!history
\* Nobody has asked.
<1>1. ASSUME client' = "idle", op' \notin {"preview", "clean", "delete"}
      PROVE  CatDialogue'
  BY <1>1 DEF CatDialogue
<1>2. ASSUME changed' PROVE CatDialogue'
  BY <1>2 DEF CatDialogue
<1>3. ASSUME UNCHANGED <<client, dirs, size, recording, final, wanted, older, listed,
                         changed>>,
             op \notin {"preview", "clean", "delete"},
             op' \notin {"preview", "clean", "delete"}
      PROVE  CatDialogue'
  BY <1>a, <1>3 DEF CatDialogue, Listing, Free
\* What a scan of unchanged directories ends with is what is listed of them.
<1>4. ASSUME op \in {"preview", "clean"}, todo = {}, ~changed
      PROVE  Listing(measured, seen, deletable) = Listing(size, dirs, Free)
  <2>1. seen = dirs /\ deletable = Free /\ \A s \in dirs : measured[s] = size[s]
    <3>1. seen = dirs /\ deletable = seen \cap Free /\ Free \subseteq dirs
          /\ \A s \in seen : measured[s] = size[s]
      BY <1>a, <1>4 DEF CatDialogue, CatDirs, Free
    <3>2. QED
      BY <3>1
  <2>2. /\ measured \in Weights /\ size \in Weights /\ dirs \in SUBSET Normal!Sessions
        /\ Free \in SUBSET dirs
    BY <1>a, <1>b DEF CatTypes, CatDirs, Free, Normal!Sessions
  <2>3. Listing(measured, dirs, Free) = Listing(size, dirs, Free)
    BY <2>1, <2>2, ListingSame
  <2>4. QED
    BY <2>1, <2>3
<1>5. ASSUME NEW s \in Normal!Sessions,
             \/ Normal!Begin(s) \/ Normal!Grow(s) \/ Normal!Complete(s)
             \/ Normal!Leave(s) \/ Normal!Stop(s)
      PROVE  CatDialogue'
  <2>1. UNCHANGED <<op, client>> /\ changed' = (client # "idle")
    BY <1>5 DEF Normal!Begin, Normal!Grow, Normal!Complete, Normal!Leave, Normal!Stop,
                Normal!Changed
  <2>2. CASE client = "idle"
    BY <1>1, <1>a, <2>1, <2>2 DEF CatScan
  <2>3. CASE client # "idle"
    BY <1>2, <2>1, <2>3
  <2>4. QED
    BY <2>2, <2>3
<1>6. ASSUME NEW s \in Normal!Sessions, Normal!Inspect(s) PROVE CatDialogue'
  <2>1. /\ s \in todo /\ s \in dirs /\ todo' = todo \ {s} /\ s \in Normal!Sessions
    BY <1>6, <1>a, InspectsLeft
  <2>2. /\ seen' = seen \cup {s} /\ measured' = [measured EXCEPT ![s] = size[s]]
        /\ deletable' = IF op # "check" /\ s \in final \ (snapshot \cup wanted)
                        THEN deletable \cup {s} ELSE deletable
        /\ snapshot' = snapshot \ {s}
        /\ UNCHANGED <<dirs, recording, final, wanted, size, older, op, client, listed,
                       deleted, changed, spared, plan>>
    BY <1>6 DEF Normal!Inspect
  <2>3. CASE ~changed /\ op \in {"preview", "clean"}
    <3>1. /\ seen \cup todo = dirs /\ deletable = seen \cap Free
          /\ \A t \in seen : measured[t] = size[t]
          /\ snapshot = recording \cap todo
      BY <1>a, <2>3 DEF CatDialogue
    <3>2. seen' \cup todo' = dirs /\ snapshot' = recording \cap todo'
      BY <2>1, <2>2, <3>1
    <3>3. deletable' = seen' \cap Free
      BY <2>1, <2>2, <2>3, <3>1 DEF Free
    <3>4. \A t \in seen' : measured'[t] = size[t]
      <4>1. \A t \in seen' : t \in Normal!Sessions
        BY <2>1, <2>2, <1>a, <1>b DEF CatTypes, Normal!Sessions
      <4>2. QED
        BY <2>2, <3>1, <4>1, <1>a DEF CatTypes, Weights
    <3>5. Free' = Free
      BY <2>2 DEF Free
    <3>6. op # "delete" /\ Listing(size, dirs, Free)' = Listing(size, dirs, Free)
      BY <2>2, <2>3 DEF Listing, Free
    <3>7. client \in {"prompt", "clean"} => listed = Listing(size, dirs, Free)
      BY <1>a, <2>3 DEF CatDialogue
    <3>8. QED
      BY <2>2, <3>2, <3>3, <3>4, <3>5, <3>6, <3>7 DEF CatDialogue
  <2>4. CASE changed
    BY <1>2, <2>2, <2>4
  <2>5. CASE op \notin {"preview", "clean"}
    <3>1. op # "delete"
      BY <2>1, <1>a DEF CatScan
    <3>2. QED
      BY <1>3, <2>2, <2>5, <3>1
  <2>6. QED
    BY <2>3, <2>4, <2>5 DEF CatDialogue
<1>7. CASE Normal!ScanFails
  <2>1. CASE op = "check"
    <3>1. /\ op' = "none"
          /\ UNCHANGED <<client, dirs, size, recording, final, wanted, older, listed,
                         changed>>
      BY <1>7, <2>1 DEF Normal!ScanFails, Normal!Released
    <3>2. QED
      BY <1>3, <2>1, <3>1
  <2>2. CASE op # "check"
    BY <1>1, <1>7, <2>2 DEF Normal!ScanFails, Normal!Released
  <2>3. QED
    BY <2>1, <2>2
<1>8. CASE Normal!CheckBegin \/ Normal!CheckEnd
  <2>1. /\ op \in {"none", "check"} /\ op' \in {"none", "check"}
        /\ UNCHANGED <<client, dirs, size, recording, final, wanted, older, listed,
                       changed>>
    BY <1>8 DEF Normal!CheckBegin, Normal!CheckEnd, Normal!ScanBegin, Normal!Released
  <2>2. QED
    BY <1>3, <2>1
<1>9. CASE Normal!PreviewBegin
  <2>1. /\ op' = "preview" /\ client' = "preview" /\ todo' = dirs /\ seen' = {}
        /\ deletable' = {} /\ snapshot' = recording
        /\ UNCHANGED <<dirs, recording>>
    BY <1>9 DEF Normal!PreviewBegin, Normal!ScanBegin
  <2>2. recording' = recording \cap dirs
    BY <2>1, <1>a DEF CatDirs
  <2>3. QED
    BY <2>1, <2>2 DEF CatDialogue
<1>10. CASE Normal!PreviewEnd
  <2>1. /\ op = "preview" /\ todo = {} /\ op' = "none"
        /\ listed' = Normal!Preview
        /\ client' = IF Normal!Preview = {} THEN "idle" ELSE "prompt"
        /\ changed' = (changed /\ Normal!Preview # {})
        /\ UNCHANGED <<dirs, recording, final, wanted, size, older>>
    BY <1>10 DEF Normal!PreviewEnd, Normal!Released
  <2>2. CASE Normal!Preview = {}
    BY <1>1, <2>1, <2>2
  <2>3. CASE Normal!Preview # {} /\ ~changed
    <3>1. listed' = Listing(size, dirs, Free)
      BY <1>4, <2>1, <2>3, PreviewLists
    <3>2. Listing(size, dirs, Free)' = Listing(size, dirs, Free)
      BY <2>1 DEF Listing, Free
    <3>3. QED
      BY <2>1, <3>1, <3>2 DEF CatDialogue
  <2>4. CASE Normal!Preview # {} /\ changed
    BY <1>2, <2>1, <2>4
  <2>5. QED
    BY <2>2, <2>3, <2>4
<1>11. CASE Normal!Decline
  BY <1>1, <1>11, <1>a DEF CatScan, Normal!Decline
<1>12. CASE Normal!Confirm
  <2>1. /\ op = "none" /\ client = "prompt" /\ client' = "clean" /\ op' = "clean"
        /\ todo' = dirs /\ seen' = {} /\ deletable' = {} /\ snapshot' = recording
        /\ UNCHANGED <<dirs, recording, final, wanted, size, older, listed, changed>>
    BY <1>12 DEF Normal!Confirm, Normal!ScanBegin
  <2>2. recording' = recording \cap dirs
    BY <2>1, <1>a DEF CatDirs
  <2>3. Listing(size, dirs, Free)' = Listing(size, dirs, Free)
    BY <2>1 DEF Listing, Free
  <2>4. ~changed => listed = Listing(size, dirs, Free)
    BY <1>a, <2>1 DEF CatDialogue
  <2>5. QED
    BY <2>1, <2>2, <2>3, <2>4 DEF CatDialogue
<1>13. CASE Normal!CleanSort
  <2>1. /\ op = "clean" /\ todo = {} /\ op' = "delete" /\ plan' = deletable
        /\ UNCHANGED <<dirs, recording, final, wanted, size, older, client, listed,
                       changed, seen, measured, deletable, deleted, spared>>
    BY <1>13 DEF Normal!CleanSort
  <2>2. CASE ~changed
    <3>1. listed = Listing(measured, seen, deletable)
      BY <1>4, <1>a, <2>1, <2>2 DEF CatDialogue, CatScan
    <3>2. Listing(measured, seen, deletable)' = Listing(measured, seen, deletable)
      BY <2>1 DEF Listing
    <3>3. deleted = {} /\ spared = {}
      BY <1>a, <2>1 DEF CatClean
    <3>4. deletable \cap (recording \cup wanted) = {}
      BY <1>a, <2>1, <2>2 DEF CatDialogue, Free
    <3>5. QED
      BY <2>1, <3>1, <3>2, <3>3, <3>4 DEF CatDialogue
  <2>3. CASE changed
    BY <1>2, <2>1, <2>3
  <2>4. QED
    BY <2>2, <2>3
<1>14. CASE Normal!Validate
  <2>1. PICK s \in Normal!Oldest(plan) :
          \/ /\ s \in recording \cup wanted
             /\ plan' = plan \ {s} /\ spared' = spared \cup {s} /\ UNCHANGED removing
          \/ /\ s \notin recording \cup wanted
             /\ removing' = {s} /\ UNCHANGED <<plan, spared>>
    BY <1>14 DEF Normal!Validate
  <2>2. /\ op = "delete"
        /\ UNCHANGED <<op, seen, measured, deletable, recording, wanted, older, deleted,
                       listed, changed, client>>
    BY <1>14 DEF Normal!Validate
  <2>3. CASE ~changed
    <3>1. s \notin recording \cup wanted
      BY <1>a, <2>1, <2>2, <2>3 DEF CatDialogue, Normal!Oldest
    <3>2. UNCHANGED <<plan, spared>>
      BY <2>1, <3>1
    <3>3. Listing(measured, seen, deletable)' = Listing(measured, seen, deletable)
      BY <2>2 DEF Listing
    <3>4. QED
      BY <1>a, <2>2, <2>3, <3>2, <3>3 DEF CatDialogue
  <2>4. CASE changed
    BY <1>2, <2>2, <2>4
  <2>5. QED
    BY <2>3, <2>4
<1>15. CASE Normal!RemoveAll
  <2>1. PICK s \in removing : deleted' = deleted \cup {s} /\ plan' = plan \ {s}
    BY <1>15 DEF Normal!RemoveAll
  <2>2. /\ op = "delete"
        /\ UNCHANGED <<op, seen, measured, deletable, recording, wanted, older, listed,
                       changed, client, spared>>
    BY <1>15 DEF Normal!RemoveAll
  <2>3. CASE ~changed
    <3>1. /\ spared = {} /\ listed = Listing(measured, seen, deletable)
          /\ deleted \subseteq listed /\ plan \cap (recording \cup wanted) = {}
      BY <1>a, <2>2, <2>3 DEF CatDialogue
    <3>2. /\ s \in plan /\ (\A t \in plan \ {s} : <<s, t>> \in older)
          /\ plan \subseteq final /\ deletable = deleted \cup plan
          /\ \A u \in deleted, t \in plan : <<u, t>> \in older
          /\ sizeAfter > Normal!Target
          /\ sizeAfter = Normal!Measured(seen) - Normal!Measured(deleted)
      BY <1>a, <2>2, <3>1 DEF CatClean, Normal!Oldest
    <3>3. \A t \in plan : <<t, s>> \notin older
      BY <3>2, <1>a DEF CatDirs, Normal!Linear
    <3>4. {t \in deletable : <<t, s>> \in older} = deleted
      BY <3>2, <3>3
    <3>5. s \in Listing(measured, seen, deletable)
      BY <3>2, <3>4, CatSums DEF Listing, Normal!Measured
    <3>6. Listing(measured, seen, deletable)' = Listing(measured, seen, deletable)
      BY <2>2 DEF Listing
    <3>7. QED
      BY <2>1, <2>2, <3>1, <3>5, <3>6 DEF CatDialogue
  <2>4. CASE changed
    BY <1>2, <2>2, <2>4
  <2>5. QED
    BY <2>3, <2>4
<1>16. CASE Normal!RemoveFails
  BY <1>2, <1>16 DEF Normal!RemoveFails
<1>17. CASE Normal!CleanDone \/ Normal!Restart
  BY <1>1, <1>17 DEF Normal!CleanDone, Normal!Restart, Normal!Released
<1>18. QED
  BY <1>5, <1>6, <1>7, <1>8, <1>9, <1>10, <1>11, <1>12, <1>13, <1>14, <1>15, <1>16,
     <1>17 DEF Normal!Next

LEMMA CatStep == CatInv /\ (Normal!Next \/ UNCHANGED normalVars) => CatInv'
<1>1. CatInv /\ Normal!Next => CatInv'
  BY CatTypesStep, CatDirsStep, CatScanStep, CatCleanStep, CatQuotaStep,
     CatDialogueStep DEF CatInv
<1>2. QED
  BY <1>1, CatStutter

-----------------------------------------------------------------------------
(* What the invariant says of the directories.                             *)

LEMMA CatTypesFollow == CatInv => Normal!TypeOK
<1> SUFFICES ASSUME CatInv PROVE Normal!TypeOK
  OBVIOUS
<1>1. CatTypes /\ CatDirs /\ CatScan /\ CatClean
  BY DEF CatInv
<1>2. removing \subseteq plan /\ plan \subseteq final
  BY <1>1 DEF CatTypes, CatClean, Normal!Oldest
<1>3. dirs \cup admitted \subseteq Normal!Sessions
  BY <1>1, CatNumbers DEF CatTypes, Normal!Sessions
<1>4. QED
  BY <1>1, <1>2, <1>3
  DEF CatTypes, CatDirs, CatScan, Scanning, Weights, Normal!TypeOK

\* What is measured and neither deleted nor freed by a failure is on the disk.
LEMMA CatAboveTarget == CatInv => Normal!DeletesOnlyAboveTarget
<1> DEFINE uncounted == {s \in spared : size[s] < measured[s]}
           rest == (seen \ deleted) \ uncounted
<1> SUFFICES ASSUME CatInv, removing # {}
             PROVE  Normal!Usage + Normal!Measured(uncounted) > Normal!Target
  BY DEF Normal!DeletesOnlyAboveTarget
<1>1. CatTypes /\ CatScan /\ CatClean /\ CatDirs
  BY DEF CatInv
<1>2. op = "delete"
  BY <1>1 DEF CatClean
<1>3. /\ seen \in SUBSET Normal!Sessions /\ dirs \in SUBSET Normal!Sessions
      /\ size \in Weights /\ measured \in Weights
  BY <1>1, CatNumbers DEF CatTypes, Normal!Sessions
<1>4. deleted \in SUBSET seen /\ seen \ deleted \in SUBSET Normal!Sessions
      /\ uncounted \in SUBSET (seen \ deleted)
  BY <1>1, <1>2, <1>3 DEF CatClean, CatScan
<1>5. rest \in SUBSET dirs /\ \A s \in rest : measured[s] <= size[s]
  <2>1. \A s \in seen : measured[s] \in Nat
    BY <1>3, SizeType
  <2>2. \A s \in seen \ deleted : s \in dirs /\ size[s] \in Nat
    BY <1>1, <1>2, <1>3, SizeType DEF CatClean
  <2>3. \A s \in (seen \ deleted) \ spared : measured[s] <= size[s]
    BY <1>1, <1>2 DEF CatClean
  <2>4. \A s \in rest : s \in spared => ~(size[s] < measured[s])
    OBVIOUS
  <2>5. QED
    BY <2>1, <2>2, <2>3, <2>4
<1> HIDE DEF uncounted
<1>6. SumFunctionOnSet(measured, seen)
         = SumFunctionOnSet(measured, deleted) + SumFunctionOnSet(measured, seen \ deleted)
  BY <1>3, <1>4, SizeSplit
<1>7. SumFunctionOnSet(measured, seen \ deleted)
         = SumFunctionOnSet(measured, uncounted) + SumFunctionOnSet(measured, rest)
  BY <1>3, <1>4, SizeSplit
<1> HIDE DEF rest
<1>8. SumFunctionOnSet(measured, rest) <= SumFunctionOnSet(size, dirs)
  BY <1>3, <1>5, SizeMore
<1>9. /\ sizeAfter > Normal!Target
      /\ sizeAfter = Normal!Measured(seen) - Normal!Measured(deleted)
  BY <1>1, <1>2 DEF CatClean
<1>10. /\ SumFunctionOnSet(measured, deleted) \in Nat
       /\ SumFunctionOnSet(measured, uncounted) \in Nat
       /\ SumFunctionOnSet(measured, rest) \in Nat
       /\ SumFunctionOnSet(size, dirs) \in Nat
  <2>1. /\ deleted \in SUBSET Normal!Sessions /\ uncounted \in SUBSET Normal!Sessions
        /\ rest \in SUBSET Normal!Sessions
    BY <1>3, <1>4, <1>5
  <2>2. QED
    BY <2>1, <1>3, SizeType
<1>11. /\ \A S : Normal!Measured(S) = SumFunctionOnSet(measured, S)
       /\ Normal!Usage = SumFunctionOnSet(size, dirs)
  BY CatSums DEF Normal!Measured, Normal!Usage
<1>12. sizeAfter = SumFunctionOnSet(measured, uncounted) + SumFunctionOnSet(measured, rest)
  BY <1>6, <1>7, <1>9, <1>10, <1>11
<1>13. QED
  BY <1>8, <1>9, <1>10, <1>11, <1>12, CatNumbers

LEMMA CatDeletion == CatInv => Normal!DeletionIsJustified
<1> SUFFICES ASSUME CatInv PROVE Normal!DeletionIsJustified
  OBVIOUS
<1>1. CatClean
  BY DEF CatInv
<1>2. Normal!LiveIsKept
  BY <1>1 DEF CatClean, Free, Normal!LiveIsKept
<1>3. Normal!OldestFirst
  BY <1>1 DEF CatClean, Normal!OldestFirst
<1>4. QED
  BY <1>2, <1>3, CatAboveTarget DEF Normal!DeletionIsJustified

\* What is not among the directories that had finished counts with its full size.
LEMMA CatBound == CatInv => Normal!QuotaBound
<1> DEFINE others == (dirs \cup admitted) \ settledAtCheck
<1> SUFFICES ASSUME CatInv
             PROVE  Normal!Usage < MaxTotal + SessionSize * Normal!Cardinality(others)
  BY DEF Normal!QuotaBound
<1>1. CatTypes /\ CatQuota
  BY DEF CatInv
<1>2. /\ dirs \in SUBSET Normal!Sessions /\ others \in SUBSET Normal!Sessions
      /\ Held \in SUBSET dirs /\ dirs \ Held \in SUBSET others /\ size \in Weights
  BY <1>1, CatNumbers DEF CatTypes, Held, Normal!Sessions
<1> HIDE DEF others
<1>3. SumFunctionOnSet(size, dirs)
         = SumFunctionOnSet(size, Held) + SumFunctionOnSet(size, dirs \ Held)
  BY <1>2, SizeSplit
<1>4. /\ IsFiniteSet(others) /\ SumFunctionOnSet(size, others) \in Nat
      /\ \A s \in others : size[s] \in Nat /\ size[s] \in 0..SessionSize
  BY <1>2, SizeType
<1>5. SumFunctionOnSet(size, dirs \ Held) <= SumFunctionOnSet(size, others)
  <2>1. \A s \in dirs \ Held : size[s] <= size[s]
    BY <1>2, <1>4
  <2>2. QED
    BY <1>2, <2>1, SizeMore
<1>6. SumFunctionOnSet(size, others) <= SessionSize * Cardinality(others)
  BY <1>4, SumBound, CatNumbers
<1>7. SumFunctionOnSet(size, Held) < MaxTotal
  BY <1>1 DEF CatQuota
<1>8. /\ SumFunctionOnSet(size, Held) \in Nat /\ SumFunctionOnSet(size, dirs \ Held) \in Nat
  <2>1. Held \in SUBSET Normal!Sessions /\ dirs \ Held \in SUBSET Normal!Sessions
    BY <1>2
  <2>2. QED
    BY <2>1, <1>2, SizeType
<1>9. SessionSize * Cardinality(others) \in Nat
  <2>1. Cardinality(others) \in Nat
    BY <1>4, FS_CardinalityType
  <2>2. \A a, b \in Nat : a * b \in Nat
    OBVIOUS
  <2>3. QED
    BY <2>1, <2>2, CatNumbers
<1> DEFINE room == SessionSize * Cardinality(others)
<1>10. room \in Nat /\ SumFunctionOnSet(size, others) <= room
  BY <1>6, <1>9
<1> HIDE DEF room
<1>11. SumFunctionOnSet(size, dirs) < MaxTotal + room
  BY <1>3, <1>4, <1>5, <1>7, <1>8, <1>10, CatNumbers
<1>12. QED
  BY <1>11, CatSums DEF room, Normal!Usage

LEMMA CatConfirmed == CatInv => Normal!ConfirmedUnlessChanged
BY DEF CatInv, CatDialogue, Normal!ConfirmedUnlessChanged

-----------------------------------------------------------------------------
(* The composed specification that the runs check.                         *)

(* Each of the three parts keeps its invariant.                            *)
THEOREM RecordingsInductive == RecordingsSpec => [](IInv /\ LogInv /\ CatInv)
<1> DEFINE Moves == [RecordingsNext]_<<part, vars, logVars, normalVars>>
<1>1. RecordingsInit => IInv /\ LogInv /\ CatInv
  BY InitInv, LogStart, CatStart DEF RecordingsInit
<1>2. /\ Moves => Next \/ UNCHANGED vars
      /\ Moves => Logs!Next \/ UNCHANGED logVars
      /\ Moves => Normal!Next \/ UNCHANGED normalVars
  BY DEF RecordingsNext
<1>3. (IInv /\ LogInv /\ CatInv) /\ Moves => (IInv /\ LogInv /\ CatInv)'
  <2> SUFFICES ASSUME IInv, LogInv, CatInv, Moves PROVE IInv' /\ LogInv' /\ CatInv'
    OBVIOUS
  <2>1. IInv'
    BY <1>2, StepInv, StutterInv
  <2>2. LogInv' /\ CatInv'
    BY <1>2, LogStep, CatStep
  <2>3. QED
    BY <2>1, <2>2
<1>4. QED
  BY <1>1, <1>3, PTL DEF RecordingsSpec

(* The types of all three parts.                                           *)
THEOREM RecordingsTypes == ASSUME ~Overlap PROVE RecordingsSpec => []PartsTypeOK
<1>1. IInv /\ LogInv /\ CatInv => PartsTypeOK
  BY TypesFollow, LogRetention, CatTypesFollow DEF PartsTypeOK
<1>2. QED
  BY <1>1, RecordingsInductive, PTL

(* The same of one directory as in Spec, of which it is a part here.       *)
THEOREM Together ==
  RecordingsSpec => [](NoOverwrite /\ CleanupOnlyFinished /\ (~Overlap => RetentionIsRight))
<1>1. IInv => NoOverwrite /\ CleanupOnlyFinished /\ (~Overlap => RetentionIsRight)
  BY NamesAreKept, CleanupIsSafe, RetentionFollows
<1>2. QED
  BY <1>1, RecordingsInductive, PTL

(* open, Write, prune, finish and scan keep the files of all runs within   *)
(* the quota, the newest of each log, under names of their own and with    *)
(* the account that is theirs, whatever died, was restored or started anew *)
(* in between; the retention loop always has bytes to give up.             *)
THEOREM LogRetentionKept == RecordingsSpec => []LogRetentionIsRight
<1>1. LogInv => LogRetentionIsRight
  BY LogRetention DEF LogRetentionIsRight
<1>2. QED
  BY <1>1, RecordingsInductive, PTL

(* CleanSessionRecordings and validateDeletionCandidate delete a directory *)
(* only when its recording is over, no recorder is active in it, no boot   *)
(* will resume it, it is older than what could be deleted and is not, and  *)
(* the recordings are above half the limit, although sessions grow, finish *)
(* and stop while the loop runs.                                           *)
THEOREM DeletionJustified == RecordingsSpec => []DeletionIsJustified
<1>1. CatInv => DeletionIsJustified
  BY CatDeletion DEF DeletionIsJustified
<1>2. QED
  BY <1>1, RecordingsInductive, PTL

(* What the user confirmed is what the server deletes, unless a session    *)
(* changed since the preview (main, clean recordings).                     *)
THEOREM DeletionConfirmed == RecordingsSpec => []ConfirmedUnlessChanged
<1>1. CatInv => ConfirmedUnlessChanged
  BY CatConfirmed DEF ConfirmedUnlessChanged
<1>2. QED
  BY <1>1, RecordingsInductive, PTL

(* CheckNormalRecordingCapacity keeps what had finished for good before a  *)
(* Create, stopped or full, below the limit, however the checks of several *)
(* Creates interleave and whatever overflows and errors end other sessions *)
(* for a while.                                                            *)
THEOREM QuotaKept == RecordingsSpec => []QuotaBound
<1>1. CatInv => QuotaBound
  BY CatBound DEF QuotaBound
<1>2. QED
  BY <1>1, RecordingsInductive, PTL
=============================================================================
