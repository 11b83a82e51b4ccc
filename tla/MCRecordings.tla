---------------------------- MODULE MCRecordings ----------------------------
(***************************************************************************)
(* Everything that keeps recordings on the server's disk, in one run: the  *)
(* segments of a packet recording, the files of the workload log recorder  *)
(* and the directories of all normal sessions.  They share no state; each  *)
(* behaviour is one of the three at work, chosen at the start.             *)
(***************************************************************************)
EXTENDS Segments

CONSTANTS
    Streams, MaxRetainedSize, LineSizes, MaxDirs, MaxLines, MaxDeaths,
    MaxSessions, SessionSize, MaxTotal, MaxFaults

\* NewFactory rejects a segment that exceeds the quota.
ASSUME LogAssumption ==
    /\ MaxRetainedSize \in Nat /\ SegmentSize <= MaxRetainedSize
    /\ LineSizes \subseteq Nat /\ Streams # {} /\ MaxDirs \in Nat

\* The sizes of a configuration.  A MaxNormalTotal that is not positive turns the
\* limit, and the cleanup with it, off.
ASSUME CatalogAssumption ==
    MaxSessions \in Nat /\ SessionSize \in Nat /\ MaxTotal \in Nat \ {0}

VARIABLES
    part,
    task, step, line, writers, finalized, total, files, runDir, now, created,
    lines, deaths, pruned,
    dirs, recording, final, wanted, size, older, begun, admitted, op, todo,
    snapshot, seen, measured, deletable, plan, sizeAfter, removing, client, listed,
    deleted, changed, spared, settledAtCheck, checking, faults

Logs == INSTANCE LogFiles
Normal == INSTANCE Catalog WITH active <- recording, created <- begun

logVars == <<task, step, line, writers, finalized, total, files, runDir, now,
             created, lines, deaths, pruned>>
normalVars == <<dirs, recording, final, wanted, size, older, begun, admitted, op,
                todo, snapshot, seen, measured, deletable, plan, sizeAfter, removing,
                client, listed, deleted, changed, spared, settledAtCheck, checking,
                faults>>

RecordingsInit ==
    /\ part \in {"segments", "logs", "normal"}
    /\ Init /\ Logs!Init /\ Normal!Init
    /\ part = "segments" \/ mode = CHOOSE m \in Modes : TRUE

RecordingsNext ==
    /\ UNCHANGED part
    /\ \/ part = "segments" /\ UNCHANGED <<logVars, normalVars>> /\ Next
       \/ part = "logs" /\ UNCHANGED <<vars, normalVars>> /\ Logs!Next
       \/ part = "normal" /\ UNCHANGED <<vars, logVars>> /\ Normal!Next

RecordingsSpec ==
    RecordingsInit /\ [][RecordingsNext]_<<part, vars, logVars, normalVars>>

\* Types; an open log writer has its .part file.
PartsTypeOK ==
    /\ TypeOK
    /\ part = "logs" => Logs!TypeOK
    /\ part = "normal" => Normal!TypeOK

\* The log files of all runs are within the quota, the newest are kept under names
\* of their own, the account matches and the loop ends (open, scan, Write, prune).
LogRetentionIsRight == part = "logs" => Logs!RetentionIsRight

\* A normal recording is deleted only if it is finished and nobody's, the oldest,
\* and the usage above the target (validateDeletionCandidate,
\* CleanSessionRecordings).
DeletionIsJustified == part = "normal" => Normal!DeletionIsJustified

\* A directory the user has not confirmed is deleted only when a session changed
\* since the preview (the client's clean recordings).
ConfirmedUnlessChanged == part = "normal" => Normal!ConfirmedUnlessChanged

\* Sessions that had finished for good before a Create was admitted are below the
\* limit (CheckNormalRecordingCapacity).
QuotaBound == part = "normal" => Normal!QuotaBound
=============================================================================
