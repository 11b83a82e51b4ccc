------------------------------- MODULE Catalog ------------------------------
(***************************************************************************)
(* The directories of all normal sessions: the quota that CreateSession    *)
(* checks, and the cleanup a user previews, confirms and runs.             *)
(*   src/internal/adapter/recording/catalog.go                             *)
(*   src/cmd/capmesh-client/main.go (clean recordings)                     *)
(*                                                                         *)
(* storageMu admits one scan or cleanup at a time, but the recorders do    *)
(* not take it: a scan asks for the active sessions once and then looks at *)
(* one directory after the other, while sessions grow, finish and stop.    *)
(* Module Segments has the files of one directory; here a directory is its *)
(* size and what decides about its deletion.                               *)
(***************************************************************************)
EXTENDS Naturals, FiniteSets, FiniteSetsExt, Functions

CONSTANTS
    MaxSessions,    \* bound
    SessionSize,    \* Config.MaxSessionSize
    MaxTotal,       \* Config.MaxNormalTotal
    MaxFaults       \* bound: failed removals and deaths of the process

VARIABLES
    dirs,       \* the directories
    active,     \* Manager.active
    final,      \* directories whose readable metadata has a terminal status
    wanted,     \* directories whose recovery file says RUNNING
    size,
    older,      \* pairs of finished directories, by FinishedAt
    created,    \* sessions created so far
    admitted,   \* those that passed the capacity check and have not begun
    op,         \* who holds storageMu: "none", "check", "preview", "clean", "delete"
    todo,       \* directories left to scan
    snapshot,   \* activeSessionIDs at the start of the scan
    seen,       \* scanned
    measured,   \* the size of each when it was scanned
    deletable,  \* those scanned that may be deleted
    plan,       \* those of them the cleanup has still to look at
    sizeAfter,  \* result.SizeAfter
    removing,   \* {the directory validated for RemoveAll}
    client,     \* "idle", "preview", "prompt", "clean"
    listed,     \* what the preview listed
    deleted,    \* what the cleanup deleted
    changed,    \* history: a session changed since the preview began
    spared,     \* history: what this cleanup found in use or failed to remove
    settledAtCheck, \* history: directories settled before the last passed check
    checking,   \* history: the same for the check that is running
    faults

Sessions == 1..MaxSessions

createVars == <<created, admitted>>
sessionVars == <<dirs, active, final, wanted, size, older>>
scanVars == <<op, todo, snapshot, seen, measured, deletable>>
cleanVars == <<plan, sizeAfter, removing>>
clientVars == <<client, listed, deleted>>
history == <<spared, settledAtCheck, checking>>
vars == <<sessionVars, createVars, scanVars, cleanVars, clientVars, changed,
          history, faults>>

Nothing == [s \in Sessions |-> 0]
Usage == SumFunctionOnSet(size, dirs)
Measured(S) == SumFunctionOnSet(measured, S)
Target == MaxTotal \div 2

\* The ways in which directories can follow each other by FinishedAt.
Linear(r, S) ==
    /\ \A s, t \in S : <<s, t>> \in r <=> s # t /\ <<t, s>> \notin r
    /\ \A s, t, u \in S : <<s, t>> \in r /\ <<t, u>> \in r => <<s, u>> \in r
Orders(S) == {r \in SUBSET (S \X S) : Linear(r, S)}

Init ==
    /\ dirs = {} /\ active = {} /\ final = {} /\ wanted = {}
    /\ size = Nothing /\ older = {}
    /\ created = 0 /\ admitted = {}
    /\ op = "none" /\ todo = {} /\ snapshot = {}
    /\ seen = {} /\ measured = Nothing /\ deletable = {}
    /\ plan = {} /\ sizeAfter = 0 /\ removing = {}
    /\ client = "idle" /\ listed = {} /\ deleted = {}
    /\ changed = FALSE /\ spared = {} /\ settledAtCheck = {} /\ checking = {}
    /\ faults = 0

-----------------------------------------------------------------------------
(* Sessions, as their recorders and the session service change them.        *)
Changed == changed' = (client # "idle")

\* Create goes on after the check: Manager.Start.  A scan that has directories
\* left to read may meet the new one, which its snapshot does not have.
Begin(s) ==
    /\ s \in admitted /\ admitted' = admitted \ {s}
    /\ dirs' = dirs \cup {s} /\ active' = active \cup {s}
    /\ wanted' = wanted \cup {s} /\ Changed
    /\ \/ UNCHANGED todo
       \/ /\ op \in {"check", "preview", "clean"}
          /\ todo # {} \/ seen = {}
          /\ todo' = todo \cup {s}
    /\ UNCHANGED <<final, size, older, created, op, snapshot, seen, measured,
                   deletable, cleanVars, clientVars, history, faults>>

Grow(s) ==
    /\ s \in active \ final /\ size[s] < SessionSize
    /\ size' = [size EXCEPT ![s] = @ + 1] /\ Changed
    /\ UNCHANGED <<dirs, active, final, wanted, older, createVars, scanVars,
                   cleanVars, clientVars, history, faults>>

\* complete: at the limit, after a stop, when the queue overflowed (PARTIAL) or a
\* write failed (FAILED).  The recovery file keeps what it says, so a session that
\* ends below the limit without a stop is restored by the next boot and grows again.
Complete(s) ==
    /\ s \in active \ final
    /\ final' = final \cup {s} /\ older' = older \cup (final \X {s}) /\ Changed
    /\ UNCHANGED <<dirs, active, wanted, size, createVars, scanVars, cleanVars,
                   clientVars, history, faults>>

Leave(s) ==
    /\ s \in active \cap final
    /\ active' = active \ {s} /\ Changed
    /\ UNCHANGED <<dirs, final, wanted, size, older, createVars, scanVars,
                   cleanVars, clientVars, history, faults>>

\* Stop or the end of the TTL persists STOPPED.
Stop(s) ==
    /\ s \in wanted /\ wanted' = wanted \ {s} /\ Changed
    /\ UNCHANGED <<dirs, active, final, size, older, createVars, scanVars, cleanVars,
                   clientVars, history, faults>>

-----------------------------------------------------------------------------
(* scanSessionRecordings, for CheckNormalRecordingCapacity, the preview, the*)
(* cleanup and the listing that ends it.                                    *)
ScanBegin(who) ==
    /\ op' = who /\ todo' = dirs /\ seen' = {} /\ measured' = Nothing /\ deletable' = {}
    /\ snapshot' = IF who = "check" THEN {} ELSE active

\* inspectSessionDirectory, in the order of ReadDir; each session is of a day of
\* its own.
Inspect(s) ==
    /\ todo # {} /\ s = Min(todo) /\ todo' = todo \ {s}
    /\ seen' = seen \cup {s} /\ measured' = [measured EXCEPT ![s] = size[s]]
    /\ deletable' = IF op # "check" /\ s \in final \ (snapshot \cup wanted)
                    THEN deletable \cup {s} ELSE deletable
    /\ snapshot' = snapshot \ {s}
    /\ UNCHANGED <<sessionVars, createVars, op, cleanVars, clientVars, changed,
                   history, faults>>

Released ==
    /\ op' = "none" /\ todo' = {} /\ snapshot' = {}
    /\ seen' = {} /\ measured' = Nothing /\ deletable' = {}

\* directoryUsage fails when a file vanishes under it, and the scan with it.
ScanFails ==
    /\ op \in {"check", "preview", "clean"} /\ todo \cap active # {}
    /\ Released /\ checking' = {}
    /\ IF op = "check" THEN UNCHANGED <<clientVars, changed>>
       ELSE client' = "idle" /\ listed' = {} /\ deleted' = {} /\ changed' = FALSE
    /\ UNCHANGED <<sessionVars, createVars, cleanVars, spared, settledAtCheck,
                   faults>>

\* Finished directories that no boot makes grow again: nobody wants the session
\* restored, or it is full.
Settled == {s \in final : s \notin wanted \/ size[s] = SessionSize}

\* Create: CheckNormalRecordingCapacity.
CheckBegin ==
    /\ op = "none" /\ created < MaxSessions /\ checking' = Settled
    /\ ScanBegin("check")
    /\ UNCHANGED <<sessionVars, createVars, cleanVars, clientVars, changed, spared,
                   settledAtCheck, faults>>

\* Mutant: the limit itself is still free.
HasRoomAtLimit == Measured(seen) <= MaxTotal

HasRoom == Measured(seen) < MaxTotal

CheckEnd ==
    /\ op = "check" /\ todo = {}
    /\ \/ /\ HasRoom /\ settledAtCheck' = checking
          /\ created' = created + 1 /\ admitted' = admitted \cup {created'}
       \/ ~HasRoom /\ UNCHANGED <<createVars, settledAtCheck>>
    /\ Released
    /\ checking' = {}
    /\ UNCHANGED <<sessionVars, cleanVars, clientVars, changed, spared, faults>>

-----------------------------------------------------------------------------
(* CleanSessionRecordings                                                   *)
Oldest(S) == {s \in S : \A t \in S \ {s} : <<s, t>> \in older}

\* The loop goes on while usage is above half the limit.
Needed(after) == after > Target

\* Usage when the loop comes to a directory: those before it are gone.
Left(s) == Measured(seen) - Measured({t \in deletable : <<t, s>> \in older})

\* Mutant: the preview adds up to the whole limit.
PreviewToLimit == {s \in deletable : Left(s) > MaxTotal}

\* What a dry run lists.
Preview == {s \in deletable : Needed(Left(s))}

PreviewBegin ==
    /\ op = "none" /\ client = "idle" /\ client' = "preview" /\ changed' = FALSE
    /\ ScanBegin("preview")
    /\ UNCHANGED <<sessionVars, createVars, cleanVars, listed, deleted, history,
                   faults>>

\* The client asks for a confirmation unless nothing would be deleted.
PreviewEnd ==
    /\ op = "preview" /\ todo = {}
    /\ listed' = Preview
    /\ client' = IF Preview = {} THEN "idle" ELSE "prompt"
    /\ changed' = (changed /\ Preview # {})
    /\ Released
    /\ UNCHANGED <<sessionVars, createVars, cleanVars, deleted, history, faults>>

\* --dry-run, or the answer is no.
Decline ==
    /\ client = "prompt" /\ client' = "idle" /\ listed' = {} /\ changed' = FALSE
    /\ UNCHANGED <<sessionVars, createVars, scanVars, cleanVars, deleted, history,
                   faults>>

Confirm ==
    /\ client = "prompt" /\ op = "none" /\ client' = "clean" /\ spared' = {}
    /\ ScanBegin("clean")
    /\ UNCHANGED <<sessionVars, createVars, cleanVars, listed, deleted, changed,
                   settledAtCheck, checking, faults>>

CleanSort ==
    /\ op = "clean" /\ todo = {}
    /\ plan' = deletable /\ sizeAfter' = Measured(seen)
    /\ op' = "delete" /\ UNCHANGED <<todo, snapshot, seen, measured, deletable>>
    /\ UNCHANGED <<sessionVars, createVars, removing, clientVars, changed, history,
                   faults>>

\* Mutant: the recovery file is not read again and the candidate not checked.
ValidateNothing ==
    /\ op = "delete" /\ removing = {} /\ Needed(sizeAfter)
    /\ \E s \in Oldest(plan) : removing' = {s}
    /\ UNCHANGED <<sessionVars, createVars, scanVars, plan, sizeAfter, clientVars,
                   changed, history, faults>>

\* validateDeletionCandidate, of the oldest one left
Validate ==
    /\ op = "delete" /\ removing = {} /\ Needed(sizeAfter)
    /\ \E s \in Oldest(plan) :
        \/ /\ s \in active \cup wanted
           /\ plan' = plan \ {s} /\ spared' = spared \cup {s} /\ UNCHANGED removing
        \/ /\ s \notin active \cup wanted
           /\ removing' = {s} /\ UNCHANGED <<plan, spared>>
    /\ UNCHANGED <<sessionVars, createVars, scanVars, sizeAfter, clientVars, changed,
                   settledAtCheck, checking, faults>>

\* os.RemoveAll
RemoveAll ==
    /\ op = "delete"
    /\ \E s \in removing :
        /\ dirs' = dirs \ {s} /\ final' = final \ {s}
        /\ sizeAfter' = sizeAfter - measured[s]
        /\ deleted' = deleted \cup {s}
        /\ size' = [size EXCEPT ![s] = 0]
        /\ plan' = plan \ {s}
    /\ removing' = {}
    /\ UNCHANGED <<active, wanted, older, createVars, scanVars, client, listed, changed,
                   history, faults>>

\* RemoveAll fails part-way: some files are gone, perhaps the metadata too,
\* and the loop counts the directory as a failure of unchanged size.
RemoveFails ==
    /\ op = "delete" /\ faults < MaxFaults /\ faults' = faults + 1
    /\ \E s \in removing, n \in 0..SessionSize :
        /\ n <= size[s]
        /\ size' = [size EXCEPT ![s] = n]
        /\ final' \in {final, final \ {s}}
        /\ plan' = plan \ {s} /\ spared' = spared \cup {s}
    /\ removing' = {} /\ changed' = TRUE
    /\ UNCHANGED <<dirs, active, wanted, older, createVars, scanVars, sizeAfter,
                   clientVars, settledAtCheck, checking>>

\* The loop is over.  The listing that follows only fills in the answer.
CleanDone ==
    /\ op = "delete" /\ removing = {} /\ (plan = {} \/ ~Needed(sizeAfter))
    /\ Released /\ plan' = {} /\ sizeAfter' = 0
    /\ client' = "idle" /\ listed' = {} /\ deleted' = {}
    /\ changed' = FALSE /\ spared' = {}
    /\ older' = older \cap (dirs \X dirs)
    /\ settledAtCheck' = settledAtCheck \cap dirs
    /\ UNCHANGED <<dirs, active, final, wanted, size, createVars, removing,
                   checking, faults>>

\* The server dies, or is shut down first: then its recorders end as PARTIAL.
\* At boot every session that is RUNNING is restored, which makes its metadata
\* say RECORDING again, or has expired and is stopped.
Restart ==
    /\ faults < MaxFaults /\ faults' = faults + 1
    /\ \E expired \in SUBSET wanted, partial \in {{}, active \ final} :
        LET ended == final \cup partial
            restored == wanted \ expired
            stopped == partial \ restored IN
        /\ wanted' = restored /\ active' = restored /\ final' = ended \ restored
        /\ \E o \in Orders(stopped) :
            older' = (older \cap ((dirs \ restored) \X (dirs \ restored)))
                        \cup ((final \ restored) \X stopped) \cup o
    /\ admitted' = {} /\ Released
    /\ plan' = {} /\ sizeAfter' = 0 /\ removing' = {}
    /\ client' = "idle" /\ listed' = {} /\ deleted' = {} /\ changed' = FALSE
    /\ checking' = {} /\ spared' = {}
    /\ UNCHANGED <<dirs, size, created, settledAtCheck>>

Next ==
    \/ \E s \in Sessions :
        \/ Begin(s) \/ Grow(s) \/ Complete(s) \/ Leave(s) \/ Stop(s) \/ Inspect(s)
    \/ ScanFails \/ CheckBegin \/ CheckEnd \/ PreviewBegin \/ PreviewEnd
    \/ Decline \/ Confirm \/ CleanSort \/ Validate \/ RemoveAll \/ RemoveFails
    \/ CleanDone \/ Restart

Spec == Init /\ [][Next]_vars

-----------------------------------------------------------------------------
\* Types; what is active, finished or RUNNING is a directory, what has finished is
\* in a linear order, and a cleanup has finished directories before it.
TypeOK ==
    /\ active \cup final \cup wanted \subseteq dirs
    /\ dirs \cap admitted = {} /\ dirs \cup admitted \subseteq Sessions
    /\ size \in [Sessions -> 0..SessionSize]
    /\ op \in {"none", "check", "preview", "clean", "delete"}
    /\ op = "none" => seen = {} /\ todo = {}
    /\ client \in {"idle", "preview", "prompt", "clean"}
    /\ Linear(older, final) /\ removing \subseteq plan /\ plan \subseteq final

\* When RemoveAll begins, and until it is over, no recorder is active in the
\* directory, no boot will restore its session, and its recording is finished,
\* although both were read earlier and nothing keeps them as they are.
LiveIsKept == removing \subseteq final \ (active \cup wanted)

\* A cleanup deletes the oldest finished directories: one it deleted is older
\* than each one it could have deleted and did not, other than those it found
\* in use and those it failed to remove.
OldestFirst ==
    op = "delete" =>
        \A s \in deleted, t \in deletable \ (deleted \cup spared) : <<s, t>> \in older

\* A directory is deleted only while the recordings on the disk are above half
\* the limit, however the other sessions have grown since they were measured.
\* The exception: a failed RemoveAll frees space the loop does not count.
DeletesOnlyAboveTarget ==
    LET uncounted == {s \in spared : size[s] < measured[s]} IN
    removing # {} => Usage + Measured(uncounted) > Target

\* The user confirms a list and the server makes its own: a directory that was
\* not listed is deleted only when some session changed since the preview.
ConfirmedUnlessChanged ==
    op = "delete" /\ ~changed => deleted \subseteq listed

\* What Create admits: the sessions that were settled before the capacity check are
\* below the limit together.  The excess is due to sessions that ran at the time or
\* have begun since, and to those whose recorder ended below the limit while they
\* stayed RUNNING (an overflow, a write error), which a boot restores; however the
\* checks of concurrent Creates interleave.
QuotaBound ==
    LET others == (dirs \cup admitted) \ settledAtCheck IN
    others # {} => Usage < MaxTotal + SessionSize * Cardinality(others)

\* Whatever is deleted may be deleted and has to be: it is finished and nobody's,
\* older than what is kept, and the recordings are above the target.
DeletionIsJustified == LiveIsKept /\ OldestFirst /\ DeletesOnlyAboveTarget
=============================================================================
