---------------------------- MODULE RecoveryFile ----------------------------
(***************************************************************************)
(* The persisted desired state of one capture session:                     *)
(* capture-recovery.json and its ".part" companion                         *)
(* (src/internal/adapter/recording/manager.go).                            *)
(*                                                                         *)
(* Manager.Start writes RUNNING, Manager.SetSessionDesiredState writes     *)
(* STOPPED, and both go through readRecovery and writeRecovery, which hold *)
(* no lock: several goroutines (an API stop, the TTL timer, a failing      *)
(* agent) may be inside SetSessionDesiredState at once and share the       *)
(* ".part" name.  The process can die between any two system calls.        *)
(*                                                                         *)
(* File contents are a record [desired, gen], Torn (truncated, not yet     *)
(* written: json.Unmarshal fails) or Absent.  A goroutine inside           *)
(* os.WriteFile holds a descriptor; `fd` says where the inode it points to *)
(* is now, because os.Rename and os.Remove of another goroutine move it.   *)
(***************************************************************************)
EXTENDS Naturals

CONSTANTS
    Callers,        \* goroutines that may call SetSessionDesiredState
    Starter,        \* the goroutine that runs Create or the boot-time Restore
    MaxGeneration   \* bound on the generation number

ASSUME StarterAssumption == Starter \notin Callers
ASSUME GenerationAssumption == MaxGeneration \in Nat

VARIABLES
    file,       \* content of capture-recovery.json
    part,       \* content of capture-recovery.json.part
    phase,      \* life of the server process with respect to this session
    pc,         \* where each goroutine is inside writeRecovery
    arg,        \* the state each goroutine is writing
    fd,         \* where the inode a goroutine writes to is linked
    runAcked,   \* history: a Manager.Start returned nil
    stopAsked,  \* history: a SetSessionDesiredState("STOPPED") began to write
    stopAcked,  \* history: one returned nil
    salvaged    \* history: a boot found the state in the .part file alone

history == <<runAcked, stopAsked, stopAcked, salvaged>>
vars == <<file, part, phase, pc, arg, fd, runAcked, stopAsked, stopAcked,
          salvaged>>

Procs == Callers \cup {Starter}
Absent == [kind |-> "absent", desired |-> "-", gen |-> 0]
Torn == [kind |-> "torn", desired |-> "-", gen |-> 0]
State(d, g) == [kind |-> "state", desired |-> d, gen |-> g]
Desired == {"RUNNING", "STOPPED"}
States == [kind : {"state"}, desired : Desired, gen : Nat]
Contents == States \cup {Absent, Torn}

Readable(c) == c.kind = "state"

-----------------------------------------------------------------------------
(* readRecovery: of the canonical file and the .part file, the readable    *)
(* state with the larger generation, the canonical one on a tie.           *)

\* Mutant: the .part file is not a candidate.
NewestIgnoresPart(canonical, companion) == canonical

Newest(canonical, companion) ==
    IF Readable(companion) /\ (~Readable(canonical) \/ companion.gen > canonical.gen)
    THEN companion ELSE canonical

\* Both files read while nobody writes them.
ReadRecovery == Newest(file, part)

(* A session is created over no file, or, in the shared continuous         *)
(* directory, over the STOPPED file its predecessor left.                  *)
Init ==
    /\ file \in {Absent} \cup {State("STOPPED", g) : g \in 1..MaxGeneration}
    /\ part = Absent
    /\ phase = "creating"
    /\ pc = [p \in Procs |-> "idle"]
    /\ arg = [p \in Procs |-> Absent]
    /\ fd = [p \in Procs |-> "none"]
    /\ runAcked = FALSE /\ stopAsked = FALSE /\ stopAcked = FALSE
    /\ salvaged = FALSE

-----------------------------------------------------------------------------
(* Manager.Start: one generation past whatever is on disk, or 1.           *)
StartBegin ==
    /\ phase \in {"creating", "restoring"}
    /\ pc[Starter] = "idle"
    /\ ReadRecovery.gen < MaxGeneration
    /\ arg' = [arg EXCEPT ![Starter] = State("RUNNING", ReadRecovery.gen + 1)]
    /\ pc' = [pc EXCEPT ![Starter] = "open"]
    /\ UNCHANGED <<file, part, phase, fd, history>>

\* Mutant: m.recovery is filled before Start has persisted RUNNING.
SetDesiredDuringStart(p) ==
    /\ phase \in {"restoring", "live"} /\ p \in Callers /\ pc[p] = "idle"
    /\ arg' = [arg EXCEPT ![p] = file]
    /\ pc' = [pc EXCEPT ![p] = "read"]
    /\ UNCHANGED <<file, part, phase, fd, history>>

(* SetSessionDesiredState(id, "STOPPED"), which calls readRecovery and     *)
(* writeRecovery.  m.recovery knows the path once Start returned ("live")  *)
(* or once the boot scan found the file ("expired": Restore stops a        *)
(* session whose TTL ran out while the server was down).  readRecovery     *)
(* reads the canonical file first ...                                      *)
SetDesiredBegin(p) ==
    /\ \/ phase = "live" /\ p \in Callers
       \/ phase = "expired" /\ p = Starter
    /\ pc[p] = "idle"
    /\ arg' = [arg EXCEPT ![p] = file]
    /\ pc' = [pc EXCEPT ![p] = "read"]
    /\ UNCHANGED <<file, part, phase, fd, history>>

(* ... and then the .part file, when another stop may have moved both.     *)
SetDesiredRead(p) ==
    LET best == Newest(arg[p], part) IN
    /\ pc[p] = "read"
    /\ Readable(best) /\ best.gen < MaxGeneration
    /\ arg' = [arg EXCEPT ![p] = State("STOPPED", best.gen + 1)]
    /\ pc' = [pc EXCEPT ![p] = "open"]
    /\ stopAsked' = TRUE
    /\ UNCHANGED <<file, part, phase, fd, runAcked, stopAcked, salvaged>>

(* Neither was readable: the error is returned and nothing is written.     *)
SetDesiredError(p) ==
    /\ pc[p] = "read" /\ ~Readable(Newest(arg[p], part))
    /\ pc' = [pc EXCEPT ![p] = "idle"]
    /\ UNCHANGED <<file, part, phase, arg, fd, history>>

(* writeRecovery: os.WriteFile opens the .part file with O_TRUNC ...       *)
WriteOpen(p) ==
    /\ pc[p] = "open"
    /\ part' = Torn
    /\ fd' = [fd EXCEPT ![p] = "part"]
    /\ pc' = [pc EXCEPT ![p] = "write"]
    /\ UNCHANGED <<file, phase, arg, history>>

(* ... and writes to the inode it opened, wherever that is linked now.     *)
WriteData(p) ==
    /\ pc[p] = "write"
    /\ part' = IF fd[p] = "part" THEN arg[p] ELSE part
    /\ file' = IF fd[p] = "file" THEN arg[p] ELSE file
    /\ fd' = [fd EXCEPT ![p] = "none"]
    /\ pc' = [pc EXCEPT ![p] = "remove"]
    /\ UNCHANGED <<phase, arg, history>>

(* os.Remove(path); ErrNotExist is not an error.                           *)
RemoveFile(p) ==
    /\ pc[p] = "remove"
    /\ file' = Absent
    /\ fd' = [q \in Procs |-> IF fd[q] = "file" THEN "gone" ELSE fd[q]]
    /\ pc' = [pc EXCEPT ![p] = "rename"]
    /\ UNCHANGED <<part, phase, arg, history>>

(* os.Rename(part, path) and the return to the caller.  A missing .part    *)
(* (another goroutine renamed it) is an error and leaves the disk alone.   *)
RenameOk(p) ==
    /\ pc[p] = "rename" /\ part # Absent
    /\ file' = part /\ part' = Absent
    /\ fd' = [q \in Procs |-> CASE fd[q] = "file" -> "gone"
                                [] fd[q] = "part" -> "file"
                                [] OTHER -> fd[q]]
    /\ pc' = [pc EXCEPT ![p] = "idle"]
    /\ phase' = CASE arg[p].desired = "RUNNING" -> "live"
                  [] phase = "expired" -> "over"
                  [] OTHER -> phase
    /\ runAcked' = (runAcked \/ arg[p].desired = "RUNNING")
    /\ stopAcked' = (stopAcked \/ arg[p].desired = "STOPPED")
    /\ UNCHANGED <<arg, stopAsked, salvaged>>

RenameError(p) ==
    /\ pc[p] = "rename" /\ part = Absent
    /\ pc' = [pc EXCEPT ![p] = "idle"]
    /\ UNCHANGED <<file, part, phase, arg, fd, history>>

-----------------------------------------------------------------------------
(* The server process dies (SIGKILL, node loss): every goroutine is gone,  *)
(* the two files stay as the last system call left them.                   *)
Crash ==
    /\ phase # "down"
    /\ phase' = "down"
    /\ pc' = [p \in Procs |-> "idle"]
    /\ arg' = [p \in Procs |-> Absent]
    /\ fd' = [p \in Procs |-> "none"]
    /\ UNCHANGED <<file, part, history>>

(* RecoverableSessions of the next process: the session is recovered when  *)
(* the state on disk says RUNNING, whatever the recorder's own status was. *)
Recoverable == ReadRecovery.desired = "RUNNING"

(* Boot: Restore starts the recorder again, or, when the TTL is over,      *)
(* stops the session for good; nothing to recover leaves the file alone.   *)
Reboot ==
    /\ phase = "down"
    /\ phase' \in IF Recoverable THEN {"restoring", "expired"} ELSE {"over"}
    /\ salvaged' = (salvaged \/ (Recoverable /\ ~Readable(file)))
    /\ UNCHANGED <<file, part, pc, arg, fd, runAcked, stopAsked, stopAcked>>

Next ==
    \/ StartBegin
    \/ \E p \in Procs :
          \/ SetDesiredBegin(p) \/ SetDesiredRead(p) \/ SetDesiredError(p)
          \/ WriteOpen(p) \/ WriteData(p) \/ RemoveFile(p)
          \/ RenameOk(p) \/ RenameError(p)
    \/ Crash
    \/ Reboot

Spec == Init /\ [][Next]_vars

-----------------------------------------------------------------------------
(* Types: both files hold a complete state with a valid desired value,     *)
(* nothing, or a torn write, whatever SetSessionDesiredState was passed.   *)
TypeOK ==
    /\ file \in Contents /\ part \in Contents
    /\ phase \in {"creating", "live", "down", "restoring", "expired", "over"}
    /\ pc \in [Procs -> {"idle", "read", "open", "write", "remove", "rename"}]
    /\ arg \in [Procs -> Contents]
    /\ fd \in [Procs -> {"none", "part", "file", "gone"}]
    /\ runAcked \in BOOLEAN /\ stopAsked \in BOOLEAN /\ stopAcked \in BOOLEAN
    /\ salvaged \in BOOLEAN

(* Once a SetSessionDesiredState(STOPPED) has returned nil, no boot scan   *)
(* (RecoverableSessions) brings the session back, whatever other calls     *)
(* were inside writeRecovery and wherever the process died: "intentionally *)
(* stopped jobs are not recovered".                                        *)
StopIsDurable == stopAcked => ~Recoverable

(* A session whose Start returned and that nobody asked to stop is found   *)
(* RUNNING by the boot scan at every crash point: the write of .part, the  *)
(* removal and the rename always leave one readable RUNNING candidate.  It *)
(* excludes processes that booted from the .part file alone.               *)
RunningSurvives == (runAcked /\ ~stopAsked /\ ~salvaged) => Recoverable

(* The same without the exclusion: "a server shutdown may interrupt a      *)
(* recorder, but it must not turn a user-requested RUNNING session into a  *)
(* stopped session" (ports.CaptureRecoveryStore).                          *)
RunningSurvivesEveryShutdown == (runAcked /\ ~stopAsked) => Recoverable

(* A stop loses the .part file to a concurrent stop (RenameError) only     *)
(* after one of them has been made durable; Start never loses it.          *)
LostRaceMeansStopped ==
    \A p \in Procs : (pc[p] = "rename" /\ part = Absent) => stopAcked

-----------------------------------------------------------------------------
(* The inductive invariant.                                                *)
Running(c) == c.desired = "RUNNING"
Writing == {"write", "remove", "rename"}
Starting == {"creating", "restoring"}

\* Who may be inside readRecovery and writeRecovery in each phase, and with which state.
WritersInv ==
    /\ phase # "live" => \A p \in Callers : pc[p] = "idle"
    /\ phase \in {"live", "down", "over"} => pc[Starter] = "idle"
    /\ phase \in Starting => pc[Starter] # "read"
    /\ \A p \in Procs : pc[p] \notin {"idle", "read"} =>
          arg[p] \in States /\ (Running(arg[p]) <=> phase \in Starting)
    /\ (phase # "live" /\ pc[Starter] = "write") => fd[Starter] = "part"

\* Nothing RUNNING can reach the disk once a stop is under way or done.
StopInv ==
    /\ phase \in Starting \cup {"expired"} => ~stopAcked
    /\ phase = "live" => ~Running(part)
    /\ (phase = "expired" /\ pc[Starter] \in Writing) => ~Running(part)
    /\ stopAcked => ~Running(file) /\ ~Running(part)
    /\ \A p \in Procs : (pc[p] \in Writing /\ part = Absent) => stopAcked

\* Where the RUNNING state of an undisturbed session is at each point.
RunInv ==
    /\ phase = "creating" => ~runAcked
    /\ (phase \in Starting /\ pc[Starter] \in {"remove", "rename"}) =>
          Running(part)
    /\ (phase = "expired" /\ pc[Starter] \notin {"idle", "read"}) => stopAsked
    /\ (phase = "live" /\ ~stopAsked) => \A p \in Callers : pc[p] \in {"idle", "read"}
    /\ (runAcked /\ ~stopAsked /\ ~salvaged) =>
          /\ phase # "over"
          /\ Readable(file) => Running(file)
          /\ Readable(part) => Running(part)
          /\ phase = "live" => Running(file)
          /\ phase \in {"restoring", "expired"} =>
                IF pc[Starter] \in {"remove", "rename"}
                THEN Running(part) ELSE Running(file)
          /\ Running(file) \/ Running(part)

IInv == TypeOK /\ WritersInv /\ StopInv /\ RunInv
=============================================================================
