------------------------------ MODULE DaemonLock ------------------------------
(***************************************************************************)
(* The handoff daemon as a process: the flock it holds for its whole life, *)
(* the pid file it records itself in, and the commands that start, stop,   *)
(* probe and clean up after it (internal/lifecycle/daemon.go,              *)
(* lock_unix.go).  One step is one system call another process can see:    *)
(* take or give back the lock, truncate, write or remove the pid file,     *)
(* signal a process.  A probe of the lock takes it for an instant.         *)
(***************************************************************************)
EXTENDS Naturals

CONSTANTS
    Pids,       \* process ids daemons run under; the system hands them out again
    Commands    \* shells running swarm start, stop, status, doctor --fix

ASSUME NamesAreDistinct ==
    /\ Pids \cap Commands = {}
    /\ {"absent", "free", "empty"} \cap (Pids \cup Commands) = {}

VARIABLES
    flock,      \* the daemon lock: no file yet, free, or the process that has it
    pidFile,    \* what the pid file says: no file, nothing yet, or a pid
    proc,       \* what each pid is, and how far a daemon has got
    cmd         \* what each shell is doing: operation, phase, next call, pid it verified

vars == <<flock, pidFile, proc, cmd>>

\* From the moment AcquireDaemonLock has the lock until Run has returned.
Holding == {"locked", "truncated", "recorded", "running", "stopping"}
Daemon == Holding \cup {"starting", "unlocked"}
ProcStates == Daemon \cup {"none", "stranger"}

\* The operations that run under the lifecycle lock.
Exclusive == {"start", "stop", "repair"}
Operations == Exclusive \cup {"status"}
Phases == {"inspect", "clear", "check", "poll", "asked", "killed"}
Probes == {"state", "clean", "wait"}
Calls == Probes \cup {"read", "alive", "look", "remove", "launch", "terminate", "kill"}

NoPid == "none"
Idle == [op |-> "none", phase |-> "none", call |-> "none", pid |-> NoPid]

Init ==
    /\ flock = "absent"
    /\ pidFile = "absent"
    /\ proc = [p \in Pids |-> "none"]
    /\ cmd = [c \in Commands |-> Idle]

\* The kernel drops the lock of a process that dies.
Freed(x) == IF flock = x THEN "free" ELSE flock

Become(p, state) == proc' = [proc EXCEPT ![p] = state]

(***************************************************************************)
(* The daemon: swarm handoff daemon                                        *)
(***************************************************************************)
\* Run by hand.  Nothing serialises this with the commands.
Foreground(p) ==
    /\ proc[p] = "none"
    /\ Become(p, "starting")
    /\ UNCHANGED <<flock, pidFile, cmd>>

TakeLock(p) ==
    /\ proc[p] = "starting"
    /\ flock \in {"absent", "free"}
    /\ flock' = p
    /\ Become(p, "locked")
    /\ UNCHANGED <<pidFile, cmd>>

\* held = false: "handoff daemon already running for this repository".
TurnedAway(p) ==
    /\ proc[p] = "starting"
    /\ flock \in Pids \cup Commands
    /\ Become(p, "none")
    /\ UNCHANGED <<flock, pidFile, cmd>>

\* A defect: the record is written before the lock is held.
TruncateEarly(p) ==
    /\ proc[p] \in {"starting", "locked"}
    /\ pidFile' = "empty"
    /\ Become(p, IF proc[p] = "locked" THEN "truncated" ELSE "starting")
    /\ UNCHANGED <<flock, cmd>>

\* os.WriteFile truncates the pid file, then writes it.
Truncate(p) ==
    /\ proc[p] = "locked"
    /\ pidFile' = "empty"
    /\ Become(p, "truncated")
    /\ UNCHANGED <<flock, cmd>>

Record(p) ==
    /\ proc[p] = "truncated"
    /\ pidFile' = p
    /\ Become(p, "recorded")
    /\ UNCHANGED <<flock, cmd>>

\* signal.NotifyContext: from here on SIGTERM ends the scan loop, not the process.
Serve(p) ==
    /\ proc[p] = "recorded"
    /\ Become(p, "running")
    /\ UNCHANGED <<flock, pidFile, cmd>>

\* A defect: the lock is given back when the signal arrives, not when Run returns.
InterruptReleases(p) ==
    /\ proc[p] = "running"
    /\ Become(p, "stopping")
    /\ flock' = Freed(p)
    /\ UNCHANGED <<pidFile, cmd>>

\* Ctrl-C in the terminal of a daemon run by hand.
Interrupt(p) ==
    /\ proc[p] = "running"
    /\ Become(p, "stopping")
    /\ UNCHANGED <<flock, pidFile, cmd>>

\* ReleaseDaemonLock: unlock, then remove the pid file, whoever's it is by now.
Unlock(p) ==
    /\ proc[p] = "stopping"
    /\ flock' = "free"
    /\ Become(p, "unlocked")
    /\ UNCHANGED <<pidFile, cmd>>

RemoveRecord(p) ==
    /\ proc[p] = "unlocked"
    /\ pidFile' = "absent"
    /\ Become(p, "none")
    /\ UNCHANGED <<flock, cmd>>

\* A crash, a SIGKILL, or an error of AcquireDaemonLock after the lock was taken.
Crash(p) ==
    /\ proc[p] \in Daemon
    /\ Become(p, "none")
    /\ flock' = Freed(p)
    /\ UNCHANGED <<pidFile, cmd>>

\* The system hands a dead daemon's pid to an unrelated process, which may end.
Recycle(p) ==
    /\ \/ proc[p] = "none" /\ Become(p, "stranger")
       \/ proc[p] = "stranger" /\ Become(p, "none")
    /\ UNCHANGED <<flock, pidFile, cmd>>

(***************************************************************************)
(* The commands.  An operation is a chain of calls; Then names the next.   *)
(***************************************************************************)
Then(c, phase, call) ==
    cmd' = [cmd EXCEPT ![c] = [@ EXCEPT !.phase = phase, !.call = call]]
ThenWith(c, p, call) == cmd' = [cmd EXCEPT ![c] = [@ EXCEPT !.pid = p, !.call = call]]
Return(c) == cmd' = [cmd EXCEPT ![c] = Idle]

\* start, stop and repair run under the lifecycle lock; status does not.  repair makes
\* a diagnosis first.
Begin(c, op) ==
    /\ cmd[c] = Idle
    /\ op \in Exclusive => \A d \in Commands : cmd[d].op \notin Exclusive
    /\ cmd' = [cmd EXCEPT ![c] =
                 [op    |-> op,
                  phase |-> IF op = "repair" THEN "inspect" ELSE "check",
                  call  |-> "state",
                  pid   |-> NoPid]]
    /\ UNCHANGED <<flock, pidFile, proc>>

\* DaemonState says Running(p), and what its caller makes of it.
AnswerRunning(c, p) ==
    IF cmd[c].op = "stop"
    THEN ThenWith(c, p, "terminate")
    ELSE Return(c)

\* It says Stopped (the lock is free) or Failed (held, but by whom?).
AnswerNotRunning(c, locked) ==
    LET op == cmd[c].op  phase == cmd[c].phase IN
    \/ op = "status" /\ Return(c)
    \/ phase = "inspect" /\ locked /\ Return(c)
    \/ phase = "inspect" /\ ~locked /\ Then(c, "inspect", "look")
    \/ op \in {"start", "repair"} /\ phase = "check" /\ Then(c, "check", "clean")
    \/ op \in {"start", "repair"} /\ phase = "poll" /\ Then(c, "poll", "state")
    \/ op = "stop" /\ locked /\ Return(c)
    \/ op = "stop" /\ ~locked /\ Then(c, "check", "clean")

\* Repair starts the daemon only while there are sessions, which are not modelled here.
StartIfPlanned(c) == Then(c, "check", "state") \/ Return(c)

\* CleanStaleDaemonFiles returns.
Cleaned(c) ==
    \/ cmd[c].op = "stop" /\ Return(c)
    \/ cmd[c].phase = "clear" /\ StartIfPlanned(c)
    \/ cmd[c].op # "stop" /\ cmd[c].phase = "check" /\ Then(c, "check", "launch")

\* IsLocked answered no.
FoundFree(c) ==
    \/ cmd[c].call = "state" /\ AnswerNotRunning(c, FALSE)
    \/ cmd[c].call = "clean" /\ Then(c, cmd[c].phase, "remove")
    \/ cmd[c].call = "wait" /\ Then(c, cmd[c].phase, "clean")

ProbeNoFile(c) ==
    /\ cmd[c].call \in Probes
    /\ flock = "absent"
    /\ FoundFree(c)
    /\ UNCHANGED <<flock, pidFile, proc>>

\* IsLocked takes the lock to see whether it can ...
ProbeTake(c) ==
    /\ cmd[c].call \in Probes
    /\ flock = "free"
    /\ flock' = c
    /\ UNCHANGED <<pidFile, proc, cmd>>

\* ... and gives it straight back.
ProbeRelease(c) ==
    /\ flock = c
    /\ flock' = "free"
    /\ FoundFree(c)
    /\ UNCHANGED <<pidFile, proc>>

\* IsLocked answered yes.  StopDaemon's loop sleeps and asks again.
ProbeBusy(c) ==
    /\ cmd[c].call \in {"state", "clean"}
    /\ flock \in (Pids \cup Commands) \ {c}
    /\ \/ cmd[c].call = "state" /\ Then(c, cmd[c].phase, "read")
       \/ cmd[c].call = "clean" /\ Cleaned(c)
    /\ UNCHANGED <<flock, pidFile, proc>>

\* readDaemonRecord: no file, or one that does not parse, is no record.
ReadRecord(c) ==
    /\ cmd[c].call = "read"
    /\ \/ pidFile \in Pids /\ ThenWith(c, pidFile, "alive")
       \/ pidFile \notin Pids /\ AnswerNotRunning(c, TRUE)
    /\ UNCHANGED <<flock, pidFile, proc>>

\* processAlive: any process under that pid will do.
CheckAlive(c) ==
    /\ cmd[c].call = "alive"
    /\ \/ proc[cmd[c].pid] # "none" /\ AnswerRunning(c, cmd[c].pid)
       \/ proc[cmd[c].pid] = "none" /\ AnswerNotRunning(c, TRUE)
    /\ UNCHANGED <<flock, pidFile, proc>>

\* DaemonPIDFilePresent: without a pid file there is nothing to clear.
LookForRecord(c) ==
    /\ cmd[c].call = "look"
    /\ \/ pidFile # "absent" /\ Then(c, "clear", "clean")
       \/ pidFile = "absent" /\ StartIfPlanned(c)
    /\ UNCHANGED <<flock, pidFile, proc>>

\* The end of CleanStaleDaemonFiles: the lock was free when it looked.
Remove(c) ==
    /\ cmd[c].call = "remove"
    /\ pidFile' = "absent"
    /\ Cleaned(c)
    /\ UNCHANGED <<flock, proc>>

\* StartDaemon starts the process, if it can, then polls DaemonState.
Launch(c) ==
    /\ cmd[c].call = "launch"
    /\ \/ /\ \E p \in Pids : proc[p] = "none" /\ Become(p, "starting")
          /\ Then(c, "poll", "state")
       \/ Return(c) /\ UNCHANGED proc
    /\ UNCHANGED <<flock, pidFile>>

\* What SIGTERM does: a daemon that has its handler finishes its scan first;
\* the handler is gone again before ReleaseDaemonLock runs.
Signalled(p) ==
    \/ proc[p] \in {"running", "stopping"} /\ Become(p, "stopping") /\ UNCHANGED flock
    \/ proc[p] = "stranger" /\ UNCHANGED <<proc, flock>>
    \/ proc[p] # "running" /\ Become(p, "none") /\ flock' = Freed(p)

Terminate(c) ==
    LET p == cmd[c].pid IN
    /\ cmd[c].call = "terminate"
    /\ \/ proc[p] = "none" /\ Return(c) /\ UNCHANGED <<proc, flock>>
       \/ proc[p] # "none" /\ Signalled(p) /\ Then(c, "asked", "wait")
    /\ UNCHANGED pidFile

\* SIGKILL, when the daemon has outlived the first deadline.
Kill(c) ==
    LET p == cmd[c].pid IN
    /\ cmd[c].call = "kill"
    /\ \/ proc[p] = "none" /\ Return(c) /\ UNCHANGED <<proc, flock>>
       \/ /\ proc[p] # "none"
          /\ Become(p, "none")
          /\ flock' = Freed(p)
          /\ Then(c, "killed", "wait")
    /\ UNCHANGED pidFile

\* A defect: the second deadline counts as success.
DeadlineTrusts(c) ==
    /\ flock # c
    /\ \/ cmd[c].phase = "poll" /\ cmd[c].call = "state" /\ Return(c)
       \/ cmd[c].phase = "asked" /\ cmd[c].call = "wait" /\ Then(c, "asked", "kill")
       \/ cmd[c].phase = "killed" /\ cmd[c].call = "wait" /\ Then(c, "killed", "clean")
    /\ UNCHANGED <<flock, pidFile, proc>>

\* A defect: stop waits for the daemon without a deadline.
DeadlineMissing(c) ==
    /\ flock # c
    /\ cmd[c].phase = "poll" /\ cmd[c].call = "state" /\ Return(c)
    /\ UNCHANGED <<flock, pidFile, proc>>

\* The loops of StartDaemon and StopDaemon run out of time.
Deadline(c) ==
    /\ flock # c
    /\ \/ cmd[c].phase = "poll" /\ cmd[c].call = "state" /\ Return(c)
       \/ cmd[c].phase = "asked" /\ cmd[c].call = "wait" /\ Then(c, "asked", "kill")
       \/ cmd[c].phase = "killed" /\ cmd[c].call = "wait" /\ Return(c)
    /\ UNCHANGED <<flock, pidFile, proc>>

\* The command itself is killed; the daemon it started lives on.
CommandDies(c) ==
    /\ cmd[c] # Idle
    /\ Return(c)
    /\ flock' = Freed(c)
    /\ UNCHANGED <<pidFile, proc>>

(***************************************************************************)
(* The whole                                                               *)
(***************************************************************************)
DaemonStep(p) ==
    \/ Foreground(p) \/ TakeLock(p) \/ TurnedAway(p)
    \/ Truncate(p) \/ Record(p) \/ Serve(p) \/ Interrupt(p)
    \/ Unlock(p) \/ RemoveRecord(p) \/ Crash(p) \/ Recycle(p)

CommandStep(c) ==
    \/ ProbeNoFile(c) \/ ProbeTake(c) \/ ProbeRelease(c) \/ ProbeBusy(c)
    \/ ReadRecord(c) \/ CheckAlive(c) \/ LookForRecord(c) \/ Remove(c) \/ Launch(c)
    \/ Terminate(c) \/ Kill(c)

Next ==
    \/ \E p \in Pids : DaemonStep(p)
    \/ \E c \in Commands : \/ \E op \in Operations : Begin(c, op)
                           \/ CommandStep(c) \/ Deadline(c) \/ CommandDies(c)

Spec == Init /\ [][Next]_vars

\* A command that is not killed keeps running, and time passes: a loop that keeps
\* coming back to its test is there once after its deadline.
FairSpec ==
    /\ Spec
    /\ \A c \in Commands : WF_vars(CommandStep(c)) /\ SF_vars(Deadline(c))

(***************************************************************************)
(* What holds                                                              *)
(***************************************************************************)
TypeOK ==
    /\ flock \in {"absent", "free"} \cup Pids \cup Commands
    /\ pidFile \in {"absent", "empty"} \cup Pids
    /\ proc \in [Pids -> ProcStates]
    /\ cmd \in [Commands -> [op    : Operations \cup {"none"},
                             phase : Phases \cup {"none"},
                             call  : Calls \cup {"none"},
                             pid   : Pids \cup {NoPid}]]

\* At most one process is between taking the daemon lock and giving it back, whatever
\* is probed, killed, crashed and started by hand in the meantime (AcquireDaemonLock).
OneDaemon ==
    \A p, q \in Pids : proc[p] \in Holding /\ proc[q] \in Holding => p = q

\* The pid file of a daemon that has recorded itself may be gone, but it never names
\* another process and is never half written (AcquireDaemonLock, ReleaseDaemonLock).
RecordIsOwn ==
    \A p \in Pids :
        proc[p] \in {"recorded", "running", "stopping"} => pidFile \in {"absent", p}

\* StopDaemon's wait ends well only at a moment when no daemon runs.
StopMeansStopped ==
    [][\A c \in Commands :
         cmd[c].call = "wait" /\ cmd'[c].call = "clean"
           => \A p \in Pids : proc[p] \notin Holding]_vars

\* Every command ends, also when the daemon it waits for neither starts nor stops,
\* so the lifecycle lock is always given back (StartDaemon, StopDaemon).
CommandsEnd == \A c \in Commands : cmd[c] # Idle ~> cmd[c] = Idle

(***************************************************************************)
(* What the comments of the code say                                       *)
(***************************************************************************)
\* CleanStaleDaemonFiles "refuses to touch anything while the lock is genuinely held":
\* what it removes is never the record of the daemon that holds the lock.
CleanSparesDaemon ==
    [][\A c \in Commands : Remove(c) => ~(flock \in Pids /\ pidFile = flock)]_vars

\* StopDaemon "cannot terminate an unrelated process that happens to have reused the
\* number".
SignalsOnlyDaemons ==
    [][\A c \in Commands : Terminate(c) => proc[cmd[c].pid] # "stranger"]_vars
=============================================================================
