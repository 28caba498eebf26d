--------------------------- MODULE DaemonLockProofs ---------------------------
(***************************************************************************)
(* DaemonLock for any number of pids and commands: its types, that at most *)
(* one daemon runs, what its record can say, and what StopDaemon may       *)
(* conclude.  The invariant splits in two: the lock and the record, which  *)
(* no command's place in its chain of calls matters to, and the commands.  *)
(***************************************************************************)
EXTENDS DaemonLock, TLAPS

CmdType == [op    : Operations \cup {"none"},
            phase : Phases \cup {"none"},
            call  : Calls \cup {"none"},
            pid   : Pids \cup {NoPid}]

\* The flock is a process's exactly while that process is a daemon that took it.
Owner == \A p \in Pids : proc[p] \in Holding <=> flock = p

LockInv ==
    /\ flock \in {"absent", "free"} \cup Pids \cup Commands
    /\ pidFile \in {"absent", "empty"} \cup Pids
    /\ proc \in [Pids -> ProcStates]
    /\ Owner
    /\ RecordIsOwn

\* The calls that use a pid have one: it was read from the record.
NeedsPid == {"alive", "terminate", "kill", "wait"}

CmdInv ==
    /\ cmd \in [Commands -> CmdType]
    /\ \A c \in Commands : cmd[c].call \in NeedsPid => cmd[c].pid \in Pids

IInv == LockInv /\ CmdInv

(***************************************************************************)
(* The commands' own state                                                 *)
(***************************************************************************)
\* A command that returns is idle again.
LEMMA ReturnKeeps ==
    ASSUME CmdInv, NEW c \in Commands, Return(c)
    PROVE  CmdInv'
<1>1. Idle \in CmdType
      BY DEF Idle, CmdType, NoPid
<1>2. cmd' \in [Commands -> CmdType]
      BY <1>1 DEF CmdInv, Return
<1>3. ASSUME NEW d \in Commands, cmd'[d].call \in NeedsPid PROVE cmd'[d].pid \in Pids
      BY <1>3 DEF CmdInv, Return, Idle, NeedsPid
<1>4. QED
      BY <1>2, <1>3 DEF CmdInv

\* A command that goes on to a call which uses a pid must have one.
LEMMA ThenKeeps ==
    ASSUME CmdInv, NEW c \in Commands, NEW phase \in Phases \cup {"none"}, NEW call \in Calls,
           Then(c, phase, call), call \in NeedsPid => cmd[c].pid \in Pids
    PROVE  CmdInv'
<1>1. [cmd[c] EXCEPT !.phase = phase, !.call = call] \in CmdType
      BY DEF CmdInv, CmdType
<1>2. cmd' = [cmd EXCEPT ![c] = [cmd[c] EXCEPT !.phase = phase, !.call = call]]
      BY DEF Then
<1>3. cmd' \in [Commands -> CmdType]
      BY <1>1, <1>2 DEF CmdInv
<1>4. \A d \in Commands : cmd'[d].call \in NeedsPid => cmd'[d].pid \in Pids
      BY <1>1, <1>2 DEF CmdInv, CmdType
<1>5. QED
      BY <1>3, <1>4 DEF CmdInv

\* A pid read from the record is a pid.
LEMMA ThenWithKeeps ==
    ASSUME CmdInv, NEW c \in Commands, NEW p \in Pids, NEW call \in {"alive", "terminate"},
           ThenWith(c, p, call)
    PROVE  CmdInv'
<1>1. [cmd[c] EXCEPT !.pid = p, !.call = call] \in CmdType
      BY DEF CmdInv, CmdType, Calls
<1>2. cmd' = [cmd EXCEPT ![c] = [cmd[c] EXCEPT !.pid = p, !.call = call]]
      BY DEF ThenWith
<1>3. cmd' \in [Commands -> CmdType]
      BY <1>1, <1>2 DEF CmdInv
<1>4. \A d \in Commands : cmd'[d].call \in NeedsPid => cmd'[d].pid \in Pids
      BY <1>1, <1>2 DEF CmdInv, CmdType
<1>5. QED
      BY <1>3, <1>4 DEF CmdInv

\* The three places where an operation decides how to go on.
LEMMA CleanedKeeps ==
    ASSUME CmdInv, NEW c \in Commands, Cleaned(c)
    PROVE  CmdInv'
<1>1. CASE Return(c)
      BY <1>1, ReturnKeeps
<1>2. CASE Then(c, "check", "state")
      BY <1>2, ThenKeeps DEF Phases, Calls, Probes, NeedsPid
<1>3. CASE Then(c, "check", "launch")
      BY <1>3, ThenKeeps DEF Phases, Calls, NeedsPid
<1>4. QED
      BY <1>1, <1>2, <1>3 DEF Cleaned, StartIfPlanned

LEMMA AnswerKeeps ==
    ASSUME CmdInv, NEW c \in Commands, NEW locked, AnswerNotRunning(c, locked)
    PROVE  CmdInv'
<1>1. CASE Return(c)
      BY <1>1, ReturnKeeps
<1>2. CASE Then(c, "check", "clean")
      BY <1>2, ThenKeeps DEF Phases, Calls, Probes, NeedsPid
<1>3. CASE Then(c, "poll", "state")
      BY <1>3, ThenKeeps DEF Phases, Calls, Probes, NeedsPid
<1>4. CASE Then(c, "inspect", "look")
      BY <1>4, ThenKeeps DEF Phases, Calls, NeedsPid
<1>5. QED
      BY <1>1, <1>2, <1>3, <1>4 DEF AnswerNotRunning

LEMMA FoundFreeKeeps ==
    ASSUME CmdInv, NEW c \in Commands, FoundFree(c)
    PROVE  CmdInv'
<1>1. cmd[c].phase \in Phases \cup {"none"}
      BY DEF CmdInv, CmdType
<1>2. CASE AnswerNotRunning(c, FALSE)
      BY <1>2, AnswerKeeps
<1>3. CASE Then(c, cmd[c].phase, "remove")
      BY <1>1, <1>3, ThenKeeps DEF Calls, NeedsPid
<1>4. CASE Then(c, cmd[c].phase, "clean")
      BY <1>1, <1>4, ThenKeeps DEF Calls, Probes, NeedsPid
<1>5. QED
      BY <1>2, <1>3, <1>4 DEF FoundFree

(***************************************************************************)
(* The lock and the record                                                 *)
(***************************************************************************)
\* A process that dies takes its lock with it, whatever it was.
LEMMA DeathKeeps ==
    ASSUME LockInv, NEW p \in Pids, Become(p, "none"), flock' = Freed(p), UNCHANGED pidFile
    PROVE  LockInv'
<1>1. flock' \in {"absent", "free"} \cup Pids \cup Commands
      BY DEF LockInv, Freed
<1>2. proc' \in [Pids -> ProcStates]
      BY DEF LockInv, Become, ProcStates
<1>3. Owner'
      BY NamesAreDistinct DEF LockInv, Owner, Become, Freed, Holding
<1>4. RecordIsOwn'
      BY DEF LockInv, RecordIsOwn, Become
<1>5. QED
      BY <1>1, <1>2, <1>3, <1>4 DEF LockInv

LEMMA SignalKeeps ==
    ASSUME LockInv, NEW p \in Pids, Signalled(p), UNCHANGED pidFile
    PROVE  LockInv'
<1>1. CASE proc[p] \in {"running", "stopping"} /\ Become(p, "stopping") /\ UNCHANGED flock
  <2>1. proc' \in [Pids -> ProcStates]
        BY <1>1 DEF LockInv, Become, ProcStates, Daemon, Holding
  <2>2. Owner'
        BY <1>1 DEF LockInv, Owner, Become, Holding
  <2>3. RecordIsOwn'
        BY <1>1 DEF LockInv, RecordIsOwn, Become
  <2>4. QED
        BY <1>1, <2>1, <2>2, <2>3 DEF LockInv
<1>2. CASE UNCHANGED <<proc, flock>>
      BY <1>2 DEF LockInv, Owner, RecordIsOwn
<1>3. CASE Become(p, "none") /\ flock' = Freed(p)
      BY <1>3, DeathKeeps
<1>4. QED
      BY <1>1, <1>2, <1>3 DEF Signalled

\* A step that touches neither the lock, the record nor a process.
LEMMA LockUntouched ==
    ASSUME LockInv, UNCHANGED <<flock, pidFile, proc>>
    PROVE  LockInv'
BY DEF LockInv, Owner, RecordIsOwn

\* The daemon's own steps.
LEMMA DaemonKeeps ==
    ASSUME LockInv, NEW p \in Pids, DaemonStep(p)
    PROVE  LockInv' /\ UNCHANGED cmd
<1> USE DEF LockInv
<1>1. CASE Foreground(p)
  <2>1. proc' \in [Pids -> ProcStates]
        BY <1>1 DEF Foreground, Become, ProcStates, Daemon
  <2>2. Owner' /\ RecordIsOwn'
        BY <1>1 DEF Foreground, Become, Owner, RecordIsOwn, Holding
  <2>3. QED
        BY <1>1, <2>1, <2>2 DEF Foreground
<1>2. CASE TakeLock(p)
  <2>1. proc' \in [Pids -> ProcStates]
        BY <1>2 DEF TakeLock, Become, ProcStates, Daemon, Holding
  <2>2. \A q \in Pids : proc[q] \notin Holding
        BY <1>2, NamesAreDistinct DEF TakeLock, Owner
  <2>3. Owner'
        BY <1>2, <2>2 DEF TakeLock, Become, Owner, Holding
  <2>4. RecordIsOwn'
        BY <1>2, <2>2 DEF TakeLock, Become, RecordIsOwn, Holding
  <2>5. QED
        BY <1>2, <2>1, <2>3, <2>4 DEF TakeLock
<1>3. CASE TurnedAway(p)
  <2>1. proc' \in [Pids -> ProcStates]
        BY <1>3 DEF TurnedAway, Become, ProcStates
  <2>2. Owner' /\ RecordIsOwn'
        BY <1>3 DEF TurnedAway, Become, Owner, RecordIsOwn, Holding
  <2>3. QED
        BY <1>3, <2>1, <2>2 DEF TurnedAway
<1>4. CASE Truncate(p)
  <2>1. proc' \in [Pids -> ProcStates]
        BY <1>4 DEF Truncate, Become, ProcStates, Daemon, Holding
  <2>2. Owner'
        BY <1>4 DEF Truncate, Become, Owner, Holding
  <2>3. \A q \in Pids : q # p => proc[q] \notin Holding
        BY <1>4 DEF Truncate, Owner, Holding
  <2>4. RecordIsOwn'
        BY <1>4, <2>3 DEF Truncate, Become, RecordIsOwn, Holding
  <2>5. QED
        BY <1>4, <2>1, <2>2, <2>4 DEF Truncate
<1>5. CASE Record(p)
  <2>1. proc' \in [Pids -> ProcStates]
        BY <1>5 DEF Record, Become, ProcStates, Daemon, Holding
  <2>2. Owner'
        BY <1>5 DEF Record, Become, Owner, Holding
  <2>3. \A q \in Pids : q # p => proc[q] \notin Holding
        BY <1>5 DEF Record, Owner, Holding
  <2>4. RecordIsOwn'
        BY <1>5, <2>3 DEF Record, Become, RecordIsOwn, Holding
  <2>5. QED
        BY <1>5, <2>1, <2>2, <2>4 DEF Record
<1>6. CASE Serve(p) \/ Interrupt(p)
  <2>1. proc' \in [Pids -> ProcStates]
        BY <1>6 DEF Serve, Interrupt, Become, ProcStates, Daemon, Holding
  <2>2. Owner' /\ RecordIsOwn'
        BY <1>6 DEF Serve, Interrupt, Become, Owner, RecordIsOwn, Holding
  <2>3. QED
        BY <1>6, <2>1, <2>2 DEF Serve, Interrupt
<1>7. CASE Unlock(p)
  <2>1. proc' \in [Pids -> ProcStates]
        BY <1>7 DEF Unlock, Become, ProcStates, Daemon
  <2>2. Owner'
        BY <1>7, NamesAreDistinct DEF Unlock, Become, Owner, Holding
  <2>3. RecordIsOwn'
        BY <1>7 DEF Unlock, Become, RecordIsOwn
  <2>4. QED
        BY <1>7, <2>1, <2>2, <2>3 DEF Unlock
<1>8. CASE RemoveRecord(p)
  <2>1. proc' \in [Pids -> ProcStates]
        BY <1>8 DEF RemoveRecord, Become, ProcStates
  <2>2. Owner' /\ RecordIsOwn'
        BY <1>8 DEF RemoveRecord, Become, Owner, RecordIsOwn, Holding
  <2>3. QED
        BY <1>8, <2>1, <2>2 DEF RemoveRecord
<1>9. CASE Crash(p)
      BY <1>9, DeathKeeps DEF Crash
<1>10. CASE Recycle(p)
  <2>1. proc' \in [Pids -> ProcStates]
        BY <1>10 DEF Recycle, Become, ProcStates
  <2>2. Owner' /\ RecordIsOwn'
        BY <1>10 DEF Recycle, Become, Owner, RecordIsOwn, Holding
  <2>3. QED
        BY <1>10, <2>1, <2>2 DEF Recycle
<1>11. UNCHANGED cmd
       BY DEF DaemonStep, Foreground, TakeLock, TurnedAway, Truncate, Record, Serve,
              Interrupt, Unlock, RemoveRecord, Crash, Recycle
<1>12. QED
       BY <1>1, <1>2, <1>3, <1>4, <1>5, <1>6, <1>7, <1>8, <1>9, <1>10, <1>11 DEF DaemonStep

\* A probe puts the lock in a command's hands and back: no daemon is affected.
LEMMA ProbeKeeps ==
    ASSUME LockInv, NEW c \in Commands, UNCHANGED <<pidFile, proc>>,
           \/ flock = "free" /\ flock' = c
           \/ flock = c /\ flock' = "free"
    PROVE  LockInv'
<1>1. \A p \in Pids : p # c /\ p # "free"
      BY NamesAreDistinct
<1>2. Owner'
      BY <1>1 DEF LockInv, Owner
<1>3. QED
      BY <1>2 DEF LockInv, RecordIsOwn

(***************************************************************************)
(* Every step keeps the invariant                                          *)
(***************************************************************************)
LEMMA CommandKeeps ==
    ASSUME IInv, NEW c \in Commands, CommandStep(c)
    PROVE  IInv'
<1> USE DEF IInv
<1>0. cmd[c].phase \in Phases \cup {"none"}
      BY DEF CmdInv, CmdType
<1>1. CASE ProbeNoFile(c)
      BY <1>1, FoundFreeKeeps, LockUntouched DEF ProbeNoFile
<1>2. CASE ProbeTake(c)
  <2>1. LockInv'
        BY <1>2, ProbeKeeps DEF ProbeTake
  <2>2. QED
        BY <1>2, <2>1 DEF ProbeTake, CmdInv
<1>3. CASE ProbeRelease(c)
      BY <1>3, FoundFreeKeeps, ProbeKeeps DEF ProbeRelease
<1>4. CASE ProbeBusy(c)
  <2>1. CASE Then(c, cmd[c].phase, "read")
        BY <1>0, <1>4, <2>1, ThenKeeps, LockUntouched DEF ProbeBusy, Calls, NeedsPid
  <2>2. CASE Cleaned(c)
        BY <1>4, <2>2, CleanedKeeps, LockUntouched DEF ProbeBusy
  <2>3. QED
        BY <1>4, <2>1, <2>2 DEF ProbeBusy
<1>5. CASE ReadRecord(c)
  <2>1. CASE pidFile \in Pids /\ ThenWith(c, pidFile, "alive")
    <3>1. CmdInv'
          BY <2>1, ThenWithKeeps
    <3>2. QED
          BY <1>5, <3>1, LockUntouched DEF ReadRecord
  <2>2. CASE AnswerNotRunning(c, TRUE)
        BY <1>5, <2>2, AnswerKeeps, LockUntouched DEF ReadRecord
  <2>3. QED
        BY <1>5, <2>1, <2>2 DEF ReadRecord
<1>6. CASE CheckAlive(c)
  <2>1. cmd[c].pid \in Pids
        BY <1>6 DEF CheckAlive, CmdInv, NeedsPid
  <2>2. CASE AnswerRunning(c, cmd[c].pid)
    <3>1. CASE ThenWith(c, cmd[c].pid, "terminate")
          BY <1>6, <2>1, <3>1, ThenWithKeeps, LockUntouched DEF CheckAlive
    <3>2. CASE Return(c)
          BY <1>6, <3>2, ReturnKeeps, LockUntouched DEF CheckAlive
    <3>3. QED
          BY <2>2, <3>1, <3>2 DEF AnswerRunning
  <2>3. CASE AnswerNotRunning(c, TRUE)
        BY <1>6, <2>3, AnswerKeeps, LockUntouched DEF CheckAlive
  <2>4. QED
        BY <1>6, <2>2, <2>3 DEF CheckAlive
<1>7. CASE Remove(c)
  <2>1. CmdInv'
        BY <1>7, CleanedKeeps DEF Remove
  <2>2. LockInv'
        BY <1>7 DEF Remove, LockInv, Owner, RecordIsOwn
  <2>3. QED
        BY <2>1, <2>2
<1>8. CASE Launch(c)
  <2>1. ASSUME NEW p \in Pids, proc[p] = "none", Become(p, "starting") PROVE LockInv'
    <3>1. proc' \in [Pids -> ProcStates]
          BY <2>1 DEF LockInv, Become, ProcStates, Daemon
    <3>2. Owner' /\ RecordIsOwn'
          BY <1>8, <2>1 DEF Launch, LockInv, Become, Owner, RecordIsOwn, Holding
    <3>3. QED
          BY <1>8, <3>1, <3>2 DEF Launch, LockInv
  <2>2. LockInv'
        BY <1>8, <2>1, LockUntouched DEF Launch
  <2>3. Then(c, "poll", "state") => CmdInv'
        BY ThenKeeps DEF Phases, Calls, Probes, NeedsPid
  <2>4. Return(c) => CmdInv'
        BY ReturnKeeps
  <2>5. QED
        BY <1>8, <2>2, <2>3, <2>4 DEF Launch
<1>9. CASE Terminate(c)
  <2>1. cmd[c].pid \in Pids
        BY <1>9 DEF Terminate, CmdInv, NeedsPid
  <2>2. CASE Return(c) /\ UNCHANGED <<proc, flock>>
        BY <1>9, <2>2, ReturnKeeps, LockUntouched DEF Terminate
  <2>3. CASE Signalled(cmd[c].pid) /\ Then(c, "asked", "wait")
    <3>1. LockInv'
          BY <1>9, <2>1, <2>3, SignalKeeps DEF Terminate
    <3>2. CmdInv'
          BY <2>1, <2>3, ThenKeeps DEF Phases, Calls, Probes
    <3>3. QED
          BY <3>1, <3>2
  <2>4. QED
        BY <1>9, <2>2, <2>3 DEF Terminate
<1>10. CASE Kill(c)
  <2>1. cmd[c].pid \in Pids
        BY <1>10 DEF Kill, CmdInv, NeedsPid
  <2>2. CASE Return(c) /\ UNCHANGED <<proc, flock>>
        BY <1>10, <2>2, ReturnKeeps, LockUntouched DEF Kill
  <2>3. CASE /\ Become(cmd[c].pid, "none")
             /\ flock' = Freed(cmd[c].pid)
             /\ Then(c, "killed", "wait")
    <3>1. LockInv'
          BY <1>10, <2>1, <2>3, DeathKeeps DEF Kill
    <3>2. CmdInv'
          BY <2>1, <2>3, ThenKeeps DEF Phases, Calls, Probes
    <3>3. QED
          BY <3>1, <3>2
  <2>4. QED
        BY <1>10, <2>2, <2>3 DEF Kill
<1>11. CASE LookForRecord(c)
  <2>1. CASE Return(c)
        BY <1>11, <2>1, ReturnKeeps, LockUntouched DEF LookForRecord
  <2>2. CASE Then(c, "clear", "clean") \/ Then(c, "check", "state")
    <3>1. CmdInv'
          BY <2>2, ThenKeeps DEF Phases, Calls, Probes, NeedsPid
    <3>2. QED
          BY <1>11, <3>1, LockUntouched DEF LookForRecord
  <2>3. QED
        BY <1>11, <2>1, <2>2 DEF LookForRecord, StartIfPlanned
<1>12. QED
       BY <1>1, <1>2, <1>3, <1>4, <1>5, <1>6, <1>7, <1>8, <1>9, <1>10, <1>11 DEF CommandStep

LEMMA InitKeeps == Init => IInv
<1> SUFFICES ASSUME Init PROVE IInv
    OBVIOUS
<1>1. CmdInv
      BY DEF Init, CmdInv, CmdType, Idle, NoPid, NeedsPid
<1>2. Owner /\ RecordIsOwn
      BY NamesAreDistinct DEF Init, Owner, RecordIsOwn, Holding
<1>3. QED
      BY <1>1, <1>2 DEF Init, IInv, LockInv, ProcStates

LEMMA NextKeeps == IInv /\ [Next]_vars => IInv'
<1> SUFFICES ASSUME IInv, [Next]_vars PROVE IInv'
    OBVIOUS
<1>1. CASE UNCHANGED vars
      BY <1>1, LockUntouched DEF vars, IInv, CmdInv
<1>2. ASSUME NEW p \in Pids, DaemonStep(p) PROVE IInv'
      BY <1>2, DaemonKeeps DEF IInv, CmdInv
<1>3. ASSUME NEW c \in Commands, NEW op \in Operations, Begin(c, op) PROVE IInv'
  <2>1. CmdInv'
        BY <1>3 DEF IInv, Begin, CmdInv, CmdType, Operations, Phases, Calls, Probes, NoPid, NeedsPid
  <2>2. QED
        BY <1>3, <2>1, LockUntouched DEF IInv, Begin
<1>4. ASSUME NEW c \in Commands, CommandStep(c) PROVE IInv'
      BY <1>4, CommandKeeps
<1>5. ASSUME NEW c \in Commands, Deadline(c) PROVE IInv'
  <2>1. CASE Return(c)
        BY <1>5, <2>1, ReturnKeeps, LockUntouched DEF IInv, Deadline
  <2>2. CASE cmd[c].call = "wait" /\ Then(c, "asked", "kill")
    <3>1. cmd[c].pid \in Pids
          BY <2>2 DEF IInv, CmdInv, NeedsPid
    <3>2. CmdInv'
          BY <2>2, <3>1, ThenKeeps DEF IInv, Phases, Calls
    <3>3. QED
          BY <1>5, <3>2, LockUntouched DEF IInv, Deadline
  <2>3. QED
        BY <1>5, <2>1, <2>2 DEF Deadline
<1>6. ASSUME NEW c \in Commands, CommandDies(c) PROVE IInv'
  <2>1. CmdInv'
        BY <1>6, ReturnKeeps DEF IInv, CommandDies
  <2>2. CASE flock = c
        BY <1>6, <2>1, <2>2, ProbeKeeps DEF IInv, CommandDies, Freed
  <2>3. CASE flock # c
        BY <1>6, <2>1, <2>3, LockUntouched DEF IInv, CommandDies, Freed
  <2>4. QED
        BY <2>2, <2>3
<1>7. QED
      BY <1>1, <1>2, <1>3, <1>4, <1>5, <1>6 DEF Next

LEMMA Invariance == Spec => []IInv
<1>1. QED
      BY InitKeeps, NextKeeps, PTL DEF Spec

(***************************************************************************)
(* The theorems                                                            *)
(***************************************************************************)
\* Every variable keeps its type.
THEOREM LockTypeCorrect == Spec => []TypeOK
<1>1. IInv => TypeOK
      BY DEF IInv, LockInv, CmdInv, CmdType, TypeOK
<1>2. QED
      BY <1>1, Invariance, PTL

\* At most one daemon runs for a repository, for any number of processes and probes.
THEOREM SingleDaemon == Spec => []OneDaemon
<1>1. IInv => OneDaemon
      BY DEF IInv, LockInv, Owner, OneDaemon
<1>2. QED
      BY <1>1, Invariance, PTL

\* The record of a daemon that has written it is its own, or gone.
THEOREM RecordNeverForeign == Spec => []RecordIsOwn
<1>1. IInv => RecordIsOwn
      BY DEF IInv, LockInv
<1>2. QED
      BY <1>1, Invariance, PTL

\* What a command does changes its own place only.
LEMMA OthersStay ==
    ASSUME CmdInv, NEW c \in Commands, NEW d \in Commands, c # d,
           \/ CommandStep(d) \/ Deadline(d) \/ CommandDies(d)
           \/ \E op \in Operations : Begin(d, op)
    PROVE  cmd'[c] = cmd[c]
<1>1. Return(d) => cmd'[c] = cmd[c]
      BY DEF CmdInv, Return
<1>2. ASSUME NEW phase, NEW call, Then(d, phase, call) PROVE cmd'[c] = cmd[c]
      BY <1>2 DEF CmdInv, Then
<1>3. Cleaned(d) => cmd'[c] = cmd[c]
      BY <1>1, <1>2 DEF Cleaned, StartIfPlanned
<1>4. ASSUME NEW locked, AnswerNotRunning(d, locked) PROVE cmd'[c] = cmd[c]
      BY <1>1, <1>2, <1>4 DEF AnswerNotRunning
<1>5. FoundFree(d) => cmd'[c] = cmd[c]
      BY <1>2, <1>4 DEF FoundFree
<1>6. CASE ProbeNoFile(d) \/ ProbeTake(d) \/ ProbeRelease(d)
      BY <1>5, <1>6 DEF ProbeNoFile, ProbeTake, ProbeRelease
<1>7. CASE ProbeBusy(d) \/ Remove(d)
      BY <1>2, <1>3, <1>7 DEF ProbeBusy, Remove
<1>8. CASE ReadRecord(d)
      BY <1>4, <1>8 DEF ReadRecord, ThenWith, CmdInv
<1>9. CASE CheckAlive(d)
      BY <1>1, <1>4, <1>9 DEF CheckAlive, AnswerRunning, ThenWith, CmdInv
<1>10. CASE Launch(d) \/ Terminate(d) \/ Kill(d) \/ Deadline(d) \/ CommandDies(d)
       BY <1>1, <1>2, <1>10 DEF Launch, Terminate, Kill, Deadline, CommandDies
<1>11. CASE \E op \in Operations : Begin(d, op)
       BY <1>11 DEF Begin, CmdInv
<1>12. CASE LookForRecord(d)
       BY <1>1, <1>2, <1>12 DEF LookForRecord, StartIfPlanned
<1>13. QED
       BY <1>6, <1>7, <1>8, <1>9, <1>10, <1>11, <1>12 DEF CommandStep

\* The wait of a command that goes on to clean up has just found the lock free.
LEMMA WaitEndsFree ==
    ASSUME CmdInv, NEW c \in Commands, cmd[c].call = "wait", cmd'[c].call = "clean",
           \/ CommandStep(c) \/ Deadline(c) \/ CommandDies(c)
           \/ \E op \in Operations : Begin(c, op)
    PROVE  flock \in {"absent", c}
<1>1. ~Return(c)
      BY DEF CmdInv, Return, Idle
<1>2. ASSUME NEW phase, Then(c, phase, "kill") PROVE FALSE
      BY <1>2 DEF CmdInv, Then
<1>3. \A op \in Operations : ~Begin(c, op)
      BY DEF Begin, Idle
<1>4. ~Deadline(c) /\ ~CommandDies(c)
      BY <1>1, <1>2 DEF Deadline, CommandDies
<1>5. ~ProbeTake(c) /\ ~ProbeBusy(c) /\ ~ReadRecord(c) /\ ~CheckAlive(c)
      BY DEF ProbeTake, ProbeBusy, ReadRecord, CheckAlive
<1>6. ~LookForRecord(c) /\ ~Remove(c) /\ ~Launch(c) /\ ~Terminate(c) /\ ~Kill(c)
      BY DEF LookForRecord, Remove, Launch, Terminate, Kill
<1>7. QED
      BY <1>3, <1>4, <1>5, <1>6 DEF CommandStep, ProbeNoFile, ProbeRelease

\* When StopDaemon concludes that the daemon has stopped, no daemon runs.
THEOREM StopIsTruthful == Spec => StopMeansStopped
<1> DEFINE Concludes(c) == cmd[c].call = "wait" /\ cmd'[c].call = "clean"
           Nobody == \A p \in Pids : proc[p] \notin Holding
           Honest == \A c \in Commands : Concludes(c) => Nobody
<1>1. ASSUME IInv, [Next]_vars, NEW c \in Commands, Concludes(c) PROVE Nobody
  <2>1. cmd'[c] # cmd[c]
        BY <1>1
  <2>2. PICK d \in Commands : \/ CommandStep(d) \/ Deadline(d) \/ CommandDies(d)
                              \/ \E op \in Operations : Begin(d, op)
    <3>1. ~UNCHANGED cmd
          BY <2>1
    <3>2. ASSUME NEW p \in Pids PROVE ~DaemonStep(p)
          BY <1>1, <3>1, DaemonKeeps DEF IInv
    <3>3. QED
          BY <1>1, <3>1, <3>2 DEF Next, vars
  <2>3. d = c
        BY <1>1, <2>1, <2>2, OthersStay DEF IInv
  <2>4. flock \in {"absent", c}
        BY <1>1, <2>2, <2>3, WaitEndsFree DEF IInv
  <2>5. QED
        BY <1>1, <2>4, NamesAreDistinct DEF IInv, LockInv, Owner
<1>2. IInv /\ [Next]_vars => Honest
      BY <1>1
<1>3. QED
      BY <1>2, Invariance, PTL DEF Spec, StopMeansStopped
=============================================================================
