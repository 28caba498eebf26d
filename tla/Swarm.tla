------------------------------- MODULE Swarm -------------------------------
(***************************************************************************)
(* The commands that bring a swarm up, take it down and repair it, running *)
(* in several terminals over components that fail on their own.            *)
(* (internal/lifecycle/start.go, stop.go, inspect.go, internal/repair,     *)
(* internal/git/worktree.go, internal/tmux/manager.go, internal/agent/     *)
(* manager.go, cmd/swarm)                                                  *)
(*                                                                         *)
(* Every command is a list of steps, each of which looks at one component  *)
(* and changes it if need be.  start, stop and repair exclude each other   *)
(* with the lifecycle lock; the others take no lock.  A step is one action,*)
(* except where the code looks first and acts on what it saw later.        *)
(***************************************************************************)
EXTENDS SwarmDiagnosis

CONSTANTS
    Commands,       \* terminals
    Uses,           \* the operations each terminal is used for
    MaxTrouble      \* bound on disturbances and on commands other than start

Exclusive == {"start", "stop", "repair"}
Unlocked == {"worktrees-create", "worktrees-remove", "sessions-create", "sessions-remove",
             "agents-start", "agents-stop"}
Operations == Exclusive \cup Unlocked

ASSUME MaxTroubleNat == MaxTrouble \in Nat
ASSUME UsesChosen == Uses \in [Commands -> SUBSET Operations]

VARIABLES
    cmd,            \* what each terminal runs, what is left of it, whether a step failed
    trouble,        \* disturbances so far
    alone           \* whether nothing interfered with the command since it began

vars == <<tree, registered, pane, socket, daemon, pidFile, broken,
          integration, orphans, litter, cmd, trouble, alone>>

Each(kind) == [i \in DOMAIN RoleOrder |-> Act(kind, RoleOrder[i])]

\* The steps an operation may take, in order.
Steps == [op \in Operations |->
    CASE op = "start" -> Each("create-worktree") \o <<Act("start-daemon", "daemon")>> \o Each("create-session")
      [] op = "stop" -> Each("stop-agent") \o Each("remove-session") \o <<Act("stop-daemon", "daemon")>>
      [] op = "repair" -> RepairSteps
      [] op = "worktrees-create" -> Each("create-worktree")
      [] op = "worktrees-remove" -> Each("remove-worktree")
      [] op = "sessions-create" -> Each("create-bare-session")
      [] op = "sessions-remove" -> Each("remove-session")
      [] op = "agents-start" -> Each("start-agent")
      [] op = "agents-stop" -> Each("stop-agent")]

Idle == [op |-> "none", todo |-> {}, next |-> "none", failed |-> FALSE]

Init ==
    /\ tree = [r \in Roles |-> "missing"]
    /\ registered = [r \in Roles |-> FALSE]
    /\ pane = [r \in Roles |-> "none"]
    /\ socket = FALSE
    /\ daemon = "stopped"
    /\ pidFile = FALSE
    /\ broken = {}
    /\ integration = [r \in Roles |-> "none"]
    /\ orphans = [r \in Roles |-> 0]
    /\ litter = {}
    /\ cmd = [c \in Commands |-> Idle]
    /\ trouble = 0
    /\ alone = [c \in Commands |-> TRUE]

(***************************************************************************)
(* Running a command                                                       *)
(***************************************************************************)
First(S) == CHOOSE n \in S : \A m \in S : n <= m
Current(c) == Steps[cmd[c].op][First(cmd[c].todo)]
Subject(c) == Current(c).component
Doing(c, kind) ==
    /\ cmd[c].todo # {}
    /\ kind = IF cmd[c].next = "none" THEN Current(c).kind ELSE cmd[c].next

\* The step is done; the same component is dealt with further; the step failed.
\* start, stop and repair go on after a failure, the others give up.
Succeed(c) ==
    cmd' = [cmd EXCEPT ![c].todo = @ \ {First(@)}, ![c].next = "none"]
Continue(c, kind) == cmd' = [cmd EXCEPT ![c].next = kind]
\* A defect: the error is not entered into the report.
FailQuietly(c) ==
    cmd' = [cmd EXCEPT ![c].todo = IF cmd[c].op \in Unlocked THEN {} ELSE @ \ {First(@)},
                       ![c].next = "none"]
Fail(c) ==
    cmd' = [cmd EXCEPT ![c].todo = IF cmd[c].op \in Unlocked THEN {} ELSE @ \ {First(@)},
                       ![c].next = "none", ![c].failed = TRUE]

\* Without tmux, a backend, prompts or a repository start refuses to begin.
Preflight == broken \subseteq {"commits", "panes"}

\* The list of a repair is what its diagnosis, made under the lock, calls for.
Begin(c, op) ==
    /\ cmd[c] = Idle
    /\ op \in Exclusive => \A d \in Commands : cmd[d].op \notin Exclusive
    /\ op = "start" => Preflight
    /\ cmd' = [cmd EXCEPT ![c] =
                 [op     |-> op,
                  todo   |-> IF op = "repair" THEN PlanFrom(Detect) ELSE DOMAIN Steps[op],
                  next   |-> "none",
                  failed |-> FALSE]]
    /\ alone' = [alone EXCEPT ![c] = TRUE]
    /\ UNCHANGED <<trees, panes, process, broken, work>>

Finish(c) ==
    /\ cmd[c].op # "none"
    /\ cmd[c].todo = {}
    /\ cmd' = [cmd EXCEPT ![c] = Idle]
    /\ UNCHANGED <<trees, panes, process, broken, work, trouble, alone>>

(***************************************************************************)
(* Worktrees: git.WorktreeManager                                          *)
(***************************************************************************)
GitWorks == "repository" \notin broken

\* Whatever is registered counts as there.  A directory git does not know is an error.
CreateWorktree(c) ==
    LET r == Subject(c) IN
    /\ Doing(c, "create-worktree")
    /\ \/ GitWorks /\ "commits" \notin broken /\ registered[r] /\ Succeed(c) /\ UNCHANGED trees
       \/ /\ GitWorks /\ "commits" \notin broken /\ ~registered[r] /\ tree[r] = "missing"
          /\ tree' = [tree EXCEPT ![r] = "healthy"]
          /\ registered' = [registered EXCEPT ![r] = TRUE]
          /\ Succeed(c)
       \/ /\ ~GitWorks \/ "commits" \in broken \/ (~registered[r] /\ tree[r] # "missing")
          /\ Fail(c)
          /\ UNCHANGED trees
    /\ UNCHANGED <<panes, process, broken, work>>

\* git refuses a broken worktree, and without --force a dirty one.
RemoveWorktree(c) ==
    LET r == Subject(c) IN
    /\ Doing(c, "remove-worktree")
    /\ \/ GitWorks /\ ~registered[r] /\ Succeed(c) /\ UNCHANGED trees
       \/ /\ GitWorks /\ registered[r] /\ tree[r] # "invalid"
          /\ tree' = [tree EXCEPT ![r] = "missing"]
          /\ registered' = [registered EXCEPT ![r] = FALSE]
          /\ Succeed(c)
       \/ /\ ~GitWorks \/ (registered[r] /\ tree[r] \in {"invalid", "dirty"})
          /\ Fail(c)
          /\ UNCHANGED trees
    /\ UNCHANGED <<panes, process, broken, work>>

(***************************************************************************)
(* Sessions: tmux.Manager                                                  *)
(***************************************************************************)
TmuxWorks == "tmux" \notin broken

\* A defect: the agent is left out.
EnsureSessionOnly(c) ==
    LET r == Subject(c) IN
    /\ Doing(c, "create-session") \/ Doing(c, "create-bare-session")
    /\ TmuxWorks /\ tree[r] # "missing"
    /\ pane' = [pane EXCEPT ![r] = IF @ = "none" THEN "shell" ELSE @]
    /\ socket' = TRUE
    /\ Succeed(c)
    /\ UNCHANGED <<trees, process, broken, work>>

\* start and repair let the agent follow the session; sessions create does not.
EnsureSession(c) ==
    LET r == Subject(c)
        Ensured == IF Current(c).kind = "create-session" THEN Continue(c, "start-agent") ELSE Succeed(c)
    IN
    /\ Doing(c, "create-session") \/ Doing(c, "create-bare-session")
    /\ \/ TmuxWorks /\ tree[r] # "missing" /\ pane[r] # "none" /\ Ensured /\ UNCHANGED panes
       \/ /\ TmuxWorks /\ tree[r] # "missing" /\ pane[r] = "none"
          /\ pane' = [pane EXCEPT ![r] = "shell"]
          /\ socket' = TRUE
          /\ Ensured
       \/ ~(TmuxWorks /\ tree[r] # "missing") /\ Fail(c) /\ UNCHANGED panes
    /\ UNCHANGED <<trees, process, broken, work>>

\* The server exits with its last session; its socket file may stay behind.
SessionEnds(r) ==
    /\ pane' = [pane EXCEPT ![r] = "none"]
    /\ \/ socket' = socket
       \/ (\A q \in Roles \ {r} : pane[q] = "none") /\ socket' = FALSE

\* A defect: a session whose agent did not take the interrupt is spared.
RemoveIdleSession(c) ==
    LET r == Subject(c) IN
    /\ Doing(c, "remove-session")
    /\ \/ pane[r] # "shell" /\ Succeed(c) /\ UNCHANGED panes
       \/ pane[r] = "shell" /\ Succeed(c) /\ SessionEnds(r)
    /\ UNCHANGED <<trees, process, broken, work>>

RemoveSession(c) ==
    LET r == Subject(c) IN
    /\ Doing(c, "remove-session")
    /\ \/ TmuxWorks /\ pane[r] = "none" /\ Succeed(c) /\ UNCHANGED panes
       \/ TmuxWorks /\ pane[r] # "none" /\ Succeed(c) /\ SessionEnds(r)
       \/ ~TmuxWorks /\ Fail(c) /\ UNCHANGED panes
    /\ UNCHANGED <<trees, process, broken, work>>

\* RemoveStaleSocket asks whether a server answers ...
CheckSocket(c) ==
    /\ Doing(c, "remove-stale-socket")
    /\ \/ ServerAlive /\ Fail(c)
       \/ ~ServerAlive /\ Continue(c, "unlink-socket")
    /\ UNCHANGED <<trees, panes, process, broken, work>>

\* ... and then removes the file.  A server that has come up meanwhile is out of
\* reach from here on, with everything that runs in it.
UnlinkSocket(c) ==
    /\ Doing(c, "unlink-socket")
    /\ socket' = FALSE
    /\ pane' = [r \in Roles |-> "none"]
    /\ Succeed(c)
    /\ UNCHANGED <<trees, process, broken, work>>

(***************************************************************************)
(* Agents: agent.Manager                                                   *)
(***************************************************************************)
\* A defect: the state of the pane is not asked for.
StartAgentBlindly(c) ==
    LET r == Subject(c) IN
    /\ Doing(c, "start-agent")
    /\ \/ pane[r] # "none" /\ Continue(c, "type-launch-line")
       \/ pane[r] = "none" /\ Fail(c)
    /\ UNCHANGED <<trees, panes, process, broken, work>>

\* Start looks at the pane ...
StartAgent(c) ==
    LET state == AgentState(Subject(c)) IN
    /\ Doing(c, "start-agent")
    /\ \/ "prompts" \notin broken /\ state = "not-started" /\ Continue(c, "type-launch-line")
       \/ "prompts" \notin broken /\ state = "running" /\ Succeed(c)
       \/ ("prompts" \in broken \/ state \notin {"not-started", "running"}) /\ Fail(c)
    /\ UNCHANGED <<trees, panes, process, broken, work>>

\* ... then types the launch line into whatever the pane shows by now: behind a line
\* that an earlier command left there, or as input of what runs or is about to run ...
TypeLaunchLine(c) ==
    LET r == Subject(c) IN
    /\ Doing(c, "type-launch-line")
    /\ \/ SessionLive(r) /\ Continue(c, "press-enter") /\
          pane' = [pane EXCEPT ![r] = IF @ \in {"shell", "line"} THEN "line" ELSE "garbled"]
       \/ ~SessionLive(r) /\ Fail(c) /\ UNCHANGED pane
    /\ UNCHANGED <<trees, socket, process, broken, work>>

\* ... and sends Enter in a call of its own.
PressEnter(c) ==
    LET r == Subject(c) IN
    /\ Doing(c, "press-enter")
    /\ \/ SessionLive(r) /\ Succeed(c) /\
          pane' = [pane EXCEPT ![r] = IF @ = "line" THEN "typed" ELSE @]
       \/ ~SessionLive(r) /\ Fail(c) /\ UNCHANGED pane
    /\ UNCHANGED <<trees, socket, process, broken, work>>

\* Ctrl-C, which the agent may take or not; the session stays.
StopAgent(c) ==
    LET r == Subject(c) IN
    /\ Doing(c, "stop-agent")
    /\ \/ AgentState(r) = "error" /\ Fail(c) /\ UNCHANGED pane
       \/ AgentState(r) # "error" /\ Succeed(c) /\ UNCHANGED pane
       \/ AgentState(r) = "running" /\ Succeed(c) /\ pane' = [pane EXCEPT ![r] = "shell"]
    /\ UNCHANGED <<trees, socket, process, broken, work>>

(***************************************************************************)
(* The daemon: its lock and process are the subject of DaemonLock          *)
(***************************************************************************)
\* A defect: a pid file is taken for a daemon.
StartDaemonByPid(c) ==
    /\ Doing(c, "start-daemon")
    /\ \/ pidFile /\ Succeed(c) /\ UNCHANGED process
       \/ ~pidFile /\ Succeed(c) /\ daemon' = "running" /\ pidFile' = TRUE
    /\ UNCHANGED <<trees, panes, broken, work>>

StartDaemon(c) ==
    /\ Doing(c, "start-daemon")
    /\ \/ daemon = "running" /\ Succeed(c) /\ UNCHANGED process
       \/ daemon = "stopped" /\ Succeed(c) /\ daemon' = "running" /\ pidFile' = TRUE
       \/ daemon = "failed" /\ Fail(c) /\ UNCHANGED process
    /\ UNCHANGED <<trees, panes, broken, work>>

StopDaemon(c) ==
    /\ Doing(c, "stop-daemon")
    /\ \/ daemon # "failed" /\ Succeed(c) /\ daemon' = "stopped" /\ pidFile' = FALSE
       \/ daemon = "failed" /\ Fail(c) /\ UNCHANGED process
    /\ UNCHANGED <<trees, panes, broken, work>>

\* CleanStaleDaemonFiles leaves the file alone while the lock is held.
ClearDaemonMetadata(c) ==
    /\ Doing(c, "clear-daemon-metadata")
    /\ pidFile' = (pidFile /\ daemon # "stopped")
    /\ Succeed(c)
    /\ UNCHANGED <<trees, panes, daemon, broken, work>>

(***************************************************************************)
(* Durable work: HandoffInspection                                         *)
(***************************************************************************)
\* A defect: the source of the diagnosis is counted as still there.
ReconcileOrphanUnseen(c) ==
    LET r == Subject(c) IN
    /\ Doing(c, "reconcile-orphan")
    /\ orphans' = [orphans EXCEPT ![r] = @ - 1]
    /\ Succeed(c)
    /\ UNCHANGED <<trees, panes, process, broken, integration, litter>>

\* A source that the daemon has retired by now is left alone.
ReconcileOrphan(c) ==
    LET r == Subject(c) IN
    /\ Doing(c, "reconcile-orphan")
    /\ orphans' = [orphans EXCEPT ![r] = IF @ > 0 THEN @ - 1 ELSE 0]
    /\ Succeed(c)
    /\ UNCHANGED <<trees, panes, process, broken, integration, litter>>

\* Integrate refuses anything but a clean worktree on its branch; whatever it
\* refuses, and every conflict, is recorded as failed and never tried again here.  By now
\* the role may be without work, or work on something that has no commit.
Integrate(c) ==
    LET r == Subject(c) IN
    /\ Doing(c, "integrate")
    /\ \/ tree[r] = "healthy" /\ Succeed(c) /\ integration' = [integration EXCEPT ![r] = "none"]
       \/ Fail(c) /\ integration' = [integration EXCEPT ![r] = "failed"]
       \/ integration[r] = "none" /\ (Fail(c) \/ Succeed(c)) /\ UNCHANGED integration
    /\ UNCHANGED <<trees, panes, process, broken, orphans, litter>>

CleanTempFiles(c) ==
    /\ Doing(c, "clean-temp-files")
    /\ litter' = litter \ {<<"temp", "runtime">>}
    /\ Succeed(c)
    /\ UNCHANGED <<trees, panes, process, broken, integration, orphans>>

Step(c) ==
    /\ \/ CreateWorktree(c) \/ RemoveWorktree(c)
       \/ EnsureSession(c) \/ RemoveSession(c) \/ CheckSocket(c) \/ UnlinkSocket(c)
       \/ StartAgent(c) \/ TypeLaunchLine(c) \/ PressEnter(c) \/ StopAgent(c)
       \/ StartDaemon(c) \/ StopDaemon(c) \/ ClearDaemonMetadata(c)
       \/ ReconcileOrphan(c) \/ Integrate(c) \/ CleanTempFiles(c)
    /\ alone' = [d \in Commands |-> d = c /\ alone[d]]
    /\ UNCHANGED trouble

(***************************************************************************)
(* What happens of its own accord                                          *)
(***************************************************************************)
\* A step fails although nothing stands in its way: git, tmux or a timeout.
ToolFails(c) ==
    /\ cmd[c].todo # {}
    /\ Fail(c)
    /\ UNCHANGED <<trees, panes, process, broken, work>>

CommandDies(c) ==
    /\ cmd[c].op # "none"
    /\ cmd' = [cmd EXCEPT ![c] = Idle]
    /\ UNCHANGED <<trees, panes, process, broken, work>>

EnvironmentChanges(e) ==
    /\ \/ e \notin broken /\ broken' = broken \cup {e}
       \/ e \in broken /\ broken' = broken \ {e}
    /\ UNCHANGED <<trees, panes, process, work, cmd>>

ServerDies ==
    /\ \E r \in Roles : pane[r] # "none"
    /\ pane' = [r \in Roles |-> "none"]
    /\ UNCHANGED <<trees, socket, process, broken, work, cmd>>

SessionDies(r) ==
    /\ pane[r] # "none"
    /\ SessionEnds(r)
    /\ UNCHANGED <<trees, process, broken, work, cmd>>

AgentExits(r) ==
    /\ pane[r] \in {"typed", "agent", "garbled"}
    /\ pane' = [pane EXCEPT ![r] = "shell"]
    /\ UNCHANGED <<trees, socket, process, broken, work, cmd>>

DaemonDies ==
    /\ daemon = "running"
    /\ daemon' = "stopped"
    /\ UNCHANGED <<trees, panes, pidFile, broken, work, cmd>>

\* Something else holds the daemon lock, or lets go of it.
LockStolen ==
    /\ \/ daemon = "stopped" /\ daemon' = "failed"
       \/ daemon = "failed" /\ daemon' = "stopped"
    /\ UNCHANGED <<trees, panes, pidFile, broken, work, cmd>>

\* Agents and people work in the worktrees, and delete directories.  A directory that
\* is no worktree belongs to the repository around it, which is on another branch.
TreeChanges(r, state) ==
    /\ tree[r] # state
    /\ IF registered[r] THEN tree[r] # "missing" ELSE state \in {"missing", "wrong-branch"}
    /\ tree' = [tree EXCEPT ![r] = state]
    /\ UNCHANGED <<registered, panes, process, broken, work, cmd>>

\* git worktree prune, run by hand.
Prune(r) ==
    /\ registered[r] /\ tree[r] = "missing"
    /\ registered' = [registered EXCEPT ![r] = FALSE]
    /\ UNCHANGED <<tree, panes, process, broken, work, cmd>>

\* The role takes up work, is done with it, or integrates it itself.
WorkChanges(r, state) ==
    /\ integration[r] # state
    /\ integration' = [integration EXCEPT ![r] = state]
    /\ UNCHANGED <<trees, panes, process, broken, orphans, litter, cmd>>

\* Delivered, but the daemon died before it retired the sources.
OrphansAppear(r, n) ==
    /\ orphans[r] = 0
    /\ orphans' = [orphans EXCEPT ![r] = n]
    /\ UNCHANGED <<trees, panes, process, broken, integration, litter, cmd>>

LitterAppears(x) ==
    /\ x \notin litter
    /\ litter' = litter \cup {x}
    /\ UNCHANGED <<trees, panes, process, broken, integration, orphans, cmd>>

Disturbance ==
    /\ \/ \E c \in Commands : ToolFails(c) \/ CommandDies(c)
       \/ \E e \in EnvFaults : EnvironmentChanges(e)
       \/ ServerDies \/ DaemonDies \/ LockStolen
       \/ \E r \in Roles : \/ SessionDies(r) \/ AgentExits(r) \/ Prune(r)
                           \/ \E state \in {"none", "pending", "failed"} : WorkChanges(r, state)
                           \/ \E state \in TreeStates : TreeChanges(r, state)
                           \/ \E n \in 1..MaxOrphans : OrphansAppear(r, n)
       \/ \E x \in Litter : LitterAppears(x)
    /\ trouble < MaxTrouble
    /\ trouble' = trouble + 1
    /\ alone' = [c \in Commands |-> FALSE]

\* The shell executes the launch line, maybe after a command has looked at the pane.
Launches(r) ==
    /\ pane[r] = "typed"
    /\ pane' = [pane EXCEPT ![r] = "agent"]
    /\ alone' = [c \in Commands |->
                    alone[c] /\ ~(cmd[c].next = "type-launch-line" /\ Subject(c) = r)]
    /\ UNCHANGED <<trees, socket, process, broken, work, cmd, trouble>>

\* The running daemon comes across an orphan.
DaemonRetires(r) ==
    /\ daemon = "running" /\ orphans[r] > 0
    /\ orphans' = [orphans EXCEPT ![r] = @ - 1]
    /\ UNCHANGED <<trees, panes, process, broken, integration, litter, cmd, trouble, alone>>

\* start may be run over and over; every other command counts.
Invoke(c) ==
    \/ "start" \in Uses[c] /\ Begin(c, "start") /\ UNCHANGED trouble
    \/ /\ \E op \in Uses[c] \ {"start"} : Begin(c, op)
       /\ trouble < MaxTrouble
       /\ trouble' = trouble + 1

Next ==
    \/ \E c \in Commands : Invoke(c) \/ Step(c) \/ Finish(c)
    \/ \E r \in Roles : Launches(r) \/ DaemonRetires(r)
    \/ Disturbance

Spec == Init /\ [][Next]_vars

\* Whoever uses the swarm runs start again, that command keeps going unless it is
\* killed, and a shell gets round to what was typed.  Nothing is asked of the others.
Starters == {c \in Commands : "start" \in Uses[c]}
FairSpec ==
    /\ Spec
    /\ \A c \in Starters : WF_vars(Step(c) \/ Finish(c))
    /\ WF_vars(\E r \in Roles : Launches(r))
    /\ WF_vars(\E c \in Starters : Begin(c, "start") /\ UNCHANGED trouble)

(***************************************************************************)
(* What holds                                                              *)
(***************************************************************************)
TypeOK ==
    /\ tree \in [Roles -> TreeStates]
    /\ registered \in [Roles -> BOOLEAN]
    /\ pane \in [Roles -> PaneStates]
    /\ socket \in BOOLEAN
    /\ daemon \in {"stopped", "running", "failed"}
    /\ pidFile \in BOOLEAN
    /\ broken \subseteq EnvFaults
    /\ integration \in [Roles -> {"none", "pending", "failed"}]
    /\ orphans \in [Roles -> 0..MaxOrphans]
    /\ litter \subseteq Litter
    /\ cmd \in [Commands -> [op : Operations \cup {"none"}, todo : SUBSET Nat,
                             next : {"none", "start-agent", "type-launch-line", "press-enter",
                                     "unlink-socket"},
                             failed : BOOLEAN]]
    /\ trouble \in 0..MaxTrouble
    /\ alone \in [Commands -> BOOLEAN]

\* The command has come to its end, no step failed and nothing interfered.
Clean(c, op) == cmd[c].op = op /\ cmd[c].todo = {} /\ ~cmd[c].failed /\ alone[c]

\* A start that calls itself complete has left every role with a worktree that is
\* there and an agent that runs or is about to, and the daemon (Manager.Start).
StartDelivers ==
    \A c \in Commands : Clean(c, "start") =>
        /\ daemon = "running"
        /\ \A r \in Roles : registered[r] /\ tree[r] # "missing" /\ pane[r] \notin {"none", "shell", "line"}

\* A stop without errors has left no session, no agent and no daemon (Manager.Stop).
StopDelivers ==
    \A c \in Commands : Clean(c, "stop") =>
        daemon = "stopped" /\ ~pidFile /\ \A r \in Roles : pane[r] = "none"

\* After a repair in which every action succeeded nothing is repairable any more,
\* except the other orphans of a role and agents whose launch line was just typed
\* (PlanFrom, Executor.Execute).
RepairDelivers ==
    \A c \in Commands : Clean(c, "repair") =>
        \A d \in Detect : d.repairable =>
            \/ d.code = "HANDOFF_ORPHAN_DELIVERY"
            \/ d.code = "AGENT_MISSING" /\ pane[d.component] = "typed"

\* While a tmux server answers, what doctor calls healthy ("every required component
\* is functioning") is what status calls healthy, but for agents that could not be asked
\* after: doctor passes over them, and status says degraded (Detect, Manager.Status).
Unasked == \A r \in Roles : RoleUp(r) \/ (registered[r] /\ SessionLive(r) /\ AgentState(r) = "error")
HealthyIsUp ==
    ServerAlive /\ DoctorHealth = "healthy" =>
        \/ StatusHealth = "healthy"
        \/ StatusHealth = "degraded" /\ daemon = "running" /\ Unasked

\* A command that brings components up takes none down and types into no agent: what
\* runs keeps running, what lies in a worktree stays (Policy B of Manager.Start).
BringsUp == {"start", "repair", "worktrees-create", "sessions-create", "agents-start"}
NothingDisturbed ==
    [][\A c \in Commands :
         cmd'[c] # cmd[c] /\ cmd[c].op \in BringsUp /\ alone[c] /\ alone'[c] =>
             /\ daemon = "running" => daemon' = "running"
             /\ \A r \in Roles :
                  /\ registered[r] => registered'[r] /\ tree'[r] = tree[r]
                  /\ pane[r] # "none" => pane'[r] # "none"
                  /\ pane[r] = "agent" => pane'[r] = "agent"]_vars

\* Repeated starts bring the swarm up from wherever crashes, failing tools and other
\* commands left it, unless something stands in the way that start cannot remove.
Up == daemon = "running" /\ \A r \in Roles : tree[r] # "missing" /\ pane[r] \in {"agent", "garbled"}
Obstructed ==
    \/ broken # {} \/ daemon = "failed"
    \/ \E r \in Roles : registered[r] = (tree[r] = "missing")
StartRecovers == <>[](Up \/ Obstructed)
=============================================================================
