--------------------------- MODULE SwarmDiagnosis ---------------------------
(***************************************************************************)
(* What a swarm consists of, and how the code looks at it: the worktree,   *)
(* tmux session and agent of every role, the daemon, the environment and   *)
(* what the handoff boxes show; status and its health, the diagnoses of    *)
(* doctor, and the plan repair makes from them.  (internal/lifecycle/      *)
(* status.go, inspect.go, internal/diagnostics, internal/repair/planner.go)*)
(***************************************************************************)
EXTENDS Naturals, Sequences, FiniteSets

CONSTANTS
    Roles,          \* the configured roles
    RoleOrder,      \* the order of swarm.conf
    TaskRoles,      \* the roles that receive one task at a time
    EnvFaults,      \* what may be wrong with the machine and the repository
    Litter,         \* what else doctor may find in the boxes
    MaxOrphans      \* bound on delivered handoffs left in one outbox

EnvProblems ==
    {"repository", "commits", "configuration", "runtime", "tmux", "panes", "backend", "prompts"}

ASSUME RoleOrderLists == RoleOrder \in Seq(Roles) /\ \A r \in Roles : \E i \in DOMAIN RoleOrder : RoleOrder[i] = r
LitterKinds == ({"failed", "crowded"} \X Roles) \cup {<<"rejected", "handoffs">>, <<"temp", "runtime">>}

ASSUME LitterKnown == Litter \subseteq LitterKinds
ASSUME EnvFaultsKnown == EnvFaults \subseteq EnvProblems
ASSUME MaxOrphansNat == MaxOrphans \in Nat
ASSUME ComponentsDistinct == Roles \cap {"none", "repository", "configuration", "runtime", "tmux", "daemon", "handoffs"} = {}

VARIABLES
    tree,           \* what lies at the worktree's path, as git sees it
    registered,     \* whether git tracks that path as a worktree
    pane,           \* what runs in the role's session, "none" without a session
    socket,         \* whether the tmux socket file exists
    daemon,         \* stopped, running, or failed: locked by something unverified
    pidFile,        \* whether the daemon's pid file exists
    broken,         \* what is wrong with the environment
    integration,    \* the commit of the role's first current entry
    orphans,        \* how many delivered handoffs are still in the role's outbox
    litter          \* other things doctor reports about the boxes

trees == <<tree, registered>>
panes == <<pane, socket>>
process == <<daemon, pidFile>>
work == <<integration, orphans, litter>>

TreeStates == {"missing", "healthy", "dirty", "detached", "wrong-branch", "invalid"}
\* "line": a launch line, or more than one, has been typed but not entered.
PaneStates == {"none", "shell", "line", "typed", "agent", "garbled"}

\* A tmux server lives as long as it has a session.  Without tmux nobody can ask it.
ServerAlive == "tmux" \notin broken /\ \E r \in Roles : pane[r] # "none"
SessionLive(r) == ServerAlive /\ pane[r] # "none"

\* A server that answers may still fail to say what runs in a pane.  A shell shows
\* as long as the launch line that was typed has not taken effect.
AgentState(r) ==
    CASE "tmux" \in broken -> "error"
      [] "tmux" \notin broken /\ ~SessionLive(r) -> "session-missing"
      [] SessionLive(r) /\ "backend" \in broken -> "backend-missing"
      [] SessionLive(r) /\ "backend" \notin broken /\ "panes" \in broken -> "error"
      [] SessionLive(r) /\ broken \cap {"backend", "panes"} = {}
            /\ pane[r] \in {"shell", "line", "typed"} -> "not-started"
      [] OTHER -> "running"

(***************************************************************************)
(* swarm status                                                            *)
(***************************************************************************)
Running == daemon = "running" \/ \E r \in Roles : SessionLive(r)

\* A worktree counts as present when it is registered.
RoleUp(r) == registered[r] /\ SessionLive(r) /\ AgentState(r) = "running"

StatusHealth ==
    CASE daemon = "failed" -> "failed"
      [] ~Running -> "stopped"
      [] Running /\ daemon # "failed" /\ \E r \in Roles : AgentState(r) = "backend-missing" -> "failed"
      [] daemon = "running" /\ \A r \in Roles : RoleUp(r) -> "healthy"
      [] OTHER -> "degraded"

(***************************************************************************)
(* swarm doctor                                                            *)
(***************************************************************************)
Diagnosis(code, severity, component, repairable) ==
    [code |-> code, severity |-> severity, component |-> component, repairable |-> repairable]
When(condition, d) == {x \in {d} : condition}

InspectEnvironment ==
    When("commits" \in broken, Diagnosis("REPO_NO_COMMITS", "error", "repository", FALSE))
    \cup When("configuration" \in broken, Diagnosis("CONFIG_INVALID", "critical", "configuration", FALSE))
    \cup When("runtime" \in broken, Diagnosis("RUNTIME_NOT_WRITABLE", "error", "runtime", FALSE))
    \cup {Diagnosis("PROMPTS_MISSING", "error", r, FALSE) : r \in {x \in Roles : "prompts" \in broken}}
    \cup {Diagnosis("BACKEND_MISSING", "error", r, FALSE) : r \in {x \in Roles : "backend" \in broken}}

InspectTmux ==
    When("tmux" \in broken, Diagnosis("TMUX_MISSING", "error", "tmux", FALSE))
    \cup When("tmux" \notin broken /\ socket /\ ~ServerAlive,
              Diagnosis("TMUX_SOCKET_STALE", "warning", "tmux", TRUE))

\* A defect: without a pid file no daemon is expected.
InspectDaemonPid ==
    When(daemon = "failed", Diagnosis("DAEMON_UNVERIFIED", "error", "daemon", FALSE))
    \cup When(daemon = "stopped" /\ pidFile, Diagnosis("DAEMON_STALE_PID", "warning", "daemon", TRUE))

\* A stopped daemon is only a problem while the rest of the swarm is up.
InspectDaemon ==
    When(daemon = "failed", Diagnosis("DAEMON_UNVERIFIED", "error", "daemon", FALSE))
    \cup When(daemon = "stopped" /\ pidFile, Diagnosis("DAEMON_STALE_PID", "warning", "daemon", TRUE))
    \cup When(daemon = "stopped" /\ ServerAlive, Diagnosis("DAEMON_NOT_RUNNING", "error", "daemon", TRUE))

TreeReports ==
    {<<"missing", "WORKTREE_MISSING", "error">>,
     <<"dirty", "WORKTREE_DIRTY", "warning">>,
     <<"detached", "WORKTREE_DETACHED", "error">>,
     <<"wrong-branch", "WORKTREE_WRONG_BRANCH", "error">>,
     <<"invalid", "WORKTREE_INVALID_METADATA", "error">>}

\* Only a missing worktree that git does not know any more can be recreated.
InspectWorktree(r) ==
    {Diagnosis(x[2], x[3], r, tree[r] = "missing" /\ ~registered[r]) :
        x \in {y \in TreeReports : y[1] = tree[r]}}

\* Without a server no session is reported: the swarm is taken not to be running.  An
\* agent that could not be asked after is passed over.
InspectRuntime(r) ==
    When(ServerAlive /\ ~SessionLive(r), Diagnosis("SESSION_MISSING", "error", r, TRUE))
    \cup When(AgentState(r) = "not-started", Diagnosis("AGENT_MISSING", "error", r, TRUE))

InspectWork(r) ==
    When(r \in TaskRoles /\ <<"crowded", r>> \in litter,
         Diagnosis("HANDOFF_CURRENT_CORRUPT", "critical", r, FALSE))
    \cup When(integration[r] = "pending", Diagnosis("INTEGRATION_PENDING", "warning", r, TRUE))
    \cup When(integration[r] = "failed", Diagnosis("INTEGRATION_FAILED", "error", r, FALSE))
    \cup When(<<"failed", r>> \in litter, Diagnosis("HANDOFF_FAILED", "warning", r, FALSE))
    \cup When(orphans[r] > 0, Diagnosis("HANDOFF_ORPHAN_DELIVERY", "warning", r, TRUE))

InspectShared ==
    When(<<"rejected", "handoffs">> \in litter,
         Diagnosis("HANDOFF_REJECTED", "warning", "handoffs", FALSE))
    \cup When(<<"temp", "runtime">> \in litter, Diagnosis("RUNTIME_TEMP_FILES", "info", "runtime", TRUE))

\* Without a repository nothing else is looked at.
Detect ==
    IF "repository" \in broken
    THEN {Diagnosis("REPO_MISSING", "critical", "repository", FALSE)}
    ELSE InspectEnvironment \cup InspectTmux \cup InspectDaemon \cup InspectShared
         \cup UNION {InspectWorktree(r) \cup InspectRuntime(r) \cup InspectWork(r) : r \in Roles}

Blocks(d) == d.severity = "critical" \/ (d.severity = "error" /\ ~d.repairable)
Degrades(d) == d.severity = "warning" \/ (d.severity = "error" /\ d.repairable)

DoctorHealth ==
    LET report == Detect IN
    CASE \E d \in report : Blocks(d) -> "blocked"
      [] ~(\E d \in report : Blocks(d)) /\ \E d \in report : Degrades(d) -> "degraded"
      [] OTHER -> IF Running THEN "healthy" ELSE "stopped"

(***************************************************************************)
(* The plan of swarm repair                                                *)
(***************************************************************************)
\* The kinds of repair in the order they are made, each with the code it answers.
\* prune-worktrees is listed, but Detect never reports its code.
PlanOrder ==
    << <<"clear-daemon-metadata", "DAEMON_STALE_PID">>,
       <<"remove-stale-socket", "TMUX_SOCKET_STALE">>,
       <<"prune-worktrees", "WORKTREE_STALE_METADATA">>,
       <<"create-worktree", "WORKTREE_MISSING">>,
       <<"start-daemon", "DAEMON_NOT_RUNNING">>,
       <<"create-session", "SESSION_MISSING">>,
       <<"start-agent", "AGENT_MISSING">>,
       <<"reconcile-orphan", "HANDOFF_ORPHAN_DELIVERY">>,
       <<"integrate", "INTEGRATION_PENDING">>,
       <<"clean-temp-files", "RUNTIME_TEMP_FILES">> >>

Components == RoleOrder \o <<"daemon", "tmux", "runtime">>
Act(kind, component) == [kind |-> kind, component |-> component]

\* Every possible repair, kind by kind.
RepairSteps ==
    [n \in 1..(Len(PlanOrder) * Len(Components)) |->
        Act(PlanOrder[((n - 1) \div Len(Components)) + 1][1],
            Components[((n - 1) % Len(Components)) + 1])]
CauseOf(n) == PlanOrder[((n - 1) \div Len(Components)) + 1][2]

Reported(report, code, component) ==
    \E d \in report : d.code = code /\ d.component = component /\ d.repairable

\* One action per kind and component, so one orphan of a role at a time; the agent
\* of a session about to be created comes with the session.
PlanFrom(report) ==
    {n \in DOMAIN RepairSteps :
        /\ Reported(report, CauseOf(n), RepairSteps[n].component)
        /\ RepairSteps[n].kind = "start-agent"
             => ~Reported(report, "SESSION_MISSING", RepairSteps[n].component)}
=============================================================================
