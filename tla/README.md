# TLA+ specifications of swarm-go

swarm-go runs one coding agent per role in a tmux session and a git worktree of
its own, and moves their work between them as files. The files are the system's
memory: every agent, daemon and command may die at any point and the next one
goes on from the directories. These modules model that memory and the processes
that share it. TLC checks small instances, TLAPS proves the main results for
every value of the constants.

## The system

| component | state | operations | talks to |
|---|---|---|---|
| handoff store (`internal/handoff/store.go`, `selector.go`) | per role: `outbox`, `inbox`, `current`, `completed`, `sent`, `failed`; shared: `rejected`, `archive`; batch marker | atomic create, rename between boxes, listing in priority order | everything below |
| delivery daemon (`daemon.go`) | a pass in memory | every 250 ms: list outboxes, deliver to each destination, retire the source; wake roles; re-notify | store, notifier, git (resolve commit) |
| role commands (`lifecycle.go`, `cmd/swarm/handoff.go`) | none, one process per call | ready, done, next (Advance), send, ack, integrate, status | store, git |
| developer commands (`cmd/swarm/task.go`, `doctor.go`) | none | task submit, handoff retry | store, notifier |
| notification state (`internal/notify`) | one file per role | notify and record, rate limit, clear | tmux |
| daemon process and lock (`internal/lifecycle/daemon.go`, `lock_unix.go`) | a lock file under flock, a pid file | acquire, release, probe, start, stop, clean up | OS |
| start, stop, status (`start.go`, `stop.go`, `status.go`) | lifecycle lock | bring components up in order, keep what came up | lock, worktrees, tmux, agents |
| diagnostics and repair (`internal/diagnostics`, `internal/repair`) | none | detect, plan, execute, detect again | all |
| git worktrees and integration (`internal/git`) | branches, worktrees | create, prune, cherry-pick once | git |
| tmux sessions, agents, prompts, roles, config | external processes, text | create, start, stop, parse | tmux |

What is hard here: the commands take no lock and work from directory listings, so
each listing may be stale by the time it is used; delivery is two renames (copy to
the inbox, source to `sent/`) with any number of crashes between them; several
processes rename the same file; a message fans out and some destinations fail;
re-run commands must find what they did before; integrate reads an entry, runs git and
writes the entry back whatever has become of it; and pid and lock files may be about a
process that is gone.

What makes each correct:

* store and daemon: a destination is given a message once; `sent/` tells the truth;
  a file is in one box and never vanishes; every queued message is settled;
* role commands: at most one selection of work at a time, one downstream message
  per piece of work, finished work stays finished (integrate breaks the first and the
  last of these, see below);
* integration: what is recorded as integrated is in the branch, what is in the branch
  is recognised, no branch loses a commit and no half-applied commit stays behind;
* notification: a role with untouched work hears of it in the end, and a role that
  cannot be told is not told for ever;
* lock: one daemon at a time, its record its own, and a stop that tells the truth;
* start, stop and repair: without an error they have done what they say, they disturb
  nothing that runs, starting again and again brings the swarm up, and doctor calls
  nothing healthy that status does not.

## Modules

* **HandoffStore**: the boxes as sets of message ids. A message's fixed fields
  (`Sender`, `Dests`, `Priority`, the file-name order `Rank`) are constant functions
  of the id, since no code changes them. The *source file* is in one of `outbox`,
  `sent`, `failed`, `rejected`; each destination has a *copy* in `inbox[r]`,
  `current[r]`, `completed[r]` or `archive[r]`. Each operator of its last section is
  one rename: `WriteOutbox` (Send), `WriteInbox` (Deliver), `RetireTo...` (MoveTo,
  Fail, Reject), `MoveTo...` (MoveTo, Ack), `SetMarker`; `Rewrite` is UpdateEntry, which
  writes a file of `current[r]` at a remembered path and makes it again when it is gone.
  `Malformed` messages are those whose file List cannot parse; `garbled[r]` are the files of
  `current[r]` that integrate made so.
* **HandoffDaemon**: `Daemon.Run` and one pass of `Scan` with a program counter
  `dpc`. Listing an outbox, each of HasDelivery's three directory reads, writing a
  copy and retiring the source are separate actions. A failing operation and a kill
  take one of `MaxFaults` faults; a killed daemon forgets its pass.
* **HandoffLifecycle**: ready, done, next and integrate as processes of several steps
  (`spc`), run by `Shells`; send, ack, submit and retry as one step each. Integrate is its
  look at `current/` and its write; what it does in between is the module Integration.
  `selection` is history for one property.
* **HandoffContract**: the abstract specification: accept, give, take, withdraw,
  settle, with no daemon, listing, crash or retry.
* **Handoff**: the composition, with what repair does to the boxes (`Orphans`,
  `Reconcile`, and `RepairIntegrates` with its later `RepairWritesBack`), the properties, the
  inductive invariants and the refinement mapping. `disturbed` is history: the entries
  that integrate wrote back after done, or made unreadable.
* **MCHandoff** with its `.cfg` files: the instances for TLC.
* **HandoffStoreProofs, HandoffDeliveryProofs, HandoffContractProofs,
  HandoffCommandProofs**: the proofs, the type invariant in the first of them.
* **DaemonLock**: the daemon as a process, independent of what it delivers. `flock` is
  the kernel lock on `handoffd.lock` (which no code removes, so it needs no inode),
  `pidFile` the content of the pid file, `proc` what every pid is and how far a daemon
  has got through `AcquireDaemonLock`, `Run` and `ReleaseDaemonLock`, `cmd` the chain of
  calls a shell is in. `IsLocked` is two steps, `ProbeTake` and `ProbeRelease`, since
  it takes the lock to test it. Start, stop and repair exclude each other by the
  lifecycle lock; status and `swarm handoff daemon` run by hand do not take it. A dead
  daemon's pid may be given to a stranger. Repair looks at the state and, if no daemon
  runs, for a pid file; it plans to clear one that is there, and then maybe to start. `Manager.Stop` also calls Status before and after, which a concurrent status
  command stands for.
* **DaemonLockProofs**: its proofs; **MCDaemonLock**: its instance.

* **Integration**: `Lifecycle.Integrate` and the git integrator. A commit is the sequence
  of patches that leads to it, so ancestry is being a prefix and `git cherry` compares
  the patches of what one side has and the other has not. Every question to git and every
  git command that changes something is a step of its own (`pc`), because the agent edits,
  commits and switches branches in the same worktree and a person may run `repair`
  meanwhile. Each git command may fail for a reason of its own (`GitFails`, `PickUnnamed`):
  most failures are recorded, those of merge-base and cherry are taken for a no. A record
  that quotes git over several lines is `unreadable` and its work no longer `InHand`. `known`, `strayed` and `manual` are history for the properties.
* **IntegrationProofs**: its proofs; **MCIntegration**: its instance.
* **WakeUp**: the notification file of one role and the processes that read, change and
  write it without a common lock: the daemon after a delivery and in `reconcile`, and
  `task submit`. Reading, knocking (`Notify`) and saving are separate steps, and a file
  that is being written may be read as missing, since `os.WriteFile` truncates first
  (`ReadBy`). A write may also fail, with nobody told (`SaveFails`).
  `KnockHeard` and `KnockUnheard` are the same call of `Notify`: it reports success also
  when the role has no session. Of time, only whether `RetryAfter` has passed since the
  attempt (`note.due`) and since the last reconciliation (`clock`). Roles share nothing
  here but that clock. Its boxes are mapped to HandoffContract for one role: the source is
  settled when it leaves the outbox, and taken is what is in current/ or done.
* **WakeUpProofs**: its proofs; **MCWakeUp**: its instance.
* **SwarmDiagnosis**: what a role consists of (`tree` and `registered`, `pane`), the
  tmux socket, the daemon as others see it, the environment; and the pure functions over
  them: `Status` and its health, `Detect`, the health of a report, `PlanFrom`.
* **Swarm**: the commands over that state. Each operation is a list of steps on one
  component each (`Steps`), `cmd[c].todo` what is left of it. Start, stop and repair take
  the lifecycle lock, `worktrees`, `sessions` and `agents` do not. What looks first and
  acts later is several actions: `StartAgent`, `TypeLaunchLine` and `PressEnter`,
  `CheckSocket` and `UnlinkSocket`. Among the faults of the environment are a tmux that is
  gone and one that answers but cannot say what runs in a pane (`AgentState`). Anything may change between two steps (`Disturbance`); `alone` remembers
  for a command whether nothing did, and its promises are stated for that case.
  **SwarmProofs**: its proofs; **MCSwarm**: its instance.

Operators whose comment begins with "A defect" are not used by the specification:
each is a plausible bug in the definition that follows it, and breaks the property
it was written against.

## What the runs check

| run | instance | shows |
|---|---|---|
| `delivery` | roles a, b; a's message x for b, with a commit, and y submitted to b; one shell each: a sends, b in batch mode runs ready, done, integrate and ack; repair; one fault, one retry | `NoDoubleDelivery`, `OneSourceBox`, `OneSelectionAtATime`, `OnlyForward`, the type invariant, and `KeepsContract`: the refinement |
| `work` | batch role b with a submitted task and two ids for messages to c, one of them with a commit that may not resolve; two shells that both run ready and done, one also next; one fault, one retry | `OneDownstreamPerSource`, `OnlyForward` |
| `fanout` | a's x for b **and** c, and a malformed y; two faults, two delivery attempts, one retry | `SentWasDelivered`, `KeepsContract`, and `EveryMessageSettles` under `FairSpec` |
| `acked` | as `fanout`, x alone, with b's shell acknowledging | violates `ExactlyOneCopy` |
| `batch` | as `work` with a second submitted task of the same priority and one shell | violates `OneDownstreamPerSelection` |
| `writeback` | roles a, b; a's message x for b, with a commit; one shell each; repair | violates `AlwaysInOneBox` |
| `lock` | two pids, two shells, all operations | `OneDaemon`, `RecordIsOwn`, `StopMeansStopped`, `CommandsEnd` |
| `clean` | same | violates `CleanSparesDaemon` |
| `signal` | same | violates `SignalsOnlyDaemons` |
| `swarm` | a task and a batch role; a terminal for start, stop and repair, where start may be run again and again, and one for the commands without a lock; two disturbances or other commands; of the environment's faults, no tmux and no answer about panes | `StartDelivers`, `StopDelivers`, `RepairDelivers`, `HealthyIsUp`, `NothingDisturbed`, `StartRecovers` under `FairSpec` |
| `integration` | an agent's integrate and a repair; two handoffs, the second one commit on top of the first; one crash or failure of git, two acts of the agent | `IntegratedIsPresent`, `NoPickLeftBehind`, `RepeatIsRecognised`, `BranchesKeepCommits` |
| `wakeup` | one task submitted, one message delivered; one crash or failed write, one outage, the cap at 2 | `KeepsContract`: what is delivered again after a crash and taken up on a wake-up refines the contract; `WaitingIsHeard`, `FailingEnds` under `FairSpec` |

Bounds. One message exercises every race on one file, because no operation on one
message reads another except the order of a listing, the source id and whether `current/`
is empty; `delivery`, `batch` and `fanout` have several for these. `Uses` bounds the commands
given in a shell to those the run is about: a's only sends. README of the repository calls two
shells of one role unsupported, and both `OneSelectionAtATime` and `OneDownstreamPerSource`
need each command they are about to run in one shell only; `work` has two all the same for
what holds with them, and in `delivery` repair's integrate is the second process that writes
a role's `current/`. One fault is the least that separates the two renames of a delivery
or the moves of a batch, two make a fan-out fail for one destination after both attempts.
`DeliveryAttempts` is 3 in the code; 1 and 2 are the last and a repeated attempt. Deadlock
is not checked, since nothing obliges a developer or a role to act and the bounded faults
and ids run out.
DaemonLock is finite as it stands and is explored whole, with deadlock checked: two pids
are the least for a daemon and its successor or a stranger, two shells for an operation
and a probe that disturbs it.
In Swarm two roles are what it takes for one session to keep the tmux server alive for the
other, and for a failure of one role that the other has to survive. `trouble` bounds
disturbances and commands other than start together: with 2, any pair of them at any step,
a stop and a crash in the middle of it, or a repair of what one disturbance broke, followed
by any number of starts. Integration needs two commits in one handoff, for the
commits that a cherry-pick leaves out, two handoffs for work that is done meanwhile, and an
agent's change equal to a handed one, for what cherry-pick finds without effect; two acts
are an edit and its commit, or leaving the branch and coming back. Neither checks deadlock:
agents and people owe nothing. WakeUp checks it; a cap of 2 is the least that distinguishes
a failure from the failure that exhausts.

Fairness. `FairSpec` assumes weak fairness of the daemon's own steps: a process that
runs takes its next step, and a daemon that died is started again (by `swarm start`
or `swarm repair`). `ScanBegin` is strongly fair: `Run` waits for a tick and the stop
signal in one `select`, so a daemon that is stopped and started forever might never
take a tick, which says nothing about the code. Faults are bounded, hence finally
over. Nothing is assumed of roles, developer or repair. In DaemonLock a command that is
not killed takes its next step (weak), and `Deadline` is strongly fair: a loop that keeps
coming back to its test does so once after the deadline has passed. Nothing is assumed of
the daemon, so `CommandsEnd` holds also when it never stops.
In Swarm somebody runs `swarm start` again and again and that command goes on unless it is
killed; a shell executes in the end what was typed into it; of every other command nothing
is assumed, nor of disturbances, which are bounded. In WakeUp the daemon takes its next step
and is started again when it died, intervals pass, an agent that was told looks, and a file
that is being written is written some day; an agent that is told infinitely often hears of
it (strong), since `Notify` cannot know. Submitters and sessions owe nothing.

## What the violations show

* `acked`: HasDelivery does not look into `archive/`. When the daemon dies after
  delivering and before retiring, and the destination acknowledges its copy in
  between, the next pass delivers the message again.
* `batch`: the source id of a batch is the first id in `current/`. A `done` that
  fails or is killed half-way leaves a `current/` with another first entry, and
  `next` then creates a second downstream message for the same batch.
* `writeback`: integrate reads an entry of `current/`, works in git and writes the entry
  back at the path it had. A `done` in between has moved the file to `completed/`; the write
  makes it again in `current/`, so finished work is current work once more, and done or next
  act on it again. Repair's integrate beside the role's own done is enough; when a `ready`
  comes between the two, a new selection and the old work lie in `current/` together, even in
  task mode. `NoDoubleDelivery` therefore speaks of the inbox, which is what the daemon
  writes, and `OneSelectionAtATime` leaves out the entries that integrate put back
  (`Undisturbed`): those two and `OnlyForward` are what stays true.
* `clean`: `CleanStaleDaemonFiles` looks at the lock and removes the pid file later. In TLC's
  trace a daemon takes the lock and writes its record in between, and that record is what is
  removed: the daemon runs on without one, status calls it failed, and stop refuses to
  stop it.
* `signal`: `DaemonState` looks at lock, record and process one after another. TLC lets
  the daemon crash and its pid be reused after the first look, and stop signals the
  stranger.

Further disagreements of the code with its own words, met while modelling. They are read off
the model, not checked by a run of their own:

* `lifecycle.go:245-246` says that after a failed integration "the work is never marked done
  on top of state that was never applied". `Done` does not look at the integration status,
  so pending and failed work is completed like any other.
* `lifecycle.go:243` says of Integrate "It is idempotent". Of a handoff with several commits
  on a branch that has diverged, only the last is cherry-picked; the work is recorded as
  integrated without the others, and a second integrate does not recognise it, conflicts or
  finds no effect, and records it as failed. `Present` and `RepeatIsRecognised` therefore
  speak of the last commit and of all commits. Of two integrations at once, the slower
  one's failure replaces the faster one's success.
* `lifecycle.go:270-271` records a failed integration "durably so `doctor` can see it". The
  reason goes unescaped into the file (`parser.go:52`), and git's messages often run over
  several lines (`command.go:22-27`): such a file does not parse (`parser.go:95-98`), List
  skips it, and ready takes up other work while the unreadable file stays in `current/`.
  `garbled` and `unreadable` in the models; their properties are about the readable entries.
* An error of merge-base or `git cherry` is taken for "not applied" (`integrate.go:105-109`),
  and a commit that was picked is recorded as failed when git does not say its new hash
  (`integrate.go:178`). `RepeatIsRecognised` says "if git answers".
* `lifecycle/daemon.go:37-38` says "A held=false result means another daemon already owns this
  repository." A probe holds the lock for an instant (`lock_unix.go:90`), and a daemon that
  starts in that instant exits as if another one were running (`TurnedAway`): with `swarm
  start`'s own probes, every 50 ms while it waits for the daemon it launched, or those of a
  status command.
* `daemon.go:157-159` says that a role that ignores its wake-up is "rather than flooded"
  capped by the Waker. `Exhausted` asks for status failed; a wake-up that was sent and
  ignored repeats every period for ever, and one failure after enough that were sent
  exhausts at once. `FailingEnds` is the cap that exists, and only while the count can be
  written: `NotifyAndRecord` goes on when saving fails, so with a file that can never be
  written a failing wake-up is repeated for ever (`SaveFails` is bounded).
* `internal/diagnostics/model.go:73` and `docs/recovery.md` call healthy what is functioning.
  Without a tmux server, Detect reports neither sessions nor agents, so with a daemon that
  runs it calls a swarm healthy that has no agent at all; hence `ServerAlive` in `HealthyIsUp`.
  With a server that cannot say what runs in a pane (`agent/manager.go:99-102`), Detect passes
  over the error (`detector.go:353-356`) and calls healthy what status calls degraded
  (`status.go:51-53`); hence `Unasked`, which says that there is no other such case.
* `agent/manager.go:150-157` sends the launch line and Enter in two calls. A start that dies
  between them leaves the line in the shell, the role counts as not started, and the next
  start types its line behind the first. The model lets the shell start the agent from it or
  not (`AgentExits`).
* `prune-worktrees` is part of the plan but Detect never reports the code it answers, nor
  the codes for a stale lock and a failed notification. A worktree that git tracks and whose
  directory is gone is repaired by neither start nor repair (`Obstructed`).
* `PlanFrom` keeps one action per kind and component, so a repair reconciles one orphan of a
  role (`RepairDelivers` excludes the others).
* `RemoveStaleSocket` promises to delete the socket "only after confirming that no server
  answers"; a `sessions create` between the two loses its server (`UnlinkSocket`). Two agent
  starts at once type the launch line twice, the second time into the agent.
* Repair records any refusal of the integrator, a dirty worktree too, as a failed
  integration, which is never planned again.

## What is proved

For every set of roles, ids and shells and every bound that satisfies the named
ASSUMEs of the modules (sender and destinations differ, file names are ordered,
a submitted task has one destination):

* `TypeCorrect` (each component has one; DaemonLock's is `LockTypeCorrect`):
  `Spec => []TypeOK`, one case per action.
* `SourceBoxUnique`, `NothingLost`: from the lemma `Effect` alone. It says that
  whatever the process and whatever the step, the store changes by one of its
  renames or not at all, so these do not depend on the program counters.
* `NeverTwice`: `NoDoubleDelivery` is not inductive: writing the copy is safe only
  because of what the three reads found. `DeliveryInv` adds `LookInv`: a box already
  read holds no copy *and will not get one*, since the role moves copies only from a
  box that is still to be read into one that is read later; `RememberedInv`: what an
  integrate is about to write back into `current/` is there or in `completed/`, so it does
  not reappear behind the daemon's back unless the read of `completed/` finds it; and
  `QueuedInv`: the message in hand was sent, so no submit can create its id.
* `SentIsDelivered`: `SentInv` adds what the daemon has ticked off so far and what
  repair has listed as orphans; both rest on copies never vanishing.
* `ContractKept`: `Spec => KeepsContract`. Each rename is one step of the contract or
  a stutter; giving needs `DeliveryInv` and `PendInv`, settling needs `SentInv` and
  `OneSourceBox`.
* `AnsweredOnce`, `OneSelection`: under `OneShellPerRole`, which is the limitation the
  README of the repository states ("not concurrency-safe across simultaneous
  invocations"). `AdvanceInv` says that a box already searched holds no answer: the
  daemon moves messages from the box searched first to the one searched second, and
  what retry brings back has failed before. `SelectionInv` says that Ready fills a
  `current/` that listed nothing when it looked and in which nothing but `disturbed` entries
  has appeared since; `DisturbedInv` and `RememberedInv` say that integrate adds no others.
* `SingleDaemon`, `RecordNeverForeign`, `StopIsTruthful`, for any
  pids and commands under `NamesAreDistinct`. `OneDaemon` is strengthened to `Owner`: the
  flock is a process's *exactly* while that process is between taking and returning it.
  A record can only be written under the lock, hence `RecordIsOwn`; a probe that finds the
  lock free has it or sees no file, hence `StopMeansStopped`. `CmdInv` says that calls
  which signal a pid have read one.
* `IntegrationProofs`, for any commands, handoffs, histories and bounds: `TypeCorrect`;
  `KeepsCommits`, action by action; `NothingHalfApplied`; `Integrated`, whose invariant
  adds to the boxes what a command is about to record: from the question that was answered
  well to the record, the last commit is in the managed branch, as branches only grow; and to
  what done has moved with such a record (`completed`);
  `Recognised`, whose invariant says that while nobody else acts, what was contained when the
  command looked still is, so each later question is answered as the property needs.
* `SwarmProofs`, for any roles, terminals, uses, faults and number of disturbances:
  `TypeCorrect`; `DoctorAgreesWithStatus`, from the invariant that a path git does not track
  holds nothing or somebody else's branch, with the case of agents that nobody can ask after
  spelled out in the property; `StartIsComplete` and `StopIsComplete`, whose
  invariant says of a command that nothing interfered with that what is left of it is the
  tail k..N of its list and that what stands before k is done (`Started`, `Stopped`);
  `BringingUpIsGentle`, action by action, from what such a command knows (`Knows`): the pane
  it is about to type into shows no agent, and the socket it is about to remove has no server
  behind it, since a repair looks for a server only after a diagnosis that could ask tmux.
  The lists of steps are computed in the lemmas `StartSteps`, `StopSteps` and `RepairKinds`.
  `RepairIsComplete`: diagnosing first and acting later is right only if no action brings
  about a condition that none of those that are left answers. `RepairInv` says so: of a
  repair under way, *every* repairable condition of the present state has its action, or the
  action that includes it, among those that are left (`Awaits`). At the start that is
  `PlanCovers`: `PlanFrom` has a place for each diagnosis of `Detect` on each component. The
  delicate action is creating a session: it comes without an agent, which the same action
  sees to, and the first one would bring up a tmux server, and with it the diagnoses of a
  stopped daemon and of all other sessions; so `Proper` adds that sessions are planned only
  while a server answers.
* `WakeUpProofs`, for any tasks, messages, limit and bounds, and any order in which every
  nonempty box has a first message (`AboveSorts`): `TypeCorrect`, whose hard part is that
  whoever is about to wake the role holds the id of a message the role has. That rests on
  `KnownGrows` (nothing that reached the role is lost) and on `About`: what this pass
  delivered, what was submitted, and what a note in the making is about are known.
  `WakeUpKeepsContract`: the refinement of HandoffContract, a step at a time; `Fresh` says
  that a task that is yet to be submitted is in no box, as its id is new.

Every property proved here holds in a run as well, and every invariant, action property and
refinement that a passing run checks is proved. Only model-checked are the liveness properties
`EveryMessageSettles`, `CommandsEnd`, `StartRecovers`, `WaitingIsHeard` and `FailingEnds`: they
need fairness and ENABLED, which are out of the prover's reach.

## What is not modelled

* The text of a message: parsing is only "parses or does not".
* `uniqueName`: a name clash would need the same id twice in one box.
* The copy fallback of `moveFile` across file systems: all boxes are below one
  directory.
* Orphan detection reads its boxes in one step: a copy never leaves the boxes it
  reads except by `ack`.
* `status`, `current`, `trace`, `inbox`, `outbox`: they only read.
* In the diagnoses: LOCK_ACTIVE, which a repair always finds since it holds the lock
  itself, states that could not be inspected, and the counts that `status` prints.
* Worktree paths, `remove --force`, the parsing of what git and tmux print, launch
  lines, prompts, roles and configuration: text, read once and never changed.
* The daemon's inside in Swarm, delivery in WakeUp and Ready and Done in Integration are one
  step each: HandoffDaemon, HandoffLifecycle and DaemonLock have them in full.

## Plan

Done, in this order: Handoff, DaemonLock, Swarm, Integration, WakeUp, and the proofs of
them all. What could follow:

1. the text format of messages (`Marshal`, `Unmarshal`, `Validate`) as pure operators: what
   is written is read back, for the values `Validate` lets through;
2. the boxes of Integration mapped to HandoffContract as those of WakeUp are, and composed
   with HandoffLifecycle, where done moves its files one by one;
3. what the liveness properties rest on, as safety: a notification file says no more than
   its last writer did, and a daemon that has messages has a step to take.
