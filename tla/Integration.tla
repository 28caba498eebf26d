---------------------------- MODULE Integration ----------------------------
(***************************************************************************)
(* Bringing the commit of a handoff into the worktree of the role that     *)
(* works on it.  (internal/handoff/lifecycle.go Integrate, internal/git/   *)
(* integrate.go, cmd/swarm/integrate.go)                                   *)
(*                                                                         *)
(* The role's agent runs swarm handoff integrate and a person runs swarm   *)
(* repair; neither takes a lock, and both may find the agent at work in    *)
(* the worktree.  A commit is the sequence of patches that leads to it,    *)
(* which is what its hash stands for: its ancestors are its prefixes.      *)
(***************************************************************************)
EXTENDS Naturals, Sequences, FiniteSets

CONSTANTS
    Processes,      \* commands that integrate
    Handoffs,       \* git handoffs to the role
    Before(_, _),   \* the order of SortEntries
    Handed,         \* the canonical commit of each handoff
    Base,           \* the commit the worktree's branch starts from
    LocalChanges,   \* changes the agent makes itself
    MaxCrashes,     \* bound on killed commands and on git's own failures
    MaxEdits        \* bound on what the agent does to the worktree

VARIABLES
    branch,         \* the commit of every branch
    head,           \* the branch the worktree has checked out
    edits,          \* whether the worktree has uncommitted edits
    pick,           \* a cherry-pick in progress: none, in conflict, or without effect
    inbox,          \* handoffs not taken up yet
    current,        \* the integration status in each file of current/
    completed,      \* what done has moved with a record of success, the latest file of each
    proc,           \* the commands
    crashes,        \* killed commands and failures of git so far
    acts,           \* the agent's acts so far
    strayed,        \* whether the agent changed branches while a command ran
    manual          \* whether a command left the worktree for someone to clean up

worktree == <<branch, head, edits, pick>>
boxes == <<inbox, current, completed>>
history == <<crashes, acts, strayed, manual>>
vars == <<worktree, boxes, proc, history>>

Branches == {"managed", "other"}
\* A failed record is unreadable when git's message in it runs over several lines.
Failures == {"failed", "unreadable"}
Statuses == {"pending", "integrated"} \cup Failures
Absent == "absent"

(***************************************************************************)
(* Commits                                                                 *)
(***************************************************************************)
Patch(change, by) == [change |-> change, by |-> by]
Commits(tip) == {SubSeq(tip, 1, n) : n \in 1..Len(tip)}
Tip(commit) == commit[Len(commit)].change
Changes(commit) == {commit[n].change : n \in DOMAIN commit}
Histories == {s \in Seq([change : STRING, by : {"sender", "agent", "picked"}]) : Len(s) > 0}

\* git merge-base --is-ancestor
IsAncestor(commit, tip) == commit \in Commits(tip)

Here == branch[head]

ASSUME BaseIsHistory == Base \in Histories
ASSUME HandedHistories == Handed \in [Handoffs -> Histories]
\* The sender makes no change twice.
ASSUME HandedOnce ==
    \A h \in Handoffs : \A m, n \in DOMAIN Handed[h] :
        Handed[h][m].change = Handed[h][n].change => m = n
ASSUME LocalChangesAreChanges == LocalChanges \subseteq STRING
ASSUME BoundsNat == MaxCrashes \in Nat /\ MaxEdits \in Nat

Idle == [pc |-> "idle", work |-> Absent, result |-> "none", known |-> FALSE]

Init ==
    /\ branch = [b \in Branches |-> Base]
    /\ head = "managed"
    /\ edits = FALSE
    /\ pick = "none"
    /\ inbox = Handoffs
    /\ current = [h \in Handoffs |-> Absent]
    /\ completed = {}
    /\ proc = [p \in Processes |-> Idle]
    /\ crashes = 0
    /\ acts = 0
    /\ strayed = FALSE
    /\ manual = FALSE

(***************************************************************************)
(* integrate.go: what the integrator asks git                              *)
(***************************************************************************)
\* A cherry-pick that turned out to have no effect leaves a clean tree behind.
IsClean == ~edits /\ pick # "conflict"

AlreadyContains(commit) == IsAncestor(commit, Here)

\* A defect: a cherry-pick has another hash, so ancestry does not recognise it.
AlreadyAppliedByAncestry(commit) == AlreadyContains(commit)

\* A defect: one equivalent patch is enough.
AlreadyAppliedPartly(commit) ==
    \/ AlreadyContains(commit)
    \/ \E c \in Commits(commit) \ Commits(Here) : Tip(c) \in Changes(Here)

\* git cherry HEAD commit: every commit that HEAD lacks has a patch among those that
\* only HEAD has.
AlreadyApplied(commit) ==
    \/ AlreadyContains(commit)
    \/ \A c \in Commits(commit) \ Commits(Here) :
          \E d \in Commits(Here) \ Commits(commit) : Tip(d) = Tip(c)

CanFastForward(commit) == Here # commit /\ IsAncestor(Here, commit)

(***************************************************************************)
(* The steps of a command                                                  *)
(***************************************************************************)
At(p, pc) == proc[p].pc = pc
Work(p) == Handed[proc[p].work]

\* Command p goes on.  What another command knew does not count any more.
Becomes(p, state) ==
    proc' = [q \in Processes |-> IF q = p THEN state ELSE [proc[q] EXCEPT !.known = FALSE]]
Goes(p, pc) == Becomes(p, [proc[p] EXCEPT !.pc = pc])
Ends(p, result) == Becomes(p, [proc[p] EXCEPT !.pc = "record", !.result = result])

\* A git command has failed, and git's message becomes part of the record.
Fails(p) == \E result \in Failures : Ends(p, result)

\* Current lists the files that parse.
InHand == {h \in Handoffs : current[h] \notin {Absent, "unreadable"}}
First(h) == h \in InHand /\ \A g \in InHand \ {h} : Before(h, g)

\* A defect: the command does not notice that there is no work.
LookAnyway(p) ==
    /\ At(p, "idle")
    /\ Becomes(p, [pc |-> "check", work |-> Absent, result |-> "none", known |-> FALSE])
    /\ UNCHANGED <<worktree, boxes, history>>

\* Lifecycle.Integrate lists current/ and takes the first entry.  "known" remembers
\* whether everything handed over was in the worktree by then, and nothing in the way.
Look(p) ==
    /\ At(p, "idle")
    /\ \E h \in Handoffs :
          /\ First(h)
          /\ Becomes(p, [pc     |-> "check",
                         work   |-> h,
                         result |-> "none",
                         known  |-> /\ Changes(Handed[h]) \subseteq Changes(Here)
                                    /\ head = "managed" /\ ~edits /\ pick = "none"
                                    /\ \A q \in Processes \ {p} : At(q, "idle")])
    /\ UNCHANGED <<worktree, boxes, history>>

\* The managed branch, and nothing uncommitted.
Check(p) ==
    /\ At(p, "check")
    /\ \/ head = "managed" /\ IsClean /\ Goes(p, "compare")
       \/ (head # "managed" \/ ~IsClean) /\ Ends(p, "failed")
    /\ UNCHANGED <<worktree, boxes, history>>

Compare(p) ==
    /\ At(p, "compare")
    /\ \/ AlreadyApplied(Work(p)) /\ Ends(p, "integrated")
       \/ ~AlreadyApplied(Work(p)) /\ Goes(p, "choose")
    /\ UNCHANGED <<worktree, boxes, history>>

Choose(p) ==
    /\ At(p, "choose")
    /\ \/ CanFastForward(Work(p)) /\ Goes(p, "merge")
       \/ ~CanFastForward(Work(p)) /\ Goes(p, "pick")
    /\ UNCHANGED <<worktree, boxes, history>>

\* A defect: the branch is set to the commit.
FastForwardBlindly(p) ==
    /\ At(p, "merge")
    /\ branch' = [branch EXCEPT ![head] = Work(p)]
    /\ Ends(p, "integrated")
    /\ UNCHANGED <<head, edits, pick, boxes, history>>

\* git merge --ff-only looks again.  It refuses a branch that has gone another way,
\* an unfinished cherry-pick, and edits that it would overwrite.
FastForward(p) ==
    /\ At(p, "merge")
    /\ \/ AlreadyContains(Work(p)) /\ Ends(p, "integrated") /\ UNCHANGED branch
       \/ /\ CanFastForward(Work(p)) /\ pick = "none"
          /\ branch' = [branch EXCEPT ![head] = Work(p)]
          /\ Ends(p, "integrated")
       \/ /\ ~AlreadyContains(Work(p)) /\ (~CanFastForward(Work(p)) \/ pick # "none" \/ edits)
          /\ Fails(p)
          /\ UNCHANGED branch
    /\ UNCHANGED <<head, edits, pick, boxes, history>>

\* The last of the handed commits is on top of the branch, under a hash of its own.
Picked(p) ==
    /\ pick # "conflict" /\ Tip(Work(p)) \notin Changes(Here)
    /\ branch' = [branch EXCEPT ![head] = Append(@, Patch(Tip(Work(p)), "picked"))]
    /\ pick' = "none"

\* A defect: only a conflict is cleaned up.
CherryPickLoosely(p) ==
    /\ At(p, "pick")
    /\ \/ Picked(p) /\ Ends(p, "integrated")
       \/ /\ pick # "conflict" /\ ~edits
          /\ pick' = "conflict"
          /\ Goes(p, "abort")
          /\ UNCHANGED branch
       \/ /\ pick # "conflict" /\ ~edits /\ Tip(Work(p)) \in Changes(Here)
          /\ pick' = "empty"
          /\ Ends(p, "failed")
          /\ UNCHANGED branch
    /\ UNCHANGED <<head, edits, boxes, history>>

\* git cherry-pick applies the last of the handed commits alone.  It may conflict, it
\* stops when it has no effect, and it refuses to begin over conflicts or edits.
CherryPick(p) ==
    /\ At(p, "pick")
    /\ \/ Picked(p) /\ Ends(p, "integrated")
       \/ /\ pick # "conflict"
          /\ \/ pick' = "conflict"
             \/ Tip(Work(p)) \in Changes(Here) /\ pick' = "empty"
          /\ Goes(p, "abort")
          /\ UNCHANGED branch
       \/ /\ pick = "conflict" \/ edits
          /\ Goes(p, "abort")
          /\ UNCHANGED <<branch, pick>>
    /\ UNCHANGED <<head, edits, boxes, history>>

\* git cherry-pick --abort keeps other edits, unless it cannot, and does not matter to
\* the record.  It undoes whatever cherry-pick is in progress.
Abort(p) ==
    /\ At(p, "abort")
    /\ \/ /\ pick # "none" /\ pick' = "none" /\ edits' \in {edits, FALSE}
          /\ Ends(p, "failed")
          /\ UNCHANGED manual
       \/ /\ pick # "none" /\ edits /\ manual' = TRUE
          /\ Fails(p)
          /\ UNCHANGED <<pick, edits>>
       \/ /\ pick = "none"
          /\ Fails(p)
          /\ UNCHANGED <<pick, edits, manual>>
    /\ UNCHANGED <<branch, head, boxes, crashes, acts, strayed>>

\* UpdateEntry writes the file where the entry was found, done or not.
Record(p) ==
    /\ At(p, "record")
    /\ current' = [current EXCEPT ![proc[p].work] = proc[p].result]
    /\ Becomes(p, Idle)
    /\ UNCHANGED <<worktree, inbox, completed, history>>

\* The command goes on without an answer from git: "known" does not count any more.
Unanswered(p, pc, result) ==
    Becomes(p, [proc[p] EXCEPT !.pc = pc, !.result = result, !.known = FALSE])

\* A git command fails for a reason of its own and changes nothing.  For most that is
\* the end of the integration; but a merge-base or cherry that fails is taken for a
\* no, and a failing cherry-pick is aborted.
GitFails(p) ==
    /\ crashes < MaxCrashes
    /\ crashes' = crashes + 1
    /\ \/ /\ proc[p].pc \in {"check", "compare", "choose", "merge", "abort"}
          /\ \E result \in Failures : Unanswered(p, "record", result)
       \/ At(p, "compare") /\ Unanswered(p, "choose", "none")
       \/ At(p, "choose") /\ Unanswered(p, "pick", "none")
       \/ At(p, "pick") /\ Unanswered(p, "abort", "none")
    /\ manual' = (manual \/ (At(p, "abort") /\ pick # "none"))
    /\ UNCHANGED <<worktree, boxes, acts, strayed>>

\* The commit is picked, but git does not say under which hash.
PickUnnamed(p) ==
    /\ crashes < MaxCrashes
    /\ crashes' = crashes + 1
    /\ At(p, "pick")
    /\ Picked(p)
    /\ Fails(p)
    /\ UNCHANGED <<head, edits, boxes, acts, strayed, manual>>

\* The command is killed, or it cannot write its record.
Crash(p) ==
    /\ crashes < MaxCrashes
    /\ proc[p].pc # "idle"
    /\ crashes' = crashes + 1
    /\ manual' = (manual \/ (At(p, "abort") /\ pick # "none"))
    /\ proc' = [proc EXCEPT ![p] = Idle]
    /\ UNCHANGED <<worktree, boxes, acts, strayed>>

(***************************************************************************)
(* The agent, and everybody else with a hand in the worktree               *)
(***************************************************************************)
Company == proc' = [p \in Processes |-> [proc[p] EXCEPT !.known = FALSE]]

\* ready: one entry in task mode, more in batch mode.
Ready ==
    /\ InHand = {}
    /\ \E S \in SUBSET inbox \ {{}} :
          /\ inbox' = inbox \ S
          /\ current' = [h \in Handoffs |-> IF h \in S THEN "pending" ELSE current[h]]
    /\ UNCHANGED <<worktree, completed, proc, history>>

\* done does not ask for the integration status.
Done ==
    /\ InHand # {}
    /\ completed' = (completed \ InHand) \cup {h \in InHand : current[h] = "integrated"}
    /\ current' = [h \in Handoffs |-> IF h \in InHand THEN Absent ELSE current[h]]
    /\ UNCHANGED <<worktree, inbox, proc, history>>

Edit ==
    /\ ~edits /\ edits' = TRUE
    /\ UNCHANGED <<branch, head, pick, strayed, manual>>

\* A commit concludes a cherry-pick that is in progress.
Commit(change) ==
    /\ edits \/ pick = "conflict"
    /\ branch' = [branch EXCEPT ![head] = Append(@, Patch(change, "agent"))]
    /\ edits' = FALSE
    /\ pick' = "none"
    /\ UNCHANGED <<head, strayed, manual>>

\* git cherry-pick --abort or git stash, by hand.
CleanUp ==
    /\ edits \/ pick # "none"
    /\ edits' = FALSE
    /\ pick' = "none"
    /\ manual' = FALSE
    /\ UNCHANGED <<branch, head, strayed>>

Switch ==
    /\ ~edits /\ pick = "none"
    /\ head' \in Branches \ {head}
    /\ strayed' = (strayed \/ \E p \in Processes : ~At(p, "idle"))
    /\ UNCHANGED <<branch, edits, pick, manual>>

AgentActs ==
    /\ Edit \/ (\E change \in LocalChanges : Commit(change)) \/ CleanUp \/ Switch
    /\ acts < MaxEdits
    /\ acts' = acts + 1
    /\ Company
    /\ UNCHANGED <<boxes, crashes>>

Step(p) ==
    \/ Look(p) \/ Check(p) \/ Compare(p) \/ Choose(p) \/ FastForward(p)
    \/ CherryPick(p) \/ Abort(p) \/ Record(p)
    \/ GitFails(p) \/ PickUnnamed(p) \/ Crash(p)

Next == (\E p \in Processes : Step(p)) \/ Ready \/ Done \/ AgentActs

Spec == Init /\ [][Next]_vars

(***************************************************************************)
(* What holds                                                              *)
(***************************************************************************)
States == {"idle", "check", "compare", "choose", "merge", "pick", "abort", "record"}
Commands == [pc     : States,
             work   : Handoffs \cup {Absent},
             result : {"none", "integrated"} \cup Failures,
             known  : BOOLEAN]

TypeOK ==
    /\ branch \in [Branches -> Histories]
    /\ head \in Branches
    /\ edits \in BOOLEAN
    /\ pick \in {"none", "conflict", "empty"}
    /\ inbox \subseteq Handoffs
    /\ current \in [Handoffs -> Statuses \cup {Absent}]
    /\ completed \subseteq Handoffs
    /\ proc \in [Processes -> Commands]
    /\ \A p \in Processes :
          /\ proc[p].pc # "idle" => proc[p].work \in Handoffs
          /\ proc[p].pc = "record" => proc[p].result # "none"
    /\ crashes \in 0..MaxCrashes
    /\ acts \in 0..MaxEdits
    /\ strayed \in BOOLEAN
    /\ manual \in BOOLEAN

Present(h) == Tip(Handed[h]) \in Changes(branch["managed"])

\* What is recorded as integrated is in the role's branch, in current/ and in
\* completed/, as long as the agent stayed on its branch while a command ran
\* (Lifecycle.Integrate, Integrator.Integrate).
IntegratedIsPresent ==
    ~strayed => \A h \in Handoffs :
        current[h] = "integrated" \/ h \in completed => Present(h)

\* "The caller never has to clean up a partially applied state", unless the command
\* was killed or said so (Integrator.CherryPick).
NoPickLeftBehind == pick # "none" => manual \/ \E p \in Processes : At(p, "abort")

\* Once all that was handed over is in the branch, by whatever means, integrating it
\* again changes nothing and succeeds if git answers, after a crash before the record
\* too ("It is idempotent", Lifecycle.Integrate; AlreadyApplied).
RepeatIsRecognised ==
    \A p \in Processes : proc[p].known =>
        proc[p].pc \notin {"merge", "pick", "abort"} /\ proc[p].result \notin Failures

\* No command takes a commit out of a branch, whatever the branch has become since
\* the command looked ("never resets or discards anything", Integrator.Integrate).
BranchesKeepCommits ==
    [][\A b \in Branches : IsAncestor(branch[b], branch'[b])]_vars
=============================================================================
