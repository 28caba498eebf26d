-------------------------- MODULE HandoffLifecycle --------------------------
(***************************************************************************)
(* The commands of a role: ready, done, next, integrate, send and ack, and *)
(* the developer's submit and retry (internal/handoff/lifecycle.go,        *)
(* cmd/swarm/handoff.go, cmd/swarm/task.go, cmd/swarm/doctor.go).  Each    *)
(* runs in a short-lived process of its own, a shell, takes no lock, and   *)
(* works from directory listings: a step here is one listing or one        *)
(* rename, and a shell may be killed between any two of its steps.         *)
(*                                                                         *)
(* Of integrate only what it does to the boxes is here: the entry it reads *)
(* and the file it writes back after the git work (see Integration).       *)
(***************************************************************************)
EXTENDS HandoffStore

CONSTANTS
    Shells,     \* processes that run the roles' commands, one command at a time
    RoleOf,     \* RoleOf[s]: the role s works for
    Mode,       \* Mode[r]: r's receive mode
    Uses,       \* Uses[s]: the commands that are given in s
    MaxRetries  \* bound on the `handoff retry` commands of a run

\* The subcommands of handoff that change a box; ack is deprecated but works.
Commands == {"ready", "done", "next", "integrate", "send", "ack"}

ASSUME ShellsAssumption == RoleOf \in [Shells -> Roles]
ASSUME ModeAssumption == Mode \in [Roles -> {"task", "batch"}]
ASSUME UsesAssumption == Uses \in [Shells -> SUBSET Commands]
ASSUME RetriesAssumption == MaxRetries \in Nat

VARIABLES
    spc,        \* spc[s]: where the command of s is
    plan,       \* plan[s]: the listed entries it still has to move
    moved,      \* moved[s]: Ready has moved an entry
    src,        \* src[s]: the entry Advance or Integrate works for, or NoId
    retries,    \* retry commands so far
    selection   \* selection[r][i]: the first id of the Ready that took i, or NoId

shellVars == <<spc, plan, moved, src>>

\* selection is history the code does not keep: only the properties read it.
lifecycleVars == <<shellVars, retries, selection>>

ShellStates == {"idle", "current", "select", "accept", "mark", "complete",
                "findOutbox", "findSent", "send", "integrate"}

LifecycleTypeOK ==
    /\ spc \in [Shells -> ShellStates]
    /\ plan \in [Shells -> SUBSET Ids]
    /\ moved \in [Shells -> BOOLEAN]
    /\ src \in [Shells -> Ids \cup {NoId}]
    /\ retries \in 0 .. MaxRetries
    /\ selection \in [Roles -> [Ids -> Ids \cup {NoId}]]

LifecycleInit ==
    /\ spc = [s \in Shells |-> "idle"]
    /\ plan = [s \in Shells |-> {}]
    /\ moved = [s \in Shells |-> FALSE]
    /\ src = [s \in Shells |-> NoId]
    /\ retries = 0
    /\ selection = [r \in Roles |-> [i \in Ids |-> NoId]]

\* The shell goes to the step pc with its other variables as they are.
Goto(s, pc) == spc' = [spc EXCEPT ![s] = pc] /\ UNCHANGED <<plan, moved, src>>

\* The command of s has returned and forgets everything.
Return(s) ==
    /\ spc' = [spc EXCEPT ![s] = "idle"]
    /\ plan' = [plan EXCEPT ![s] = {}]
    /\ moved' = [moved EXCEPT ![s] = FALSE]
    /\ src' = [src EXCEPT ![s] = NoId]

-----------------------------------------------------------------------------
(* Ready.                                                                  *)

ReadyCall(s) ==
    /\ spc[s] = "idle" /\ "ready" \in Uses[s]
    /\ Goto(s, "current")
    /\ UNCHANGED <<retries, selection, faults, storeVars>>

\* A defect: ready never looks whether the role already has work.
ReadyBlind(s) ==
    /\ spc[s] = "current"
    /\ Goto(s, "select")
    /\ SetMarker(RoleOf[s], FALSE)
    /\ UNCHANGED <<retries, selection, faults>>

\* Work listed in current/ is handed back unchanged and nothing new is selected;
\* otherwise a marker left by an interrupted completion is removed.
ReadyCurrent(s) ==
    /\ spc[s] = "current"
    /\ LET r == RoleOf[s] IN
       IF Listed(r) # {}
       THEN Return(s) /\ UNCHANGED storeVars
       ELSE Goto(s, "select") /\ SetMarker(r, FALSE)
    /\ UNCHANGED <<retries, selection, faults>>

\* The listing of the inbox decides what will be accepted.
ReadySelect(s) ==
    /\ spc[s] = "select"
    /\ LET r == RoleOf[s] IN
       IF Readable(inbox[r]) = {}
       THEN Return(s)
       ELSE /\ spc' = [spc EXCEPT ![s] = "accept"]
            /\ plan' = [plan EXCEPT ![s] = Select(Readable(inbox[r]), Mode[r])]
            /\ UNCHANGED <<moved, src>>
    /\ UNCHANGED <<retries, selection, faults, storeVars>>

\* Move the next selected entry into current/.  src[s] keeps the first one.
ReadyAccept(s, i) ==
    /\ spc[s] = "accept" /\ IsFirst(i, plan[s])
    /\ LET r == RoleOf[s]
           first == IF moved[s] THEN src[s] ELSE i IN
       /\ i \in inbox[r]
       /\ MoveToCurrent(i, r)
       /\ selection' = [selection EXCEPT ![r][i] = first]
       /\ src' = [src EXCEPT ![s] = first]
    /\ plan' = [plan EXCEPT ![s] = @ \ {i}]
    /\ moved' = [moved EXCEPT ![s] = TRUE]
    /\ UNCHANGED <<spc, retries, faults>>

\* The entry is gone, or cannot be moved: an error if nothing was moved yet,
\* else the selection ends with what did arrive.
ReadyStops(s) ==
    /\ IF moved[s]
       THEN /\ spc' = [spc EXCEPT ![s] = "mark"]
            /\ plan' = [plan EXCEPT ![s] = {}]
            /\ UNCHANGED <<moved, src>>
       ELSE Return(s)
    /\ UNCHANGED <<retries, selection, storeVars>>

ReadyGone(s) ==
    /\ spc[s] = "accept"
    /\ \E i \in plan[s] : IsFirst(i, plan[s]) /\ i \notin inbox[RoleOf[s]]
    /\ ReadyStops(s)
    /\ UNCHANGED faults

\* The move of a selected entry fails.
ReadyError(s) ==
    /\ spc[s] = "accept" /\ plan[s] # {}
    /\ Fault
    /\ ReadyStops(s)

ReadyMoved(s) ==
    /\ spc[s] = "accept" /\ plan[s] = {}
    /\ Goto(s, "mark")
    /\ UNCHANGED <<retries, selection, faults, storeVars>>

\* A batch gets a marker with a new batch id.
ReadyMark(s) ==
    /\ spc[s] = "mark"
    /\ Return(s)
    /\ IF Mode[RoleOf[s]] = "batch"
       THEN SetMarker(RoleOf[s], TRUE)
       ELSE UNCHANGED storeVars
    /\ UNCHANGED <<retries, selection, faults>>

-----------------------------------------------------------------------------
(* Done.                                                                   *)

DoneCall(s) ==
    /\ spc[s] = "idle" /\ "done" \in Uses[s]
    /\ spc' = [spc EXCEPT ![s] = "complete"]
    /\ plan' = [plan EXCEPT ![s] = Listed(RoleOf[s])]
    /\ UNCHANGED <<moved, src, retries, selection, faults, storeVars>>

DoneMove(s, i) ==
    /\ spc[s] = "complete" /\ IsFirst(i, plan[s])
    /\ i \in current[RoleOf[s]]
    /\ MoveToCompleted(i, RoleOf[s])
    /\ plan' = [plan EXCEPT ![s] = @ \ {i}]
    /\ UNCHANGED <<spc, moved, src, retries, selection, faults>>

\* The entry is gone: done returns the error, with the rest still current.
DoneGone(s) ==
    /\ spc[s] = "complete"
    /\ \E i \in plan[s] : IsFirst(i, plan[s]) /\ i \notin current[RoleOf[s]]
    /\ Return(s)
    /\ UNCHANGED <<retries, selection, faults, storeVars>>

\* Everything moved: forget the batch and look for the next work.
DoneMoved(s) ==
    /\ spc[s] = "complete" /\ plan[s] = {}
    /\ Goto(s, "current")
    /\ SetMarker(RoleOf[s], FALSE)
    /\ UNCHANGED <<retries, selection, faults>>

-----------------------------------------------------------------------------
(* Advance, the idempotent downstream handoff of `handoff next`.           *)

\* SourceID: the first entry of current/ names the work.
AdvanceCall(s, k) ==
    /\ spc[s] = "idle" /\ "next" \in Uses[s]
    /\ IsFirst(k, Listed(RoleOf[s]))
    /\ spc' = [spc EXCEPT ![s] = "findOutbox"]
    /\ src' = [src EXCEPT ![s] = k]
    /\ UNCHANGED <<plan, moved, retries, selection, faults, storeVars>>

\* FindBySource lists outbox first and sent second: a message of this source
\* in either is returned and nothing is created.
Find(s, here, box, next) ==
    /\ spc[s] = here
    /\ IF FromSource(box, RoleOf[s], src[s]) # {}
       THEN Return(s)
       ELSE Goto(s, next)
    /\ UNCHANGED <<retries, selection, faults, storeVars>>

AdvanceFindOutbox(s) == Find(s, "findOutbox", outbox, "findSent")

\* A defect: only the queued messages are searched.
AdvanceFindQueued(s) == Find(s, "findSent", outbox, "send")

AdvanceFindSent(s) == Find(s, "findSent", sent, "send")

AdvanceSend(s, i) ==
    /\ spc[s] = "send" /\ Fresh(i) /\ Sender[i] = RoleOf[s]
    /\ WriteOutbox(i, src[s])
    /\ Return(s)
    /\ UNCHANGED <<retries, selection, faults>>

-----------------------------------------------------------------------------
(* Integrate.                                                              *)

\* The first listed entry is the one to integrate.  Without a commit to bring
\* in, the command changes nothing.
IntegrateCall(s, i) ==
    /\ spc[s] = "idle" /\ "integrate" \in Uses[s]
    /\ IsFirst(i, Listed(RoleOf[s])) /\ CarriesCommit(i)
    /\ spc' = [spc EXCEPT ![s] = "integrate"]
    /\ src' = [src EXCEPT ![s] = i]
    /\ UNCHANGED <<plan, moved, retries, selection, faults, storeVars>>

\* After the git work the outcome is recorded in the entry's file, wherever
\* that file is by now.  The reason of a failure may run over several lines.
IntegrateWrite(s, i) ==
    /\ spc[s] = "integrate" /\ src[s] = i
    /\ \E readable \in BOOLEAN : Rewrite(i, RoleOf[s], readable)
    /\ Return(s)
    /\ UNCHANGED <<retries, selection, faults>>

-----------------------------------------------------------------------------
(* The commands that are one rename.                                       *)

Send(s, i) ==
    /\ spc[s] = "idle" /\ "send" \in Uses[s] /\ Fresh(i) /\ Sender[i] = RoleOf[s]
    /\ WriteOutbox(i, NoId)
    /\ UNCHANGED <<lifecycleVars, faults>>

\* A task goes straight into the inbox: the system sender has no outbox.
Submit(i) ==
    /\ Fresh(i) /\ Sender[i] = System
    /\ \E r \in Dests[i] : WriteInbox(i, r)
    /\ UNCHANGED <<lifecycleVars, faults>>

Ack(s, i) ==
    /\ spc[s] = "idle" /\ "ack" \in Uses[s] /\ i \in inbox[RoleOf[s]]
    /\ MoveToArchive(i, RoleOf[s])
    /\ UNCHANGED <<lifecycleVars, faults>>

\* The message is still valid and its commit resolves: queue it again.
Retry(i) ==
    /\ i \in failed
    /\ retries < MaxRetries
    /\ MoveToOutbox(i)
    /\ retries' = retries + 1
    /\ UNCHANGED <<shellVars, selection, faults>>

\* The shell is killed, or a listing or a move returns an error.
ShellDies(s) ==
    /\ spc[s] # "idle"
    /\ Fault
    /\ Return(s)
    /\ UNCHANGED <<retries, selection, storeVars>>
=============================================================================
