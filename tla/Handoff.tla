------------------------------- MODULE Handoff -------------------------------
(***************************************************************************)
(* The handoff subsystem: the delivery daemon, the commands of the roles   *)
(* and what repair does to the boxes, interleaved over one durable store.  *)
(***************************************************************************)
EXTENDS HandoffDaemon, HandoffLifecycle

VARIABLES
    orphans,    \* what the running repair found delivered but not retired
    mending,    \* <<i, r>>: the running repair integrates i for r
    everFailed, \* ids that were in failed/
    disturbed   \* disturbed[r]: ids integrate wrote back or made unreadable in
                \* r's current/

repairVars == <<orphans, mending>>

\* Histories, read by properties only.
history == <<everFailed, disturbed>>

vars == <<storeVars, faults, daemonVars, lifecycleVars, repairVars, history>>

TypeOK ==
    /\ StoreTypeOK
    /\ DaemonTypeOK
    /\ LifecycleTypeOK
    /\ orphans \subseteq Ids
    /\ mending \subseteq Ids \X Roles
    /\ everFailed \subseteq Ids
    /\ disturbed \in [Roles -> SUBSET Ids]

Init ==
    /\ StoreInit
    /\ DaemonInit
    /\ LifecycleInit
    /\ orphans = {}
    /\ mending = {}
    /\ everFailed = {}
    /\ disturbed = [r \in Roles |-> {}]

-----------------------------------------------------------------------------
(* Repair: one process that first retires orphans, then integrates.        *)

\* Two defects: every outbox entry counts as delivered; one copy is enough.
AllOrphaned == Readable(outbox)
PartlyOrphaned == {i \in Readable(outbox) : \E r \in Dests[i] : i \in Held(r)}

\* Orphans: readable outbox entries every destination of which holds a copy.
Orphaned == {i \in Readable(outbox) : \A r \in Dests[i] : i \in Held(r)}

DiagnoseOrphans ==
    /\ orphans = {} /\ mending = {}
    /\ orphans' = Orphaned
    /\ UNCHANGED <<mending, storeVars>>

\* Reconcile: retire one of them; it may have left the outbox meanwhile.
ReconcileOrphan(i) ==
    /\ i \in orphans
    /\ RetireToSent(i)
    /\ orphans' = orphans \ {i}
    /\ UNCHANGED mending

\* Integrate for a role whose work was found to be pending, as the role's own
\* command does it: the entry is read now, and written back after the git work.
RepairIntegrates(i, r) ==
    /\ orphans = {} /\ mending = {}
    /\ IsFirst(i, Listed(r)) /\ CarriesCommit(i)
    /\ mending' = {<<i, r>>}
    /\ UNCHANGED <<orphans, storeVars>>

RepairWritesBack(i, r) ==
    /\ <<i, r>> \in mending
    /\ \E readable \in BOOLEAN : Rewrite(i, r, readable)
    /\ mending' = {}
    /\ UNCHANGED orphans

\* The repair ends, or is killed, with its work left to a later one.
RepairEnds ==
    /\ orphans # {} \/ mending # {}
    /\ orphans' = {} /\ mending' = {}
    /\ UNCHANGED storeVars

-----------------------------------------------------------------------------
(* A step of one process, the other processes standing still.              *)

\* The histories.  An entry that is written back after done moved it is in
\* current/ and in completed/.
Remember ==
    /\ everFailed' = everFailed \cup failed'
    /\ disturbed' = [r \in Roles |->
           disturbed[r] \cup garbled'[r] \cup (current'[r] \cap completed'[r])]

ByDaemon(A) == A /\ UNCHANGED <<lifecycleVars, repairVars>> /\ Remember
ByCommand(A) == A /\ UNCHANGED <<daemonVars, repairVars>> /\ Remember
ByRepair(A) == A /\ UNCHANGED <<daemonVars, lifecycleVars, faults>> /\ Remember

DaemonNext ==
    \/ ByDaemon(DaemonStart)
    \/ ByDaemon(DaemonStop)
    \/ ByDaemon(DaemonCrash)
    \/ ByDaemon(ScanBegin)
    \/ ByDaemon(ScanEnd)
    \/ ByDaemon(RoleEnd)
    \/ ByDaemon(LookInbox)
    \/ ByDaemon(LookCurrent)
    \/ ByDaemon(LookCompleted)
    \/ ByDaemon(WriteCopy)
    \/ ByDaemon(DeliverError)
    \/ ByDaemon(Retire)
    \/ ByDaemon(RetireError)
    \/ \E r \in Roles :
        \/ ByDaemon(ListOutbox(r))
        \/ ByDaemon(ListFails(r))
        \/ ByDaemon(BeginDest(r))
    \/ \E i \in Ids :
        \/ ByDaemon(RejectEntry(i))
        \/ ByDaemon(FailEntry(i))
        \/ ByDaemon(QuarantineError(i))
        \/ ByDaemon(BeginEntry(i))

CommandNext(s) ==
    \/ ByCommand(ReadyCall(s))
    \/ ByCommand(ReadyCurrent(s))
    \/ ByCommand(ReadySelect(s))
    \/ ByCommand(ReadyGone(s))
    \/ ByCommand(ReadyError(s))
    \/ ByCommand(ReadyMoved(s))
    \/ ByCommand(ReadyMark(s))
    \/ ByCommand(DoneCall(s))
    \/ ByCommand(DoneGone(s))
    \/ ByCommand(DoneMoved(s))
    \/ ByCommand(AdvanceFindOutbox(s))
    \/ ByCommand(AdvanceFindSent(s))
    \/ ByCommand(ShellDies(s))
    \/ \E i \in Ids :
        \/ ByCommand(ReadyAccept(s, i))
        \/ ByCommand(DoneMove(s, i))
        \/ ByCommand(AdvanceCall(s, i))
        \/ ByCommand(AdvanceSend(s, i))
        \/ ByCommand(IntegrateCall(s, i))
        \/ ByCommand(IntegrateWrite(s, i))
        \/ ByCommand(Send(s, i))
        \/ ByCommand(Ack(s, i))

DeveloperNext ==
    \E i \in Ids : ByCommand(Submit(i)) \/ ByCommand(Retry(i))

RepairNext ==
    \/ ByRepair(DiagnoseOrphans)
    \/ ByRepair(RepairEnds)
    \/ \E i \in Ids : ByRepair(ReconcileOrphan(i))
    \/ \E i \in Ids, r \in Roles :
        \/ ByRepair(RepairIntegrates(i, r))
        \/ ByRepair(RepairWritesBack(i, r))

Next ==
    \/ DaemonNext
    \/ \E s \in Shells : CommandNext(s)
    \/ DeveloperNext
    \/ RepairNext

Spec == Init /\ [][Next]_vars

\* A daemon that died is started again, its process runs on, and Run's loop
\* takes a tick now and then: it is not stopped each time before a pass begins.
\* Nothing is assumed of the roles, the developer or repair.
FairSpec ==
    /\ Spec
    /\ WF_vars(ByDaemon(DaemonWorks))
    /\ SF_vars(ByDaemon(ScanBegin))

-----------------------------------------------------------------------------
(* Safety.                                                                 *)

\* Delivery is idempotent (HasDelivery, Deliver): a message that its destination
\* works on or has finished is not put into the inbox again, whatever is
\* crashed, retried, repaired, moved on or written back by the destination
\* between the daemon's look at a box and its write.
NoDoubleDelivery ==
    \A r \in Roles : inbox[r] \cap (current[r] \cup completed[r]) = {}

\* A source file is retired to sent/ only when every destination got its copy
\* (process, step 4; the orphan repair): "sent" is never a lie.
SentWasDelivered ==
    \A i \in sent : \A r \in Dests[i] : i \in Received(r)

\* The renames of the daemon, of retry and of repair race for one source file,
\* and the file is in one of the sender's boxes afterwards, never in two.
OneSourceBox ==
    /\ outbox \cap sent = {} /\ outbox \cap failed = {}
    /\ outbox \cap rejected = {} /\ sent \cap failed = {}
    /\ sent \cap rejected = {} /\ failed \cap rejected = {}

\* No message and no copy ever vanishes, and what a role has finished stays
\* finished: accepted work only moves forward.
OnlyForward ==
    [][/\ Accepted \subseteq Accepted'
       /\ \A r \in Roles :
            /\ Received(r) \subseteq Received(r)'
            /\ completed[r] \subseteq completed'[r]
            /\ current[r] \subseteq current'[r] \cup completed'[r]]_vars

\* Advance is idempotent per source id: of the messages a role made from one
\* piece of work at most one is queued or sent, leaving out those that failed
\* once (Advance replaces a failed one, and a retry may bring it back) and
\* those List cannot read.
OneDownstreamPerSource ==
    \A i, j \in (outbox \cup sent) \ (everFailed \cup Malformed) :
        Sender[i] = Sender[j] /\ source[i] = source[j] /\ source[i] # NoId
            => i = j

\* What r is working on as it took it, integrate's effects apart.
Undisturbed(r) == current[r] \ disturbed[r]

\* What is in current/ was taken by one Ready, even when that Ready or a Done
\* was killed half-way: in task mode, at most one message.  It is so of all
\* entries but those integrate wrote back after they were finished, or made
\* unreadable, and it stays so when integrate does that in the middle of a Ready.
OneSelectionAtATime ==
    \A r \in Roles : \A i, j \in Undisturbed(r) :
        /\ selection[r][i] = selection[r][j]
        /\ Mode[r] = "task" => i = j

\* The subsystem keeps the contract: see HandoffContract.
Contract == INSTANCE HandoffContract WITH
    accepted <- Accepted \cup {i \in Ids : Sender[i] = System /\ ~Fresh(i)},
    settled <- sent,
    waiting <- inbox,
    taken <- [r \in Roles |-> current[r] \cup completed[r]],
    withdrawn <- archive

KeepsContract == Contract!Spec

-----------------------------------------------------------------------------
(* Inductive invariants: what the daemon and repair know while they work.  *)

\* The entry that a command of r or repair is integrating for r.
Remembered(i, r) ==
    \/ <<i, r>> \in mending
    \/ \E s \in Shells : RoleOf[s] = r /\ spc[s] = "integrate" /\ src[s] = i

\* It was in current/, so by now it is there or finished.
RememberedInv ==
    \A i \in Ids, r \in Roles : Remembered(i, r) => i \in current[r] \cup completed[r]

\* A box HasDelivery has left without finding a copy stays without one: the
\* destination moves copies only from a box it has yet to read into a later
\* one, nobody else writes a copy of a message that was sent, and what
\* integrate writes back is still found where done put it.
LookInv ==
    /\ dpc \in {"current", "completed", "write"} => cur \notin inbox[dest]
    /\ dpc = "completed" /\ cur \in current[dest] => cur \in completed[dest]
    /\ dpc = "write" => cur \notin current[dest] \cup completed[dest]

\* The daemon works on messages that were sent, so no submit has their id.
QueuedInv ==
    /\ entries \subseteq Accepted
    /\ dpc \in {"deliver"} \cup Looking => cur \in Accepted

DeliveryInv == NoDoubleDelivery /\ LookInv /\ QueuedInv /\ RememberedInv

\* Only destinations of the entry in hand are attempted.
PendInv ==
    /\ dpc \in {"deliver"} \cup Looking => pend \subseteq Dests[cur]
    /\ dpc \in Looking => dest \in pend

\* The destinations dealt with so far have their copies unless one failed,
\* and so have the destinations of an orphan repair has found.
SentInv ==
    /\ SentWasDelivered
    /\ dpc \in {"deliver"} \cup Looking /\ allOk =>
        \A r \in Dests[cur] \ pend : cur \in Received(r)
    /\ \A i \in orphans : \A r \in Dests[i] : i \in Received(r)

\* README: "Not concurrency-safe across simultaneous invocations in the same
\* repo".  The properties of a role's own commands rest on it.
OneShellPerRole == \A s, t \in Shells : RoleOf[s] = RoleOf[t] => s = t

\* A message of shell s that answers the work s is advancing, and that is
\* neither unreadable nor a failed one.
Answer(s, i) ==
    /\ i \notin everFailed \cup Malformed
    /\ Sender[i] = RoleOf[s] /\ source[i] = src[s]

\* A box Advance has left without finding an answer stays without one: only
\* this shell writes one, and what retry brings back has failed before.
AdvanceInv ==
    /\ OneDownstreamPerSource
    /\ failed \subseteq everFailed
    /\ \A s \in Shells :
        /\ spc[s] \in {"findOutbox", "findSent", "send"} => src[s] \in Ids
        /\ spc[s] \in {"findSent", "send"} => \A i \in outbox : ~Answer(s, i)
        /\ spc[s] = "send" => \A i \in sent : ~Answer(s, i)

\* Ready moves its selection into a current/ that listed nothing when it looked.
SelectionAt(s) ==
    LET r == RoleOf[s] IN
    /\ moved[s] => spc[s] \in {"accept", "mark"}
    /\ spc[s] = "select" => Undisturbed(r) = {}
    /\ spc[s] = "accept" /\ ~moved[s] =>
        /\ Undisturbed(r) = {}
        /\ Mode[r] = "task" => \A i, j \in plan[s] : i = j
    /\ spc[s] = "accept" /\ moved[s] =>
        /\ \A i \in Undisturbed(r) : selection[r][i] = src[s]
        /\ Mode[r] = "task" => plan[s] = {}

\* An entry that is not listed counts as disturbed.
DisturbedInv == \A r \in Roles : garbled[r] \subseteq disturbed[r]

SelectionInv ==
    /\ OneSelectionAtATime
    /\ RememberedInv
    /\ DisturbedInv
    /\ \A s \in Shells : SelectionAt(s)

-----------------------------------------------------------------------------
(* Liveness.                                                               *)

\* Once the faults are over the daemon gets every queued message out of the
\* outbox: it ends as sent, or its sender sees it in failed/ or rejected/.
EveryMessageSettles ==
    \A i \in Ids : i \in outbox ~> i \in sent \cup failed \cup rejected

-----------------------------------------------------------------------------
(* What the repository says and the code does not do.                      *)

\* store.go: "if the id is already present ... nothing is written" and
\* docs/recovery.md: "the destination keeps exactly one copy".  An
\* acknowledged copy is in archive/, where HasDelivery does not look.
ExactlyOneCopy ==
    NoDoubleDelivery /\ \A r \in Roles : archive[r] \cap Held(r) = {}

\* README: "A message is therefore always in exactly one box".  Integrate reads
\* an entry of current/, works for as long as git takes, and writes its file
\* again at the path it had; when done has moved the file meanwhile, finished
\* work is current work again.
AlwaysInOneBox ==
    \A r \in Roles :
        /\ inbox[r] \cap current[r] = {}
        /\ inbox[r] \cap completed[r] = {}
        /\ current[r] \cap completed[r] = {}

\* lifecycle.go: Advance "is idempotent per piece of current work", and for a
\* batch the source id "is the first item's id, which is stable".  A Done that
\* stops half-way leaves a current/ whose first item is another one.
OneDownstreamPerSelection ==
    \A i, j \in (outbox \cup sent) \ (everFailed \cup Malformed) :
        (/\ Sender[i] = Sender[j]
         /\ source[i] # NoId /\ source[j] # NoId
         /\ selection[Sender[i]][source[i]] = selection[Sender[j]][source[j]])
            => i = j
=============================================================================
