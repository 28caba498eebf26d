---------------------------- MODULE HandoffDaemon ----------------------------
(***************************************************************************)
(* The delivery daemon: the loop of Daemon.Run and one pass of Daemon.Scan *)
(* over the outboxes (internal/handoff/daemon.go).  A pass lists the       *)
(* outbox of one role after another and works from that listing; for each  *)
(* entry it delivers to the destinations one by one, looking first in the  *)
(* inbox, then in current, then in completed for an earlier copy, and at   *)
(* last it moves the source file away.  Every directory it reads and every *)
(* file it writes is a step of its own: the roles' commands run in other   *)
(* processes and interleave with all of them, and the daemon can die       *)
(* between any two.                                                        *)
(*                                                                         *)
(* The wake-ups at the end of a pass touch no box and are left out here.   *)
(***************************************************************************)
EXTENDS HandoffStore

CONSTANTS
    NoRole,             \* no destination is being worked on
    DeliveryAttempts    \* deliveryAttempts: tries per destination

ASSUME NoRoleAssumption == NoRole \notin Roles
ASSUME AttemptsAssumption == DeliveryAttempts \in Nat \ {0}

VARIABLES
    dpc,        \* where the daemon is
    todo,       \* roles whose outbox this pass has not listed yet
    entries,    \* listed entries of the role in hand, not yet processed
    cur,        \* the entry being delivered, or NoId
    pend,       \* its destinations not yet attempted
    dest,       \* the destination being attempted, or NoRole
    attempt,    \* the attempt on that destination, from 1
    allOk       \* no destination of cur has failed

passVars == <<todo, entries, cur, pend, dest, attempt, allOk>>
daemonVars == <<dpc, passVars>>

Looking == {"inbox", "current", "completed", "write"}
DaemonStates == {"off", "idle", "list", "entry", "deliver"} \cup Looking

DaemonTypeOK ==
    /\ dpc \in DaemonStates
    /\ todo \subseteq Roles
    /\ entries \subseteq Ids
    /\ cur \in Ids \cup {NoId}
    /\ pend \subseteq Roles
    /\ dest \in Roles \cup {NoRole}
    /\ attempt \in 1 .. DeliveryAttempts
    /\ allOk \in BOOLEAN
    /\ dpc \in {"deliver"} \cup Looking => cur \in Ids
    /\ dpc \in Looking => dest \in Roles

PassInit ==
    /\ todo = {} /\ entries = {} /\ cur = NoId /\ pend = {}
    /\ dest = NoRole /\ attempt = 1 /\ allOk = TRUE

DaemonInit == dpc = "off" /\ PassInit

-----------------------------------------------------------------------------
(* The process.                                                            *)

\* Run: EnsureDirs, then wait for the first tick.
DaemonStart ==
    /\ dpc = "off"
    /\ dpc' = "idle"
    /\ UNCHANGED <<passVars, faults, storeVars>>

\* The context is looked at between passes only: a SIGTERM during a pass lets
\* that pass finish, and no further pass runs.
DaemonStop ==
    /\ dpc = "idle"
    /\ dpc' = "off"
    /\ UNCHANGED <<passVars, faults, storeVars>>

\* The process dies and loses what it held in memory.
DaemonCrash ==
    /\ dpc # "off"
    /\ Fault
    /\ dpc' = "off"
    /\ todo' = {} /\ entries' = {} /\ cur' = NoId /\ pend' = {}
    /\ dest' = NoRole /\ attempt' = 1 /\ allOk' = TRUE
    /\ UNCHANGED storeVars

-----------------------------------------------------------------------------
(* One pass.                                                               *)

ScanBegin ==
    /\ dpc = "idle"
    /\ dpc' = "list"
    /\ todo' = Roles
    /\ UNCHANGED <<entries, cur, pend, dest, attempt, allOk, faults, storeVars>>

\* list(outbox of r): everything that follows for r works from this listing.
ListOutbox(r) ==
    /\ dpc = "list" /\ r \in todo
    /\ dpc' = "entry"
    /\ todo' = todo \ {r}
    /\ entries' = {i \in outbox : Sender[i] = r}
    /\ UNCHANGED <<cur, pend, dest, attempt, allOk, faults, storeVars>>

\* The outbox of a role cannot be read: the role is skipped in this pass.
ListFails(r) ==
    /\ dpc = "list" /\ r \in todo
    /\ Fault
    /\ todo' = todo \ {r}
    /\ UNCHANGED <<dpc, entries, cur, pend, dest, attempt, allOk, storeVars>>

ScanEnd ==
    /\ dpc = "list" /\ todo = {}
    /\ dpc' = "idle"
    /\ UNCHANGED <<passVars, faults, storeVars>>

RoleEnd ==
    /\ dpc = "entry" /\ entries = {}
    /\ dpc' = "list"
    /\ UNCHANGED <<passVars, faults, storeVars>>

\* Unparsable files are quarantined before any entry is processed.
RejectEntry(i) ==
    /\ dpc = "entry" /\ i \in entries \cap Malformed
    /\ entries' = entries \ {i}
    /\ RetireToRejected(i)
    /\ UNCHANGED <<dpc, todo, cur, pend, dest, attempt, allOk, faults>>

\* Entries come in the order of the listing.
NextEntry(i) == dpc = "entry" /\ entries \cap Malformed = {} /\ IsFirst(i, entries)

\* A defect: an unresolvable commit is only logged, and the file stays.
FailLogged(i) ==
    /\ NextEntry(i) /\ i \in GitIds
    /\ entries' = entries \ {i}
    /\ UNCHANGED <<dpc, todo, cur, pend, dest, attempt, allOk, faults, storeVars>>

\* The commit does not resolve, now: a failed request of the sender.
FailEntry(i) ==
    /\ NextEntry(i) /\ i \in GitIds
    /\ entries' = entries \ {i}
    /\ RetireToFailed(i)
    /\ UNCHANGED <<dpc, todo, cur, pend, dest, attempt, allOk, faults>>

\* The file cannot be moved to rejected/ or failed/: it is logged and left.
QuarantineError(i) ==
    /\ dpc = "entry"
    /\ i \in entries \cap Malformed \/ (NextEntry(i) /\ i \in GitIds)
    /\ Fault
    /\ entries' = entries \ {i}
    /\ UNCHANGED <<dpc, todo, cur, pend, dest, attempt, allOk, storeVars>>

BeginEntry(i) ==
    /\ NextEntry(i)
    /\ dpc' = "deliver"
    /\ entries' = entries \ {i}
    /\ cur' = i
    /\ pend' = Dests[i]
    /\ allOk' = TRUE
    /\ UNCHANGED <<todo, dest, attempt, faults, storeVars>>

\* deliver: the first attempt on the next destination.
BeginDest(r) ==
    /\ dpc = "deliver" /\ r \in pend
    /\ dpc' = "inbox"
    /\ dest' = r
    /\ attempt' = 1
    /\ UNCHANGED <<todo, entries, cur, pend, allOk, faults, storeVars>>

\* The destination is dealt with: on to the next one.
EndDest(ok) ==
    /\ dpc' = "deliver"
    /\ pend' = pend \ {dest}
    /\ dest' = NoRole
    /\ attempt' = 1
    /\ allOk' = (allOk /\ ok)
    /\ UNCHANGED <<todo, entries, cur>>

\* HasDelivery reads one box: a copy there ends the attempt as "already".
Look(here, box, next) ==
    /\ dpc = here
    /\ IF cur \in box[dest]
       THEN EndDest(TRUE)
       ELSE dpc' = next /\ UNCHANGED passVars
    /\ UNCHANGED <<faults, storeVars>>

LookInbox == Look("inbox", inbox, "current")
LookCurrent == Look("current", current, "completed")

\* A defect: finished work is not searched for an earlier copy.
LookForgetful == Look("completed", inbox, "write")

LookCompleted == Look("completed", completed, "write")

WriteCopy ==
    /\ dpc = "write"
    /\ WriteInbox(cur, dest)
    /\ EndDest(TRUE)
    /\ UNCHANGED faults

\* A defect: one attempt too many.
DeliverErrorOffByOne ==
    /\ dpc \in Looking
    /\ Fault
    /\ IF attempt <= DeliveryAttempts
       THEN /\ dpc' = "inbox"
            /\ attempt' = attempt + 1
            /\ UNCHANGED <<todo, entries, cur, pend, dest, allOk>>
       ELSE EndDest(FALSE)
    /\ UNCHANGED storeVars

\* Deliver returns an error: start it over, or give the destination up.
DeliverError ==
    /\ dpc \in Looking
    /\ Fault
    /\ IF attempt < DeliveryAttempts
       THEN /\ dpc' = "inbox"
            /\ attempt' = attempt + 1
            /\ UNCHANGED <<todo, entries, cur, pend, dest, allOk>>
       ELSE EndDest(FALSE)
    /\ UNCHANGED storeVars

EndEntry ==
    /\ dpc' = "entry"
    /\ cur' = NoId
    /\ allOk' = TRUE
    /\ UNCHANGED <<todo, entries, pend, dest, attempt>>

\* Every destination was attempted: the source goes to sent or to failed.
Retire ==
    /\ dpc = "deliver" /\ pend = {}
    /\ IF allOk THEN RetireToSent(cur) ELSE RetireToFailed(cur)
    /\ EndEntry
    /\ UNCHANGED faults

\* The move fails: logged, and the source stays in the outbox.
RetireError ==
    /\ dpc = "deliver" /\ pend = {}
    /\ Fault
    /\ EndEntry
    /\ UNCHANGED storeVars

\* What the daemon does when nothing fails and nobody stops it.
DaemonWorks ==
    \/ DaemonStart
    \/ ScanBegin
    \/ \E r \in Roles : ListOutbox(r) \/ BeginDest(r)
    \/ ScanEnd
    \/ RoleEnd
    \/ \E i \in Ids : RejectEntry(i) \/ FailEntry(i) \/ BeginEntry(i)
    \/ LookInbox
    \/ LookCurrent
    \/ LookCompleted
    \/ WriteCopy
    \/ Retire
=============================================================================
