------------------------------- MODULE WakeUp -------------------------------
(***************************************************************************)
(* How an agent comes to hear of its work: the daemon types a wake-up into *)
(* the role's session after a delivery, task submit after a submission,    *)
(* and the daemon's reconciliation again while nobody takes the work.      *)
(* (internal/notify/notify.go, internal/handoff/daemon.go Scan, reconcile, *)
(* cmd/swarm/task.go, cmd/swarm/handoff.go)                                *)
(*                                                                         *)
(* One role: roles share nothing here but the daemon's clock.  Daemon and  *)
(* submitters remember their attempts in one file, which each of them      *)
(* reads, changes and writes without regard to the others.  Of time only   *)
(* the two intervals are kept: whether they have passed.                   *)
(***************************************************************************)
EXTENDS Naturals, FiniteSets

CONSTANTS
    Tasks,          \* messages that swarm task submit puts into the inbox
    Sends,          \* messages that wait in outboxes for the daemon
    Above(_, _),    \* the order of SortEntries
    MaxAttempts,    \* DefaultMaxAttempts
    MaxCrashes,     \* bound on killed processes and failed writes
    MaxOutages      \* bound on sessions that end

ASSUME AttemptsPositive == MaxAttempts \in Nat \ {0}
ASSUME BoundsAreNumbers == MaxCrashes \in Nat /\ MaxOutages \in Nat
ASSUME KindsDiffer == Tasks \cap Sends = {} /\ "daemon" \notin Tasks /\ "none" \notin Tasks \cup Sends

\* SortEntries orders a box by priority, time and id: one message is the first.
ASSUME AboveSorts ==
    \A S \in SUBSET (Tasks \cup Sends) :
        S # {} => \E m \in S : \A n \in S \ {m} : Above(m, n)

VARIABLES
    outbox,         \* sources that are not retired
    inbox,          \* untouched work
    current,        \* work the role has taken up
    finished,       \* work done
    note,           \* the role's notification file
    clock,          \* the daemon's time of the last reconciliation
    woken,          \* the delivery of this pass that justifies a wake-up
    proc,           \* the daemon and the submitters
    session,        \* whether the role's session lives
    heard,          \* whether the agent has been told to look
    crashes, outages

boxes == <<outbox, inbox, current, finished>>
agent == <<session, heard>>
vars == <<boxes, note, clock, woken, proc, agent, crashes, outages>>

Messages == Tasks \cup Sends
Callers == {"daemon"} \cup Tasks
None == "none"
NoNote == [id |-> None, status |-> "not-required", attempts |-> 0, due |-> TRUE]
Top(S) == CHOOSE m \in S : \A n \in S \ {m} : Above(m, n)
Known == inbox \cup current \cup finished
Process(pc) == [pc |-> pc, id |-> None, seen |-> NoNote, next |-> None]

Init ==
    /\ outbox = Sends
    /\ inbox = {} /\ current = {} /\ finished = {}
    /\ note = NoNote
    /\ clock = "unset"
    /\ woken = None
    /\ proc = [x \in Callers |-> Process(IF x = "daemon" THEN "off" ELSE "new")]
    /\ session = FALSE /\ heard = FALSE
    /\ crashes = 0 /\ outages = 0

At(x, pc) == proc[x].pc = pc
Goes(x, pc) == proc' = [proc EXCEPT ![x] = Process(pc)]

(***************************************************************************)
(* Tracker                                                                 *)
(***************************************************************************)
\* A defect: what was tried is not looked at.
ExhaustedNever(s) == s.status = "failed" /\ s.attempts > MaxAttempts

\* Wake-ups that were sent count too, but the limit only holds after a failed one.
Exhausted(s) == s.status = "failed" /\ s.attempts >= MaxAttempts

\* A defect: once told, always told.
ShouldRetryFailed(s, id) ==
    \/ s.id # id \/ s.attempts = 0
    \/ ~Exhausted(s) /\ s.status = "failed" /\ s.due

ShouldRetry(s, id) ==
    \/ s.id # id \/ s.attempts = 0
    \/ ~Exhausted(s) /\ s.due

\* The attempts of a message up to the limit, beyond which they make no difference.
Attempt(s, id) ==
    LET before == IF s.id = id THEN s.attempts ELSE 0
    IN  [id |-> id, status |-> "failed", due |-> FALSE,
         attempts |-> IF before < MaxAttempts THEN before + 1 ELSE MaxAttempts]

\* x is going to wake the role about id, and then goes on with next.
Notifies(x, id, next) ==
    proc' = [proc EXCEPT ![x] = [pc |-> "read", id |-> id, seen |-> NoNote, next |-> next]]

\* A file that another process is just writing may be read as if it were not there.
ReadBy(x) == {note} \cup {y \in {NoNote} : \E c \in Callers \ {x} : At(c, "save")}

ReadNote(x) ==
    /\ At(x, "read")
    /\ \E s \in ReadBy(x) :
          proc' = [proc EXCEPT ![x].pc = "knock", ![x].seen = Attempt(s, proc[x].id)]
    /\ UNCHANGED <<boxes, note, clock, woken, agent, crashes, outages>>

Knocked(x, status) ==
    proc' = [proc EXCEPT ![x].pc = "save", ![x].seen.status = status]

\* tmux fails.
KnockFails(x) ==
    /\ At(x, "knock")
    /\ Knocked(x, "failed")
    /\ UNCHANGED <<boxes, note, clock, woken, agent, crashes, outages>>

\* Without a session nobody is told, and the agent may not take in what is typed; both
\* count as sent.
KnockUnheard(x) ==
    /\ At(x, "knock")
    /\ Knocked(x, "sent")
    /\ UNCHANGED <<boxes, note, clock, woken, agent, crashes, outages>>

KnockHeard(x) ==
    /\ At(x, "knock")
    /\ session
    /\ Knocked(x, "sent")
    /\ heard' = TRUE
    /\ UNCHANGED <<boxes, note, clock, woken, session, crashes, outages>>

\* A defect: a status that has no attempts is written.
SaveWithout(x) ==
    /\ At(x, "save")
    /\ note' = [proc[x].seen EXCEPT !.attempts = @ - 1, !.status = "not-required"]
    /\ Goes(x, proc[x].next)
    /\ UNCHANGED <<boxes, clock, woken, agent, crashes, outages>>

Save(x) ==
    /\ At(x, "save")
    /\ note' = proc[x].seen
    /\ Goes(x, proc[x].next)
    /\ UNCHANGED <<boxes, clock, woken, agent, crashes, outages>>

\* The write fails, maybe after it has emptied the file.  Nobody is told.
SaveFails(x) ==
    /\ At(x, "save")
    /\ crashes < MaxCrashes
    /\ crashes' = crashes + 1
    /\ note' \in {note, NoNote}
    /\ Goes(x, proc[x].next)
    /\ UNCHANGED <<boxes, clock, woken, agent, outages>>

(***************************************************************************)
(* The daemon                                                              *)
(***************************************************************************)
DaemonStarts ==
    /\ At("daemon", "off")
    /\ clock' = "unset"
    /\ Goes("daemon", "idle")
    /\ UNCHANGED <<boxes, note, woken, agent, crashes, outages>>

ScanBegins ==
    /\ At("daemon", "idle")
    /\ woken' = None
    /\ Goes("daemon", "deliver")
    /\ UNCHANGED <<boxes, note, clock, agent, crashes, outages>>

\* A defect: a copy that the role has finished with is not looked for.
DeliverAgain(m) ==
    /\ At("daemon", "deliver")
    /\ m \in outbox \ (inbox \cup current)
    /\ inbox' = inbox \cup {m}
    /\ woken' = m
    /\ UNCHANGED <<outbox, current, finished, note, clock, proc, agent, crashes, outages>>

\* A copy that is there already is no reason to wake anyone.
Deliver(m) ==
    /\ At("daemon", "deliver")
    /\ m \in outbox \ Known
    /\ inbox' = inbox \cup {m}
    /\ woken' = m
    /\ UNCHANGED <<outbox, current, finished, note, clock, proc, agent, crashes, outages>>

Retire(m) ==
    /\ At("daemon", "deliver")
    /\ m \in outbox \cap Known
    /\ outbox' = outbox \ {m}
    /\ UNCHANGED <<inbox, current, finished, note, clock, woken, proc, agent, crashes, outages>>

ScanWakes ==
    /\ At("daemon", "deliver")
    /\ outbox = {}
    /\ IF woken = None THEN Goes("daemon", "reconcile") ELSE Notifies("daemon", woken, "reconcile")
    /\ UNCHANGED <<boxes, note, clock, woken, agent, crashes, outages>>

\* The first pass starts the clock; a role woken in this pass is left alone.
Reconcile ==
    /\ At("daemon", "reconcile")
    /\ clock' = IF clock = "unset" \/ clock = "due" THEN "recent" ELSE clock
    /\ Goes("daemon", IF clock = "due" /\ woken = None THEN "look" ELSE "idle")
    /\ UNCHANGED <<boxes, note, woken, agent, crashes, outages>>

\* A role that works has heard.
LookAtCurrent ==
    /\ At("daemon", "look")
    /\ \/ current # {} /\ note' = NoNote /\ Goes("daemon", "idle")
       \/ current = {} /\ Goes("daemon", "judge") /\ UNCHANGED note
    /\ UNCHANGED <<boxes, clock, woken, agent, crashes, outages>>

LookAtInbox ==
    /\ At("daemon", "judge")
    /\ \/ inbox = {} /\ note' = NoNote /\ Goes("daemon", "idle")
       \/ /\ inbox # {} /\ UNCHANGED note
          /\ \E s \in ReadBy("daemon") :
                IF ShouldRetry(s, Top(inbox))
                THEN Notifies("daemon", Top(inbox), "idle")
                ELSE Goes("daemon", "idle")
    /\ UNCHANGED <<boxes, clock, woken, agent, crashes, outages>>

DaemonStep ==
    \/ DaemonStarts \/ ScanBegins \/ (\E m \in Sends : Deliver(m) \/ Retire(m)) \/ ScanWakes
    \/ Reconcile \/ LookAtCurrent \/ LookAtInbox
    \/ ReadNote("daemon") \/ KnockFails("daemon") \/ KnockUnheard("daemon")
    \/ KnockHeard("daemon") \/ Save("daemon")

(***************************************************************************)
(* swarm task submit                                                       *)
(***************************************************************************)
Submit(m) ==
    /\ At(m, "new")
    /\ inbox' = inbox \cup {m}
    /\ Goes(m, "submitted")
    /\ UNCHANGED <<outbox, current, finished, note, clock, woken, agent, crashes, outages>>

\* wakeRole asks for the session first, and records nothing without one.
WakeRole(m) ==
    /\ At(m, "submitted")
    /\ IF session THEN Notifies(m, m, "over") ELSE Goes(m, "over")
    /\ UNCHANGED <<boxes, note, clock, woken, agent, crashes, outages>>

SubmitStep(m) ==
    \/ Submit(m) \/ WakeRole(m)
    \/ ReadNote(m) \/ KnockFails(m) \/ KnockUnheard(m) \/ KnockHeard(m) \/ Save(m)

(***************************************************************************)
(* The agent, time and failures                                            *)
(***************************************************************************)
\* ready, on being told.
Accept ==
    /\ session /\ heard
    /\ heard' = FALSE
    /\ IF current = {} /\ inbox # {}
       THEN current' = {Top(inbox)} /\ inbox' = inbox \ {Top(inbox)}
       ELSE UNCHANGED <<inbox, current>>
    /\ UNCHANGED <<outbox, finished, note, clock, woken, proc, session, crashes, outages>>

\* done, which takes up the next work by itself.
Complete ==
    /\ session /\ current # {}
    /\ finished' = finished \cup current
    /\ current' = IF inbox = {} THEN {} ELSE {Top(inbox)}
    /\ inbox' = inbox \ current'
    /\ UNCHANGED <<outbox, note, clock, woken, proc, agent, crashes, outages>>

SessionUp ==
    /\ ~session
    /\ session' = TRUE
    /\ UNCHANGED <<boxes, note, clock, woken, proc, heard, crashes, outages>>

SessionDown ==
    /\ session /\ outages < MaxOutages
    /\ session' = FALSE /\ heard' = FALSE
    /\ outages' = outages + 1
    /\ UNCHANGED <<boxes, note, clock, woken, proc, crashes>>

ClockRuns ==
    /\ clock = "recent" /\ clock' = "due"
    /\ UNCHANGED <<boxes, note, woken, proc, agent, crashes, outages>>

NoteAges ==
    /\ ~note.due /\ note' = [note EXCEPT !.due = TRUE]
    /\ UNCHANGED <<boxes, clock, woken, proc, agent, crashes, outages>>

\* A process that dies while it writes the file leaves nothing that can be read.
Crash(x) ==
    /\ crashes < MaxCrashes
    /\ proc[x].pc \notin {"off", "new", "over"}
    /\ crashes' = crashes + 1
    /\ Goes(x, IF x = "daemon" THEN "off" ELSE "over")
    /\ note' \in {note} \cup {y \in {NoNote} : At(x, "save")}
    /\ UNCHANGED <<boxes, clock, woken, agent, outages>>

Next ==
    \/ DaemonStep
    \/ \E m \in Tasks : SubmitStep(m)
    \/ Accept \/ Complete \/ SessionUp \/ SessionDown \/ ClockRuns \/ NoteAges
    \/ \E x \in Callers : SaveFails(x) \/ Crash(x)

Spec == Init /\ [][Next]_vars

\* The daemon runs and is started again, time passes, an agent that was told looks,
\* and an agent that is told over and over hears in the end.  A file that is being
\* written is written some day; else submitters and sessions owe nothing.
FairSpec ==
    /\ Spec
    /\ WF_vars(DaemonStep)
    /\ WF_vars(ClockRuns) /\ WF_vars(NoteAges)
    /\ WF_vars(Accept)
    /\ WF_vars(\E m \in Tasks : Save(m))
    /\ SF_vars(KnockHeard("daemon"))

(***************************************************************************)
(* What holds                                                              *)
(***************************************************************************)
Notes == {s \in [id : Messages \cup {None}, status : {"not-required", "sent", "failed"},
                 attempts : 0..MaxAttempts, due : BOOLEAN] :
             (s.id = None) = (s.attempts = 0) /\ (s.id = None) = (s.status = "not-required")}

Processes == [pc : {"off", "idle", "deliver", "reconcile", "look", "judge", "new", "submitted",
                    "over", "read", "knock", "save"},
              id : Messages \cup {None}, seen : Notes,
              next : {None, "reconcile", "idle", "over"}]

TypeOK ==
    /\ outbox \subseteq Sends
    /\ inbox \subseteq Messages /\ current \subseteq Messages /\ finished \subseteq Messages
    /\ Cardinality(current) <= 1
    /\ note \in Notes
    /\ clock \in {"unset", "recent", "due"}
    /\ woken \in Sends \cup {None}
    /\ proc \in [Callers -> Processes]
    /\ \A x \in Callers : proc[x].pc \in {"read", "knock", "save"} => proc[x].id \in Known
    /\ session \in BOOLEAN /\ heard \in BOOLEAN
    /\ crashes \in 0..MaxCrashes /\ outages \in 0..MaxOutages

\* The boxes change the way HandoffContract says they may: what the daemon delivers
\* again after a crash, and what the role takes up on a wake-up or after done, is given
\* once and taken once.
Contract == INSTANCE HandoffContract WITH
    Roles <- {"role"},
    Ids <- Messages,
    Dests <- [m \in Messages |-> {"role"}],
    accepted <- Known,
    settled <- Sends \ outbox,
    waiting <- [r \in {"role"} |-> inbox],
    taken <- [r \in {"role"} |-> current \cup finished],
    withdrawn <- [r \in {"role"} |-> {}]
KeepsContract == Contract!Spec

Waiting == inbox # {} /\ current = {}

\* Work that nobody has taken up is taken up in the end, whatever wake-ups were lost and
\* whoever was killed between delivery and wake-up, unless the role has no session or the
\* wake-ups for the first message in line failed too often (Daemon.reconcile, ShouldRetry).
WaitingIsHeard ==
    Waiting ~> (~Waiting \/ ~session \/ (Exhausted(note) /\ note.id = Top(inbox)))

\* Wake-ups that fail come to an end: a broken session is not tried for ever, although
\* daemon and submitters overwrite each other's count, as long as the count can be
\* written in the end (Exhausted, NotifyAndRecord).
FailingEnds == <>[][~KnockFails("daemon")]_vars
=============================================================================
