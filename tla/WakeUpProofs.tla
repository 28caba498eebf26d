---------------------------- MODULE WakeUpProofs ----------------------------
(***************************************************************************)
(* Two properties of WakeUp, for any messages, order, limit and bounds:    *)
(* the type invariant, whose hard part is that whoever is about to wake    *)
(* the role does so about a message the role has; and that its boxes keep  *)
(* the contract of the handoff subsystem.                                  *)
(***************************************************************************)
EXTENDS WakeUp, FiniteSetTheorems, TLAPS

Pcs == {"off", "idle", "deliver", "reconcile", "look", "judge", "new", "submitted",
        "over", "read", "knock", "save"}
Waking == {"read", "knock", "save"}

-----------------------------------------------------------------------------
(* What the operators return.                                              *)

\* The first of some messages is one of them.
LEMMA TopIn ==
    ASSUME NEW S \in SUBSET Messages, S # {}
    PROVE  Top(S) \in S
  BY AboveSorts DEF Top, Messages

LEMMA NamesDiffer ==
    /\ None \notin Messages /\ Tasks \subseteq Messages /\ Sends \subseteq Messages
    /\ "daemon" \in Callers /\ Tasks \subseteq Callers /\ "daemon" \notin Tasks
  BY KindsDiffer DEF None, Messages, Callers

LEMMA NoNoteType == NoNote \in Notes
  BY AttemptsPositive DEF NoNote, Notes

\* An attempt is counted for the message it is about.
LEMMA AttemptType ==
    ASSUME NEW s \in Notes, NEW id \in Messages
    PROVE  Attempt(s, id) \in Notes /\ Attempt(s, id).id = id
  <1> DEFINE before == IF s.id = id THEN s.attempts ELSE 0
             count == IF before < MaxAttempts THEN before + 1 ELSE MaxAttempts
  <1>1. before \in 0..MaxAttempts
    BY AttemptsPositive DEF Notes
  <1>2. count \in 0..MaxAttempts /\ count # 0
    BY <1>1, AttemptsPositive
  <1>3. Attempt(s, id) = [id |-> id, status |-> "failed", due |-> FALSE, attempts |-> count]
    BY DEF Attempt
  <1> HIDE DEF count
  <1>4. id # None
    BY NamesDiffer
  <1> QED
    BY <1>2, <1>3, <1>4 DEF Notes

\* A note about a message stays one when its outcome or its age changes.
LEMMA NoteChanges ==
    ASSUME NEW s \in Notes
    PROVE  /\ [s EXCEPT !.due = TRUE] \in Notes
           /\ s.id # None =>
                \A status \in {"sent", "failed"} :
                    [s EXCEPT !.status = status] \in Notes /\ [s EXCEPT !.status = status].id = s.id
  BY DEF Notes

LEMMA ProcessType ==
    ASSUME NEW pc \in Pcs
    PROVE  Process(pc) \in Processes /\ Process(pc).pc = pc
  BY NoNoteType DEF Process, Processes, Pcs
-----------------------------------------------------------------------------
(* The inductive invariant.                                                *)

BoxesType ==
    /\ outbox \subseteq Sends
    /\ inbox \subseteq Messages /\ current \subseteq Messages /\ finished \subseteq Messages
    /\ current = {} \/ \E m \in Messages : current = {m}
StateType ==
    /\ note \in Notes
    /\ clock \in {"unset", "recent", "due"}
    /\ woken \in Sends \cup {None}
    /\ session \in BOOLEAN /\ heard \in BOOLEAN
    /\ crashes \in 0..MaxCrashes /\ outages \in 0..MaxOutages
ProcType == proc \in [Callers -> Processes]

\* What the daemon delivered in this pass is there, and so is what was submitted; who is
\* waking the role knows what about and how to go on.
About ==
    /\ woken # None => woken \in Known
    /\ \A m \in Tasks : proc[m].pc = "submitted" => m \in Known
    /\ \A x \in Callers :
         /\ proc[x].pc \in Waking => proc[x].id \in Known /\ proc[x].next # None
         /\ proc[x].pc \in {"knock", "save"} => proc[x].seen.id # None

Inv == BoxesType /\ StateType /\ ProcType /\ About

\* What is known stays known.
LEMMA KnownGrows ==
    ASSUME BoxesType, [Next]_vars
    PROVE  Known \subseteq Known'
  <1>1. CASE Accept \/ Complete
    <2>1. inbox # {} => Top(inbox) \in inbox
      BY TopIn DEF BoxesType
    <2> QED
      BY <1>1, <2>1 DEF Accept, Complete, Known
  <1>2. CASE UNCHANGED <<inbox, current, finished>>
    BY <1>2 DEF Known
  <1>3. ASSUME NEW m \in Messages, Deliver(m) \/ Submit(m) PROVE Known \subseteq Known'
    BY <1>3 DEF Deliver, Submit, Known
  <1>4. CASE UNCHANGED vars
    BY <1>2, <1>4 DEF vars, boxes
  <1>5. CASE DaemonStep
    BY <1>2, <1>3, <1>5
       DEF DaemonStep, DaemonStarts, ScanBegins, Retire, ScanWakes, Reconcile, LookAtCurrent,
           LookAtInbox, ReadNote, KnockFails, KnockUnheard, KnockHeard, Save, boxes, Messages
  <1>6. ASSUME NEW m \in Tasks, SubmitStep(m) PROVE Known \subseteq Known'
    BY <1>2, <1>3, <1>6
       DEF SubmitStep, WakeRole, ReadNote, KnockFails, KnockUnheard, KnockHeard, Save, boxes, Messages
  <1>7. CASE \/ SessionUp \/ SessionDown \/ ClockRuns \/ NoteAges
             \/ \E x \in Callers : SaveFails(x) \/ Crash(x)
    BY <1>2, <1>7 DEF SessionUp, SessionDown, ClockRuns, NoteAges, SaveFails, Crash, boxes
  <1> QED
    BY <1>1, <1>4, <1>5, <1>6, <1>7 DEF Next

\* A caller that moves on, and nobody else.
Moves(x, p) == proc' = [proc EXCEPT ![x] = p]

\* A caller may move to p.
Fits(x, p) ==
    /\ p \in Processes
    /\ x \in Tasks /\ p.pc = "submitted" => x \in Known'
    /\ p.pc \in Waking => p.id \in Known' /\ p.next # None
    /\ p.pc \in {"knock", "save"} => p.seen.id # None

LEMMA Moved ==
    ASSUME ProcType, About, Known \subseteq Known', NEW x \in Callers, NEW p, Moves(x, p), Fits(x, p),
           woken' # None => woken' \in Known'
    PROVE  ProcType' /\ About'
  <1>1. ProcType'
    BY DEF ProcType, Moves, Fits
  <1>2. \A y \in Callers : proc'[y] = IF y = x THEN p ELSE proc[y]
    BY DEF ProcType, Moves
  <1>3. Tasks \subseteq Callers
    BY NamesDiffer
  <1> QED
    BY <1>1, <1>2, <1>3 DEF About, Fits

LEMMA Unmoved ==
    ASSUME ProcType, About, Known \subseteq Known', UNCHANGED proc,
           woken' # None => woken' \in Known'
    PROVE  ProcType' /\ About'
  BY DEF ProcType, About

\* A caller that goes somewhere else than to wake the role.
LEMMA GoesOn ==
    ASSUME ProcType, About, Known \subseteq Known', NEW x \in Callers, NEW pc \in Pcs \ Waking,
           Goes(x, pc), x \in Tasks /\ pc = "submitted" => x \in Known',
           woken' # None => woken' \in Known'
    PROVE  ProcType' /\ About'
  <1>1. Process(pc) \in Processes /\ Process(pc).pc = pc
    BY ProcessType
  <1>2. Fits(x, Process(pc))
    BY <1>1 DEF Fits, Waking
  <1> QED
    BY <1>2, Moved DEF Goes, Moves

LEMMA Waked ==
    ASSUME ProcType, About, Known \subseteq Known', BoxesType', NEW x \in Callers, NEW id \in Known',
           NEW next \in {"reconcile", "idle", "over"}, Notifies(x, id, next), UNCHANGED woken
    PROVE  ProcType' /\ About'
  <1> DEFINE p == [pc |-> "read", id |-> id, seen |-> NoNote, next |-> next]
  <1>1. id \in Messages
    BY DEF BoxesType, Known
  <1>2. p \in Processes
    BY <1>1, NoNoteType DEF Processes
  <1>3. Fits(x, p)
    BY <1>2 DEF Fits, Waking, None
  <1>4. Moves(x, p)
    BY DEF Notifies, Moves
  <1> HIDE DEF p
  <1> QED
    BY <1>3, <1>4, Moved DEF About

-----------------------------------------------------------------------------
(* One step at a time.                                                     *)

LEMMA BoxesStep ==
    ASSUME BoxesType, [Next]_vars
    PROVE  BoxesType'
  <1>1. inbox # {} => Top(inbox) \in inbox /\ Top(inbox) \in Messages
    BY TopIn DEF BoxesType
  <1>2. CASE Accept
    <2>1. CASE current = {} /\ inbox # {}
      <3>1. current' = {Top(inbox)} /\ inbox' \subseteq inbox /\ UNCHANGED <<outbox, finished>>
        BY <1>2, <2>1 DEF Accept
      <3> QED
        BY <1>1, <2>1, <3>1 DEF BoxesType
    <2>2. CASE ~(current = {} /\ inbox # {})
      BY <1>2, <2>2 DEF Accept, BoxesType
    <2> QED
      BY <2>1, <2>2
  <1>3. CASE Complete
    <2>1. /\ finished' = finished \cup current /\ inbox' \subseteq inbox /\ UNCHANGED outbox
          /\ current' = IF inbox = {} THEN {} ELSE {Top(inbox)}
      BY <1>3 DEF Complete
    <2>2. current' = {} \/ \E m \in Messages : current' = {m}
      BY <1>1, <2>1
    <2> QED
      BY <2>1, <2>2 DEF BoxesType
  <1>4. CASE UNCHANGED boxes
    BY <1>4 DEF BoxesType, boxes
  <1>5. ASSUME NEW m \in Sends, Deliver(m) \/ Retire(m) PROVE BoxesType'
    BY <1>5 DEF Deliver, Retire, BoxesType, Messages
  <1>6. ASSUME NEW m \in Tasks, Submit(m) PROVE BoxesType'
    BY <1>6 DEF Submit, BoxesType, Messages
  <1>7. CASE UNCHANGED vars
    BY <1>4, <1>7 DEF vars, boxes
  <1>8. CASE DaemonStep
    BY <1>4, <1>5, <1>8
       DEF DaemonStep, DaemonStarts, ScanBegins, ScanWakes, Reconcile, LookAtCurrent,
           LookAtInbox, ReadNote, KnockFails, KnockUnheard, KnockHeard, Save
  <1>9. ASSUME NEW m \in Tasks, SubmitStep(m) PROVE BoxesType'
    BY <1>4, <1>6, <1>9
       DEF SubmitStep, WakeRole, ReadNote, KnockFails, KnockUnheard, KnockHeard, Save
  <1>10. CASE \/ SessionUp \/ SessionDown \/ ClockRuns \/ NoteAges
              \/ \E x \in Callers : SaveFails(x) \/ Crash(x)
    BY <1>4, <1>10 DEF SessionUp, SessionDown, ClockRuns, NoteAges, SaveFails, Crash
  <1> QED
    BY <1>2, <1>3, <1>7, <1>8, <1>9, <1>10 DEF Next

\* Whoever wakes the role, whatever it is that becomes of it.
LEMMA WakingStep ==
    ASSUME Inv, NEW x \in Callers, Known \subseteq Known',
           \/ ReadNote(x) \/ KnockFails(x) \/ KnockUnheard(x) \/ KnockHeard(x)
           \/ Save(x) \/ SaveFails(x)
    PROVE  StateType' /\ ProcType' /\ About'
  <1>0. /\ proc[x] \in Processes /\ proc[x].seen \in Notes
        /\ woken # None => woken \in Known'
    BY DEF Inv, ProcType, About, Processes
  <1>1. proc[x].pc \in Waking => /\ proc[x].id \in Known /\ proc[x].id \in Known' /\ proc[x].id \in Messages
                                 /\ proc[x].next \in {"reconcile", "idle", "over"}
    BY <1>0 DEF Inv, About, Processes, BoxesType, Known
  <1>2. proc[x].pc \in {"knock", "save"} => proc[x].seen.id # None
    BY DEF Inv, About
  <1>3. CASE ReadNote(x)
    <2>1. PICK s \in Notes : proc' = [proc EXCEPT ![x].pc = "knock", ![x].seen = Attempt(s, proc[x].id)]
      BY <1>3, NoNoteType DEF ReadNote, ReadBy, Inv, StateType
    <2>2. proc[x].pc = "read" /\ UNCHANGED <<note, clock, woken, agent, crashes, outages>>
      BY <1>3 DEF ReadNote, At
    <2>3. Attempt(s, proc[x].id) \in Notes /\ Attempt(s, proc[x].id).id = proc[x].id
      BY <1>1, <2>2, AttemptType DEF Waking
    <2> DEFINE p == [proc[x] EXCEPT !.pc = "knock", !.seen = Attempt(s, proc[x].id)]
    <2>4. Moves(x, p)
      BY <2>1 DEF Moves
    <2>5. p \in Processes /\ p.pc = "knock" /\ p.id = proc[x].id /\ p.next = proc[x].next
          /\ p.seen.id = proc[x].id
      BY <1>0, <2>3 DEF Processes
    <2> HIDE DEF p
    <2>6. proc[x].id # None /\ proc[x].next # None
      BY <1>1, <2>2, NamesDiffer DEF Waking, None
    <2>7. Fits(x, p)
      BY <1>1, <2>2, <2>5, <2>6 DEF Fits, Waking
    <2>8. ProcType' /\ About'
      BY <1>0, <2>2, <2>4, <2>7, Moved DEF Inv
    <2> QED
      BY <2>2, <2>8 DEF Inv, StateType, agent
  <1>4. CASE KnockFails(x) \/ KnockUnheard(x) \/ KnockHeard(x)
    <2>1. PICK status \in {"sent", "failed"} :
            proc' = [proc EXCEPT ![x].pc = "save", ![x].seen.status = status]
      BY <1>4 DEF KnockFails, KnockUnheard, KnockHeard, Knocked
    <2>2. /\ proc[x].pc = "knock" /\ UNCHANGED <<note, clock, woken, session, crashes, outages>>
          /\ heard' \in {heard, TRUE}
      BY <1>4 DEF KnockFails, KnockUnheard, KnockHeard, At, agent
    <2> DEFINE seen == [proc[x].seen EXCEPT !.status = status]
    <2>3. seen \in Notes /\ seen.id # None
      BY <1>0, <1>2, <2>2, NoteChanges
    <2> DEFINE p == [proc[x] EXCEPT !.pc = "save", !.seen = seen]
    <2>4. Moves(x, p)
      BY <2>1 DEF Moves
    <2> HIDE DEF seen
    <2>5. p \in Processes /\ p.pc = "save" /\ p.id = proc[x].id /\ p.next = proc[x].next
          /\ p.seen = seen
      BY <1>0, <2>3 DEF Processes
    <2> HIDE DEF p
    <2>6. proc[x].next # None
      BY <1>1, <2>2 DEF Waking, None
    <2>7. Fits(x, p)
      BY <1>1, <2>2, <2>3, <2>5, <2>6 DEF Fits, Waking
    <2>8. ProcType' /\ About'
      BY <1>0, <2>2, <2>4, <2>7, Moved DEF Inv
    <2> QED
      BY <2>2, <2>8 DEF Inv, StateType
  <1>5. CASE Save(x)
    <2>1. /\ proc[x].pc = "save" /\ note' = proc[x].seen /\ Goes(x, proc[x].next)
          /\ UNCHANGED <<clock, woken, agent, crashes, outages>>
      BY <1>5 DEF Save, At
    <2>2. proc[x].next \in Pcs \ Waking /\ proc[x].next # "submitted"
      BY <1>1, <2>1 DEF Pcs, Waking
    <2>3. ProcType' /\ About'
      BY <1>0, <2>1, <2>2, GoesOn DEF Inv
    <2> QED
      BY <1>0, <2>1, <2>3 DEF Inv, StateType, agent
  <1>6. CASE SaveFails(x)
    <2>1. /\ proc[x].pc = "save" /\ note' \in {note, NoNote} /\ Goes(x, proc[x].next)
          /\ crashes' = crashes + 1 /\ crashes < MaxCrashes
          /\ UNCHANGED <<clock, woken, agent, outages>>
      BY <1>6 DEF SaveFails, At
    <2>2. proc[x].next \in Pcs \ Waking /\ proc[x].next # "submitted"
      BY <1>1, <2>1 DEF Pcs, Waking
    <2>3. ProcType' /\ About'
      BY <1>0, <2>1, <2>2, GoesOn DEF Inv
    <2>4. crashes' \in 0..MaxCrashes
      BY <2>1, BoundsAreNumbers DEF Inv, StateType
    <2> QED
      BY <2>1, <2>3, <2>4, NoNoteType DEF Inv, StateType, agent
  <1> QED
    BY <1>3, <1>4, <1>5, <1>6

\* The daemon's own steps: a pass over the outboxes, then a look at the role.
LEMMA DaemonOwnStep ==
    ASSUME Inv, BoxesType', Known \subseteq Known',
           \/ DaemonStarts \/ ScanBegins \/ (\E m \in Sends : Deliver(m) \/ Retire(m)) \/ ScanWakes
           \/ Reconcile \/ LookAtCurrent \/ LookAtInbox
    PROVE  StateType' /\ ProcType' /\ About'
  <1>0. /\ "daemon" \in Callers /\ "daemon" \notin Tasks
        /\ woken # None => woken \in Known'
        /\ ProcType /\ About /\ StateType /\ NoNote \in Notes
    BY NamesDiffer, NoNoteType DEF Inv, About
  <1>1. CASE DaemonStarts
    <2>1. Goes("daemon", "idle") /\ UNCHANGED woken
      BY <1>1 DEF DaemonStarts
    <2>2. ProcType' /\ About'
      BY <1>0, <2>1, GoesOn DEF Pcs, Waking
    <2> QED
      BY <1>0, <1>1, <2>2 DEF DaemonStarts, StateType, agent
  <1>2. CASE ScanBegins
    <2>1. Goes("daemon", "deliver") /\ woken' = None
      BY <1>2 DEF ScanBegins
    <2>2. ProcType' /\ About'
      BY <1>0, <2>1, GoesOn DEF Pcs, Waking
    <2> QED
      BY <1>0, <1>2, <2>2 DEF ScanBegins, StateType, agent
  <1>3. ASSUME NEW m \in Sends, Deliver(m) PROVE StateType' /\ ProcType' /\ About'
    <2>1. inbox' = inbox \cup {m} /\ woken' = m /\ UNCHANGED <<proc, note, clock, agent, crashes, outages>>
      BY <1>3 DEF Deliver
    <2>2. ProcType' /\ About'
      BY <1>0, <2>1, Unmoved DEF Known
    <2> QED
      BY <1>0, <2>1, <2>2 DEF StateType, agent
  <1>4. ASSUME NEW m \in Sends, Retire(m) PROVE StateType' /\ ProcType' /\ About'
    <2>1. UNCHANGED <<proc, note, clock, woken, agent, crashes, outages>>
      BY <1>4 DEF Retire
    <2>2. ProcType' /\ About'
      BY <1>0, <2>1, Unmoved
    <2> QED
      BY <1>0, <2>1, <2>2 DEF StateType, agent
  <1>5. CASE ScanWakes
    <2>1. UNCHANGED <<note, clock, woken, agent, crashes, outages>>
      BY <1>5 DEF ScanWakes
    <2>2. CASE woken = None
      <3>1. Goes("daemon", "reconcile")
        BY <1>5, <2>2 DEF ScanWakes
      <3> QED
        BY <1>0, <2>1, <3>1, GoesOn DEF Pcs, Waking, StateType, agent
    <2>3. CASE woken # None
      <3>1. Notifies("daemon", woken, "reconcile") /\ woken \in Known'
        BY <1>0, <1>5, <2>3 DEF ScanWakes
      <3>2. ProcType' /\ About'
        BY <1>0, <2>1, <3>1, Waked
      <3> QED
        BY <1>0, <2>1, <3>2 DEF StateType, agent
    <2> QED
      BY <2>2, <2>3
  <1>6. CASE Reconcile
    <2>1. PICK pc \in {"look", "idle"} : Goes("daemon", pc)
      BY <1>6 DEF Reconcile
    <2>2. clock' \in {"unset", "recent", "due"} /\ UNCHANGED <<note, woken, agent, crashes, outages>>
      BY <1>0, <1>6 DEF Reconcile, StateType
    <2>3. ProcType' /\ About'
      BY <1>0, <2>1, <2>2, GoesOn DEF Pcs, Waking
    <2> QED
      BY <1>0, <2>2, <2>3 DEF StateType, agent
  <1>7. CASE LookAtCurrent
    <2>1. PICK pc \in {"idle", "judge"} : Goes("daemon", pc)
      BY <1>7 DEF LookAtCurrent
    <2>2. note' \in {note, NoNote} /\ UNCHANGED <<clock, woken, agent, crashes, outages>>
      BY <1>7 DEF LookAtCurrent
    <2>3. ProcType' /\ About'
      BY <1>0, <2>1, <2>2, GoesOn DEF Pcs, Waking
    <2> QED
      BY <1>0, <2>2, <2>3 DEF StateType, agent
  <1>8. CASE LookAtInbox
    <2>1. note' \in {note, NoNote} /\ UNCHANGED <<boxes, clock, woken, agent, crashes, outages>>
      BY <1>8 DEF LookAtInbox
    <2>2. ProcType' /\ About'
      <3>1. CASE Goes("daemon", "idle")
        BY <1>0, <2>1, <3>1, GoesOn DEF Pcs, Waking
      <3>2. CASE inbox # {} /\ Notifies("daemon", Top(inbox), "idle")
        <4>1. Top(inbox) \in Known'
          BY <2>1, <3>2, TopIn DEF Inv, BoxesType, Known, boxes
        <4> QED
          BY <1>0, <2>1, <3>2, <4>1, Waked
      <3> QED
        BY <1>8, <3>1, <3>2 DEF LookAtInbox
    <2> QED
      BY <1>0, <2>1, <2>2 DEF StateType, agent
  <1> QED
    BY <1>1, <1>2, <1>3, <1>4, <1>5, <1>6, <1>7, <1>8

LEMMA SubmitOwnStep ==
    ASSUME Inv, BoxesType', Known \subseteq Known', NEW m \in Tasks, Submit(m) \/ WakeRole(m)
    PROVE  StateType' /\ ProcType' /\ About'
  <1>0. /\ m \in Callers
        /\ woken # None => woken \in Known'
        /\ ProcType /\ About /\ StateType
    BY NamesDiffer DEF Inv, About
  <1>1. UNCHANGED <<note, clock, woken, agent, crashes, outages>>
    BY DEF Submit, WakeRole
  <1>2. ProcType' /\ About'
    <2>1. CASE Submit(m)
      <3>1. Goes(m, "submitted") /\ m \in Known'
        BY <2>1 DEF Submit, Known
      <3> QED
        BY <1>0, <1>1, <3>1, GoesOn DEF Pcs, Waking
    <2>2. CASE WakeRole(m) /\ session
      <3>1. Notifies(m, m, "over") /\ m \in Known'
        BY <1>0, <2>2 DEF WakeRole, At, About
      <3> QED
        BY <1>0, <1>1, <3>1, Waked
    <2>3. CASE WakeRole(m) /\ ~session
      <3>1. Goes(m, "over")
        BY <2>3 DEF WakeRole
      <3> QED
        BY <1>0, <1>1, <3>1, GoesOn DEF Pcs, Waking
    <2> QED
      BY <2>1, <2>2, <2>3
  <1> QED
    BY <1>0, <1>1, <1>2 DEF StateType, agent

\* The agent, time and failures.
LEMMA OtherStep ==
    ASSUME Inv, BoxesType', Known \subseteq Known',
           \/ Accept \/ Complete \/ SessionUp \/ SessionDown \/ ClockRuns \/ NoteAges
           \/ (\E x \in Callers : Crash(x)) \/ UNCHANGED vars
    PROVE  StateType' /\ ProcType' /\ About'
  <1>0. /\ woken # None => woken \in Known'
        /\ ProcType /\ About /\ StateType /\ NoNote \in Notes
    BY NoNoteType DEF Inv, About
  <1>1. UNCHANGED proc => ProcType' /\ About'
    <2>1. UNCHANGED woken
      BY DEF Accept, Complete, SessionUp, SessionDown, ClockRuns, NoteAges, Crash, vars
    <2> QED
      BY <1>0, <2>1, Unmoved
  <1>2. CASE Accept \/ Complete \/ SessionUp \/ ClockRuns \/ UNCHANGED vars
    BY <1>0, <1>1, <1>2 DEF Accept, Complete, SessionUp, ClockRuns, vars, StateType, agent
  <1>3. CASE SessionDown
    <2>1. outages + 1 \in 0..MaxOutages
      BY <1>0, <1>3, BoundsAreNumbers DEF SessionDown, StateType
    <2> QED
      BY <1>0, <1>1, <1>3, <2>1 DEF SessionDown, StateType
  <1>4. CASE NoteAges
    BY <1>0, <1>1, <1>4, NoteChanges DEF NoteAges, StateType, agent
  <1>5. ASSUME NEW x \in Callers, Crash(x) PROVE StateType' /\ ProcType' /\ About'
    <2>1. PICK pc \in {"off", "over"} : Goes(x, pc)
      BY <1>5 DEF Crash
    <2>2. /\ note' \in {note, NoNote} /\ crashes' = crashes + 1 /\ crashes < MaxCrashes
          /\ UNCHANGED <<clock, woken, agent, outages>>
      BY <1>5 DEF Crash
    <2>3. ProcType' /\ About'
      BY <1>0, <2>1, <2>2, GoesOn DEF Pcs, Waking
    <2>4. crashes' \in 0..MaxCrashes
      BY <1>0, <2>2, BoundsAreNumbers DEF StateType
    <2> QED
      BY <1>0, <2>2, <2>3, <2>4 DEF StateType, agent
  <1> QED
    BY <1>2, <1>3, <1>4, <1>5

LEMMA InvHolds == Spec => []Inv
  <1>1. Init => Inv
    <2> SUFFICES ASSUME Init PROVE Inv
      OBVIOUS
    <2>1. BoxesType
      BY DEF Init, BoxesType
    <2>2. StateType
      <3>1. 0 \in 0..MaxCrashes /\ 0 \in 0..MaxOutages
        BY BoundsAreNumbers
      <3>2. /\ note = NoNote /\ clock = "unset" /\ woken = None
            /\ session = FALSE /\ heard = FALSE /\ crashes = 0 /\ outages = 0
        BY DEF Init
      <3> QED
        BY <3>1, <3>2, NoNoteType DEF StateType
    <2>3. /\ proc \in [Callers -> Processes]
          /\ \A x \in Callers : proc[x].pc \in {"off", "new"}
      <3>1. \A x \in Callers : Process(IF x = "daemon" THEN "off" ELSE "new") \in Processes
        BY ProcessType DEF Pcs
      <3>2. \A x \in Callers : Process(IF x = "daemon" THEN "off" ELSE "new").pc \in {"off", "new"}
        BY ProcessType DEF Pcs
      <3>3. proc = [x \in Callers |-> Process(IF x = "daemon" THEN "off" ELSE "new")]
        BY DEF Init
      <3> QED
        BY <3>1, <3>2, <3>3
    <2>4. About
      BY <2>3, NamesDiffer DEF Init, About, Waking
    <2> QED
      BY <2>1, <2>2, <2>3, <2>4 DEF Inv, ProcType
  <1>2. Inv /\ [Next]_vars => Inv'
    <2> SUFFICES ASSUME Inv, [Next]_vars PROVE Inv'
      OBVIOUS
    <2>1. BoxesType' /\ Known \subseteq Known'
      BY BoxesStep, KnownGrows DEF Inv
    <2>2. StateType' /\ ProcType' /\ About'
      BY <2>1, DaemonOwnStep, SubmitOwnStep, WakingStep, OtherStep, NamesDiffer
         DEF Next, DaemonStep, SubmitStep
    <2> QED
      BY <2>1, <2>2 DEF Inv
  <1> QED
    BY <1>1, <1>2, PTL DEF Spec

\* Every variable keeps its type, the role works on one message at a time, and whoever
\* is about to wake the role does so about a message that is in its boxes, whatever was
\* lost or killed before (Daemon.Scan, reconcile, wakeRole).
THEOREM TypeCorrect == Spec => []TypeOK
  <1>1. Inv => TypeOK
    <2> SUFFICES ASSUME Inv PROVE TypeOK
      OBVIOUS
    <2>1. Cardinality(current) <= 1
      <3>1. CASE current = {}
        <4>1. Cardinality(current) = 0
          BY <3>1, FS_EmptySet
        <4> QED
          BY <4>1
      <3>2. CASE \E m \in Messages : current = {m}
        <4>1. Cardinality(current) = 1
          BY <3>2, FS_Singleton
        <4> QED
          BY <4>1
      <3> QED
        BY <3>1, <3>2 DEF Inv, BoxesType
    <2> QED
      BY <2>1 DEF Inv, BoxesType, StateType, ProcType, About, Waking, TypeOK
  <1> QED
    BY <1>1, InvHolds, PTL

-----------------------------------------------------------------------------
(* The boxes keep the contract.                                            *)

\* What is yet to be submitted is not there.
Fresh == \A m \in Tasks : proc[m].pc = "new" => m \notin Known

LEMMA FreshStep ==
    ASSUME Inv, Fresh, [Next]_vars
    PROVE  Fresh'
  <1>0. ProcType /\ Tasks \subseteq Callers /\ "daemon" \notin Tasks /\ Tasks \cap Sends = {}
    BY NamesDiffer, KindsDiffer DEF Inv
  <1>1. inbox # {} => Top(inbox) \in inbox
    BY TopIn DEF Inv, BoxesType
  <1>2. /\ Known' \subseteq Known \cup Sends \/ \E k \in Tasks : Submit(k) /\ Known' = Known \cup {k}
    <2>1. CASE Accept \/ Complete
      BY <1>1, <2>1 DEF Accept, Complete, Known
    <2>2. CASE UNCHANGED boxes
      BY <2>2 DEF boxes, Known
    <2>3. ASSUME NEW m \in Sends, Deliver(m) \/ Retire(m) PROVE Known' \subseteq Known \cup Sends
      BY <2>3 DEF Deliver, Retire, Known
    <2>4. ASSUME NEW m \in Tasks, Submit(m) PROVE Known' = Known \cup {m}
      BY <2>4 DEF Submit, Known
    <2>5. CASE \/ DaemonStep
               \/ \E m \in Tasks : WakeRole(m) \/ ReadNote(m) \/ KnockFails(m) \/ KnockUnheard(m)
                                   \/ KnockHeard(m) \/ Save(m)
      BY <2>2, <2>3, <2>5
         DEF DaemonStep, DaemonStarts, ScanBegins, ScanWakes, Reconcile, LookAtCurrent, LookAtInbox,
             WakeRole, ReadNote, KnockFails, KnockUnheard, KnockHeard, Save
    <2>6. CASE \/ SessionUp \/ SessionDown \/ ClockRuns \/ NoteAges
               \/ (\E x \in Callers : SaveFails(x) \/ Crash(x)) \/ UNCHANGED vars
      BY <2>2, <2>6
         DEF SessionUp, SessionDown, ClockRuns, NoteAges, SaveFails, Crash, vars, boxes
    <2> QED
      BY <2>1, <2>4, <2>5, <2>6 DEF Next, SubmitStep
  \* Nobody becomes new.
  <1>3. ASSUME NEW m \in Tasks, proc'[m].pc = "new" PROVE proc[m].pc = "new"
    <2>1. \A x \in Callers, pc \in Pcs \ {"new"} : Goes(x, pc) => proc[m].pc = "new"
      BY <1>0, <1>3 DEF Goes, Process, ProcType
    <2>2. \A x, id, next : Notifies(x, id, next) => proc[m].pc = "new"
      BY <1>0, <1>3 DEF Notifies, ProcType
    <2>3. ASSUME NEW x \in Callers,
                 ReadNote(x) \/ KnockFails(x) \/ KnockUnheard(x) \/ KnockHeard(x)
          PROVE  proc[m].pc = "new"
      <3>1. proc[x] \in Processes /\ proc[m] \in Processes
        BY <1>0 DEF ProcType
      <3>2. \/ \E s : proc' = [proc EXCEPT ![x].pc = "knock", ![x].seen = s]
            \/ \E status : proc' = [proc EXCEPT ![x].pc = "save", ![x].seen.status = status]
        BY <2>3 DEF ReadNote, KnockFails, KnockUnheard, KnockHeard, Knocked
      <3> QED
        BY <1>0, <1>3, <3>1, <3>2 DEF ProcType, Processes
    <2>4. ASSUME NEW x \in Callers, Save(x) \/ SaveFails(x) PROVE proc[m].pc = "new"
      <3>1. proc[x].next \in {"reconcile", "idle", "over"} /\ Goes(x, proc[x].next)
        BY <2>4 DEF Inv, About, Waking, ProcType, Processes, Save, SaveFails, At
      <3> QED
        BY <2>1, <3>1 DEF Pcs
    <2>5. CASE UNCHANGED proc
      BY <1>3, <2>5
    <2>6. ASSUME NEW x \in Callers, Crash(x) PROVE proc[m].pc = "new"
      BY <2>1, <2>6 DEF Crash, Pcs
    <2>7. CASE DaemonStarts \/ ScanBegins \/ ScanWakes \/ Reconcile \/ LookAtCurrent \/ LookAtInbox
      BY <2>1, <2>2, <2>7, NamesDiffer
         DEF DaemonStarts, ScanBegins, ScanWakes, Reconcile, LookAtCurrent, LookAtInbox, Pcs
    <2>8. ASSUME NEW k \in Tasks, Submit(k) \/ WakeRole(k) PROVE proc[m].pc = "new"
      BY <1>0, <2>1, <2>2, <2>8 DEF Submit, WakeRole, Pcs
    <2>9. CASE \/ Accept \/ Complete \/ SessionUp \/ SessionDown \/ ClockRuns \/ NoteAges
               \/ (\E k \in Sends : Deliver(k) \/ Retire(k)) \/ UNCHANGED vars
      BY <2>5, <2>9 DEF Accept, Complete, SessionUp, SessionDown, ClockRuns, NoteAges, Deliver,
                        Retire, vars
    <2> QED
      BY <1>0, <2>3, <2>4, <2>6, <2>7, <2>8, <2>9, NamesDiffer DEF Next, DaemonStep, SubmitStep
  <1>4. ASSUME NEW m \in Tasks, proc'[m].pc = "new" PROVE m \notin Known'
    <2>1. m \notin Known
      BY <1>3, <1>4 DEF Fresh
    <2>2. ASSUME Submit(m) PROVE FALSE
      <3>1. proc'[m].pc = "submitted"
        BY <1>0, <2>2 DEF Submit, Goes, Process, ProcType
      <3> QED
        BY <1>4, <3>1
    <2> QED
      BY <1>0, <1>2, <2>1, <2>2
  <1> QED
    BY <1>4 DEF Fresh

LEMMA FreshHolds == Spec => []Fresh
  <1>1. Init => Fresh
    BY DEF Init, Fresh, Known
  <1>2. Inv /\ Fresh /\ [Next]_vars => Fresh'
    BY FreshStep
  <1> QED
    BY <1>1, <1>2, InvHolds, PTL DEF Spec

Role == "role"
Taken == current \cup finished

\* The contract with its parameters filled in.
LEMMA ContractIs ==
    /\ \A m : m \in Messages /\ m \notin Known /\ Known' = Known \cup {m} /\ UNCHANGED outbox
              /\ inbox' = inbox \cup {m} /\ UNCHANGED Taken
                => Contract!Submit(m, Role)
    /\ \A m : m \in inbox /\ UNCHANGED <<Known, outbox>>
              /\ inbox' = inbox \ {m} /\ Taken' = Taken \cup {m}
                => Contract!Take(m, Role)
    /\ \A m \in Messages : m \in Known \ (Sends \ outbox) /\ UNCHANGED <<Known, inbox, Taken>>
              /\ Sends \ outbox' = (Sends \ outbox) \cup {m}
                => Contract!Settle(m)
  <1>1. ASSUME NEW m \in Messages, m \notin Known, Known' = Known \cup {m}, UNCHANGED outbox,
               inbox' = inbox \cup {m}, UNCHANGED Taken
        PROVE  Contract!Submit(m, Role)
    BY <1>1 DEF Contract!Submit, Role, Taken
  <1>2. ASSUME NEW m \in inbox, UNCHANGED <<Known, outbox>>,
               inbox' = inbox \ {m}, Taken' = Taken \cup {m}
        PROVE  Contract!Take(m, Role)
    BY <1>2 DEF Contract!Take, Role, Taken
  <1>3. ASSUME NEW m \in Messages, m \in Known \ (Sends \ outbox), UNCHANGED <<Known, inbox, Taken>>,
               Sends \ outbox' = (Sends \ outbox) \cup {m}
        PROVE  Contract!Settle(m)
    BY <1>3 DEF Contract!Settle, Contract!Given, Role, Taken, Known
  <1> QED
    BY <1>1, <1>2, <1>3

LEMMA ContractRests ==
    ASSUME UNCHANGED <<outbox, inbox, Taken>>
    PROVE  UNCHANGED Contract!vars
  <1>1. Known' = Known
    BY DEF Known, Taken
  <1> QED
    BY <1>1 DEF Contract!vars, Taken

\* A step of the boxes is a step of the contract, or nothing to it.
LEMMA ContractStep ==
    ASSUME Inv, Fresh, [Next]_vars
    PROVE  Contract!Next \/ UNCHANGED Contract!vars
  <1>0. BoxesType /\ (inbox # {} => Top(inbox) \in inbox)
    BY TopIn DEF Inv, BoxesType
  <1>1. \A m \in Messages :
            Contract!Submit(m, Role) \/ Contract!Take(m, Role) \/ Contract!Settle(m) => Contract!Next
    BY DEF Contract!Next, Role
  <1>2. CASE UNCHANGED <<outbox, inbox, current, finished>>
    BY <1>2, ContractRests DEF Taken
  <1>3. ASSUME NEW m \in Messages, m \notin Known, inbox' = inbox \cup {m},
               UNCHANGED <<outbox, current, finished>>
        PROVE  Contract!Next
    <2>1. Known' = Known \cup {m} /\ UNCHANGED Taken
      BY <1>3 DEF Known, Taken
    <2> QED
      BY <1>1, <1>3, <2>1, ContractIs
  <1>4. ASSUME NEW m \in Sends, Deliver(m) PROVE Contract!Next
    BY <1>3, <1>4 DEF Deliver, Messages
  <1>5. ASSUME NEW m \in Tasks, Submit(m) PROVE Contract!Next
    BY <1>3, <1>5 DEF Submit, At, Fresh, Messages
  <1>6. ASSUME NEW m \in Sends, Retire(m) PROVE Contract!Next
    <2>1. /\ m \in Messages /\ m \in Known \ (Sends \ outbox) /\ UNCHANGED <<Known, inbox, Taken>>
          /\ Sends \ outbox' = (Sends \ outbox) \cup {m}
      BY <1>6 DEF Retire, Known, Taken, Messages
    <2> QED
      BY <1>1, <2>1, ContractIs
  <1>7. ASSUME inbox # {}, inbox' = inbox \ {Top(inbox)}, Taken' = Taken \cup {Top(inbox)},
               UNCHANGED outbox
        PROVE  Contract!Next
    <2>1. Top(inbox) \in inbox /\ Top(inbox) \in Messages /\ UNCHANGED Known
      BY <1>0, <1>7 DEF BoxesType, Known, Taken
    <2> QED
      BY <1>1, <1>7, <2>1, ContractIs
  <1>8. CASE Accept
    <2>1. CASE current = {} /\ inbox # {}
      BY <1>7, <1>8, <2>1 DEF Accept, Taken
    <2> QED
      BY <1>2, <1>8, <2>1 DEF Accept
  <1>9. CASE Complete
    <2>1. CASE inbox # {}
      BY <1>7, <1>9, <2>1 DEF Complete, Taken
    <2>2. CASE inbox = {}
      <3>1. UNCHANGED <<outbox, inbox, Taken>>
        BY <1>9, <2>2 DEF Complete, Taken
      <3> QED
        BY <3>1, ContractRests
    <2> QED
      BY <2>1, <2>2
  <1>10. CASE DaemonStep
    BY <1>2, <1>4, <1>6, <1>10
       DEF DaemonStep, DaemonStarts, ScanBegins, ScanWakes, Reconcile, LookAtCurrent, LookAtInbox,
           ReadNote, KnockFails, KnockUnheard, KnockHeard, Save, boxes
  <1>11. ASSUME NEW m \in Tasks, SubmitStep(m) PROVE Contract!Next \/ UNCHANGED Contract!vars
    BY <1>2, <1>5, <1>11
       DEF SubmitStep, WakeRole, ReadNote, KnockFails, KnockUnheard, KnockHeard, Save, boxes
  <1>12. CASE \/ SessionUp \/ SessionDown \/ ClockRuns \/ NoteAges
              \/ (\E x \in Callers : SaveFails(x) \/ Crash(x)) \/ UNCHANGED vars
    BY <1>2, <1>12
       DEF SessionUp, SessionDown, ClockRuns, NoteAges, SaveFails, Crash, vars, boxes
  <1> QED
    BY <1>8, <1>9, <1>10, <1>11, <1>12 DEF Next

\* What the daemon delivers, over and over when it is killed before it retires the source,
\* and what the role takes up on a wake-up or after its last work, keeps the contract:
\* a message is given once and taken once (Daemon.Scan, DeliverTo, Lifecycle.Ready, Done).
THEOREM WakeUpKeepsContract == Spec => KeepsContract
  <1>1. Init => Contract!Init
    BY DEF Init, Contract!Init, Known
  <1>2. Inv /\ Fresh /\ [Next]_vars => [Contract!Next]_(Contract!vars)
    BY ContractStep
  <1> QED
    BY <1>1, <1>2, InvHolds, FreshHolds, PTL DEF Spec, KeepsContract, Contract!Spec
=============================================================================
