------------------------- MODULE HandoffStoreProofs -------------------------
(***************************************************************************)
(* Every variable of Handoff keeps its type; and whatever process takes a  *)
(* step and whatever it was doing, the step changes the store by one of    *)
(* the renames of HandoffStore, or not at all.  That is StoreEffect; a     *)
(* message has one source file and no file is lost because of it alone,    *)
(* and what integrate remembers of current/ is there or finished.          *)
(***************************************************************************)
EXTENDS Handoff, TLAPS

USE DEF ByDaemon, ByCommand, ByRepair, Remember, repairVars

-----------------------------------------------------------------------------
(* Type correctness.                                                       *)

\* A fault stays within the bound.
LEMMA FaultType ==
    ASSUME faults \in 0 .. MaxFaults, Fault
    PROVE  faults' \in 0 .. MaxFaults
  BY MaxFaultsAssumption DEF Fault

\* The empty store and the idle processes have their types.
LEMMA TypeInit == Init => TypeOK
  BY AttemptsAssumption, MaxFaultsAssumption, RetriesAssumption
  DEF Init, TypeOK, StoreInit, DaemonInit, PassInit, LifecycleInit,
      StoreTypeOK, DaemonTypeOK, LifecycleTypeOK, DaemonStates, Looking,
      ShellStates

\* One case per action of the daemon.
LEMMA TypeDaemon == ASSUME TypeOK, DaemonNext PROVE TypeOK'
  <1> USE DEF TypeOK, StoreTypeOK, DaemonTypeOK, LifecycleTypeOK, DaemonStates,
              Looking, storeVars, sourceBoxes, copyBoxes, passVars,
              lifecycleVars, shellVars
  <1>1. CASE ByDaemon(DaemonStart)
    BY <1>1 DEF DaemonStart
  <1>2. CASE ByDaemon(DaemonStop)
    BY <1>2 DEF DaemonStop
  <1>3. CASE ByDaemon(DaemonCrash)
    BY <1>3, FaultType, AttemptsAssumption DEF DaemonCrash
  <1>4. CASE ByDaemon(ScanBegin)
    BY <1>4 DEF ScanBegin
  <1>5. CASE ByDaemon(ScanEnd)
    BY <1>5 DEF ScanEnd
  <1>6. CASE ByDaemon(RoleEnd)
    BY <1>6 DEF RoleEnd
  <1>7. CASE ByDaemon(LookInbox)
    BY <1>7, AttemptsAssumption DEF LookInbox, Look, EndDest
  <1>8. CASE ByDaemon(LookCurrent)
    BY <1>8, AttemptsAssumption DEF LookCurrent, Look, EndDest
  <1>9. CASE ByDaemon(LookCompleted)
    BY <1>9, AttemptsAssumption DEF LookCompleted, Look, EndDest
  <1>10. CASE ByDaemon(WriteCopy)
    BY <1>10, AttemptsAssumption DEF WriteCopy, WriteInbox, EndDest
  <1>11. CASE ByDaemon(DeliverError)
    <2>1. faults' \in 0 .. MaxFaults
      BY <1>11, FaultType DEF DeliverError
    <2>2. attempt < DeliveryAttempts => attempt + 1 \in 1 .. DeliveryAttempts
      BY AttemptsAssumption
    <2>3. 1 \in 1 .. DeliveryAttempts
      BY AttemptsAssumption
    <2> QED
      BY <1>11, <2>1, <2>2, <2>3 DEF DeliverError, EndDest
  <1>12. CASE ByDaemon(Retire)
    BY <1>12 DEF Retire, EndEntry, RetireToSent, RetireToFailed
  <1>13. CASE ByDaemon(RetireError)
    BY <1>13, FaultType DEF RetireError, EndEntry
  <1>14. ASSUME NEW r \in Roles, ByDaemon(ListOutbox(r)) PROVE TypeOK'
    BY <1>14 DEF ListOutbox
  <1>15. ASSUME NEW r \in Roles, ByDaemon(ListFails(r)) PROVE TypeOK'
    BY <1>15, FaultType DEF ListFails
  <1>16. ASSUME NEW r \in Roles, ByDaemon(BeginDest(r)) PROVE TypeOK'
    BY <1>16, AttemptsAssumption DEF BeginDest
  <1>17. ASSUME NEW i \in Ids, ByDaemon(RejectEntry(i)) PROVE TypeOK'
    BY <1>17 DEF RejectEntry, RetireToRejected
  <1>18. ASSUME NEW i \in Ids, ByDaemon(FailEntry(i)) PROVE TypeOK'
    BY <1>18 DEF FailEntry, NextEntry, IsFirst, RetireToFailed
  <1>19. ASSUME NEW i \in Ids, ByDaemon(QuarantineError(i)) PROVE TypeOK'
    BY <1>19, FaultType DEF QuarantineError, NextEntry
  <1>20. ASSUME NEW i \in Ids, ByDaemon(BeginEntry(i)) PROVE TypeOK'
    BY <1>20, DestsAssumption DEF BeginEntry, NextEntry, IsFirst
  <1> QED
    BY <1>1, <1>2, <1>3, <1>4, <1>5, <1>6, <1>7, <1>8, <1>9, <1>10, <1>11,
       <1>12, <1>13, <1>14, <1>15, <1>16, <1>17, <1>18, <1>19, <1>20
       DEF DaemonNext

\* One case per action of a shell.
LEMMA TypeCommand ==
    ASSUME NEW s \in Shells, TypeOK, CommandNext(s) PROVE TypeOK'
  <1> USE ShellsAssumption
      DEF TypeOK, StoreTypeOK, DaemonTypeOK, LifecycleTypeOK, ShellStates,
          storeVars, sourceBoxes, copyBoxes, daemonVars, passVars,
          lifecycleVars, shellVars
  <1>1. CASE ByCommand(ReadyCall(s))
    BY <1>1 DEF ReadyCall, Goto
  <1>2. CASE ByCommand(ReadyCurrent(s))
    BY <1>2 DEF ReadyCurrent, Return, Goto, SetMarker
  <1>3. CASE ByCommand(ReadySelect(s))
    <2>1. CASE Readable(inbox[RoleOf[s]]) = {}
      BY <1>3, <2>1 DEF ReadySelect, Return
    <2>2. CASE Readable(inbox[RoleOf[s]]) # {}
      <3> DEFINE chosen == Select(Readable(inbox[RoleOf[s]]), Mode[RoleOf[s]])
      <3>1. chosen \in SUBSET Ids
        BY DEF Select, Readable
      <3>2. spc' = [spc EXCEPT ![s] = "accept"] /\ plan' = [plan EXCEPT ![s] = chosen]
        BY <1>3, <2>2 DEF ReadySelect
      <3> HIDE DEF chosen
      <3> QED
        BY <1>3, <2>2, <3>1, <3>2 DEF ReadySelect
    <2> QED
      BY <2>1, <2>2
  <1>4. CASE ByCommand(ReadyGone(s))
    BY <1>4 DEF ReadyGone, ReadyStops, Return
  <1>5. CASE ByCommand(ReadyError(s))
    <2>1. faults' \in 0 .. MaxFaults
      BY <1>5, FaultType DEF ReadyError
    <2>2. CASE moved[s]
      BY <1>5, <2>1, <2>2 DEF ReadyError, ReadyStops
    <2>3. CASE ~moved[s]
      BY <1>5, <2>1, <2>3 DEF ReadyError, ReadyStops, Return
    <2> QED
      BY <2>2, <2>3
  <1>6. CASE ByCommand(ReadyMoved(s))
    BY <1>6 DEF ReadyMoved, Goto
  <1>7. CASE ByCommand(ReadyMark(s))
    BY <1>7 DEF ReadyMark, Return, SetMarker
  <1>8. CASE ByCommand(DoneCall(s))
    BY <1>8 DEF DoneCall, Listed
  <1>9. CASE ByCommand(DoneGone(s))
    BY <1>9 DEF DoneGone, Return
  <1>10. CASE ByCommand(DoneMoved(s))
    BY <1>10 DEF DoneMoved, Goto, SetMarker
  <1>11. CASE ByCommand(AdvanceFindOutbox(s))
    BY <1>11 DEF AdvanceFindOutbox, Find, Return, Goto
  <1>12. CASE ByCommand(AdvanceFindSent(s))
    BY <1>12 DEF AdvanceFindSent, Find, Return, Goto
  <1>13. CASE ByCommand(ShellDies(s))
    BY <1>13, FaultType DEF ShellDies, Return
  <1>14. ASSUME NEW i \in Ids, ByCommand(ReadyAccept(s, i)) PROVE TypeOK'
    BY <1>14 DEF ReadyAccept, MoveToCurrent
  <1>15. ASSUME NEW i \in Ids, ByCommand(DoneMove(s, i)) PROVE TypeOK'
    BY <1>15 DEF DoneMove, MoveToCompleted
  <1>16. ASSUME NEW i \in Ids, ByCommand(AdvanceCall(s, i)) PROVE TypeOK'
    BY <1>16 DEF AdvanceCall, IsFirst
  <1>17. ASSUME NEW i \in Ids, ByCommand(AdvanceSend(s, i)) PROVE TypeOK'
    BY <1>17 DEF AdvanceSend, WriteOutbox, Return
  <1>18. ASSUME NEW i \in Ids, ByCommand(Send(s, i)) PROVE TypeOK'
    BY <1>18 DEF Send, WriteOutbox
  <1>19. ASSUME NEW i \in Ids, ByCommand(Ack(s, i)) PROVE TypeOK'
    BY <1>19 DEF Ack, MoveToArchive
  <1>20. ASSUME NEW i \in Ids, ByCommand(IntegrateCall(s, i)) PROVE TypeOK'
    BY <1>20 DEF IntegrateCall
  <1>21. ASSUME NEW i \in Ids, ByCommand(IntegrateWrite(s, i)) PROVE TypeOK'
    BY <1>21 DEF IntegrateWrite, Rewrite, Return
  <1> QED
    BY <1>1, <1>2, <1>3, <1>4, <1>5, <1>6, <1>7, <1>8, <1>9, <1>10, <1>11,
       <1>12, <1>13, <1>14, <1>15, <1>16, <1>17, <1>18, <1>19, <1>20, <1>21
       DEF CommandNext

\* The developer and doctor's repair.
LEMMA TypeOthers == ASSUME TypeOK, DeveloperNext \/ RepairNext PROVE TypeOK'
  <1> USE DestsAssumption, RetriesAssumption
      DEF TypeOK, StoreTypeOK, DaemonTypeOK, LifecycleTypeOK,
          storeVars, sourceBoxes, copyBoxes, daemonVars, passVars,
          lifecycleVars, shellVars
  <1>1. ASSUME NEW i \in Ids, ByCommand(Submit(i)) PROVE TypeOK'
    BY <1>1 DEF Submit, WriteInbox
  <1>2. ASSUME NEW i \in Ids, ByCommand(Retry(i)) PROVE TypeOK'
    BY <1>2 DEF Retry, MoveToOutbox
  <1>3. CASE ByRepair(DiagnoseOrphans)
    BY <1>3 DEF DiagnoseOrphans, Orphaned, Readable
  <1>4. CASE ByRepair(RepairEnds)
    BY <1>4 DEF RepairEnds
  <1>5. ASSUME NEW i \in Ids, ByRepair(ReconcileOrphan(i)) PROVE TypeOK'
    BY <1>5 DEF ReconcileOrphan, RetireToSent
  <1>6. ASSUME NEW i \in Ids, NEW r \in Roles, ByRepair(RepairIntegrates(i, r))
        PROVE  TypeOK'
    BY <1>6 DEF RepairIntegrates
  <1>7. ASSUME NEW i \in Ids, NEW r \in Roles, ByRepair(RepairWritesBack(i, r))
        PROVE  TypeOK'
    BY <1>7 DEF RepairWritesBack, Rewrite
  <1> QED
    BY <1>1, <1>2, <1>3, <1>4, <1>5, <1>6, <1>7 DEF DeveloperNext, RepairNext

\* The variables keep their types in every run (store.go, daemon.go and
\* lifecycle.go together), whatever the constants.
THEOREM TypeCorrect == Spec => []TypeOK
  <1>1. Init => TypeOK
    BY TypeInit
  <1>2. TypeOK /\ [Next]_vars => TypeOK'
    <2> SUFFICES ASSUME TypeOK, [Next]_vars PROVE TypeOK'
      OBVIOUS
    <2>1. CASE UNCHANGED vars
      BY <2>1 DEF vars, storeVars, sourceBoxes, copyBoxes, daemonVars, passVars,
                  lifecycleVars, shellVars, history, TypeOK, StoreTypeOK,
                  DaemonTypeOK, LifecycleTypeOK
    <2> QED
      BY <2>1, TypeDaemon, TypeCommand, TypeOthers DEF Next
  <1> QED
    BY <1>1, <1>2, PTL DEF Spec

-----------------------------------------------------------------------------
(* What a step does to the store.                                          *)

\* The daemon writes the copy it has looked for in vain.
DaemonWrites == dpc = "write" /\ WriteInbox(cur, dest)

\* A role sends, under an id that was never used.
Sends ==
    \E i \in Ids, k \in Ids \cup {NoId} :
        Fresh(i) /\ Sender[i] # System /\ WriteOutbox(i, k)

\* The developer submits.
Submits ==
    \E i \in Ids : Fresh(i) /\ Sender[i] = System /\ \E r \in Dests[i] : WriteInbox(i, r)

Accepts == Sends \/ Submits

\* The daemon or repair moves a source file it believes delivered.
Settles ==
    \E i \in Ids :
        /\ \/ dpc = "deliver" /\ pend = {} /\ allOk /\ i = cur
           \/ i \in orphans
        /\ RetireToSent(i)

\* A source file changes box otherwise.
Refiles ==
    \E i \in Ids :
        \/ RetireToFailed(i)
        \/ RetireToRejected(i)
        \/ i \in failed /\ MoveToOutbox(i)

\* A role moves one of its copies on.
Takes ==
    \E r \in Roles, i \in Ids :
        \/ i \in inbox[r] /\ MoveToCurrent(i, r)
        \/ i \in inbox[r] /\ MoveToArchive(i, r)
        \/ i \in current[r] /\ MoveToCompleted(i, r)

Marks == \E r \in Roles, b \in BOOLEAN : SetMarker(r, b)

\* A command of r or repair writes back the entry it integrated.
Rewrites ==
    \E r \in Roles, i \in Ids, b \in BOOLEAN : Remembered(i, r) /\ Rewrite(i, r, b)

QuietEffect ==
    \/ UNCHANGED storeVars
    \/ Submits
    \/ Settles
    \/ Refiles
    \/ Rewrites

\* Only a role sends and moves copies on, and only the daemon delivers.
CommonEffect == Sends \/ Takes \/ Marks \/ QuietEffect
StoreEffect == DaemonWrites \/ CommonEffect

\* The daemon delivers, retires and quarantines.
LEMMA EffectDaemon ==
    ASSUME TypeOK, DaemonNext
    PROVE  DaemonWrites \/ QuietEffect
  <1> USE DEF QuietEffect
  <1>1. CASE ByDaemon(DaemonStart)
    BY <1>1 DEF DaemonStart
  <1>2. CASE ByDaemon(DaemonStop)
    BY <1>2 DEF DaemonStop
  <1>3. CASE ByDaemon(DaemonCrash)
    BY <1>3 DEF DaemonCrash
  <1>4. CASE ByDaemon(ScanBegin)
    BY <1>4 DEF ScanBegin
  <1>5. CASE ByDaemon(ScanEnd)
    BY <1>5 DEF ScanEnd
  <1>6. CASE ByDaemon(RoleEnd)
    BY <1>6 DEF RoleEnd
  <1>7. CASE ByDaemon(LookInbox)
    BY <1>7 DEF LookInbox, Look
  <1>8. CASE ByDaemon(LookCurrent)
    BY <1>8 DEF LookCurrent, Look
  <1>9. CASE ByDaemon(LookCompleted)
    BY <1>9 DEF LookCompleted, Look
  <1>10. CASE ByDaemon(WriteCopy)
    BY <1>10 DEF WriteCopy, DaemonWrites
  <1>11. CASE ByDaemon(DeliverError)
    BY <1>11 DEF DeliverError
  <1>12. CASE ByDaemon(Retire)
    <2>1. cur \in Ids
      BY <1>12 DEF Retire, TypeOK, DaemonTypeOK
    <2>2. CASE allOk
      BY <1>12, <2>1, <2>2 DEF Retire, Settles
    <2>3. CASE ~allOk
      BY <1>12, <2>1, <2>3 DEF Retire, Refiles
    <2> QED
      BY <2>2, <2>3
  <1>13. CASE ByDaemon(RetireError)
    BY <1>13 DEF RetireError
  <1>14. ASSUME NEW r \in Roles, ByDaemon(ListOutbox(r))
         PROVE  DaemonWrites \/ QuietEffect
    BY <1>14 DEF ListOutbox
  <1>15. ASSUME NEW r \in Roles, ByDaemon(ListFails(r))
         PROVE  DaemonWrites \/ QuietEffect
    BY <1>15 DEF ListFails
  <1>16. ASSUME NEW r \in Roles, ByDaemon(BeginDest(r))
         PROVE  DaemonWrites \/ QuietEffect
    BY <1>16 DEF BeginDest
  <1>17. ASSUME NEW i \in Ids, ByDaemon(RejectEntry(i))
         PROVE  DaemonWrites \/ QuietEffect
    BY <1>17 DEF RejectEntry, Refiles
  <1>18. ASSUME NEW i \in Ids, ByDaemon(FailEntry(i))
         PROVE  DaemonWrites \/ QuietEffect
    BY <1>18 DEF FailEntry, Refiles
  <1>19. ASSUME NEW i \in Ids, ByDaemon(QuarantineError(i))
         PROVE  DaemonWrites \/ QuietEffect
    BY <1>19 DEF QuarantineError
  <1>20. ASSUME NEW i \in Ids, ByDaemon(BeginEntry(i))
         PROVE  DaemonWrites \/ QuietEffect
    BY <1>20 DEF BeginEntry
  <1> QED
    BY <1>1, <1>2, <1>3, <1>4, <1>5, <1>6, <1>7, <1>8, <1>9, <1>10, <1>11,
       <1>12, <1>13, <1>14, <1>15, <1>16, <1>17, <1>18, <1>19, <1>20
       DEF DaemonNext

\* A role's command sends, moves or rewrites its own copies or sets its marker.
LEMMA EffectCommand ==
    ASSUME NEW s \in Shells, TypeOK, CommandNext(s) PROVE CommonEffect
  <1> USE DEF CommonEffect, QuietEffect
  <1>1. CASE ByCommand(ReadyCall(s))
    BY <1>1 DEF ReadyCall
  <1>2. CASE ByCommand(ReadyCurrent(s))
    BY <1>2, ShellsAssumption DEF ReadyCurrent, Marks
  <1>3. CASE ByCommand(ReadySelect(s))
    BY <1>3 DEF ReadySelect
  <1>4. CASE ByCommand(ReadyGone(s))
    BY <1>4 DEF ReadyGone, ReadyStops
  <1>5. CASE ByCommand(ReadyError(s))
    BY <1>5 DEF ReadyError, ReadyStops
  <1>6. CASE ByCommand(ReadyMoved(s))
    BY <1>6 DEF ReadyMoved
  <1>7. CASE ByCommand(ReadyMark(s))
    BY <1>7, ShellsAssumption DEF ReadyMark, Marks
  <1>8. CASE ByCommand(DoneCall(s))
    BY <1>8 DEF DoneCall
  <1>9. CASE ByCommand(DoneGone(s))
    BY <1>9 DEF DoneGone
  <1>10. CASE ByCommand(DoneMoved(s))
    BY <1>10, ShellsAssumption DEF DoneMoved, Marks
  <1>11. CASE ByCommand(AdvanceFindOutbox(s))
    BY <1>11 DEF AdvanceFindOutbox, Find
  <1>12. CASE ByCommand(AdvanceFindSent(s))
    BY <1>12 DEF AdvanceFindSent, Find
  <1>13. CASE ByCommand(ShellDies(s))
    BY <1>13 DEF ShellDies
  <1>14. ASSUME NEW i \in Ids, ByCommand(ReadyAccept(s, i)) PROVE CommonEffect
    BY <1>14, ShellsAssumption DEF ReadyAccept, Takes
  <1>15. ASSUME NEW i \in Ids, ByCommand(DoneMove(s, i)) PROVE CommonEffect
    BY <1>15, ShellsAssumption DEF DoneMove, Takes
  <1>16. ASSUME NEW i \in Ids, ByCommand(AdvanceCall(s, i)) PROVE CommonEffect
    BY <1>16 DEF AdvanceCall
  <1>17. ASSUME NEW i \in Ids, ByCommand(AdvanceSend(s, i)) PROVE CommonEffect
    BY <1>17, ShellsAssumption, RolesAssumption
       DEF AdvanceSend, Sends, TypeOK, LifecycleTypeOK
  <1>18. ASSUME NEW i \in Ids, ByCommand(Send(s, i)) PROVE CommonEffect
    BY <1>18, ShellsAssumption, RolesAssumption DEF Send, Sends
  <1>19. ASSUME NEW i \in Ids, ByCommand(Ack(s, i)) PROVE CommonEffect
    BY <1>19, ShellsAssumption DEF Ack, Takes
  <1>20. ASSUME NEW i \in Ids, ByCommand(IntegrateCall(s, i)) PROVE CommonEffect
    BY <1>20 DEF IntegrateCall
  <1>21. ASSUME NEW i \in Ids, ByCommand(IntegrateWrite(s, i)) PROVE CommonEffect
    BY <1>21, ShellsAssumption DEF IntegrateWrite, Rewrites, Remembered
  <1> QED
    BY <1>1, <1>2, <1>3, <1>4, <1>5, <1>6, <1>7, <1>8, <1>9, <1>10, <1>11,
       <1>12, <1>13, <1>14, <1>15, <1>16, <1>17, <1>18, <1>19, <1>20, <1>21
       DEF CommandNext

\* The developer submits and retries, repair retires orphans and integrates.
LEMMA EffectOthers == ASSUME DeveloperNext \/ RepairNext PROVE QuietEffect
  <1> USE DEF QuietEffect
  <1>1. ASSUME NEW i \in Ids, ByCommand(Submit(i)) PROVE QuietEffect
    BY <1>1 DEF Submit, Submits
  <1>2. ASSUME NEW i \in Ids, ByCommand(Retry(i)) PROVE QuietEffect
    BY <1>2 DEF Retry, Refiles
  <1>3. CASE ByRepair(DiagnoseOrphans)
    BY <1>3 DEF DiagnoseOrphans
  <1>4. CASE ByRepair(RepairEnds)
    BY <1>4 DEF RepairEnds
  <1>5. ASSUME NEW i \in Ids, ByRepair(ReconcileOrphan(i)) PROVE QuietEffect
    BY <1>5 DEF ReconcileOrphan, Settles
  <1>6. ASSUME NEW i \in Ids, NEW r \in Roles, ByRepair(RepairIntegrates(i, r))
        PROVE  QuietEffect
    BY <1>6 DEF RepairIntegrates
  <1>7. ASSUME NEW i \in Ids, NEW r \in Roles, ByRepair(RepairWritesBack(i, r))
        PROVE  QuietEffect
    BY <1>7 DEF RepairWritesBack, Rewrites, Remembered
  <1> QED
    BY <1>1, <1>2, <1>3, <1>4, <1>5, <1>6, <1>7 DEF DeveloperNext, RepairNext

\* Every step of Next is one rename, or none.
LEMMA Effect == ASSUME TypeOK, [Next]_vars PROVE StoreEffect
  <1>1. CASE UNCHANGED vars
    BY <1>1 DEF vars, StoreEffect, CommonEffect, QuietEffect
  <1> QED
    BY <1>1, EffectDaemon, EffectCommand, EffectOthers
       DEF Next, StoreEffect, CommonEffect

-----------------------------------------------------------------------------
(* The source file.                                                        *)

\* Every rename of a source file takes it out of the one box it is in.
LEMMA SourceBoxStep ==
    ASSUME OneSourceBox, StoreEffect PROVE OneSourceBox'
  <1> USE DEF OneSourceBox
  <1>1. CASE UNCHANGED storeVars
    BY <1>1 DEF storeVars, sourceBoxes
  <1>2. CASE DaemonWrites
    BY <1>2 DEF DaemonWrites, WriteInbox, sourceBoxes
  <1>3. CASE Accepts
    BY <1>3
       DEF Accepts, Sends, Submits, Fresh, Accepted, WriteOutbox, WriteInbox,
           sourceBoxes
  <1>4. CASE Settles
    BY <1>4 DEF Settles, RetireToSent
  <1>5. CASE Refiles
    BY <1>5 DEF Refiles, RetireToFailed, RetireToRejected, MoveToOutbox
  <1>6. CASE Takes
    BY <1>6
       DEF Takes, MoveToCurrent, MoveToArchive, MoveToCompleted, sourceBoxes
  <1>7. CASE Marks \/ Rewrites
    BY <1>7 DEF Marks, SetMarker, Rewrites, Rewrite, sourceBoxes
  <1> QED
    BY <1>1, <1>2, <1>3, <1>4, <1>5, <1>6, <1>7
       DEF StoreEffect, CommonEffect, QuietEffect, Accepts

\* A source file is never in two of the boxes outbox, sent, failed and
\* rejected, however the renames of the daemon (store.go MoveTo, Fail, Reject),
\* of retry and of the orphan repair interleave.
THEOREM SourceBoxUnique == Spec => []OneSourceBox
  <1>1. Init => OneSourceBox
    BY DEF Init, StoreInit, OneSourceBox
  <1>2. TypeOK /\ OneSourceBox /\ [Next]_vars => OneSourceBox'
    BY Effect, SourceBoxStep
  <1> QED
    BY <1>1, <1>2, TypeCorrect, PTL DEF Spec

-----------------------------------------------------------------------------
(* Nothing vanishes.                                                       *)

\* The body of OnlyForward.
Forward ==
    /\ Accepted \subseteq Accepted'
    /\ \A r \in Roles :
        /\ Received(r) \subseteq Received(r)'
        /\ completed[r] \subseteq completed'[r]
        /\ current[r] \subseteq current'[r] \cup completed'[r]

\* Every rename keeps the file it moves.
LEMMA ForwardStep == ASSUME TypeOK, StoreEffect PROVE Forward
  <1> USE DEF Forward, Accepted, Received
  <1>0. DOMAIN inbox = Roles /\ DOMAIN current = Roles /\ DOMAIN completed = Roles
        /\ DOMAIN archive = Roles
    BY DEF TypeOK, StoreTypeOK
  <1>1. CASE UNCHANGED storeVars
    BY <1>1 DEF storeVars, sourceBoxes, copyBoxes
  <1>2. CASE DaemonWrites
    BY <1>0, <1>2 DEF DaemonWrites, WriteInbox, sourceBoxes
  <1>3. CASE Accepts
    BY <1>0, <1>3
       DEF Accepts, Sends, Submits, WriteOutbox, WriteInbox, sourceBoxes,
           copyBoxes
  <1>4. CASE Settles
    BY <1>4 DEF Settles, RetireToSent, copyBoxes
  <1>5. CASE Refiles
    BY <1>5
       DEF Refiles, RetireToFailed, RetireToRejected, MoveToOutbox, copyBoxes
  <1>6. CASE Takes
    BY <1>0, <1>6 DEF Takes, MoveToCurrent, MoveToArchive, MoveToCompleted,
                      sourceBoxes
  <1>7. CASE Marks
    BY <1>7 DEF Marks, SetMarker, sourceBoxes, copyBoxes
  <1>8. CASE Rewrites
    BY <1>0, <1>8 DEF Rewrites, Rewrite, sourceBoxes
  <1> QED
    BY <1>1, <1>2, <1>3, <1>4, <1>5, <1>6, <1>7, <1>8
       DEF StoreEffect, CommonEffect, QuietEffect, Accepts

\* No step of any process loses an accepted message or a received copy, and
\* what a role works on or has finished never goes back (store.go, MoveTo).
THEOREM NothingLost == Spec => OnlyForward
  <1>1. TypeOK /\ [Next]_vars => [Forward]_vars
    BY Effect, ForwardStep
  <1> QED
    BY <1>1, TypeCorrect, PTL DEF Spec, OnlyForward, Forward

-----------------------------------------------------------------------------
(* What integrate remembers.                                               *)

\* Only the call of integrate remembers an entry, and that one it has just
\* listed; the other commands forget it or leave it alone.
LEMMA RememberedByCommand ==
    ASSUME NEW s \in Shells, TypeOK, CommandNext(s),
           NEW t \in Shells, NEW i \in Ids, spc'[t] = "integrate", src'[t] = i
    PROVE  (spc[t] = "integrate" /\ src[t] = i) \/ i \in current[RoleOf[t]]
  <1> USE DEF TypeOK, LifecycleTypeOK, Return, Goto
  <1>1. CASE \/ ByCommand(ReadyCall(s)) \/ ByCommand(ReadyMoved(s))
             \/ ByCommand(DoneCall(s)) \/ ByCommand(DoneGone(s))
    BY <1>1 DEF ReadyCall, ReadyMoved, DoneCall, DoneGone
  <1>2. CASE ByCommand(ReadyCurrent(s))
    BY <1>2 DEF ReadyCurrent
  <1>3. CASE ByCommand(ReadySelect(s))
    BY <1>3 DEF ReadySelect
  <1>4. CASE ByCommand(ReadyGone(s)) \/ ByCommand(ReadyError(s))
    BY <1>4 DEF ReadyGone, ReadyError, ReadyStops
  <1>5. CASE \/ ByCommand(ReadyMark(s)) \/ ByCommand(DoneMoved(s))
             \/ ByCommand(ShellDies(s))
    BY <1>5 DEF ReadyMark, DoneMoved, ShellDies
  <1>6. CASE ByCommand(AdvanceFindOutbox(s)) \/ ByCommand(AdvanceFindSent(s))
    BY <1>6 DEF AdvanceFindOutbox, AdvanceFindSent, Find
  <1>7. ASSUME NEW j \in Ids,
               ByCommand(ReadyAccept(s, j)) \/ ByCommand(DoneMove(s, j))
        PROVE  (spc[t] = "integrate" /\ src[t] = i) \/ i \in current[RoleOf[t]]
    BY <1>7 DEF ReadyAccept, DoneMove
  <1>8. ASSUME NEW j \in Ids,
               \/ ByCommand(AdvanceCall(s, j)) \/ ByCommand(AdvanceSend(s, j))
               \/ ByCommand(IntegrateWrite(s, j))
        PROVE  (spc[t] = "integrate" /\ src[t] = i) \/ i \in current[RoleOf[t]]
    BY <1>8 DEF AdvanceCall, AdvanceSend, IntegrateWrite
  <1>9. ASSUME NEW j \in Ids, ByCommand(Send(s, j)) \/ ByCommand(Ack(s, j))
        PROVE  (spc[t] = "integrate" /\ src[t] = i) \/ i \in current[RoleOf[t]]
    BY <1>9 DEF Send, Ack, lifecycleVars, shellVars
  <1>10. ASSUME NEW j \in Ids, ByCommand(IntegrateCall(s, j))
         PROVE  (spc[t] = "integrate" /\ src[t] = i) \/ i \in current[RoleOf[t]]
    BY <1>10 DEF IntegrateCall, IsFirst, Listed
  <1> QED
    BY <1>1, <1>2, <1>3, <1>4, <1>5, <1>6, <1>7, <1>8, <1>9, <1>10
       DEF CommandNext

\* The same of every step.
LEMMA RememberedNew ==
    ASSUME TypeOK, [Next]_vars, NEW i \in Ids, NEW r \in Roles, Remembered(i, r)'
    PROVE  Remembered(i, r) \/ i \in current[r]
  <1> USE DEF Remembered
  <1>1. CASE UNCHANGED vars \/ DaemonNext
    <2>1. UNCHANGED <<spc, src, mending>>
      BY <1>1 DEF vars, DaemonNext, lifecycleVars, shellVars
    <2> QED
      BY <2>1
  <1>2. ASSUME NEW s \in Shells, CommandNext(s)
        PROVE  Remembered(i, r) \/ i \in current[r]
    <2>1. mending' = mending
      BY <1>2 DEF CommandNext
    <2> QED
      BY <1>2, <2>1, RememberedByCommand
  <1>3. CASE DeveloperNext
    <2>1. UNCHANGED <<spc, src, mending>>
      BY <1>3 DEF DeveloperNext, Submit, Retry, lifecycleVars, shellVars
    <2> QED
      BY <2>1
  <1>4. CASE RepairNext
    <2>1. UNCHANGED <<spc, src>>
      BY <1>4 DEF RepairNext, lifecycleVars, shellVars
    <2>2. <<i, r>> \in mending' => <<i, r>> \in mending \/ i \in current[r]
      <3>1. CASE ByRepair(DiagnoseOrphans) \/ ByRepair(RepairEnds)
        BY <3>1 DEF DiagnoseOrphans, RepairEnds
      <3>2. ASSUME NEW j \in Ids, ByRepair(ReconcileOrphan(j))
            PROVE  <<i, r>> \in mending' => <<i, r>> \in mending
        BY <3>2 DEF ReconcileOrphan
      <3>3. ASSUME NEW j \in Ids, NEW q \in Roles, ByRepair(RepairWritesBack(j, q))
            PROVE  <<i, r>> \in mending' => <<i, r>> \in mending
        BY <3>3 DEF RepairWritesBack
      <3>4. ASSUME NEW j \in Ids, NEW q \in Roles, ByRepair(RepairIntegrates(j, q))
            PROVE  <<i, r>> \in mending' => i \in current[r]
        BY <3>4 DEF RepairIntegrates, IsFirst, Listed
      <3> QED
        BY <1>4, <3>1, <3>2, <3>3, <3>4 DEF RepairNext
    <2> QED
      BY <2>1, <2>2
  <1> QED
    BY <1>1, <1>2, <1>3, <1>4 DEF Next

\* An entry that is being integrated is finished at most.
LEMMA RememberedStep ==
    ASSUME TypeOK, RememberedInv, [Next]_vars PROVE RememberedInv'
  <1>1. \A r \in Roles : /\ completed[r] \subseteq completed'[r]
                         /\ current[r] \subseteq current'[r] \cup completed'[r]
    BY Effect, ForwardStep DEF Forward
  <1>2. SUFFICES ASSUME NEW i \in Ids, NEW r \in Roles, Remembered(i, r)'
                 PROVE  i \in current'[r] \cup completed'[r]
    BY DEF RememberedInv
  <1>3. Remembered(i, r) \/ i \in current[r]
    BY <1>2, RememberedNew
  <1> QED
    BY <1>1, <1>3 DEF RememberedInv

\* Nothing is remembered at first.
LEMMA RememberedInit == Init => RememberedInv
  BY DEF Init, LifecycleInit, RememberedInv, Remembered
=============================================================================
