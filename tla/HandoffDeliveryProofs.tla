----------------------- MODULE HandoffDeliveryProofs ------------------------
(***************************************************************************)
(* Delivery: no destination gets a second copy, and sent means delivered.  *)
(* Both need to know what the daemon knows while it works through an       *)
(* entry and the roles move on under it.                                   *)
(***************************************************************************)
EXTENDS HandoffStoreProofs

USE DEF ByDaemon, ByCommand, ByRepair, Remember, repairVars

-----------------------------------------------------------------------------
(* No second copy.                                                         *)

\* While the daemon stands still, what the others do keeps what it knows.
LEMMA DeliveryOthers ==
    ASSUME TypeOK, DeliveryInv, CommonEffect, UNCHANGED daemonVars, RememberedInv'
    PROVE  DeliveryInv'
  <1> USE DEF TypeOK, StoreTypeOK, DaemonTypeOK, DeliveryInv, NoDoubleDelivery,
              LookInv
  <1>0. QueuedInv' /\ RememberedInv'
    BY ForwardStep DEF StoreEffect, Forward, QueuedInv, daemonVars, passVars
  <1>1. CASE UNCHANGED storeVars
    BY <1>0, <1>1 DEF storeVars, copyBoxes, daemonVars, passVars
  <1>2. CASE Accepts
    <2>1. PICK i \in Ids : Fresh(i)
             /\ \/ \E k \in Ids \cup {NoId} : WriteOutbox(i, k)
                \/ \E r \in Dests[i] : WriteInbox(i, r)
      BY <1>2 DEF Accepts, Sends, Submits
    <2>2. CASE \E k \in Ids \cup {NoId} : WriteOutbox(i, k)
      BY <1>0, <2>2 DEF WriteOutbox, copyBoxes, daemonVars, passVars
    <2>3. CASE \E r \in Dests[i] : WriteInbox(i, r)
      <3>1. PICK r \in Dests[i] : WriteInbox(i, r)
        BY <2>3
      <3>2. i \notin current[r] /\ i \notin completed[r] /\ r \in Roles
        BY <2>1, DestsAssumption DEF Fresh, Received
      <3>3. dpc \in {"deliver"} \cup Looking => cur # i
        BY <2>1 DEF Fresh, QueuedInv
      <3> QED
        BY <1>0, <3>1, <3>2, <3>3 DEF WriteInbox, Looking, daemonVars, passVars
    <2> QED
      BY <2>1, <2>2, <2>3
  <1>3. CASE Settles \/ Refiles
    BY <1>0, <1>3 DEF Settles, Refiles, RetireToSent, RetireToFailed,
          RetireToRejected, MoveToOutbox, copyBoxes, daemonVars, passVars
  <1>4. CASE Takes
    <2>1. PICK r \in Roles, i \in Ids :
             \/ i \in inbox[r] /\ MoveToCurrent(i, r)
             \/ i \in inbox[r] /\ MoveToArchive(i, r)
             \/ i \in current[r] /\ MoveToCompleted(i, r)
      BY <1>4 DEF Takes
    <2>2. CASE i \in inbox[r] /\ MoveToCurrent(i, r)
      BY <1>0, <2>2 DEF MoveToCurrent, Looking, daemonVars, passVars
    <2>3. CASE i \in inbox[r] /\ MoveToArchive(i, r)
      BY <1>0, <2>3 DEF MoveToArchive, Looking, daemonVars, passVars
    <2>4. CASE i \in current[r] /\ MoveToCompleted(i, r)
      BY <1>0, <2>4 DEF MoveToCompleted, Looking, daemonVars, passVars
    <2> QED
      BY <2>1, <2>2, <2>3, <2>4
  <1>5. CASE Marks
    BY <1>0, <1>5 DEF Marks, SetMarker, copyBoxes, daemonVars, passVars
  <1>6. CASE Rewrites
    <2>1. PICK r \in Roles, i \in Ids, b \in BOOLEAN :
             Remembered(i, r) /\ Rewrite(i, r, b)
      BY <1>6 DEF Rewrites
    <2>2. i \in current[r] \cup completed[r]
      BY <2>1 DEF RememberedInv
    <2>3. /\ UNCHANGED <<inbox, completed, dpc, cur, dest>>
          /\ current' = [current EXCEPT ![r] = @ \cup {i}]
      BY <2>1 DEF Rewrite, daemonVars, passVars
    <2> QED
      BY <1>0, <2>2, <2>3 DEF Looking
  <1> QED
    BY <1>1, <1>2, <1>3, <1>4, <1>5, <1>6 DEF CommonEffect, QuietEffect, Accepts

\* What the daemon has read stays true until it writes.
LEMMA DeliveryDaemon ==
    ASSUME TypeOK, DeliveryInv, DaemonNext, RememberedInv' PROVE DeliveryInv'
  <1> USE DEF TypeOK, StoreTypeOK, DaemonTypeOK, DeliveryInv, NoDoubleDelivery,
              LookInv, QueuedInv, Looking
  <1>0. Accepted \subseteq Accepted' /\ outbox \subseteq Accepted
    BY EffectDaemon, ForwardStep
       DEF StoreEffect, CommonEffect, Forward, Accepted
  <1>1. CASE ByDaemon(DaemonStart)
    BY <1>1, <1>0 DEF DaemonStart, storeVars, copyBoxes, passVars
  <1>2. CASE ByDaemon(DaemonStop)
    BY <1>2, <1>0 DEF DaemonStop, storeVars, copyBoxes, passVars
  <1>3. CASE ByDaemon(DaemonCrash)
    BY <1>3, <1>0 DEF DaemonCrash, storeVars, copyBoxes, passVars
  <1>4. CASE ByDaemon(ScanBegin)
    BY <1>4, <1>0 DEF ScanBegin, storeVars, copyBoxes, passVars
  <1>5. CASE ByDaemon(ScanEnd)
    BY <1>5, <1>0 DEF ScanEnd, storeVars, copyBoxes, passVars
  <1>6. CASE ByDaemon(RoleEnd)
    BY <1>6, <1>0 DEF RoleEnd, storeVars, copyBoxes, passVars
  <1>7. CASE ByDaemon(LookInbox)
    BY <1>7, <1>0 DEF LookInbox, Look, EndDest, storeVars, copyBoxes, passVars
  <1>8. CASE ByDaemon(LookCurrent)
    BY <1>8, <1>0 DEF LookCurrent, Look, EndDest, storeVars, copyBoxes, passVars
  <1>9. CASE ByDaemon(LookCompleted)
    BY <1>9, <1>0
       DEF LookCompleted, Look, EndDest, storeVars, copyBoxes, passVars
  <1>10. CASE ByDaemon(WriteCopy)
    BY <1>10, <1>0 DEF WriteCopy, WriteInbox, EndDest
  <1>11. CASE ByDaemon(DeliverError)
    BY <1>11, <1>0 DEF DeliverError, EndDest, storeVars, copyBoxes, passVars
  <1>12. CASE ByDaemon(Retire)
    BY <1>12, <1>0
       DEF Retire, EndEntry, RetireToSent, RetireToFailed, copyBoxes, passVars
  <1>13. CASE ByDaemon(RetireError)
    BY <1>13, <1>0 DEF RetireError, EndEntry, storeVars, copyBoxes, passVars
  <1>14. ASSUME NEW r \in Roles, ByDaemon(ListOutbox(r)) PROVE DeliveryInv'
    BY <1>14, <1>0 DEF ListOutbox, storeVars, copyBoxes, passVars
  <1>15. ASSUME NEW r \in Roles, ByDaemon(ListFails(r)) PROVE DeliveryInv'
    BY <1>15, <1>0 DEF ListFails, storeVars, copyBoxes, passVars
  <1>16. ASSUME NEW r \in Roles, ByDaemon(BeginDest(r)) PROVE DeliveryInv'
    BY <1>16, <1>0 DEF BeginDest, storeVars, copyBoxes, passVars
  <1>17. ASSUME NEW i \in Ids, ByDaemon(RejectEntry(i)) PROVE DeliveryInv'
    BY <1>17, <1>0 DEF RejectEntry, RetireToRejected, copyBoxes, passVars
  <1>18. ASSUME NEW i \in Ids, ByDaemon(FailEntry(i)) PROVE DeliveryInv'
    BY <1>18, <1>0
       DEF FailEntry, NextEntry, IsFirst, RetireToFailed, copyBoxes, passVars
  <1>19. ASSUME NEW i \in Ids, ByDaemon(QuarantineError(i)) PROVE DeliveryInv'
    BY <1>19, <1>0
       DEF QuarantineError, NextEntry, storeVars, copyBoxes, passVars
  <1>20. ASSUME NEW i \in Ids, ByDaemon(BeginEntry(i)) PROVE DeliveryInv'
    BY <1>20, <1>0
       DEF BeginEntry, NextEntry, IsFirst, storeVars, copyBoxes, passVars
  <1> QED
    BY <1>1, <1>2, <1>3, <1>4, <1>5, <1>6, <1>7, <1>8, <1>9, <1>10, <1>11,
       <1>12, <1>13, <1>14, <1>15, <1>16, <1>17, <1>18, <1>19, <1>20
       DEF DaemonNext

\* The two together.
LEMMA DeliveryStep ==
    ASSUME TypeOK, DeliveryInv, [Next]_vars PROVE DeliveryInv'
  <1>0. RememberedInv'
    BY RememberedStep DEF DeliveryInv
  <1>1. CASE UNCHANGED vars
    BY <1>0, <1>1, DeliveryOthers DEF vars, CommonEffect, QuietEffect
  <1>2. CASE DaemonNext
    BY <1>0, <1>2, DeliveryDaemon
  <1>3. ASSUME NEW s \in Shells, CommandNext(s) PROVE DeliveryInv'
    <2>1. UNCHANGED daemonVars
      BY <1>3 DEF CommandNext
    <2> QED
      BY <1>0, <1>3, <2>1, EffectCommand, DeliveryOthers
  <1>4. CASE DeveloperNext \/ RepairNext
    <2>1. UNCHANGED daemonVars
      BY <1>4 DEF DeveloperNext, RepairNext
    <2> QED
      BY <1>0, <1>4, <2>1, EffectOthers, DeliveryOthers DEF CommonEffect
  <1> QED
    BY <1>1, <1>2, <1>3, <1>4 DEF Next

\* The invariant that NoDoubleDelivery needs.
LEMMA DeliveryHolds == Spec => []DeliveryInv
  <1>1. Init => DeliveryInv
    BY DEF Init, StoreInit, DaemonInit, PassInit, DeliveryInv, NoDoubleDelivery,
           LookInv, QueuedInv, Looking, LifecycleInit, RememberedInv, Remembered
  <1>2. TypeOK /\ DeliveryInv /\ [Next]_vars => DeliveryInv'
    BY DeliveryStep
  <1> QED
    BY <1>1, <1>2, TypeCorrect, PTL DEF Spec

\* A message its destination is working on or has finished is never put into
\* that inbox again (daemon.go deliver, store.go HasDelivery), although
\* HasDelivery reads the three directories one by one while the role moves its
\* copies on and integrate writes finished ones back, and whatever is killed in
\* between.  It says nothing of current/ and completed/: there integrate does
\* make a second file (AlwaysInOneBox).
THEOREM NeverTwice == Spec => []NoDoubleDelivery
  <1>1. DeliveryInv => NoDoubleDelivery
    BY DEF DeliveryInv
  <1> QED
    BY <1>1, DeliveryHolds, PTL

-----------------------------------------------------------------------------
(* Sent means delivered.                                                   *)

\* Whatever is retired to sent/ has reached its destinations.
LEMMA SentOthers ==
    ASSUME TypeOK, SentInv, StoreEffect
    PROVE  /\ SentWasDelivered'
           /\ \A i \in orphans : \A r \in Dests[i] : i \in Received(r)'
  <1>0. \A r \in Roles : Received(r) \subseteq Received(r)'
    BY ForwardStep DEF Forward
  <1>1. \A i \in Ids : Dests[i] \subseteq Roles
    BY DestsAssumption
  <1>2. \A i \in sent' : i \in Ids /\ \A r \in Dests[i] : i \in Received(r)
    <2> USE DEF TypeOK, StoreTypeOK, SentInv, SentWasDelivered
    <2>1. CASE DaemonWrites \/ Takes \/ Marks \/ Refiles \/ Accepts \/ Rewrites
      BY <2>1 DEF DaemonWrites, WriteInbox, Takes, MoveToCurrent, MoveToArchive,
            MoveToCompleted, Marks, SetMarker, Refiles, RetireToFailed,
            RetireToRejected, MoveToOutbox, Accepts, Sends, Submits, WriteOutbox,
            Rewrites, Rewrite, sourceBoxes
    <2>2. CASE Settles
      <3>1. PICK i \in Ids :
               /\ \/ dpc = "deliver" /\ pend = {} /\ allOk /\ i = cur
                  \/ i \in orphans
               /\ RetireToSent(i)
        BY <2>2 DEF Settles
      <3>2. \A r \in Dests[i] : i \in Received(r)
        BY <3>1
      <3> QED
        BY <3>1, <3>2 DEF RetireToSent
    <2>3. CASE UNCHANGED storeVars
      BY <2>3 DEF storeVars, sourceBoxes
    <2> QED
      BY <2>1, <2>2, <2>3 DEF StoreEffect, CommonEffect, QuietEffect, Accepts
  <1>3. \A i \in orphans : i \in Ids /\ \A r \in Dests[i] : i \in Received(r)
    BY DEF TypeOK, SentInv
  <1> QED
    BY <1>0, <1>1, <1>2, <1>3 DEF SentWasDelivered

\* The daemon stands still; repair may have listed orphans.
LEMMA SentQuiet ==
    ASSUME TypeOK, SentInv, CommonEffect, UNCHANGED daemonVars,
           orphans' \subseteq orphans \cup Orphaned
    PROVE  SentInv'
  <1>0. \A r \in Roles : Received(r) \subseteq Received(r)'
    BY ForwardStep DEF Forward, StoreEffect
  <1>1. SentWasDelivered' /\ \A i \in orphans : \A r \in Dests[i] : i \in Received(r)'
    BY SentOthers DEF StoreEffect
  <1>2. \A i \in Orphaned : \A r \in Dests[i] : r \in Roles /\ i \in Received(r)
    BY DestsAssumption
       DEF Orphaned, Readable, Held, Received, TypeOK, StoreTypeOK
  <1>3. \A i \in orphans' : \A r \in Dests[i] : i \in Received(r)'
    BY <1>0, <1>1, <1>2
  <1>4. (dpc \in {"deliver"} \cup Looking /\ allOk =>
            \A r \in Dests[cur] \ pend : cur \in Received(r))'
    <2>1. dpc \in {"deliver"} \cup Looking => Dests[cur] \subseteq Roles
      BY DestsAssumption DEF TypeOK, DaemonTypeOK
    <2> QED
      BY <1>0, <2>1 DEF SentInv, daemonVars, passVars
  <1> QED
    BY <1>1, <1>3, <1>4 DEF SentInv

\* The daemon ticks destinations off only when they hold a copy.
LEMMA SentDaemon ==
    ASSUME TypeOK, SentInv, DaemonNext PROVE SentInv'
  <1> DEFINE Progress == dpc \in {"deliver"} \cup Looking /\ allOk =>
                           \A r \in Dests[cur] \ pend : cur \in Received(r)
  <1>0. /\ SentWasDelivered'
        /\ \A i \in orphans : \A r \in Dests[i] : i \in Received(r)'
    BY EffectDaemon, SentOthers DEF StoreEffect, CommonEffect
  <1>a. orphans' = orphans
    BY DEF DaemonNext
  <1>b. \A r \in Roles : Received(r) \subseteq Received(r)'
    BY EffectDaemon, ForwardStep DEF StoreEffect, CommonEffect, Forward
  <1>c. Progress /\ (dpc \in {"deliver"} \cup Looking => Dests[cur] \subseteq Roles)
    BY DestsAssumption DEF SentInv, TypeOK, DaemonTypeOK
  <1>d. dpc \in Looking => dest \in Roles
    BY DEF TypeOK, DaemonTypeOK
  <1> SUFFICES Progress'
    BY <1>0, <1>a DEF SentInv
  <1>1. CASE ByDaemon(DaemonStart)
    BY <1>1, <1>b, <1>c, <1>d DEF DaemonStart, Looking, passVars
  <1>2. CASE ByDaemon(DaemonStop)
    BY <1>2, <1>b, <1>c, <1>d DEF DaemonStop, Looking, passVars
  <1>3. CASE ByDaemon(DaemonCrash)
    BY <1>3, <1>b, <1>c, <1>d DEF DaemonCrash, Looking, passVars
  <1>4. CASE ByDaemon(ScanBegin)
    BY <1>4, <1>b, <1>c, <1>d DEF ScanBegin, Looking, passVars
  <1>5. CASE ByDaemon(ScanEnd)
    BY <1>5, <1>b, <1>c, <1>d DEF ScanEnd, Looking, passVars
  <1>6. CASE ByDaemon(RoleEnd)
    BY <1>6, <1>b, <1>c, <1>d DEF RoleEnd, Looking, passVars
  <1>7. CASE ByDaemon(LookInbox)
    <2>1. CASE cur \in inbox[dest]
      <3>1. cur \in Received(dest)
        BY <2>1 DEF Received
      <3> QED
        BY <1>7, <2>1, <3>1, <1>b, <1>c, <1>d
           DEF LookInbox, Look, EndDest, Looking
    <2>2. CASE cur \notin inbox[dest]
      BY <1>7, <2>2, <1>b, <1>c DEF LookInbox, Look, passVars, Looking
    <2> QED
      BY <2>1, <2>2
  <1>8. CASE ByDaemon(LookCurrent)
    <2>1. CASE cur \in current[dest]
      <3>1. cur \in Received(dest)
        BY <2>1 DEF Received
      <3> QED
        BY <1>8, <2>1, <3>1, <1>b, <1>c, <1>d
           DEF LookCurrent, Look, EndDest, Looking
    <2>2. CASE cur \notin current[dest]
      BY <1>8, <2>2, <1>b, <1>c DEF LookCurrent, Look, passVars, Looking
    <2> QED
      BY <2>1, <2>2
  <1>9. CASE ByDaemon(LookCompleted)
    <2>1. CASE cur \in completed[dest]
      <3>1. cur \in Received(dest)
        BY <2>1 DEF Received
      <3> QED
        BY <1>9, <2>1, <3>1, <1>b, <1>c, <1>d
           DEF LookCompleted, Look, EndDest, Looking
    <2>2. CASE cur \notin completed[dest]
      BY <1>9, <2>2, <1>b, <1>c DEF LookCompleted, Look, passVars, Looking
    <2> QED
      BY <2>1, <2>2
  <1>10. CASE ByDaemon(WriteCopy)
    <2>1. \A r \in Roles : r = dest => cur \in Received(r)'
      BY <1>10, <1>d
         DEF WriteCopy, WriteInbox, Received, TypeOK, StoreTypeOK, Looking
    <2> QED
      BY <1>10, <2>1, <1>b, <1>c, <1>d DEF WriteCopy, EndDest, Looking
  <1>11. CASE ByDaemon(DeliverError)
    BY <1>11, <1>b, <1>c, <1>d DEF DeliverError, EndDest, Looking, passVars
  <1>12. CASE ByDaemon(Retire)
    BY <1>12, <1>b, <1>c, <1>d
       DEF Retire, EndEntry, RetireToSent, RetireToFailed, Looking, passVars
  <1>13. CASE ByDaemon(RetireError)
    BY <1>13, <1>b, <1>c, <1>d DEF RetireError, EndEntry, Looking, passVars
  <1>14. ASSUME NEW r \in Roles, ByDaemon(ListOutbox(r)) PROVE Progress'
    BY <1>14, <1>b, <1>c, <1>d DEF ListOutbox, Looking, passVars
  <1>15. ASSUME NEW r \in Roles, ByDaemon(ListFails(r)) PROVE Progress'
    BY <1>15, <1>b, <1>c, <1>d DEF ListFails, Looking, passVars
  <1>16. ASSUME NEW r \in Roles, ByDaemon(BeginDest(r)) PROVE Progress'
    BY <1>16, <1>b, <1>c, <1>d DEF BeginDest, Looking, passVars
  <1>17. ASSUME NEW i \in Ids, ByDaemon(RejectEntry(i)) PROVE Progress'
    BY <1>17, <1>b, <1>c, <1>d
       DEF RejectEntry, RetireToRejected, Looking, passVars
  <1>18. ASSUME NEW i \in Ids, ByDaemon(FailEntry(i)) PROVE Progress'
    BY <1>18, <1>b, <1>c, <1>d
       DEF FailEntry, NextEntry, IsFirst, RetireToFailed, Looking, passVars
  <1>19. ASSUME NEW i \in Ids, ByDaemon(QuarantineError(i)) PROVE Progress'
    BY <1>19, <1>b, <1>c, <1>d DEF QuarantineError, NextEntry, Looking, passVars
  <1>20. ASSUME NEW i \in Ids, ByDaemon(BeginEntry(i)) PROVE Progress'
    BY <1>20, <1>b, <1>c, <1>d
       DEF BeginEntry, NextEntry, IsFirst, Looking, passVars
  <1> QED
    BY <1>1, <1>2, <1>3, <1>4, <1>5, <1>6, <1>7, <1>8, <1>9, <1>10, <1>11,
       <1>12, <1>13, <1>14, <1>15, <1>16, <1>17, <1>18, <1>19, <1>20
       DEF DaemonNext

\* The two together.
LEMMA SentStep == ASSUME TypeOK, SentInv, [Next]_vars PROVE SentInv'
  <1>1. CASE UNCHANGED vars
    BY <1>1, SentQuiet DEF vars, CommonEffect, QuietEffect
  <1>2. CASE DaemonNext
    BY <1>2, SentDaemon
  <1>3. ASSUME NEW s \in Shells, CommandNext(s) PROVE SentInv'
    <2>1. UNCHANGED <<daemonVars, orphans>>
      BY <1>3 DEF CommandNext
    <2> QED
      BY <1>3, <2>1, EffectCommand, SentQuiet
  <1>4. CASE DeveloperNext
    <2>1. UNCHANGED <<daemonVars, orphans>>
      BY <1>4 DEF DeveloperNext
    <2> QED
      BY <1>4, <2>1, EffectOthers, SentQuiet DEF CommonEffect
  <1>5. CASE RepairNext
    <2>1. UNCHANGED daemonVars /\ orphans' \subseteq orphans \cup Orphaned
      BY <1>5 DEF RepairNext, DiagnoseOrphans, ReconcileOrphan, RepairEnds,
                  RepairIntegrates, RepairWritesBack
    <2> QED
      BY <1>5, <2>1, EffectOthers, SentQuiet DEF CommonEffect
  <1> QED
    BY <1>1, <1>2, <1>3, <1>4, <1>5 DEF Next

\* The invariant that SentWasDelivered needs.
LEMMA SentHolds == Spec => []SentInv
  <1>1. Init => SentInv
    BY DEF Init, StoreInit, DaemonInit, PassInit, SentInv, SentWasDelivered,
           Looking
  <1>2. TypeOK /\ SentInv /\ [Next]_vars => SentInv'
    BY SentStep
  <1> QED
    BY <1>1, <1>2, TypeCorrect, PTL DEF Spec

\* A message in sent/ has a copy at every destination, although the daemon
\* gives some destinations up, dies between delivering and retiring, and is
\* raced by the orphan repair and by retry (daemon.go process, step 4).
THEOREM SentIsDelivered == Spec => []SentWasDelivered
  <1>1. SentInv => SentWasDelivered
    BY DEF SentInv
  <1> QED
    BY <1>1, SentHolds, PTL
=============================================================================
