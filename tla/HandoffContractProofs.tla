----------------------- MODULE HandoffContractProofs ------------------------
(***************************************************************************)
(* Handoff implements HandoffContract: each step of a process is one step  *)
(* of the contract or a stutter.                                           *)
(***************************************************************************)
EXTENDS HandoffDeliveryProofs

USE DEF ByDaemon, ByCommand, ByRepair, Remember, repairVars

-----------------------------------------------------------------------------
(* The subsystem implements its contract.                                  *)

\* The destinations in hand are those of the entry in hand.
LEMMA PendStep == ASSUME TypeOK, PendInv, [Next]_vars PROVE PendInv'
  <1> USE DEF PendInv, Looking, passVars
  <1>1. CASE UNCHANGED vars
    BY <1>1 DEF vars, daemonVars
  <1>2. CASE DaemonNext
    <2>1. CASE ByDaemon(DaemonStart)
      BY <2>1 DEF DaemonStart
    <2>2. CASE ByDaemon(DaemonStop)
      BY <2>2 DEF DaemonStop
    <2>3. CASE ByDaemon(DaemonCrash)
      BY <2>3 DEF DaemonCrash
    <2>4. CASE ByDaemon(ScanBegin)
      BY <2>4 DEF ScanBegin
    <2>5. CASE ByDaemon(ScanEnd)
      BY <2>5 DEF ScanEnd
    <2>6. CASE ByDaemon(RoleEnd)
      BY <2>6 DEF RoleEnd
    <2>7. CASE ByDaemon(LookInbox)
      BY <2>7 DEF LookInbox, Look, EndDest
    <2>8. CASE ByDaemon(LookCurrent)
      BY <2>8 DEF LookCurrent, Look, EndDest
    <2>9. CASE ByDaemon(LookCompleted)
      BY <2>9 DEF LookCompleted, Look, EndDest
    <2>10. CASE ByDaemon(WriteCopy)
      BY <2>10 DEF WriteCopy, EndDest
    <2>11. CASE ByDaemon(DeliverError)
      BY <2>11 DEF DeliverError, EndDest
    <2>12. CASE ByDaemon(Retire)
      BY <2>12 DEF Retire, EndEntry
    <2>13. CASE ByDaemon(RetireError)
      BY <2>13 DEF RetireError, EndEntry
    <2>14. ASSUME NEW r \in Roles, ByDaemon(ListOutbox(r)) PROVE PendInv'
      BY <2>14 DEF ListOutbox
    <2>15. ASSUME NEW r \in Roles, ByDaemon(ListFails(r)) PROVE PendInv'
      BY <2>15 DEF ListFails
    <2>16. ASSUME NEW r \in Roles, ByDaemon(BeginDest(r)) PROVE PendInv'
      BY <2>16 DEF BeginDest
    <2>17. ASSUME NEW i \in Ids, ByDaemon(RejectEntry(i)) PROVE PendInv'
      BY <2>17 DEF RejectEntry
    <2>18. ASSUME NEW i \in Ids, ByDaemon(FailEntry(i)) PROVE PendInv'
      BY <2>18 DEF FailEntry, NextEntry
    <2>19. ASSUME NEW i \in Ids, ByDaemon(QuarantineError(i)) PROVE PendInv'
      BY <2>19 DEF QuarantineError, NextEntry
    <2>20. ASSUME NEW i \in Ids, ByDaemon(BeginEntry(i)) PROVE PendInv'
      BY <2>20 DEF BeginEntry, NextEntry, IsFirst
    <2> QED
      BY <1>2, <2>1, <2>2, <2>3, <2>4, <2>5, <2>6, <2>7, <2>8, <2>9, <2>10,
         <2>11, <2>12, <2>13, <2>14, <2>15, <2>16, <2>17, <2>18, <2>19, <2>20
         DEF DaemonNext
  <1>3. CASE UNCHANGED daemonVars
    BY <1>3 DEF daemonVars
  <1> QED
    BY <1>1, <1>2, <1>3 DEF Next, CommandNext, DeveloperNext, RepairNext

\* The daemon attempts only destinations of the entry it works on.
LEMMA PendHolds == Spec => []PendInv
  <1>1. Init => PendInv
    BY DEF Init, DaemonInit, PendInv, Looking
  <1>2. TypeOK /\ PendInv /\ [Next]_vars => PendInv'
    BY PendStep
  <1> QED
    BY <1>1, <1>2, TypeCorrect, PTL DEF Spec

\* The mapped variables, named once.
Handed == Accepted \cup {i \in Ids : Sender[i] = System /\ ~Fresh(i)}
Taken == [r \in Roles |-> current[r] \cup completed[r]]

\* Nothing is accepted, given or settled at first.
LEMMA ContractInit == Init => Contract!Init
  BY DEF Init, StoreInit, Contract!Init, Accepted, Fresh, Received

\* A step that leaves the ids in use and the copies where they are.
LEMMA HandedSame ==
    ASSUME Accepted' = Accepted, UNCHANGED copyBoxes
    PROVE  Handed' = Handed
  BY DEF Handed, Fresh, Received, copyBoxes

\* Each rename is one step of the contract, or a stutter.
LEMMA ContractStep ==
    ASSUME TypeOK, DeliveryInv, SentInv, PendInv, OneSourceBox, StoreEffect
    PROVE  [Contract!Next]_(Contract!vars)
  <1> USE DEF TypeOK, StoreTypeOK
  <1>1. CASE UNCHANGED storeVars
    BY <1>1
       DEF storeVars, sourceBoxes, copyBoxes, Contract!vars, Accepted, Fresh,
                Received
  <1>2. CASE DaemonWrites
    <2>1. cur \in Ids /\ dest \in Roles /\ dest \in Dests[cur] /\ cur \in Accepted
      BY <1>2 DEF DaemonWrites, DaemonTypeOK, PendInv, DeliveryInv, QueuedInv,
                  Looking
    <2>2. cur \notin inbox[dest] /\ cur \notin Taken[dest]
      BY <1>2, <2>1 DEF DaemonWrites, DeliveryInv, LookInv, Taken
    <2>3. Handed' = Handed /\ cur \in Handed
      <3>1. Accepted' = Accepted
        BY <1>2 DEF DaemonWrites, WriteInbox, Accepted, sourceBoxes
      <3>2. \A i \in Ids \ {cur} : Fresh(i)' <=> Fresh(i)
        BY <1>2, <2>1, <3>1 DEF DaemonWrites, WriteInbox, Fresh, Received
      <3> QED
        BY <2>1, <3>1, <3>2 DEF Handed
    <2>4. UNCHANGED <<sent, Taken, archive>>
          /\ inbox' = [inbox EXCEPT ![dest] = @ \cup {cur}]
      BY <1>2 DEF DaemonWrites, WriteInbox, Taken, sourceBoxes
    <2>5. Contract!Give(cur, dest)
      BY <2>1, <2>2, <2>3, <2>4 DEF Contract!Give, Handed, Taken
    <2> QED
      BY <2>1, <2>5 DEF Contract!Next
  <1>3. CASE Accepts
    <2>1. PICK i \in Ids :
             /\ Fresh(i)
             /\ \/ Sender[i] # System /\ \E k \in Ids \cup {NoId} : WriteOutbox(i, k)
                \/ Sender[i] = System /\ \E r \in Dests[i] : WriteInbox(i, r)
      BY <1>3 DEF Accepts, Sends, Submits
    <2>2. i \notin Handed
      BY <2>1 DEF Handed, Fresh
    <2>3. CASE Sender[i] # System /\ \E k \in Ids \cup {NoId} : WriteOutbox(i, k)
      <3>1. Accepted' = Accepted \cup {i} /\ UNCHANGED <<sent, copyBoxes>>
        BY <2>3 DEF WriteOutbox, Accepted
      <3>2. \A j \in Ids \ {i} : Fresh(j)' <=> Fresh(j)
        BY <3>1 DEF Fresh, Received, copyBoxes
      <3>3. Handed' = Handed \cup {i}
        BY <2>3, <3>1, <3>2 DEF Handed
      <3>4. Contract!Accept(i)
        BY <2>2, <3>1, <3>3 DEF Contract!Accept, Handed, copyBoxes
      <3> QED
        BY <3>4 DEF Contract!Next
    <2>4. CASE Sender[i] = System /\ \E r \in Dests[i] : WriteInbox(i, r)
      <3>1. PICK r \in Dests[i] : WriteInbox(i, r)
        BY <2>4
      <3>2. r \in Roles /\ Dests[i] = {r}
        BY <2>4, DestsAssumption
      <3>3. Accepted' = Accepted
        BY <3>1 DEF WriteInbox, Accepted, sourceBoxes
      <3>4. /\ \A j \in Ids \ {i} : Fresh(j)' <=> Fresh(j)
            /\ ~Fresh(i)'
        BY <3>1, <3>2, <3>3 DEF WriteInbox, Fresh, Received
      <3>5. Handed' = Handed \cup {i}
        BY <2>4, <3>3, <3>4 DEF Handed
      <3>6. Contract!Submit(i, r)
        BY <2>2, <3>1, <3>2, <3>5 DEF Contract!Submit, Handed, WriteInbox,
                                      sourceBoxes
      <3> QED
        BY <3>2, <3>6 DEF Contract!Next
    <2> QED
      BY <2>1, <2>3, <2>4
  <1>4. CASE Settles
    <2>1. PICK i \in Ids :
             /\ \/ dpc = "deliver" /\ pend = {} /\ allOk /\ i = cur
                \/ i \in orphans
             /\ RetireToSent(i)
      BY <1>4 DEF Settles
    <2>2. Handed' = Handed
      <3>1. Accepted' = Accepted /\ UNCHANGED copyBoxes
        BY <2>1 DEF RetireToSent, Accepted
      <3> QED
        BY <3>1, HandedSame
    <2>3. CASE i \in outbox
      <3>1. \A r \in Dests[i] : i \in Contract!Given(r)
        <4>1. \A r \in Dests[i] : r \in Roles /\ i \in Received(r)
          BY <2>1, DestsAssumption DEF SentInv
        <4> QED
          BY <4>1 DEF Contract!Given, Received
      <3>2. Contract!Settle(i)
        BY <2>1, <2>2, <2>3, <3>1 DEF Contract!Settle, Handed, RetireToSent,
              Accepted, OneSourceBox, copyBoxes
      <3> QED
        BY <3>2 DEF Contract!Next
    <2>4. CASE i \notin outbox
      BY <2>1, <2>2, <2>4 DEF RetireToSent, Contract!vars, copyBoxes, Handed
    <2> QED
      BY <2>3, <2>4
  <1>5. CASE Refiles
    <2>1. Accepted' = Accepted /\ UNCHANGED <<sent, copyBoxes>>
      BY <1>5
         DEF Refiles, RetireToFailed, RetireToRejected, MoveToOutbox, Accepted
    <2> QED
      BY <2>1, HandedSame DEF Contract!vars, Handed, copyBoxes
  <1>6. CASE Takes
    <2>1. PICK r \in Roles, i \in Ids :
             \/ i \in inbox[r] /\ MoveToCurrent(i, r)
             \/ i \in inbox[r] /\ MoveToArchive(i, r)
             \/ i \in current[r] /\ MoveToCompleted(i, r)
      BY <1>6 DEF Takes
    <2>2. Handed' = Handed /\ sent' = sent
      <3>1. Accepted' = Accepted /\ sent' = sent
        BY <2>1 DEF MoveToCurrent, MoveToArchive, MoveToCompleted, Accepted,
                    sourceBoxes
      <3>2. \A q \in Roles : Received(q)' = Received(q)
        BY <2>1 DEF MoveToCurrent, MoveToArchive, MoveToCompleted, Received
      <3> QED
        BY <3>1, <3>2 DEF Handed, Fresh
    <2>3. CASE i \in inbox[r] /\ MoveToCurrent(i, r)
      <3>1. Taken' = [Taken EXCEPT ![r] = @ \cup {i}]
        BY <2>3 DEF MoveToCurrent, Taken
      <3>2. Contract!Take(i, r)
        BY <2>2, <2>3, <3>1 DEF Contract!Take, MoveToCurrent, Handed, Taken
      <3> QED
        BY <3>2 DEF Contract!Next
    <2>4. CASE i \in inbox[r] /\ MoveToArchive(i, r)
      <3>1. Contract!Withdraw(i, r)
        BY <2>2, <2>4 DEF Contract!Withdraw, MoveToArchive, Handed
      <3> QED
        BY <3>1 DEF Contract!Next
    <2>5. CASE i \in current[r] /\ MoveToCompleted(i, r)
      <3>1. Taken' = Taken
        BY <2>5 DEF MoveToCompleted, Taken
      <3> QED
        BY <2>2, <2>5, <3>1 DEF Contract!vars, MoveToCompleted, Handed, Taken
    <2> QED
      BY <2>1, <2>3, <2>4, <2>5
  <1>7. CASE Marks
    <2>1. Accepted' = Accepted /\ UNCHANGED <<sent, copyBoxes>>
      BY <1>7 DEF Marks, SetMarker, Accepted, sourceBoxes
    <2> QED
      BY <2>1, HandedSame DEF Contract!vars, Handed, copyBoxes
  <1>8. CASE Rewrites
    <2>1. PICK r \in Roles, i \in Ids, b \in BOOLEAN :
             Remembered(i, r) /\ Rewrite(i, r, b)
      BY <1>8 DEF Rewrites
    <2>2. i \in current[r] \cup completed[r]
      BY <2>1 DEF DeliveryInv, RememberedInv
    <2>3. /\ UNCHANGED <<sent, inbox, archive, completed>> /\ Accepted' = Accepted
          /\ current' = [current EXCEPT ![r] = @ \cup {i}]
      BY <2>1 DEF Rewrite, Accepted, sourceBoxes
    <2>4. Taken' = Taken
      BY <2>2, <2>3 DEF Taken
    <2>5. \A q \in Roles : Received(q)' = Received(q)
      BY <2>2, <2>3 DEF Received
    <2>6. Handed' = Handed
      BY <2>3, <2>5 DEF Handed, Fresh
    <2> QED
      BY <2>3, <2>4, <2>6 DEF Contract!vars, Handed, Taken
  <1> QED
    BY <1>1, <1>2, <1>3, <1>4, <1>5, <1>6, <1>7, <1>8
       DEF StoreEffect, CommonEffect, QuietEffect, Accepts

\* Every behaviour of daemon, commands and repair, whatever is killed and
\* however they interleave, is one the contract allows: see HandoffContract.
THEOREM ContractKept == Spec => KeepsContract
  <1>1. TypeOK /\ DeliveryInv /\ SentInv /\ PendInv /\ OneSourceBox /\ [Next]_vars
            => [Contract!Next]_(Contract!vars)
    BY Effect, ContractStep
  <1> QED
    BY <1>1, ContractInit, TypeCorrect, DeliveryHolds, SentHolds, PendHolds,
       SourceBoxUnique, PTL DEF Spec, KeepsContract, Contract!Spec
=============================================================================
