------------------------ MODULE HandoffCommandProofs ------------------------
(***************************************************************************)
(* The commands of a role, one at a time per role (OneShellPerRole) and    *)
(* against a daemon, a developer and a repair that do not wait for them.   *)
(***************************************************************************)
EXTENDS HandoffStoreProofs

USE DEF ByDaemon, ByCommand, ByRepair, Remember, repairVars

-----------------------------------------------------------------------------
(* One downstream message per source id.                                   *)

\* The sources move on, or retry brings a failed one back, and no shell moves.
LEMMA AdvanceQuiet ==
    ASSUME AdvanceInv, UNCHANGED <<spc, src>>, DaemonWrites \/ QuietEffect,
           everFailed' = everFailed \cup failed'
    PROVE  AdvanceInv'
  <1> USE DEF AdvanceInv, Answer
  <1>0. /\ source' = source
        /\ outbox' \subseteq outbox \cup failed
        /\ sent' \subseteq sent \cup outbox
    BY DEF QuietEffect, DaemonWrites, Submits, Settles, Refiles, WriteInbox,
           RetireToSent, RetireToFailed, RetireToRejected, MoveToOutbox,
           Rewrites, Rewrite, storeVars, sourceBoxes
  <1>1. OneDownstreamPerSource'
    <2>1. (outbox' \cup sent') \ (everFailed' \cup Malformed)
            \subseteq (outbox \cup sent) \ (everFailed \cup Malformed)
      BY <1>0
    <2> QED
      BY <1>0, <2>1 DEF OneDownstreamPerSource
  <1>2. failed' \subseteq everFailed'
    OBVIOUS
  <1>3. ASSUME NEW s \in Shells
        PROVE  /\ spc[s] \in {"findSent", "send"} => \A i \in outbox' : ~Answer(s, i)'
               /\ spc[s] = "send" => \A i \in sent' : ~Answer(s, i)'
    BY <1>0, <1>3
  <1> QED
    BY <1>1, <1>2, <1>3

\* One case per action of a shell.
LEMMA AdvanceCommand ==
    ASSUME OneShellPerRole, TypeOK, AdvanceInv, NEW s \in Shells, CommandNext(s)
    PROVE  AdvanceInv'
  <1> USE DEF AdvanceInv, Answer, OneDownstreamPerSource, TypeOK, LifecycleTypeOK,
              storeVars, sourceBoxes
  <1>1. CASE ByCommand(ReadyCall(s))
    BY <1>1 DEF ReadyCall, Goto
  <1>2. CASE ByCommand(ReadyCurrent(s))
    BY <1>2 DEF ReadyCurrent, Return, Goto, SetMarker
  <1>3. CASE ByCommand(ReadySelect(s))
    BY <1>3 DEF ReadySelect, Return
  <1>4. CASE ByCommand(ReadyGone(s))
    BY <1>4 DEF ReadyGone, ReadyStops, Return
  <1>5. CASE ByCommand(ReadyError(s))
    BY <1>5 DEF ReadyError, ReadyStops, Return
  <1>6. CASE ByCommand(ReadyMoved(s))
    BY <1>6 DEF ReadyMoved, Goto
  <1>7. CASE ByCommand(ReadyMark(s))
    BY <1>7 DEF ReadyMark, Return, SetMarker
  <1>8. CASE ByCommand(DoneCall(s))
    BY <1>8 DEF DoneCall
  <1>9. CASE ByCommand(DoneGone(s))
    BY <1>9 DEF DoneGone, Return
  <1>10. CASE ByCommand(DoneMoved(s))
    BY <1>10 DEF DoneMoved, Goto, SetMarker
  <1>11. CASE ByCommand(AdvanceFindOutbox(s))
    <2>0. UNCHANGED <<outbox, sent, failed, source>> /\ everFailed' = everFailed
      BY <1>11 DEF AdvanceFindOutbox, Find
    <2>1. \A t \in Shells \ {s} : spc'[t] = spc[t] /\ src'[t] = src[t]
      BY <1>11 DEF AdvanceFindOutbox, Find, Return, Goto
    <2>2. spc'[s] \in {"findOutbox", "findSent", "send"} =>
            /\ spc'[s] = "findSent" /\ src'[s] = src[s] /\ src[s] \in Ids
            /\ \A i \in outbox : ~Answer(s, i)
      BY <1>11 DEF AdvanceFindOutbox, Find, Return, Goto, FromSource, Readable
    <2> QED
      BY <2>0, <2>1, <2>2
  <1>12. CASE ByCommand(AdvanceFindSent(s))
    <2>0. UNCHANGED <<outbox, sent, failed, source>> /\ everFailed' = everFailed
      BY <1>12 DEF AdvanceFindSent, Find
    <2>1. \A t \in Shells \ {s} : spc'[t] = spc[t] /\ src'[t] = src[t]
      BY <1>12 DEF AdvanceFindSent, Find, Return, Goto
    <2>2. spc'[s] \in {"findOutbox", "findSent", "send"} =>
            /\ spc'[s] = "send" /\ src'[s] = src[s] /\ src[s] \in Ids
            /\ \A i \in outbox : ~Answer(s, i)
            /\ \A i \in sent : ~Answer(s, i)
      BY <1>12 DEF AdvanceFindSent, Find, Return, Goto, FromSource, Readable
    <2> QED
      BY <2>0, <2>1, <2>2
  <1>13. CASE ByCommand(ShellDies(s))
    BY <1>13 DEF ShellDies, Return
  <1>14. ASSUME NEW i \in Ids, ByCommand(ReadyAccept(s, i)) PROVE AdvanceInv'
    BY <1>14 DEF ReadyAccept, MoveToCurrent
  <1>15. ASSUME NEW i \in Ids, ByCommand(DoneMove(s, i)) PROVE AdvanceInv'
    BY <1>15 DEF DoneMove, MoveToCompleted
  <1>16. ASSUME NEW i \in Ids, ByCommand(AdvanceCall(s, i)) PROVE AdvanceInv'
    BY <1>16 DEF AdvanceCall, IsFirst
  <1>17. ASSUME NEW i \in Ids, ByCommand(AdvanceSend(s, i)) PROVE AdvanceInv'
    <2>0. i \notin outbox \cup sent /\ src[s] \in Ids
      BY <1>17 DEF AdvanceSend, Fresh, Accepted
    <2>1. /\ UNCHANGED <<sent, failed>> /\ everFailed' = everFailed
          /\ outbox' = outbox \cup {i}
          /\ source' = [source EXCEPT ![i] = src[s]]
          /\ Sender[i] = RoleOf[s] /\ spc[s] = "send"
      BY <1>17 DEF AdvanceSend, WriteOutbox
    <2>2. \A t \in Shells \ {s} : spc'[t] = spc[t] /\ src'[t] = src[t]
      BY <1>17 DEF AdvanceSend, Return
    <2>3. spc'[s] = "idle"
      BY <1>17 DEF AdvanceSend, Return
    <2>4. /\ \A j \in Ids \ {i} : source'[j] = source[j]
          /\ source'[i] = src[s]
      BY <2>1 DEF StoreTypeOK
    <2>5. \A j \in outbox \cup sent : ~Answer(s, j) /\ j \in Ids /\ j # i
      BY <2>0, <2>1 DEF StoreTypeOK
    <2>6. OneDownstreamPerSource'
      BY <2>1, <2>4, <2>5
    <2>7. \A t \in Shells \ {s} : Sender[i] # RoleOf[t]
      BY <2>1 DEF OneShellPerRole
    <2>8. \A t \in Shells \ {s} :
            /\ spc'[t] \in {"findOutbox", "findSent", "send"} => src'[t] \in Ids
            /\ spc'[t] \in {"findSent", "send"} => \A j \in outbox' : ~Answer(t, j)'
            /\ spc'[t] = "send" => \A j \in sent' : ~Answer(t, j)'
      BY <2>1, <2>2, <2>4, <2>5, <2>7
    <2> QED
      BY <2>1, <2>3, <2>6, <2>8
  <1>18. ASSUME NEW i \in Ids, ByCommand(Send(s, i)) PROVE AdvanceInv'
    <2>0. i \notin outbox \cup sent
      BY <1>18 DEF Send, Fresh, Accepted
    <2>1. /\ UNCHANGED <<sent, failed, spc, src>> /\ everFailed' = everFailed
          /\ outbox' = outbox \cup {i}
          /\ source' = [source EXCEPT ![i] = NoId]
      BY <1>18 DEF Send, WriteOutbox, lifecycleVars, shellVars
    <2>2. /\ \A j \in Ids \ {i} : source'[j] = source[j]
          /\ source'[i] = NoId
      BY <2>1 DEF StoreTypeOK
    <2>3. \A j \in outbox \cup sent : j \in Ids /\ j # i
      BY <2>0 DEF StoreTypeOK
    <2>4. OneDownstreamPerSource'
      BY <2>1, <2>2, <2>3
    <2> QED
      BY <2>1, <2>2, <2>3, <2>4, IdsAssumption
  <1>19. ASSUME NEW i \in Ids, ByCommand(Ack(s, i)) PROVE AdvanceInv'
    BY <1>19 DEF Ack, MoveToArchive, lifecycleVars, shellVars
  <1>20. ASSUME NEW i \in Ids, ByCommand(IntegrateCall(s, i)) PROVE AdvanceInv'
    BY <1>20 DEF IntegrateCall
  <1>21. ASSUME NEW i \in Ids, ByCommand(IntegrateWrite(s, i)) PROVE AdvanceInv'
    BY <1>21 DEF IntegrateWrite, Rewrite, Return
  <1> QED
    BY <1>1, <1>2, <1>3, <1>4, <1>5, <1>6, <1>7, <1>8, <1>9, <1>10, <1>11,
       <1>12, <1>13, <1>14, <1>15, <1>16, <1>17, <1>18, <1>19, <1>20, <1>21
       DEF CommandNext

\* Every process.
LEMMA AdvanceStep ==
    ASSUME OneShellPerRole, TypeOK, AdvanceInv, [Next]_vars PROVE AdvanceInv'
  <1>1. CASE UNCHANGED vars
    <2>1. everFailed' = everFailed \cup failed'
      BY <1>1 DEF vars, history, storeVars, sourceBoxes, AdvanceInv
    <2> QED
      BY <1>1, <2>1, AdvanceQuiet
         DEF vars, QuietEffect, lifecycleVars, shellVars
  <1>2. CASE DaemonNext
    <2>1. UNCHANGED <<spc, src>> /\ everFailed' = everFailed \cup failed'
      BY <1>2 DEF DaemonNext, lifecycleVars, shellVars
    <2> QED
      BY <1>2, <2>1, EffectDaemon, AdvanceQuiet
  <1>3. CASE DeveloperNext \/ RepairNext
    <2>1. UNCHANGED <<spc, src>> /\ everFailed' = everFailed \cup failed'
      BY <1>3
         DEF DeveloperNext, RepairNext, Submit, Retry, lifecycleVars,
             shellVars
    <2> QED
      BY <1>3, <2>1, EffectOthers, AdvanceQuiet
  <1>4. ASSUME NEW s \in Shells, CommandNext(s) PROVE AdvanceInv'
    BY <1>4, AdvanceCommand
  <1> QED
    BY <1>1, <1>2, <1>3, <1>4 DEF Next

\* With one command at a time per role, Advance answers a source id at most
\* once, although it looks for an earlier answer in two listings and the daemon
\* moves messages from the first box to the second (lifecycle.go Advance,
\* store.go FindBySource).
THEOREM AnsweredOnce ==
    ASSUME OneShellPerRole PROVE Spec => []OneDownstreamPerSource
  <1>1. Init => AdvanceInv
    BY DEF Init, StoreInit, LifecycleInit, AdvanceInv, OneDownstreamPerSource
  <1>2. TypeOK /\ AdvanceInv /\ [Next]_vars => AdvanceInv'
    BY AdvanceStep
  <1>3. AdvanceInv => OneDownstreamPerSource
    BY DEF AdvanceInv
  <1> QED
    BY <1>1, <1>2, <1>3, TypeCorrect, PTL DEF Spec

-----------------------------------------------------------------------------
(* One selection in current/.                                              *)

\* The order of a listing is total: it has one first entry.
LEMMA FirstUnique ==
    ASSUME NEW S \in SUBSET Ids, NEW i, NEW j, IsFirst(i, S), IsFirst(j, S)
    PROVE  i = j
  BY OrderAssumption DEF IsFirst, Before

\* An entry that was disturbed stays so, and what is not listed is disturbed.
LEMMA DisturbedStep ==
    ASSUME DisturbedInv, [Next]_vars
    PROVE  DisturbedInv' /\ \A q \in Roles : disturbed[q] \subseteq disturbed'[q]
  <1>1. CASE UNCHANGED vars
    BY <1>1 DEF DisturbedInv, vars, history, storeVars, copyBoxes
  <1>2. CASE Next
    <2>1. Remember
      BY <1>2 DEF Next, DaemonNext, CommandNext, DeveloperNext, RepairNext
    <2> QED
      BY <2>1 DEF DisturbedInv
  <1> QED
    BY <1>1, <1>2

\* What integrate writes back was there, or is finished and counts as disturbed.
LEMMA UndisturbedRewrite ==
    ASSUME TypeOK, RememberedInv, Remember, Rewrites
    PROVE  \A q \in Roles : Undisturbed(q)' \subseteq Undisturbed(q)
  <1>1. PICK r \in Roles, i \in Ids, b \in BOOLEAN :
           Remembered(i, r) /\ Rewrite(i, r, b)
    BY DEF Rewrites
  <1>2. i \in current[r] \cup completed[r]
    BY <1>1 DEF RememberedInv
  <1>3. completed' = completed /\ current' = [current EXCEPT ![r] = @ \cup {i}]
    BY <1>1 DEF Rewrite
  <1>4. \A q \in Roles : disturbed[q] \cup (current'[q] \cap completed'[q])
                            \subseteq disturbed'[q]
    OBVIOUS
  <1> QED
    BY <1>2, <1>3, <1>4 DEF Undisturbed, TypeOK, StoreTypeOK

\* Nobody but the commands of a role puts new work into its current/: repair's
\* integrate at most writes back what was there.
LEMMA SelectionOthers ==
    ASSUME SelectionInv, DaemonNext \/ DeveloperNext \/ RepairNext
           \/ UNCHANGED vars, TypeOK
    PROVE  SelectionInv'
  <1>1. UNCHANGED <<shellVars, selection>>
    BY DEF DaemonNext, DeveloperNext, RepairNext, Submit, Retry,
           lifecycleVars, vars
  <1>2. /\ DisturbedInv' /\ RememberedInv'
        /\ \A q \in Roles : disturbed[q] \subseteq disturbed'[q]
    BY DisturbedStep, RememberedStep DEF SelectionInv, Next
  <1>3. \A q \in Roles : Undisturbed(q)' \subseteq Undisturbed(q)
    <2>1. DaemonWrites \/ QuietEffect
      BY EffectDaemon, EffectOthers DEF vars, QuietEffect
    <2>2. CASE Rewrites /\ ~UNCHANGED vars
      <3>1. Remember
        BY <2>2 DEF DaemonNext, DeveloperNext, RepairNext
      <3> QED
        BY <2>2, <3>1, UndisturbedRewrite DEF SelectionInv
    <2>3. CASE UNCHANGED vars
      BY <2>3 DEF Undisturbed, vars, history, storeVars, copyBoxes
    <2>4. CASE (DaemonWrites \/ QuietEffect) /\ ~Rewrites
      <3>1. current' = current
        BY <2>4
           DEF QuietEffect, DaemonWrites, Submits, Settles, Refiles, WriteInbox,
               RetireToSent, RetireToFailed, RetireToRejected, MoveToOutbox,
               storeVars, copyBoxes
      <3> QED
        BY <1>2, <3>1 DEF Undisturbed
    <2> QED
      BY <2>1, <2>2, <2>3, <2>4
  <1>4. OneSelectionAtATime'
    BY <1>1, <1>3 DEF SelectionInv, OneSelectionAtATime
  <1>5. ASSUME NEW s \in Shells PROVE SelectionAt(s)'
    <2>1. SelectionAt(s) /\ RoleOf[s] \in Roles
      BY ShellsAssumption DEF SelectionInv
    <2> QED
      BY <1>1, <1>3, <2>1 DEF SelectionAt, shellVars
  <1> QED
    BY <1>2, <1>4, <1>5 DEF SelectionInv

\* A step of s that puts nothing new into current/.
LEMMA SelectionFrame ==
    ASSUME SelectionInv, NEW s \in Shells, DisturbedInv', RememberedInv',
           \A q \in Roles : Undisturbed(q)' \subseteq Undisturbed(q),
           selection' = selection,
           \A t \in Shells \ {s} : /\ spc'[t] = spc[t] /\ plan'[t] = plan[t]
                                   /\ moved'[t] = moved[t] /\ src'[t] = src[t],
           SelectionAt(s)'
    PROVE  SelectionInv'
  <1>1. OneSelectionAtATime'
    BY DEF SelectionInv, OneSelectionAtATime
  <1>2. \A t \in Shells \ {s} : RoleOf[t] \in Roles /\ SelectionAt(t)
    BY ShellsAssumption DEF SelectionInv
  <1>3. \A t \in Shells \ {s} : SelectionAt(t)'
    BY <1>2 DEF SelectionAt
  <1> QED
    BY <1>1, <1>3 DEF SelectionInv

\* One case per action of a shell.
LEMMA SelectionCommand ==
    ASSUME OneShellPerRole, TypeOK, SelectionInv,
           NEW s \in Shells, CommandNext(s)
    PROVE  SelectionInv'
  <1>0. /\ RoleOf[s] \in Roles /\ SelectionAt(s)
        /\ \A t \in Shells \ {s} : RoleOf[t] # RoleOf[s] /\ RoleOf[t] \in Roles
    BY ShellsAssumption DEF OneShellPerRole, SelectionInv
  <1>t. /\ spc \in [Shells -> ShellStates] /\ plan \in [Shells -> SUBSET Ids]
        /\ moved \in [Shells -> BOOLEAN] /\ src \in [Shells -> Ids \cup {NoId}]
        /\ current \in [Roles -> SUBSET Ids] /\ inbox \in [Roles -> SUBSET Ids]
        /\ selection \in [Roles -> [Ids -> Ids \cup {NoId}]]
    BY DEF TypeOK, LifecycleTypeOK, StoreTypeOK
  <1>d. /\ DisturbedInv' /\ RememberedInv'
        /\ \A q \in Roles : disturbed[q] \subseteq disturbed'[q]
    BY DisturbedStep, RememberedStep DEF SelectionInv, Next
  <1>u. \A q \in Roles : current'[q] \subseteq current[q] =>
                            Undisturbed(q)' \subseteq Undisturbed(q)
    BY <1>d DEF Undisturbed
  <1>1. CASE ByCommand(ReadyCall(s))
    <2>1. current' = current /\ selection' = selection
      BY <1>1 DEF ReadyCall, storeVars, copyBoxes
    <2>2. \A t \in Shells \ {s} : /\ spc'[t] = spc[t] /\ plan'[t] = plan[t]
                                 /\ moved'[t] = moved[t] /\ src'[t] = src[t]
      BY <1>1, <1>t DEF ReadyCall, Goto
    <2>3. SelectionAt(s)'
      BY <1>1, <1>0, <1>t, <1>u, <2>1 DEF ReadyCall, Goto, SelectionAt
    <2> QED
      BY <1>d, <1>u, <2>1, <2>2, <2>3, SelectionFrame
  <1>2. CASE ByCommand(ReadyCurrent(s))
    <2>1. current' = current /\ selection' = selection
      BY <1>2 DEF ReadyCurrent, SetMarker, storeVars, copyBoxes
    <2>2. \A t \in Shells \ {s} : /\ spc'[t] = spc[t] /\ plan'[t] = plan[t]
                                 /\ moved'[t] = moved[t] /\ src'[t] = src[t]
      BY <1>2, <1>t DEF ReadyCurrent, Return, Goto
    <2>3. SelectionAt(s)'
      <3>1. Listed(RoleOf[s]) = {} => Undisturbed(RoleOf[s]) = {}
        BY <1>0 DEF Listed, Undisturbed, SelectionInv, DisturbedInv
      <3> QED
        BY <1>2, <1>0, <1>t, <1>u, <2>1, <3>1
           DEF ReadyCurrent, Return, Goto, SelectionAt
    <2> QED
      BY <1>d, <1>u, <2>1, <2>2, <2>3, SelectionFrame
  <1>3. CASE ByCommand(ReadySelect(s))
    <2>1. current' = current /\ selection' = selection
      BY <1>3 DEF ReadySelect, storeVars, copyBoxes
    <2>2. \A t \in Shells \ {s} : /\ spc'[t] = spc[t] /\ plan'[t] = plan[t]
                                 /\ moved'[t] = moved[t] /\ src'[t] = src[t]
      BY <1>3, <1>t DEF ReadySelect, Return
    <2>3. SelectionAt(s)'
      <3>1. CASE Readable(inbox[RoleOf[s]]) = {}
        BY <1>3, <1>0, <1>t, <1>u, <2>1, <3>1 DEF ReadySelect, Return, SelectionAt
      <3>2. CASE Readable(inbox[RoleOf[s]]) # {}
        <4> DEFINE chosen == Select(Readable(inbox[RoleOf[s]]), Mode[RoleOf[s]])
        <4>1. Mode[RoleOf[s]] = "task" => \A i, j \in chosen : i = j
          BY <1>0, <1>t, FirstUnique DEF Select, Readable
        <4>2. /\ spc' = [spc EXCEPT ![s] = "accept"] /\ spc[s] = "select"
              /\ plan' = [plan EXCEPT ![s] = chosen]
              /\ moved' = moved
          BY <1>3, <3>2 DEF ReadySelect
        <4> HIDE DEF chosen
        <4>3. spc'[s] = "accept" /\ plan'[s] = chosen
          BY <1>t, <4>2
        <4> QED
          BY <1>0, <1>u, <2>1, <4>1, <4>2, <4>3 DEF SelectionAt
      <3> QED
        BY <3>1, <3>2
    <2> QED
      BY <1>d, <1>u, <2>1, <2>2, <2>3, SelectionFrame
  <1>4. CASE ByCommand(ReadyGone(s))
    <2>1. current' = current /\ selection' = selection
      BY <1>4 DEF ReadyGone, ReadyStops, storeVars, copyBoxes
    <2>2. \A t \in Shells \ {s} : /\ spc'[t] = spc[t] /\ plan'[t] = plan[t]
                                 /\ moved'[t] = moved[t] /\ src'[t] = src[t]
      BY <1>4, <1>t DEF ReadyGone, ReadyStops, Return
    <2>3. SelectionAt(s)'
      BY <1>4, <1>0, <1>t, <1>u, <2>1 DEF ReadyGone, ReadyStops, Return, SelectionAt
    <2> QED
      BY <1>d, <1>u, <2>1, <2>2, <2>3, SelectionFrame
  <1>5. CASE ByCommand(ReadyError(s))
    <2>1. current' = current /\ selection' = selection
      BY <1>5 DEF ReadyError, ReadyStops, storeVars, copyBoxes
    <2>2. \A t \in Shells \ {s} : /\ spc'[t] = spc[t] /\ plan'[t] = plan[t]
                                 /\ moved'[t] = moved[t] /\ src'[t] = src[t]
      BY <1>5, <1>t DEF ReadyError, ReadyStops, Return
    <2>3. SelectionAt(s)'
      BY <1>5, <1>0, <1>t, <1>u, <2>1 DEF ReadyError, ReadyStops, Return, SelectionAt
    <2> QED
      BY <1>d, <1>u, <2>1, <2>2, <2>3, SelectionFrame
  <1>6. CASE ByCommand(ReadyMoved(s))
    <2>1. current' = current /\ selection' = selection
      BY <1>6 DEF ReadyMoved, storeVars, copyBoxes
    <2>2. \A t \in Shells \ {s} : /\ spc'[t] = spc[t] /\ plan'[t] = plan[t]
                                 /\ moved'[t] = moved[t] /\ src'[t] = src[t]
      BY <1>6, <1>t DEF ReadyMoved, Goto
    <2>3. SelectionAt(s)'
      BY <1>6, <1>0, <1>t, <1>u, <2>1 DEF ReadyMoved, Goto, SelectionAt
    <2> QED
      BY <1>d, <1>u, <2>1, <2>2, <2>3, SelectionFrame
  <1>7. CASE ByCommand(ReadyMark(s))
    <2>1. current' = current /\ selection' = selection
      BY <1>7 DEF ReadyMark, SetMarker, storeVars, copyBoxes
    <2>2. \A t \in Shells \ {s} : /\ spc'[t] = spc[t] /\ plan'[t] = plan[t]
                                 /\ moved'[t] = moved[t] /\ src'[t] = src[t]
      BY <1>7, <1>t DEF ReadyMark, Return
    <2>3. SelectionAt(s)'
      BY <1>7, <1>0, <1>t, <1>u, <2>1 DEF ReadyMark, Return, SelectionAt
    <2> QED
      BY <1>d, <1>u, <2>1, <2>2, <2>3, SelectionFrame
  <1>8. CASE ByCommand(DoneCall(s))
    <2>1. current' = current /\ selection' = selection
      BY <1>8 DEF DoneCall, storeVars, copyBoxes
    <2>2. \A t \in Shells \ {s} : /\ spc'[t] = spc[t] /\ plan'[t] = plan[t]
                                 /\ moved'[t] = moved[t] /\ src'[t] = src[t]
      BY <1>8, <1>t DEF DoneCall
    <2>3. SelectionAt(s)'
      BY <1>8, <1>0, <1>t, <1>u, <2>1 DEF DoneCall, SelectionAt
    <2> QED
      BY <1>d, <1>u, <2>1, <2>2, <2>3, SelectionFrame
  <1>9. CASE ByCommand(DoneGone(s))
    <2>1. current' = current /\ selection' = selection
      BY <1>9 DEF DoneGone, storeVars, copyBoxes
    <2>2. \A t \in Shells \ {s} : /\ spc'[t] = spc[t] /\ plan'[t] = plan[t]
                                 /\ moved'[t] = moved[t] /\ src'[t] = src[t]
      BY <1>9, <1>t DEF DoneGone, Return
    <2>3. SelectionAt(s)'
      BY <1>9, <1>0, <1>t, <1>u, <2>1 DEF DoneGone, Return, SelectionAt
    <2> QED
      BY <1>d, <1>u, <2>1, <2>2, <2>3, SelectionFrame
  <1>10. CASE ByCommand(DoneMoved(s))
    <2>1. current' = current /\ selection' = selection
      BY <1>10 DEF DoneMoved, SetMarker, copyBoxes
    <2>2. \A t \in Shells \ {s} : /\ spc'[t] = spc[t] /\ plan'[t] = plan[t]
                                 /\ moved'[t] = moved[t] /\ src'[t] = src[t]
      BY <1>10, <1>t DEF DoneMoved, Goto
    <2>3. SelectionAt(s)'
      BY <1>10, <1>0, <1>t, <1>u, <2>1 DEF DoneMoved, Goto, SelectionAt
    <2> QED
      BY <1>d, <1>u, <2>1, <2>2, <2>3, SelectionFrame
  <1>11. CASE ByCommand(AdvanceFindOutbox(s))
    <2>1. current' = current /\ selection' = selection
      BY <1>11 DEF AdvanceFindOutbox, Find, storeVars, copyBoxes
    <2>2. \A t \in Shells \ {s} : /\ spc'[t] = spc[t] /\ plan'[t] = plan[t]
                                 /\ moved'[t] = moved[t] /\ src'[t] = src[t]
      BY <1>11, <1>t DEF AdvanceFindOutbox, Find, Return, Goto
    <2>3. SelectionAt(s)'
      BY <1>11, <1>0, <1>t, <1>u, <2>1
         DEF AdvanceFindOutbox, Find, Return, Goto, SelectionAt
    <2> QED
      BY <1>d, <1>u, <2>1, <2>2, <2>3, SelectionFrame
  <1>12. CASE ByCommand(AdvanceFindSent(s))
    <2>1. current' = current /\ selection' = selection
      BY <1>12 DEF AdvanceFindSent, Find, storeVars, copyBoxes
    <2>2. \A t \in Shells \ {s} : /\ spc'[t] = spc[t] /\ plan'[t] = plan[t]
                                 /\ moved'[t] = moved[t] /\ src'[t] = src[t]
      BY <1>12, <1>t DEF AdvanceFindSent, Find, Return, Goto
    <2>3. SelectionAt(s)'
      BY <1>12, <1>0, <1>t, <1>u, <2>1
         DEF AdvanceFindSent, Find, Return, Goto, SelectionAt
    <2> QED
      BY <1>d, <1>u, <2>1, <2>2, <2>3, SelectionFrame
  <1>13. CASE ByCommand(ShellDies(s))
    <2>1. current' = current /\ selection' = selection
      BY <1>13 DEF ShellDies, storeVars, copyBoxes
    <2>2. \A t \in Shells \ {s} : /\ spc'[t] = spc[t] /\ plan'[t] = plan[t]
                                 /\ moved'[t] = moved[t] /\ src'[t] = src[t]
      BY <1>13, <1>t DEF ShellDies, Return
    <2>3. SelectionAt(s)'
      BY <1>13, <1>0, <1>t, <1>u, <2>1 DEF ShellDies, Return, SelectionAt
    <2> QED
      BY <1>d, <1>u, <2>1, <2>2, <2>3, SelectionFrame
  <1>14. ASSUME NEW i \in Ids, ByCommand(ReadyAccept(s, i)) PROVE SelectionInv'
    <2> DEFINE first == IF moved[s] THEN src[s] ELSE i
    <2>1. /\ spc' = spc /\ spc[s] = "accept" /\ IsFirst(i, plan[s])
          /\ current' = [current EXCEPT ![RoleOf[s]] = @ \cup {i}]
          /\ selection' = [selection EXCEPT ![RoleOf[s]][i] = first]
          /\ src' = [src EXCEPT ![s] = first]
          /\ plan' = [plan EXCEPT ![s] = @ \ {i}]
          /\ moved' = [moved EXCEPT ![s] = TRUE]
      BY <1>14 DEF ReadyAccept, MoveToCurrent
    <2>2. i \in plan[s]
      BY <2>1 DEF IsFirst
    <2>3. \A j \in Undisturbed(RoleOf[s]) : selection[RoleOf[s]][j] = first
      BY <1>0, <2>1 DEF SelectionAt
    <2>4. Mode[RoleOf[s]] = "task" =>
            Undisturbed(RoleOf[s]) = {} /\ plan[s] \subseteq {i}
      BY <1>0, <2>1, <2>2 DEF SelectionAt
    <2> HIDE DEF first
    <2>5. /\ current'[RoleOf[s]] = current[RoleOf[s]] \cup {i}
          /\ \A q \in Roles \ {RoleOf[s]} :
                current'[q] = current[q] /\ selection'[q] = selection[q]
          /\ selection'[RoleOf[s]] = [selection[RoleOf[s]] EXCEPT ![i] = first]
      BY <1>0, <1>t, <2>1
    <2>a. Undisturbed(RoleOf[s])' \subseteq Undisturbed(RoleOf[s]) \cup {i}
      BY <1>0, <1>d, <2>5 DEF Undisturbed
    <2>b. \A q \in Roles \ {RoleOf[s]} : Undisturbed(q)' \subseteq Undisturbed(q)
      BY <1>u, <2>5
    <2>6. \A j \in Undisturbed(RoleOf[s])' : selection'[RoleOf[s]][j] = first
      <3>1. DOMAIN selection[RoleOf[s]] = Ids /\ Undisturbed(RoleOf[s]) \subseteq Ids
        BY <1>0, <1>t DEF Undisturbed
      <3> QED
        BY <2>3, <2>5, <2>a, <3>1
    <2>7. OneSelectionAtATime'
      <3>1. OneSelectionAtATime
        BY DEF SelectionInv
      <3>2. ASSUME NEW q \in Roles, NEW j \in Undisturbed(q)', NEW k \in Undisturbed(q)'
            PROVE  selection'[q][j] = selection'[q][k] /\ (Mode[q] = "task" => j = k)
        <4>1. CASE q = RoleOf[s]
          BY <2>4, <2>6, <2>a, <4>1
        <4>2. CASE q # RoleOf[s]
          BY <2>5, <2>b, <3>1, <4>2 DEF OneSelectionAtATime
        <4> QED
          BY <4>1, <4>2
      <3> QED
        BY <3>2 DEF OneSelectionAtATime
    <2>8. ASSUME NEW t \in Shells \ {s} PROVE SelectionAt(t)'
      <3>1. /\ spc'[t] = spc[t] /\ src'[t] = src[t]
            /\ moved'[t] = moved[t] /\ plan'[t] = plan[t]
        BY <1>t, <2>1
      <3>2. SelectionAt(t)
        BY DEF SelectionInv
      <3>3. /\ Undisturbed(RoleOf[t])' \subseteq Undisturbed(RoleOf[t])
            /\ selection'[RoleOf[t]] = selection[RoleOf[t]]
        BY <1>0, <2>5, <2>b
      <3> QED
        BY <3>1, <3>2, <3>3 DEF SelectionAt
    <2>9. SelectionAt(s)'
      <3>1. spc'[s] = "accept" /\ moved'[s] /\ src'[s] = first /\ plan'[s] = plan[s] \ {i}
        BY <1>t, <2>1
      <3>2. Mode[RoleOf[s]] = "task" => plan'[s] = {}
        BY <2>4, <3>1
      <3> QED
        BY <2>6, <3>1, <3>2 DEF SelectionAt
    <2> QED
      BY <1>d, <2>7, <2>8, <2>9 DEF SelectionInv
  <1>15. ASSUME NEW i \in Ids, ByCommand(DoneMove(s, i)) PROVE SelectionInv'
    <2>1. /\ UNCHANGED <<spc, moved, src, selection>> /\ spc[s] = "complete"
          /\ current' = [current EXCEPT ![RoleOf[s]] = @ \ {i}]
          /\ \A t \in Shells \ {s} : plan'[t] = plan[t]
      BY <1>15, <1>t DEF DoneMove, MoveToCompleted
    <2>2. \A q \in Roles : current'[q] \subseteq current[q]
      BY <1>0, <1>t, <2>1
    <2>3. SelectionAt(s)'
      BY <1>0, <2>1 DEF SelectionAt
    <2> QED
      BY <1>d, <1>u, <2>1, <2>2, <2>3, SelectionFrame
  <1>16. ASSUME NEW i \in Ids, ByCommand(AdvanceCall(s, i)) PROVE SelectionInv'
    <2>1. current' = current /\ selection' = selection
      BY <1>16 DEF AdvanceCall, storeVars, copyBoxes
    <2>2. \A t \in Shells \ {s} : /\ spc'[t] = spc[t] /\ plan'[t] = plan[t]
                                 /\ moved'[t] = moved[t] /\ src'[t] = src[t]
      BY <1>16, <1>t DEF AdvanceCall
    <2>3. SelectionAt(s)'
      BY <1>16, <1>0, <1>t, <1>u, <2>1 DEF AdvanceCall, IsFirst, SelectionAt
    <2> QED
      BY <1>d, <1>u, <2>1, <2>2, <2>3, SelectionFrame
  <1>17. ASSUME NEW i \in Ids, ByCommand(AdvanceSend(s, i)) PROVE SelectionInv'
    <2>1. current' = current /\ selection' = selection
      BY <1>17 DEF AdvanceSend, WriteOutbox, copyBoxes
    <2>2. \A t \in Shells \ {s} : /\ spc'[t] = spc[t] /\ plan'[t] = plan[t]
                                 /\ moved'[t] = moved[t] /\ src'[t] = src[t]
      BY <1>17, <1>t DEF AdvanceSend, Return
    <2>3. SelectionAt(s)'
      BY <1>17, <1>0, <1>t, <1>u, <2>1 DEF AdvanceSend, Return, SelectionAt
    <2> QED
      BY <1>d, <1>u, <2>1, <2>2, <2>3, SelectionFrame
  <1>18. ASSUME NEW i \in Ids, ByCommand(Send(s, i)) PROVE SelectionInv'
    <2>1. current' = current /\ selection' = selection
      BY <1>18 DEF Send, WriteOutbox, lifecycleVars, copyBoxes
    <2>2. \A t \in Shells \ {s} : /\ spc'[t] = spc[t] /\ plan'[t] = plan[t]
                                 /\ moved'[t] = moved[t] /\ src'[t] = src[t]
      BY <1>18, <1>t DEF Send, lifecycleVars, shellVars
    <2>3. SelectionAt(s)'
      BY <1>18, <1>0, <1>t, <1>u, <2>1 DEF Send, lifecycleVars, shellVars, SelectionAt
    <2> QED
      BY <1>d, <1>u, <2>1, <2>2, <2>3, SelectionFrame
  <1>19. ASSUME NEW i \in Ids, ByCommand(Ack(s, i)) PROVE SelectionInv'
    <2>1. current' = current /\ selection' = selection
      BY <1>19 DEF Ack, MoveToArchive, lifecycleVars
    <2>2. \A t \in Shells \ {s} : /\ spc'[t] = spc[t] /\ plan'[t] = plan[t]
                                 /\ moved'[t] = moved[t] /\ src'[t] = src[t]
      BY <1>19, <1>t DEF Ack, lifecycleVars, shellVars
    <2>3. SelectionAt(s)'
      BY <1>19, <1>0, <1>t, <1>u, <2>1 DEF Ack, lifecycleVars, shellVars, SelectionAt
    <2> QED
      BY <1>d, <1>u, <2>1, <2>2, <2>3, SelectionFrame
  <1>20. ASSUME NEW i \in Ids, ByCommand(IntegrateCall(s, i)) PROVE SelectionInv'
    <2>1. current' = current /\ selection' = selection
      BY <1>20 DEF IntegrateCall, storeVars, copyBoxes
    <2>2. \A t \in Shells \ {s} : /\ spc'[t] = spc[t] /\ plan'[t] = plan[t]
                                 /\ moved'[t] = moved[t] /\ src'[t] = src[t]
      BY <1>20, <1>t DEF IntegrateCall
    <2>3. SelectionAt(s)'
      BY <1>20, <1>0, <1>t, <1>u, <2>1 DEF IntegrateCall, SelectionAt
    <2> QED
      BY <1>d, <1>u, <2>1, <2>2, <2>3, SelectionFrame
  <1>21. ASSUME NEW i \in Ids, ByCommand(IntegrateWrite(s, i)) PROVE SelectionInv'
    <2>0. Remembered(i, RoleOf[s])
      BY <1>21, <1>0 DEF IntegrateWrite, Remembered
    <2>1. selection' = selection /\ Rewrites
      BY <1>21, <1>0, <2>0 DEF IntegrateWrite, Rewrites
    <2>2. \A t \in Shells \ {s} : /\ spc'[t] = spc[t] /\ plan'[t] = plan[t]
                                 /\ moved'[t] = moved[t] /\ src'[t] = src[t]
      BY <1>21, <1>t DEF IntegrateWrite, Return
    <2>3. SelectionAt(s)'
      BY <1>21, <1>0, <1>t DEF IntegrateWrite, Return, SelectionAt
    <2>4. \A q \in Roles : Undisturbed(q)' \subseteq Undisturbed(q)
      BY <1>21, <2>1, UndisturbedRewrite DEF SelectionInv
    <2> QED
      BY <1>d, <2>1, <2>2, <2>3, <2>4, SelectionFrame
  <1> QED
    BY <1>1, <1>2, <1>3, <1>4, <1>5, <1>6, <1>7, <1>8, <1>9, <1>10, <1>11,
       <1>12, <1>13, <1>14, <1>15, <1>16, <1>17, <1>18, <1>19, <1>20, <1>21
       DEF CommandNext

\* With one command at a time per role, current/ never mixes the work of two
\* selections and in task mode holds at most one message, whichever ready or
\* done was killed half-way (lifecycle.go Ready, Done).  This is said of the
\* entries integrate has not disturbed, and it is not so of the others: repair
\* may write finished work back into current/ or leave current work unlisted,
\* before, after or in the middle of a ready.
THEOREM OneSelection ==
    ASSUME OneShellPerRole PROVE Spec => []OneSelectionAtATime
  <1>1. Init => SelectionInv
    BY RememberedInit DEF Init, StoreInit, LifecycleInit, SelectionInv,
           SelectionAt, OneSelectionAtATime, Undisturbed, DisturbedInv
  <1>2. TypeOK /\ SelectionInv /\ [Next]_vars => SelectionInv'
    BY SelectionOthers, SelectionCommand DEF Next
  <1>3. SelectionInv => OneSelectionAtATime
    BY DEF SelectionInv
  <1> QED
    BY <1>1, <1>2, <1>3, TypeCorrect, PTL DEF Spec
=============================================================================
