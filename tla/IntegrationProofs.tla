------------------------- MODULE IntegrationProofs -------------------------
(***************************************************************************)
(* The properties of Integration, for any handoffs, histories, commands    *)
(* and bounds.  First what the operators on commits mean, then the type    *)
(* invariant, then one invariant for each property, action by action.      *)
(***************************************************************************)
EXTENDS Integration, SequenceTheorems, TLAPS

PatchType == [change : STRING, by : {"sender", "agent", "picked"}]

-----------------------------------------------------------------------------
(* Commits.                                                                *)

\* The n-th commit of a history: its patches are those of the history.
LEMMA Prefix ==
    ASSUME NEW s \in Histories, NEW n \in 1..Len(s)
    PROVE  /\ SubSeq(s, 1, n) \in Histories
           /\ Len(SubSeq(s, 1, n)) = n
           /\ \A i \in 1..n : SubSeq(s, 1, n)[i] = s[i]
           /\ Tip(SubSeq(s, 1, n)) = s[n].change
  <1>1. /\ s \in Seq(PatchType) /\ n \in 1..n
        /\ \A i \in 1..n : s[i] \in PatchType
    <2>1. s \in Seq(PatchType) /\ Len(s) \in Nat
      BY DEF Histories, PatchType
    <2>2. \A i \in 1..Len(s) : s[i] \in PatchType
      BY <2>1, ElementOfSeq
    <2> QED
      BY <2>1, <2>2
  <1>2. /\ SubSeq(s, 1, n) \in Seq(PatchType)
        /\ Len(SubSeq(s, 1, n)) = n
        /\ \A i \in 1..n : SubSeq(s, 1, n)[i] = s[i]
    BY <1>1, SubSeqProperties
  <1>3. SubSeq(s, 1, n) \in Histories
    BY <1>2 DEF Histories, PatchType
  <1>4. Tip(SubSeq(s, 1, n)) = s[n].change
    BY <1>1, <1>2, Zenon DEF Tip
  <1> QED
    BY <1>2, <1>3, <1>4

\* A history is its own last commit.
LEMMA Itself == ASSUME NEW s \in Histories PROVE IsAncestor(s, s)
  <1>1. s \in Seq(PatchType) /\ Len(s) \in 1..Len(s) /\ SubSeq(s, 1, Len(s)) = s
    BY SubSeqFull DEF Histories, PatchType
  <1> QED
    BY <1>1 DEF IsAncestor, Commits

\* The changes of a history are those of its commits.
LEMMA ChangesOfTips ==
    ASSUME NEW s \in Histories
    PROVE  /\ \A c \in Commits(s) : Tip(c) \in Changes(s)
           /\ \A x \in Changes(s) : \E c \in Commits(s) : Tip(c) = x
           /\ Tip(s) \in Changes(s)
  <1>1. DOMAIN s = 1..Len(s) /\ Len(s) \in 1..Len(s)
    BY LenProperties DEF Histories
  <1>2. ASSUME NEW c \in Commits(s) PROVE Tip(c) \in Changes(s)
    <2>1. PICK n \in 1..Len(s) : c = SubSeq(s, 1, n)
      BY DEF Commits
    <2>2. Tip(c) = s[n].change
      BY <2>1, Prefix
    <2> QED
      BY <1>1, <2>2 DEF Changes
  <1>3. ASSUME NEW x \in Changes(s) PROVE \E c \in Commits(s) : Tip(c) = x
    <2>1. PICK n \in 1..Len(s) : x = s[n].change
      BY <1>1 DEF Changes
    <2>2. Tip(SubSeq(s, 1, n)) = x
      BY <2>1, Prefix
    <2> QED
      BY <2>2 DEF Commits
  <1>4. Tip(s) \in Changes(s)
    BY <1>1 DEF Changes, Tip
  <1> QED
    BY <1>2, <1>3, <1>4

\* An ancestor's changes are in the history.
LEMMA AncestorChanges ==
    ASSUME NEW s \in Histories, NEW c, IsAncestor(c, s)
    PROVE  Changes(c) \subseteq Changes(s)
  <1>1. PICK n \in 1..Len(s) : c = SubSeq(s, 1, n)
    BY DEF IsAncestor, Commits
  <1>2. DOMAIN s = 1..Len(s) /\ Len(s) \in Nat
    BY LenProperties DEF Histories
  <1>3. /\ c \in Histories /\ Len(c) = n
        /\ \A i \in 1..n : c[i] = s[i]
    BY <1>1, Prefix
  <1>4. DOMAIN c = 1..n
    BY <1>3, LenProperties DEF Histories
  <1> QED
    BY <1>2, <1>3, <1>4 DEF Changes

\* A commit on top leaves the history underneath an ancestor and adds one change.
LEMMA OnTop ==
    ASSUME NEW s \in Histories, NEW change \in STRING, NEW by \in {"agent", "picked"}
    PROVE  LET t == Append(s, Patch(change, by))
           IN  /\ t \in Histories
               /\ IsAncestor(s, t)
               /\ change \in Changes(t)
               /\ Changes(s) \subseteq Changes(t)
  <1> DEFINE x == Patch(change, by)
             t == Append(s, x)
  <1>1. x \in PatchType /\ x.change = change
    BY DEF Patch, PatchType
  <1>2. s \in Seq(PatchType) /\ Len(s) \in Nat /\ DOMAIN s = 1..Len(s)
    BY LenProperties DEF Histories, PatchType
  <1>3. /\ t \in Seq(PatchType) /\ Len(t) = Len(s) + 1
        /\ t[Len(s) + 1] = x /\ \A i \in 1..Len(s) : t[i] = s[i]
    BY <1>1, <1>2
  <1>4. t \in Histories
    BY <1>2, <1>3 DEF Histories, PatchType
  <1>5. Len(s) \in 1..Len(t)
    BY <1>2, <1>3 DEF Histories
  <1>6. SubSeq(t, 1, Len(s)) = s
    <2>1. /\ SubSeq(t, 1, Len(s)) \in Seq(PatchType)
          /\ Len(SubSeq(t, 1, Len(s))) = Len(s)
          /\ \A i \in 1..Len(s) : SubSeq(t, 1, Len(s))[i] = s[i]
      BY <1>3, <1>4, <1>5, Prefix DEF Histories, PatchType
    <2> QED
      BY <1>2, <2>1, SeqEqual
  <1>7. IsAncestor(s, t)
    BY <1>5, <1>6 DEF IsAncestor, Commits
  <1>8. DOMAIN t = 1..Len(t)
    BY <1>3, LenProperties
  <1>9. change \in Changes(t)
    BY <1>1, <1>2, <1>3, <1>8 DEF Changes
  <1> HIDE DEF t
  <1> QED
    BY <1>4, <1>7, <1>9, AncestorChanges DEF t

\* The handed commits are histories with changes.
LEMMA HandedTip ==
    ASSUME NEW h \in Handoffs
    PROVE  Handed[h] \in Histories /\ Tip(Handed[h]) \in STRING
  <1>1. Handed[h] \in Histories
    BY HandedHistories
  <1>2. Handed[h][Len(Handed[h])] \in PatchType
    <2>1. Handed[h] \in Seq(PatchType) /\ Len(Handed[h]) \in 1..Len(Handed[h])
      BY <1>1 DEF Histories, PatchType
    <2> QED
      BY <2>1, ElementOfSeq
  <1> QED
    BY <1>1, <1>2 DEF Tip, PatchType

\* What git cherry calls applied has the last of the handed changes in the branch.
LEMMA AppliedMeansPresent ==
    ASSUME NEW commit \in Histories, Here \in Histories, AlreadyApplied(commit)
    PROVE  Tip(commit) \in Changes(Here)
  <1>1. CASE IsAncestor(commit, Here)
    BY <1>1, ChangesOfTips DEF IsAncestor
  <1>2. CASE ~IsAncestor(commit, Here)
    <2>1. commit \in Commits(commit) \ Commits(Here)
      BY <1>2, Itself DEF IsAncestor
    <2>2. PICK d \in Commits(Here) : Tip(d) = Tip(commit)
      BY <1>2, <2>1 DEF AlreadyApplied, AlreadyContains
    <2> QED
      BY <2>2, ChangesOfTips
  <1> QED
    BY <1>1, <1>2

\* Conversely git cherry recognises a commit all of whose changes are in the branch, if
\* it makes no change twice: the branch has each of them beyond the common part.
LEMMA PresentMeansApplied ==
    ASSUME NEW h \in Handoffs, Here \in Histories,
           Changes(Handed[h]) \subseteq Changes(Here)
    PROVE  AlreadyApplied(Handed[h])
  <1> DEFINE commit == Handed[h]
  <1>1. commit \in Histories /\ DOMAIN commit = 1..Len(commit)
    BY HandedHistories, LenProperties DEF Histories
  <1>2. SUFFICES ASSUME NEW c \in Commits(commit) \ Commits(Here)
                 PROVE  \E d \in Commits(Here) \ Commits(commit) : Tip(d) = Tip(c)
    BY DEF AlreadyApplied
  <1>3. PICK n \in 1..Len(commit) : c = SubSeq(commit, 1, n)
    BY DEF Commits
  <1>4. Tip(c) = commit[n].change /\ Tip(c) \in Changes(commit)
    BY <1>1, <1>3, Prefix DEF Changes
  <1>5. PICK d \in Commits(Here) : Tip(d) = Tip(c)
    BY <1>4, ChangesOfTips
  <1>6. d \notin Commits(commit)
    <2>1. SUFFICES ASSUME d \in Commits(commit) PROVE FALSE
      OBVIOUS
    <2>2. PICK m \in 1..Len(commit) : d = SubSeq(commit, 1, m)
      BY <2>1 DEF Commits
    <2>3. Tip(d) = commit[m].change
      BY <1>1, <2>2, Prefix
    <2>4. m = n
      BY <1>1, <1>4, <1>5, <2>3, HandedOnce
    <2> QED
      BY <1>2, <1>3, <1>5, <2>2, <2>4
  <1> QED
    BY <1>5, <1>6

-----------------------------------------------------------------------------
(* Type correctness.                                                       *)

ProcOK ==
    /\ proc \in [Processes -> Commands]
    /\ \A p \in Processes :
          /\ proc[p].pc # "idle" => proc[p].work \in Handoffs
          /\ proc[p].pc = "record" => proc[p].result # "none"

\* A command that goes on to a state of its type leaves all of them typed.
LEMMA BecomesType ==
    ASSUME ProcOK, NEW p \in Processes, NEW state \in Commands, Becomes(p, state),
           state.pc # "idle" => state.work \in Handoffs,
           state.pc = "record" => state.result # "none"
    PROVE  ProcOK'
  <1>1. \A q \in Processes :
           /\ [proc[q] EXCEPT !.known = FALSE] \in Commands
           /\ [proc[q] EXCEPT !.known = FALSE].pc = proc[q].pc
           /\ [proc[q] EXCEPT !.known = FALSE].work = proc[q].work
           /\ [proc[q] EXCEPT !.known = FALSE].result = proc[q].result
    BY DEF ProcOK, Commands
  <1> QED
    BY <1>1 DEF ProcOK, Becomes

LEMMA GoesType ==
    ASSUME ProcOK, NEW p \in Processes, proc[p].pc # "idle",
           NEW pc \in States \ {"record"}, Goes(p, pc)
    PROVE  ProcOK'
  <1> DEFINE state == [proc[p] EXCEPT !.pc = pc]
  <1>1. state \in Commands /\ state.work \in Handoffs /\ state.pc # "record"
    BY DEF ProcOK, Commands
  <1>2. Becomes(p, state)
    BY DEF Goes
  <1> HIDE DEF state
  <1> QED
    BY <1>1, <1>2, BecomesType

LEMMA EndsType ==
    ASSUME ProcOK, NEW p \in Processes, proc[p].pc # "idle",
           NEW result \in {"integrated"} \cup Failures, Ends(p, result)
    PROVE  ProcOK'
  <1> DEFINE state == [proc[p] EXCEPT !.pc = "record", !.result = result]
  <1>1. state \in Commands /\ state.work \in Handoffs /\ state.result # "none"
    BY DEF ProcOK, Commands, States, Failures
  <1>2. Becomes(p, state)
    BY DEF Ends
  <1> HIDE DEF state
  <1> QED
    BY <1>1, <1>2, BecomesType

LEMMA FailsType ==
    ASSUME ProcOK, NEW p \in Processes, proc[p].pc # "idle", Fails(p)
    PROVE  ProcOK'
  BY EndsType DEF Fails

LEMMA UnansweredType ==
    ASSUME ProcOK, NEW p \in Processes, proc[p].pc # "idle",
           NEW pc \in States, NEW result \in {"none"} \cup Failures,
           pc = "record" => result # "none", Unanswered(p, pc, result)
    PROVE  ProcOK'
  <1> DEFINE state == [proc[p] EXCEPT !.pc = pc, !.result = result, !.known = FALSE]
  <1>1. /\ state \in Commands /\ state.work \in Handoffs
        /\ state.pc = pc /\ state.result = result
    BY DEF ProcOK, Commands
  <1>2. Becomes(p, state)
    BY DEF Unanswered
  <1> HIDE DEF state
  <1> QED
    BY <1>1, <1>2, BecomesType

LEMMA IdleType == Idle \in Commands /\ Idle.pc = "idle"
  BY DEF Idle, Commands, States

\* The commit a command works on.
LEMMA WorkType ==
    ASSUME TypeOK, NEW p \in Processes, proc[p].pc # "idle"
    PROVE  Work(p) \in Histories /\ Tip(Work(p)) \in STRING
  BY HandedTip DEF TypeOK, Work

LEMMA HereType == TypeOK => Here \in Histories
  BY DEF TypeOK, Here

LEMMA TypeInit == Init => TypeOK
  <1>1. SUFFICES ASSUME Init PROVE TypeOK
    OBVIOUS
  <1>2. proc \in [Processes -> Commands] /\ \A p \in Processes : proc[p].pc = "idle"
    BY <1>1, IdleType DEF Init
  <1>3. branch \in [Branches -> Histories] /\ head \in Branches
    BY <1>1, BaseIsHistory DEF Init, Branches
  <1>4. \A p \in Processes :
           /\ proc[p].pc # "idle" => proc[p].work \in Handoffs
           /\ proc[p].pc = "record" => proc[p].result # "none"
    BY <1>2
  <1>5. crashes \in 0..MaxCrashes /\ acts \in 0..MaxEdits
    BY <1>1, BoundsNat DEF Init
  <1>6. current \in [Handoffs -> Statuses \cup {Absent}] /\ completed \subseteq Handoffs
    BY <1>1, Zenon DEF Init
  <1> QED
    BY <1>1, <1>2, <1>3, <1>4, <1>5, <1>6 DEF Init, TypeOK

LEMMA TypeNext == ASSUME TypeOK, [Next]_vars PROVE TypeOK'
  <1>0. ProcOK /\ crashes \in 0..MaxCrashes /\ acts \in 0..MaxEdits
    BY DEF TypeOK, ProcOK
  <1> USE DEF worktree, boxes, history
  <1>1. ASSUME NEW p \in Processes, Look(p) PROVE TypeOK'
    <2>1. PICK h \in Handoffs :
             Becomes(p, [pc     |-> "check",
                         work   |-> h,
                         result |-> "none",
                         known  |-> /\ Changes(Handed[h]) \subseteq Changes(Here)
                                    /\ head = "managed" /\ ~edits /\ pick = "none"
                                    /\ \A q \in Processes \ {p} : At(q, "idle")])
      BY <1>1 DEF Look
    <2> DEFINE state == [pc     |-> "check",
                         work   |-> h,
                         result |-> "none",
                         known  |-> /\ Changes(Handed[h]) \subseteq Changes(Here)
                                    /\ head = "managed" /\ ~edits /\ pick = "none"
                                    /\ \A q \in Processes \ {p} : At(q, "idle")]
    <2>2. state \in Commands /\ state.pc = "check" /\ state.work \in Handoffs
      BY Zenon DEF Commands, States
    <2> HIDE DEF state
    <2>3. ProcOK'
      BY <1>0, <2>1, <2>2, BecomesType DEF state
    <2> QED
      BY <1>1, <2>3 DEF TypeOK, ProcOK, Look
  <1>2. ASSUME NEW p \in Processes, Check(p) PROVE TypeOK'
    <2>1. ProcOK'
      BY <1>0, <1>2, GoesType, EndsType DEF Check, At, States, Failures
    <2> QED
      BY <1>2, <2>1 DEF TypeOK, ProcOK, Check
  <1>3. ASSUME NEW p \in Processes, Compare(p) PROVE TypeOK'
    <2>1. ProcOK'
      BY <1>0, <1>3, GoesType, EndsType DEF Compare, At, States
    <2> QED
      BY <1>3, <2>1 DEF TypeOK, ProcOK, Compare
  <1>4. ASSUME NEW p \in Processes, Choose(p) PROVE TypeOK'
    <2>1. ProcOK'
      BY <1>0, <1>4, GoesType DEF Choose, At, States
    <2> QED
      BY <1>4, <2>1 DEF TypeOK, ProcOK, Choose
  <1>5. ASSUME NEW p \in Processes, FastForward(p) PROVE TypeOK'
    <2>1. ProcOK'
      BY <1>0, <1>5, EndsType, FailsType DEF FastForward, At
    <2>2. Work(p) \in Histories
      BY <1>5, WorkType DEF FastForward, At
    <2> QED
      BY <1>5, <2>1, <2>2 DEF TypeOK, ProcOK, FastForward
  <1>6. ASSUME NEW p \in Processes, CherryPick(p) PROVE TypeOK'
    <2>1. ProcOK'
      BY <1>0, <1>6, EndsType, GoesType DEF CherryPick, At, States
    <2>2. Append(Here, Patch(Tip(Work(p)), "picked")) \in Histories
      BY <1>6, WorkType, HereType, OnTop DEF CherryPick, At
    <2> QED
      BY <1>6, <2>1, <2>2 DEF TypeOK, ProcOK, CherryPick, Picked, Here
  <1>7. ASSUME NEW p \in Processes, Abort(p) PROVE TypeOK'
    <2>1. ProcOK'
      BY <1>0, <1>7, EndsType, FailsType DEF Abort, At, Failures
    <2> QED
      BY <1>7, <2>1 DEF TypeOK, ProcOK, Abort
  <1>8. ASSUME NEW p \in Processes, Record(p) PROVE TypeOK'
    <2>1. ProcOK'
      BY <1>0, <1>8, BecomesType, IdleType DEF Record
    <2>2. proc[p].work \in Handoffs /\ proc[p].result \in Statuses
      BY <1>0, <1>8 DEF Record, At, ProcOK, Commands, Statuses
    <2> QED
      BY <1>8, <2>1, <2>2 DEF TypeOK, ProcOK, Record
  <1>9. ASSUME NEW p \in Processes, Crash(p) PROVE TypeOK'
    <2>1. ProcOK'
      BY <1>0, <1>9, IdleType DEF Crash, ProcOK
    <2> QED
      BY <1>0, <1>9, <2>1, BoundsNat DEF TypeOK, ProcOK, Crash
  <1>10. ASSUME Ready \/ Done PROVE TypeOK'
    BY <1>10 DEF TypeOK, Ready, Done, Statuses, InHand, Absent
  <1>11. ASSUME NEW p \in Processes, GitFails(p) PROVE TypeOK'
    <2>1. ProcOK'
      <3>1. CASE \E result \in Failures : Unanswered(p, "record", result)
        <4>1. PICK result \in Failures : Unanswered(p, "record", result)
          BY <3>1
        <4>2. result # "none" /\ "record" \in States /\ proc[p].pc # "idle"
          BY <1>11 DEF Failures, States, GitFails, At
        <4> QED
          BY <1>0, <4>1, <4>2, UnansweredType
      <3>2. ASSUME NEW pc \in {"choose", "pick", "abort"}, Unanswered(p, pc, "none")
            PROVE  ProcOK'
        <4>1. pc \in States /\ pc # "record" /\ proc[p].pc # "idle"
          BY <1>11 DEF States, GitFails, At
        <4> QED
          BY <1>0, <3>2, <4>1, UnansweredType
      <3> QED
        BY <1>11, <3>1, <3>2 DEF GitFails
    <2> QED
      BY <1>0, <1>11, <2>1, BoundsNat DEF TypeOK, ProcOK, GitFails
  <1>12. ASSUME NEW p \in Processes, PickUnnamed(p) PROVE TypeOK'
    <2>1. ProcOK'
      BY <1>0, <1>12, FailsType DEF PickUnnamed, At
    <2>2. Append(Here, Patch(Tip(Work(p)), "picked")) \in Histories
      BY <1>12, WorkType, HereType, OnTop DEF PickUnnamed, At
    <2> QED
      BY <1>0, <1>12, <2>1, <2>2, BoundsNat
      DEF TypeOK, ProcOK, PickUnnamed, Picked, Here
  <1>13. ASSUME AgentActs PROVE TypeOK'
    <2>1. ProcOK'
      <3>1. \A q \in Processes :
               /\ [proc[q] EXCEPT !.known = FALSE] \in Commands
               /\ [proc[q] EXCEPT !.known = FALSE].pc = proc[q].pc
               /\ [proc[q] EXCEPT !.known = FALSE].work = proc[q].work
               /\ [proc[q] EXCEPT !.known = FALSE].result = proc[q].result
        BY <1>0 DEF ProcOK, Commands
      <3> QED
        BY <1>0, <1>13, <3>1 DEF ProcOK, AgentActs, Company
    <2>2. acts' \in 0..MaxEdits
      BY <1>0, <1>13, BoundsNat DEF AgentActs
    <2>3. branch' \in [Branches -> Histories]
      <3>1. ASSUME NEW change \in LocalChanges
            PROVE  Append(Here, Patch(change, "agent")) \in Histories
        BY HereType, OnTop, LocalChangesAreChanges
      <3> QED
        BY <1>13, <3>1 DEF TypeOK, AgentActs, Edit, Commit, CleanUp, Switch, Here
    <2> QED
      BY <1>13, <2>1, <2>2, <2>3
      DEF TypeOK, ProcOK, AgentActs, Edit, Commit, CleanUp, Switch
  <1>14. ASSUME UNCHANGED vars PROVE TypeOK'
    BY <1>14 DEF TypeOK, vars
  <1> QED
    BY <1>1, <1>2, <1>3, <1>4, <1>5, <1>6, <1>7, <1>8, <1>9, <1>10, <1>11, <1>12,
       <1>13, <1>14
    DEF Next, Step

\* Every variable keeps its type, and a command at work has work.
THEOREM TypeCorrect == Spec => []TypeOK
  <1>1. Init => TypeOK
    BY TypeInit
  <1>2. TypeOK /\ [Next]_vars => TypeOK'
    BY TypeNext
  <1> QED
    BY <1>1, <1>2, PTL DEF Spec

-----------------------------------------------------------------------------
(* No step takes a commit out of a branch.                                 *)

LEMMA StepKeepsCommits ==
    ASSUME TypeOK, [Next]_vars
    PROVE  \A b \in Branches : IsAncestor(branch[b], branch'[b])
  <1>1. CASE UNCHANGED branch
    BY <1>1, Itself DEF TypeOK
  <1>2. ASSUME NEW t \in Histories, IsAncestor(Here, t),
               branch' = [branch EXCEPT ![head] = t]
        PROVE  \A b \in Branches : IsAncestor(branch[b], branch'[b])
    BY <1>2, Itself DEF TypeOK, Here
  <1>3. ASSUME NEW p \in Processes, FastForward(p), ~UNCHANGED branch
        PROVE  \A b \in Branches : IsAncestor(branch[b], branch'[b])
    <2>1. Work(p) \in Histories /\ CanFastForward(Work(p))
          /\ branch' = [branch EXCEPT ![head] = Work(p)]
      BY <1>3, WorkType DEF FastForward, At
    <2> QED
      BY <1>2, <2>1 DEF CanFastForward
  <1>4. ASSUME NEW p \in Processes, At(p, "pick"), Picked(p)
        PROVE  \A b \in Branches : IsAncestor(branch[b], branch'[b])
    <2> DEFINE t == Append(Here, Patch(Tip(Work(p)), "picked"))
    <2>1. t \in Histories /\ IsAncestor(Here, t)
      BY <1>4, WorkType, HereType, OnTop DEF At
    <2>2. branch' = [branch EXCEPT ![head] = t]
      BY <1>4 DEF Picked, Here
    <2> HIDE DEF t
    <2> QED
      BY <1>2, <2>1, <2>2
  <1>5. ASSUME NEW change \in LocalChanges, Commit(change)
        PROVE  \A b \in Branches : IsAncestor(branch[b], branch'[b])
    <2> DEFINE t == Append(Here, Patch(change, "agent"))
    <2>1. t \in Histories /\ IsAncestor(Here, t)
      BY LocalChangesAreChanges, HereType, OnTop
    <2>2. branch' = [branch EXCEPT ![head] = t]
      BY <1>5 DEF Commit, Here
    <2> HIDE DEF t
    <2> QED
      BY <1>2, <2>1, <2>2
  <1>6. \/ UNCHANGED branch
        \/ \E p \in Processes : FastForward(p) \/ (At(p, "pick") /\ Picked(p))
        \/ \E change \in LocalChanges : Commit(change)
    BY DEF Next, Step, AgentActs, Edit, CleanUp, Switch, Look, Check, Compare, Choose,
           CherryPick, Abort, Record, GitFails, PickUnnamed, Crash, Ready, Done, worktree, boxes, history, vars
  <1> QED
    BY <1>1, <1>3, <1>4, <1>5, <1>6

\* Whatever a command or the agent does, every branch keeps its commits: a fast-forward
\* decided on an old look at the branch included.
THEOREM KeepsCommits == Spec => BranchesKeepCommits
  <1>1. TypeOK /\ [Next]_vars => [\A b \in Branches : IsAncestor(branch[b], branch'[b])]_vars
    BY StepKeepsCommits
  <1> QED
    BY <1>1, TypeCorrect, PTL DEF Spec, BranchesKeepCommits

-----------------------------------------------------------------------------
(* What is recorded as integrated is there.                                *)

LEMMA PresentStays ==
    ASSUME TypeOK, [Next]_vars, NEW h \in Handoffs, Present(h)
    PROVE  Present(h)'
  <1>1. IsAncestor(branch["managed"], branch'["managed"]) /\ branch'["managed"] \in Histories
    BY StepKeepsCommits, TypeNext DEF TypeOK, Branches
  <1> QED
    BY <1>1, AncestorChanges DEF Present

\* A command between its check and its last git command has seen the managed branch,
\* and one that is about to record success has made it true.
IntegratedInv ==
    ~strayed =>
        /\ \A p \in Processes : proc[p].pc \in {"compare", "choose", "merge", "pick"} => head = "managed"
        /\ \A p \in Processes :
              proc[p].pc = "record" /\ proc[p].result = "integrated" => Present(proc[p].work)
        /\ \A h \in Handoffs : current[h] = "integrated" \/ h \in completed => Present(h)

\* Whoever goes on, the others are where they were.
LEMMA Others ==
    ASSUME TypeOK, NEW p \in Processes, NEW state, Becomes(p, state)
    PROVE  /\ proc'[p] = state
           /\ \A q \in Processes \ {p} : /\ proc'[q].pc = proc[q].pc
                                         /\ proc'[q].work = proc[q].work
                                         /\ proc'[q].result = proc[q].result
                                         /\ proc'[q].known = FALSE
  BY DEF TypeOK, Becomes, Commands

\* The command has moved to pc; where it has a result, that is its result.
Moved(p, pc, result) ==
    /\ proc'[p].pc = pc /\ proc'[p].work = proc[p].work
    /\ proc'[p].result = result /\ (proc'[p].known => proc[p].known)
    /\ \A q \in Processes \ {p} : /\ proc'[q].pc = proc[q].pc
                                  /\ proc'[q].work = proc[q].work
                                  /\ proc'[q].result = proc[q].result
                                  /\ proc'[q].known = FALSE

LEMMA AfterGoes ==
    ASSUME TypeOK, NEW p \in Processes, NEW pc, Goes(p, pc)
    PROVE  Moved(p, pc, proc[p].result)
  <1>1. proc[p] \in Commands
    BY DEF TypeOK
  <1>2. PICK state : state = [proc[p] EXCEPT !.pc = pc]
    OBVIOUS
  <1>3. /\ state.pc = pc /\ state.work = proc[p].work
        /\ state.result = proc[p].result /\ state.known = proc[p].known
    BY <1>1, <1>2 DEF Commands
  <1>4. Becomes(p, state)
    BY <1>2 DEF Goes
  <1> QED
    BY <1>3, <1>4, Others DEF Moved

LEMMA AfterEnds ==
    ASSUME TypeOK, NEW p \in Processes, NEW result, Ends(p, result)
    PROVE  Moved(p, "record", result)
  <1>1. proc[p] \in Commands
    BY DEF TypeOK
  <1>2. PICK state : state = [proc[p] EXCEPT !.pc = "record", !.result = result]
    OBVIOUS
  <1>3. /\ state.pc = "record" /\ state.work = proc[p].work
        /\ state.result = result /\ state.known = proc[p].known
    BY <1>1, <1>2 DEF Commands
  <1>4. Becomes(p, state)
    BY <1>2 DEF Ends
  <1> QED
    BY <1>3, <1>4, Others DEF Moved

LEMMA AfterFails ==
    ASSUME TypeOK, NEW p \in Processes, Fails(p)
    PROVE  \E result \in Failures : Moved(p, "record", result)
  BY AfterEnds DEF Fails

LEMMA AfterUnanswered ==
    ASSUME TypeOK, NEW p \in Processes, NEW pc, NEW result, Unanswered(p, pc, result)
    PROVE  Moved(p, pc, result) /\ ~proc'[p].known
  <1>1. proc[p] \in Commands
    BY DEF TypeOK
  <1>2. PICK state : state = [proc[p] EXCEPT !.pc = pc, !.result = result, !.known = FALSE]
    OBVIOUS
  <1>3. /\ state.pc = pc /\ state.work = proc[p].work
        /\ state.result = result /\ state.known = FALSE
    BY <1>1, <1>2 DEF Commands
  <1>4. Becomes(p, state)
    BY <1>2 DEF Unanswered
  <1> QED
    BY <1>3, <1>4, Others DEF Moved

\* Where a git command that fails leaves the command.
LEMMA AfterGitFails ==
    ASSUME TypeOK, NEW p \in Processes, GitFails(p)
    PROVE  /\ ~proc'[p].known
           /\ \/ \E result \in Failures : Moved(p, "record", result)
              \/ At(p, "compare") /\ Moved(p, "choose", "none")
              \/ At(p, "choose") /\ Moved(p, "pick", "none")
              \/ At(p, "pick") /\ Moved(p, "abort", "none")
  BY AfterUnanswered DEF GitFails

\* A step of command p keeps the invariant if it does for p.
LEMMA OneMoves ==
    ASSUME TypeOK, IntegratedInv, [Next]_vars, NEW p \in Processes,
           UNCHANGED <<head, current, completed, strayed>>,
           NEW pc, NEW result, Moved(p, pc, result),
           ~strayed /\ pc \in {"compare", "choose", "merge", "pick"} => head = "managed",
           ~strayed /\ pc = "record" /\ result = "integrated" =>
               Tip(Handed[proc[p].work]) \in Changes(branch'["managed"])
    PROVE  IntegratedInv'
  <1>0. \A h \in Handoffs : Present(h) => Present(h)'
    BY PresentStays
  <1>1. \A q \in Processes : proc[q].pc # "idle" => proc[q].work \in Handoffs
    BY DEF TypeOK
  <1>2. SUFFICES ASSUME ~strayed' PROVE
            /\ \A q \in Processes : proc'[q].pc \in {"compare", "choose", "merge", "pick"} => head' = "managed"
            /\ \A q \in Processes :
                  proc'[q].pc = "record" /\ proc'[q].result = "integrated" =>
                      Tip(Handed[proc'[q].work]) \in Changes(branch'["managed"])
            /\ \A h \in Handoffs : current'[h] = "integrated" \/ h \in completed' =>
                                        Tip(Handed[h]) \in Changes(branch'["managed"])
    BY DEF IntegratedInv, Present
  <1>3. ASSUME NEW q \in Processes, proc'[q].pc \in {"compare", "choose", "merge", "pick"}
        PROVE  head' = "managed"
    BY <1>2, <1>3 DEF IntegratedInv, Moved
  <1>4. ASSUME NEW q \in Processes, proc'[q].pc = "record", proc'[q].result = "integrated"
        PROVE  Tip(Handed[proc'[q].work]) \in Changes(branch'["managed"])
    <2>1. CASE q = p
      BY <1>2, <1>4, <2>1 DEF Moved
    <2>2. CASE q # p
      <3>1. /\ proc[q].pc = "record" /\ proc[q].result = "integrated"
            /\ proc'[q].work = proc[q].work /\ proc[q].work \in Handoffs
        BY <1>1, <1>4, <2>2 DEF Moved
      <3>2. Present(proc[q].work)
        BY <1>2, <3>1 DEF IntegratedInv
      <3> QED
        BY <1>0, <3>1, <3>2 DEF Present
    <2> QED
      BY <2>1, <2>2
  <1>5. ASSUME NEW h \in Handoffs, current'[h] = "integrated" \/ h \in completed'
        PROVE  Tip(Handed[h]) \in Changes(branch'["managed"])
    BY <1>0, <1>2, <1>5 DEF IntegratedInv, Present
  <1> QED
    BY <1>3, <1>4, <1>5

LEMMA IntegratedInit == Init => IntegratedInv
  BY DEF Init, IntegratedInv, Idle, Absent

LEMMA IntegratedNext ==
    ASSUME TypeOK, IntegratedInv, [Next]_vars
    PROVE  IntegratedInv'
  <1> USE DEF worktree, boxes, history
  <1>0. \A h \in Handoffs : Present(h) => Present(h)'
    BY PresentStays
  <1>h. \A p \in Processes : proc[p].pc # "idle" => proc[p].work \in Handoffs
    BY DEF TypeOK
  <1>1. ASSUME NEW p \in Processes, Look(p) PROVE IntegratedInv'
    <2>1. PICK state : Becomes(p, state) /\ state.pc = "check"
      BY <1>1 DEF Look
    <2>2. /\ proc'[p].pc = "check"
          /\ \A q \in Processes \ {p} : /\ proc'[q].pc = proc[q].pc
                                        /\ proc'[q].work = proc[q].work
                                        /\ proc'[q].result = proc[q].result
      BY <2>1, Others
    <2>3. UNCHANGED <<worktree, boxes, strayed>>
      BY <1>1 DEF Look
    <2> QED
      BY <2>2, <2>3 DEF IntegratedInv, Present
  <1>2. ASSUME NEW p \in Processes, Check(p) PROVE IntegratedInv'
    <2>1. CASE head = "managed" /\ Goes(p, "compare")
      <3>1. Moved(p, "compare", proc[p].result)
        BY <2>1, AfterGoes
      <3> QED
        BY <1>2, <2>1, <3>1, OneMoves DEF Check
    <2>2. CASE Ends(p, "failed")
      <3>1. Moved(p, "record", "failed")
        BY <2>2, AfterEnds
      <3> QED
        BY <1>2, <3>1, OneMoves DEF Check
    <2> QED
      BY <1>2, <2>1, <2>2 DEF Check
  <1>3. ASSUME NEW p \in Processes, Compare(p) PROVE IntegratedInv'
    <2>0. ~strayed => head = "managed"
      BY <1>3 DEF IntegratedInv, Compare, At
    <2>1. CASE AlreadyApplied(Work(p)) /\ Ends(p, "integrated")
      <3>1. Tip(Work(p)) \in Changes(Here)
        BY <1>3, <2>1, WorkType, HereType, AppliedMeansPresent DEF Compare, At
      <3>2. ~strayed => Tip(Handed[proc[p].work]) \in Changes(branch'["managed"])
        BY <1>3, <2>0, <3>1 DEF Compare, Work, Here
      <3>3. Moved(p, "record", "integrated")
        BY <2>1, AfterEnds
      <3> QED
        BY <1>3, <3>2, <3>3, OneMoves DEF Compare
    <2>2. CASE Goes(p, "choose")
      <3>1. Moved(p, "choose", proc[p].result)
        BY <2>2, AfterGoes
      <3> QED
        BY <1>3, <2>0, <3>1, OneMoves DEF Compare
    <2> QED
      BY <1>3, <2>1, <2>2 DEF Compare
  <1>4. ASSUME NEW p \in Processes, Choose(p) PROVE IntegratedInv'
    <2>1. PICK pc \in {"merge", "pick"} : Goes(p, pc)
      BY <1>4 DEF Choose
    <2>2. Moved(p, pc, proc[p].result)
      BY <2>1, AfterGoes
    <2>3. ~strayed => head = "managed"
      BY <1>4 DEF IntegratedInv, Choose, At
    <2> QED
      BY <1>4, <2>2, <2>3, OneMoves DEF Choose
  <1>5. ASSUME NEW p \in Processes, FastForward(p) PROVE IntegratedInv'
    <2>0. UNCHANGED <<head, current, completed, strayed>>
      BY <1>5 DEF FastForward
    <2>1. CASE Fails(p)
      <3>1. PICK result \in Failures : Moved(p, "record", result)
        BY <2>1, AfterFails
      <3>2. result # "integrated"
        BY DEF Failures
      <3> QED
        BY <2>0, <3>1, <3>2, OneMoves
    <2>2. ASSUME Ends(p, "integrated"),
                 \/ AlreadyContains(Work(p)) /\ UNCHANGED branch
                 \/ branch' = [branch EXCEPT ![head] = Work(p)]
          PROVE  IntegratedInv'
      <3>0. Work(p) \in Histories /\ (~strayed => head = "managed")
        BY <1>5, WorkType DEF FastForward, At, IntegratedInv
      <3>1. ~strayed => Tip(Work(p)) \in Changes(branch'["managed"])
        <4>1. CASE AlreadyContains(Work(p)) /\ UNCHANGED branch
          <5>1. Tip(Work(p)) \in Changes(Here)
            BY <3>0, <4>1, HereType, AppliedMeansPresent DEF AlreadyApplied
          <5> QED
            BY <3>0, <4>1, <5>1 DEF Here
        <4>2. CASE branch' = [branch EXCEPT ![head] = Work(p)]
          <5>1. Tip(Work(p)) \in Changes(Work(p))
            BY <3>0, ChangesOfTips
          <5>2. ~strayed => branch'["managed"] = Work(p)
            BY <3>0, <4>2 DEF TypeOK, Branches
          <5> QED
            BY <5>1, <5>2
        <4> QED
          BY <2>2, <4>1, <4>2
      <3>2. Moved(p, "record", "integrated")
        BY <2>2, AfterEnds
      <3> QED
        BY <2>0, <3>1, <3>2, OneMoves DEF Work
    <2> QED
      BY <1>5, <2>1, <2>2 DEF FastForward
  <1>6. ASSUME NEW p \in Processes, CherryPick(p) PROVE IntegratedInv'
    <2>0. UNCHANGED <<head, current, completed, strayed>> /\ (~strayed => head = "managed")
      BY <1>6 DEF CherryPick, At, IntegratedInv
    <2>1. CASE Goes(p, "abort")
      <3>1. Moved(p, "abort", proc[p].result)
        BY <2>1, AfterGoes
      <3> QED
        BY <2>0, <3>1, OneMoves
    <2>2. CASE Picked(p) /\ Ends(p, "integrated")
      <3> DEFINE t == Append(Here, Patch(Tip(Work(p)), "picked"))
      <3>1. Tip(Work(p)) \in Changes(t)
        BY <1>6, WorkType, HereType, OnTop DEF CherryPick, At
      <3>2. branch' = [branch EXCEPT ![head] = t]
        BY <2>2 DEF Picked, Here
      <3> HIDE DEF t
      <3>3. ~strayed => branch'["managed"] = t
        BY <2>0, <3>2 DEF TypeOK, Branches
      <3>4. ~strayed => Tip(Handed[proc[p].work]) \in Changes(branch'["managed"])
        BY <3>1, <3>3 DEF Work
      <3>5. Moved(p, "record", "integrated")
        BY <2>2, AfterEnds
      <3> QED
        BY <2>0, <3>4, <3>5, OneMoves
    <2> QED
      BY <1>6, <2>1, <2>2 DEF CherryPick
  <1>7. ASSUME NEW p \in Processes, Abort(p) PROVE IntegratedInv'
    <2>1. PICK result \in Failures : Moved(p, "record", result)
      BY <1>7, AfterEnds, AfterFails DEF Abort, Failures
    <2>2. result # "integrated"
      BY DEF Failures
    <2> QED
      BY <1>7, <2>1, <2>2, OneMoves DEF Abort
  <1>8. ASSUME NEW p \in Processes, Record(p) PROVE IntegratedInv'
    <2>1. /\ proc'[p] = Idle
          /\ \A q \in Processes \ {p} : /\ proc'[q].pc = proc[q].pc
                                        /\ proc'[q].work = proc[q].work
                                        /\ proc'[q].result = proc[q].result
      BY <1>8, Others DEF Record
    <2>2. ~strayed /\ proc[p].result = "integrated" => Present(proc[p].work)
      BY <1>8 DEF IntegratedInv, Record, At
    <2>3. \A h \in Handoffs :
             current'[h] = IF h = proc[p].work THEN proc[p].result ELSE current[h]
      BY <1>8 DEF Record, TypeOK
    <2> QED
      BY <1>0, <1>8, <1>h, <2>1, <2>2, <2>3 DEF IntegratedInv, Record, Idle, Present
  <1>9. ASSUME NEW p \in Processes, Crash(p) PROVE IntegratedInv'
    <2>1. proc' = [proc EXCEPT ![p] = Idle] /\ UNCHANGED <<worktree, boxes, strayed>>
      BY <1>9 DEF Crash
    <2> QED
      BY <2>1 DEF IntegratedInv, Present, TypeOK, Idle
  <1>10. ASSUME Ready \/ Done PROVE IntegratedInv'
    BY <1>10 DEF IntegratedInv, Present, Ready, Done, TypeOK, Absent
  <1>11. ASSUME NEW p \in Processes, GitFails(p) PROVE IntegratedInv'
    <2>0. /\ UNCHANGED <<head, current, completed, strayed>>
          /\ ~strayed /\ proc[p].pc \in {"compare", "choose", "pick"} => head = "managed"
      BY <1>11 DEF GitFails, IntegratedInv
    <2>1. PICK pc \in {"choose", "pick", "abort", "record"},
               result \in {"none"} \cup Failures :
             /\ Moved(p, pc, result)
             /\ pc \in {"choose", "pick"} => proc[p].pc \in {"compare", "choose"}
      BY <1>11, AfterGitFails DEF At
    <2>2. result # "integrated"
      BY DEF Failures
    <2> QED
      BY <2>0, <2>1, <2>2, OneMoves
  <1>12. ASSUME NEW p \in Processes, PickUnnamed(p) PROVE IntegratedInv'
    <2>1. PICK result \in Failures : Moved(p, "record", result)
      BY <1>12, AfterFails DEF PickUnnamed
    <2>2. result # "integrated"
      BY DEF Failures
    <2> QED
      BY <1>12, <2>1, <2>2, OneMoves DEF PickUnnamed
  <1>13. ASSUME AgentActs PROVE IntegratedInv'
    <2>1. \A q \in Processes : /\ proc'[q].pc = proc[q].pc
                                /\ proc'[q].work = proc[q].work
                                /\ proc'[q].result = proc[q].result
      BY <1>13 DEF AgentActs, Company, TypeOK, Commands
    <2>2. ~strayed' => ~strayed /\ (head' = head \/ \A q \in Processes : proc[q].pc = "idle")
      BY <1>13 DEF AgentActs, Edit, Commit, CleanUp, Switch, At
    <2>3. UNCHANGED boxes
      BY <1>13 DEF AgentActs
    <2> QED
      BY <1>0, <1>h, <2>1, <2>2, <2>3 DEF IntegratedInv
  <1>14. ASSUME UNCHANGED vars PROVE IntegratedInv'
    BY <1>14 DEF IntegratedInv, Present, vars
  <1> QED
    BY <1>1, <1>2, <1>3, <1>4, <1>5, <1>6, <1>7, <1>8, <1>9, <1>10, <1>11, <1>12,
       <1>13, <1>14
    DEF Next, Step

\* No handoff is recorded as integrated whose change is not in the role's branch, for
\* any histories, any number of commands at once, crashes and acts of the agent.
THEOREM Integrated == Spec => []IntegratedIsPresent
  <1>1. Init => IntegratedInv
    BY IntegratedInit
  <1>2. TypeOK /\ IntegratedInv /\ [Next]_vars => IntegratedInv'
    BY IntegratedNext
  <1>3. IntegratedInv => IntegratedIsPresent
    BY DEF IntegratedInv, IntegratedIsPresent
  <1> QED
    BY <1>1, <1>2, <1>3, TypeCorrect, PTL DEF Spec

-----------------------------------------------------------------------------
(* No cherry-pick is left half applied.                                    *)

LEMMA PickNext ==
    ASSUME TypeOK, NoPickLeftBehind, [Next]_vars
    PROVE  NoPickLeftBehind'
  <1> USE DEF worktree, boxes, history
  <1>1. ASSUME NEW p \in Processes, NEW pc, NEW result, Moved(p, pc, result),
               proc[p].pc # "abort", manual => manual', pick' = pick
        PROVE  NoPickLeftBehind'
    BY <1>1 DEF NoPickLeftBehind, Moved, At
  <1>2. ASSUME NEW p \in Processes, Look(p) PROVE NoPickLeftBehind'
    <2>1. PICK state : Becomes(p, state) /\ state.pc = "check"
      BY <1>2 DEF Look
    <2>2. \A q \in Processes \ {p} : proc'[q].pc = proc[q].pc
      BY <2>1, Others
    <2> QED
      BY <1>2, <2>2 DEF NoPickLeftBehind, Look, At
  <1>3. ASSUME NEW p \in Processes, Check(p) PROVE NoPickLeftBehind'
    <2>1. Moved(p, "compare", proc[p].result) \/ Moved(p, "record", "failed")
      BY <1>3, AfterGoes, AfterEnds DEF Check
    <2> QED
      BY <1>1, <1>3, <2>1 DEF Check, At
  <1>4. ASSUME NEW p \in Processes, Compare(p) PROVE NoPickLeftBehind'
    <2>1. Moved(p, "record", "integrated") \/ Moved(p, "choose", proc[p].result)
      BY <1>4, AfterGoes, AfterEnds DEF Compare
    <2> QED
      BY <1>1, <1>4, <2>1 DEF Compare, At
  <1>5. ASSUME NEW p \in Processes, Choose(p) PROVE NoPickLeftBehind'
    <2>1. Moved(p, "merge", proc[p].result) \/ Moved(p, "pick", proc[p].result)
      BY <1>5, AfterGoes DEF Choose
    <2> QED
      BY <1>1, <1>5, <2>1 DEF Choose, At
  <1>6. ASSUME NEW p \in Processes, FastForward(p) PROVE NoPickLeftBehind'
    <2>1. \E result : Moved(p, "record", result)
      BY <1>6, AfterEnds, AfterFails DEF FastForward
    <2> QED
      BY <1>1, <1>6, <2>1 DEF FastForward, At
  <1>7. ASSUME NEW p \in Processes, CherryPick(p) PROVE NoPickLeftBehind'
    <2>1. CASE pick' = "none"
      BY <2>1 DEF NoPickLeftBehind
    <2>2. CASE Goes(p, "abort")
      BY <2>2, AfterGoes DEF Moved, NoPickLeftBehind, At
    <2> QED
      BY <1>7, <2>1, <2>2 DEF CherryPick, Picked
  <1>8. ASSUME NEW p \in Processes, Abort(p) PROVE NoPickLeftBehind'
    BY <1>8 DEF Abort, NoPickLeftBehind
  <1>9. ASSUME NEW p \in Processes, Record(p) PROVE NoPickLeftBehind'
    <2>1. \A q \in Processes \ {p} : proc'[q].pc = proc[q].pc
      BY <1>9, Others DEF Record
    <2> QED
      BY <1>9, <2>1 DEF NoPickLeftBehind, Record, At
  <1>10. ASSUME NEW p \in Processes, Crash(p) PROVE NoPickLeftBehind'
    BY <1>10 DEF NoPickLeftBehind, Crash, At, TypeOK
  <1>11. ASSUME AgentActs PROVE NoPickLeftBehind'
    <2>1. \A q \in Processes : proc'[q].pc = proc[q].pc
      BY <1>11 DEF AgentActs, Company, TypeOK, Commands
    <2> QED
      BY <1>11, <2>1 DEF NoPickLeftBehind, AgentActs, Edit, Commit, CleanUp, Switch, At
  <1>12. ASSUME NEW p \in Processes, GitFails(p) PROVE NoPickLeftBehind'
    <2>1. PICK pc, result : Moved(p, pc, result)
      BY <1>12, AfterGitFails
    <2>2. CASE At(p, "abort")
      BY <1>12, <2>2 DEF NoPickLeftBehind, GitFails
    <2>3. CASE ~At(p, "abort")
      <3>1. (manual => manual') /\ pick' = pick
        BY <1>12 DEF GitFails
      <3> QED
        BY <1>1, <2>1, <2>3, <3>1 DEF At
    <2> QED
      BY <2>2, <2>3
  <1>13. ASSUME NEW p \in Processes, PickUnnamed(p) PROVE NoPickLeftBehind'
    BY <1>13 DEF PickUnnamed, Picked, NoPickLeftBehind
  <1>14. ASSUME Ready \/ Done \/ UNCHANGED vars PROVE NoPickLeftBehind'
    BY <1>14 DEF NoPickLeftBehind, Ready, Done, vars, At
  <1> QED
    BY <1>2, <1>3, <1>4, <1>5, <1>6, <1>7, <1>8, <1>9, <1>10, <1>11, <1>12,
       <1>13, <1>14
    DEF Next, Step

\* A cherry-pick in progress is about to be aborted, or somebody has been told of it or
\* killed the command, however many commands pick and abort at once.
THEOREM NothingHalfApplied == Spec => []NoPickLeftBehind
  <1>1. Init => NoPickLeftBehind
    BY DEF Init, NoPickLeftBehind
  <1>2. TypeOK /\ NoPickLeftBehind /\ [Next]_vars => NoPickLeftBehind'
    BY PickNext
  <1> QED
    BY <1>1, <1>2, TypeCorrect, PTL DEF Spec

-----------------------------------------------------------------------------
(* What is there already is recognised.                                    *)

\* A command that found everything there, and has had no company, still does.
RepeatInv ==
    \A p \in Processes : proc[p].known =>
        /\ proc[p].pc \in {"check", "compare", "record"}
        /\ proc[p].result \notin Failures
        /\ head = "managed" /\ ~edits /\ pick = "none"
        /\ Changes(Work(p)) \subseteq Changes(Here)

LEMMA RepeatNext ==
    ASSUME TypeOK, RepeatInv, [Next]_vars
    PROVE  RepeatInv'
  <1> USE DEF worktree, boxes, history
  <1>1. ASSUME NEW p \in Processes, NEW pc, NEW result, Moved(p, pc, result),
               UNCHANGED worktree,
               proc[p].known => pc \in {"check", "compare", "record"} /\ result \notin Failures
        PROVE  RepeatInv'
    <2>1. \A q \in Processes : proc'[q].known => q = p
      BY <1>1 DEF Moved
    <2>2. proc'[p].known => proc[p].known /\ proc'[p].work = proc[p].work
                            /\ proc'[p].pc = pc /\ proc'[p].result = result
      BY <1>1 DEF Moved
    <2> QED
      BY <1>1, <2>1, <2>2 DEF RepeatInv, Work, Here
  <1>2. ASSUME NEW p \in Processes, NEW pc, NEW result, Moved(p, pc, result), ~proc[p].known
        PROVE  RepeatInv'
    BY <1>2 DEF RepeatInv, Moved
  <1>3. ASSUME NEW p \in Processes, NEW pc, NEW result, Moved(p, pc, result), ~proc'[p].known
         PROVE  RepeatInv'
    BY <1>3 DEF RepeatInv, Moved
  <1>4. ASSUME NEW p \in Processes, Look(p) PROVE RepeatInv'
    <2>1. PICK h \in Handoffs :
             Becomes(p, [pc     |-> "check",
                         work   |-> h,
                         result |-> "none",
                         known  |-> /\ Changes(Handed[h]) \subseteq Changes(Here)
                                    /\ head = "managed" /\ ~edits /\ pick = "none"
                                    /\ \A q \in Processes \ {p} : At(q, "idle")])
      BY <1>4 DEF Look
    <2> DEFINE state == [pc     |-> "check",
                         work   |-> h,
                         result |-> "none",
                         known  |-> /\ Changes(Handed[h]) \subseteq Changes(Here)
                                    /\ head = "managed" /\ ~edits /\ pick = "none"
                                    /\ \A q \in Processes \ {p} : At(q, "idle")]
    <2>2. /\ state.pc = "check" /\ state.work = h /\ state.result = "none"
          /\ state.known => /\ Changes(Handed[h]) \subseteq Changes(Here)
                            /\ head = "managed" /\ ~edits /\ pick = "none"
      OBVIOUS
    <2> HIDE DEF state
    <2>3. proc'[p] = state /\ \A q \in Processes \ {p} : proc'[q].known = FALSE
      BY <2>1, Others DEF state
    <2>4. UNCHANGED worktree
      BY <1>4 DEF Look
    <2> QED
      BY <2>2, <2>3, <2>4 DEF RepeatInv, Work, Here, Failures
  <1>5. ASSUME NEW p \in Processes, Check(p) PROVE RepeatInv'
    <2>1. CASE Goes(p, "compare")
      BY <1>1, <1>5, <2>1, AfterGoes DEF Check, RepeatInv
    <2>2. CASE (head # "managed" \/ ~IsClean) /\ Ends(p, "failed")
      <3>1. ~proc[p].known
        BY <2>2 DEF RepeatInv, IsClean
      <3> QED
        BY <1>2, <2>2, <3>1, AfterEnds
    <2> QED
      BY <1>5, <2>1, <2>2 DEF Check
  <1>6. ASSUME NEW p \in Processes, Compare(p) PROVE RepeatInv'
    <2>1. CASE Ends(p, "integrated")
      BY <1>1, <1>6, <2>1, AfterEnds DEF Compare, Failures
    <2>2. CASE ~AlreadyApplied(Work(p)) /\ Goes(p, "choose")
      <3>1. ~proc[p].known
        <4>1. proc[p].work \in Handoffs
          BY <1>6 DEF Compare, At, TypeOK
        <4> QED
          BY <2>2, <4>1, HereType, PresentMeansApplied DEF RepeatInv, Work
      <3> QED
        BY <1>2, <2>2, <3>1, AfterGoes
    <2> QED
      BY <1>6, <2>1, <2>2 DEF Compare
  <1>7. ASSUME NEW p \in Processes, Choose(p) PROVE RepeatInv'
    <2>1. Moved(p, "merge", proc[p].result) \/ Moved(p, "pick", proc[p].result)
      BY <1>7, AfterGoes DEF Choose
    <2>2. ~proc[p].known
      BY <1>7 DEF Choose, At, RepeatInv
    <2> QED
      BY <1>2, <2>1, <2>2
  <1>8. ASSUME NEW p \in Processes, FastForward(p) PROVE RepeatInv'
    <2>1. \E result : Moved(p, "record", result)
      BY <1>8, AfterEnds, AfterFails DEF FastForward
    <2>2. ~proc[p].known
      BY <1>8 DEF FastForward, At, RepeatInv
    <2> QED
      BY <1>2, <2>1, <2>2
  <1>9. ASSUME NEW p \in Processes, CherryPick(p) PROVE RepeatInv'
    <2>1. Moved(p, "record", "integrated") \/ Moved(p, "abort", proc[p].result)
      BY <1>9, AfterEnds, AfterGoes DEF CherryPick
    <2>2. ~proc[p].known
      BY <1>9 DEF CherryPick, At, RepeatInv
    <2> QED
      BY <1>2, <2>1, <2>2
  <1>10. ASSUME NEW p \in Processes, Abort(p) PROVE RepeatInv'
    <2>1. (\E result : Moved(p, "record", result)) /\ ~proc[p].known
      BY <1>10, AfterEnds, AfterFails DEF Abort, At, RepeatInv
    <2> QED
      BY <1>2, <2>1
  <1>11. ASSUME NEW p \in Processes, Record(p) PROVE RepeatInv'
    <2>1. Becomes(p, Idle)
      BY <1>11 DEF Record
    <2>2. proc'[p] = Idle
      BY <2>1 DEF Becomes
    <2>3. \A q \in Processes : proc'[q].known = FALSE
      BY <2>1, <2>2 DEF Becomes, Idle, TypeOK, Commands
    <2> QED
      BY <2>3 DEF RepeatInv
  <1>12. ASSUME NEW p \in Processes, GitFails(p) PROVE RepeatInv'
    BY <1>3, <1>12, AfterGitFails
  <1>13. ASSUME NEW p \in Processes, PickUnnamed(p) PROVE RepeatInv'
    <2>1. (\E result : Moved(p, "record", result)) /\ ~proc[p].known
      BY <1>13, AfterFails DEF PickUnnamed, At, RepeatInv
    <2> QED
      BY <1>2, <2>1
  <1>14. ASSUME NEW p \in Processes, Crash(p) PROVE RepeatInv'
    <2>1. /\ proc'[p] = Idle /\ ~Idle.known
          /\ \A q \in Processes \ {p} : proc'[q] = proc[q]
          /\ UNCHANGED worktree
      BY <1>14 DEF Crash, Idle, TypeOK
    <2>2. ASSUME NEW q \in Processes, proc'[q].known PROVE q # p /\ proc'[q] = proc[q]
      BY <2>1, <2>2
    <2> QED
      BY <2>1, <2>2 DEF RepeatInv, Work, Here
  <1>15. ASSUME AgentActs PROVE RepeatInv'
    <2>1. \A q \in Processes : proc'[q].known = FALSE
      BY <1>15 DEF AgentActs, Company, TypeOK, Commands
    <2> QED
      BY <2>1 DEF RepeatInv
  <1>16. ASSUME Ready \/ Done \/ UNCHANGED vars PROVE RepeatInv'
    BY <1>16 DEF RepeatInv, Ready, Done, vars, Work, Here
  <1> QED
    BY <1>4, <1>5, <1>6, <1>7, <1>8, <1>9, <1>10, <1>11, <1>12, <1>13, <1>14,
       <1>15, <1>16
    DEF Next, Step

\* A command that finds all of the handed changes in a clean worktree, has it to
\* itself and gets its answers from git neither merges nor picks nor fails: a retry after a crash before the record is
\* one of these.  That the sender makes no change twice is needed for it (HandedOnce).
THEOREM Recognised == Spec => []RepeatIsRecognised
  <1>1. Init => RepeatInv
    BY DEF Init, RepeatInv, Idle
  <1>2. TypeOK /\ RepeatInv /\ [Next]_vars => RepeatInv'
    BY RepeatNext
  <1>3. RepeatInv => RepeatIsRecognised
    BY DEF RepeatInv, RepeatIsRecognised
  <1> QED
    BY <1>1, <1>2, <1>3, TypeCorrect, PTL DEF Spec
=============================================================================
