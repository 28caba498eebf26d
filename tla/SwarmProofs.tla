---------------------------- MODULE SwarmProofs ----------------------------
(***************************************************************************)
(* The properties of Swarm, for any roles, terminals, faults and bounds:   *)
(* the type invariant, that doctor agrees with status, what start, stop and*)
(* repair promise when they end without an error, and that what brings the *)
(* swarm up takes nothing down.                                            *)
(***************************************************************************)
EXTENDS Swarm, SequenceTheorems, WellFoundedInduction, TLAPS

Kinds == {"none", "start-agent", "type-launch-line", "press-enter", "unlink-socket"}
L == Len(RoleOrder)
N == 2 * L + 1

-----------------------------------------------------------------------------
(* The lists of steps.                                                     *)

LEMMA OrderType ==
    /\ RoleOrder \in Seq(Roles) /\ L \in Nat /\ N \in Nat /\ DOMAIN RoleOrder = 1..L
    /\ \A i \in 1..L : RoleOrder[i] \in Roles
    /\ \A r \in Roles : \E i \in 1..L : RoleOrder[i] = r
  <1>1. RoleOrder \in Seq(Roles) /\ L \in Nat /\ DOMAIN RoleOrder = 1..L
    BY RoleOrderLists, LenProperties DEF L
  <1>2. \A i \in 1..L : RoleOrder[i] \in Roles
    BY <1>1, ElementOfSeq DEF L
  <1> QED
    BY <1>1, <1>2, RoleOrderLists DEF N

LEMMA ActType ==
    ASSUME NEW K, NEW C, NEW kind \in K, NEW component \in C
    PROVE  Act(kind, component) \in [kind : K, component : C]
  BY DEF Act

StepKinds == {"create-worktree", "remove-worktree", "create-session", "create-bare-session",
              "remove-session", "start-agent", "stop-agent", "start-daemon", "stop-daemon"}
StepType == [kind : StepKinds, component : Roles \cup {"daemon"}]

\* The steps of one kind are as many as there are roles.
LEMMA EachStep ==
    ASSUME NEW kind \in StepKinds
    PROVE  /\ Each(kind) \in Seq(StepType)
           /\ Len(Each(kind)) = L
           /\ \A i \in 1..L : Each(kind)[i] = Act(kind, RoleOrder[i])
  <1>1. Each(kind) = [i \in 1..L |-> Act(kind, RoleOrder[i])]
    BY OrderType DEF Each
  <1>2. \A i \in 1..L : Act(kind, RoleOrder[i]) \in StepType
    BY OrderType, ActType DEF StepType
  <1>3. Each(kind) \in [1..L -> StepType]
    BY <1>1, <1>2
  <1>4. Each(kind) \in Seq(StepType)
    BY <1>3, OrderType, SeqDef
  <1>5. Len(Each(kind)) = L
    BY <1>3, <1>4, OrderType, LenProperties
  <1> QED
    BY <1>1, <1>4, <1>5

Glue(a, b) == a \o b

\* s is a, of length m, followed by b, of length n.
Follows(s, a, b, m, n, T) ==
    /\ s \in Seq(T) /\ Len(s) = m + n
    /\ \A i \in 1..m : s[i] = a[i]
    /\ \A i \in 1..n : s[m + i] = b[i]

LEMMA Joined ==
    ASSUME NEW T, NEW a \in Seq(T), NEW b \in Seq(T), NEW m \in Nat, NEW n \in Nat,
           Len(a) = m, Len(b) = n
    PROVE  Follows(Glue(a, b), a, b, m, n, T)
  <1> DEFINE s == a \o b
  <1>1. /\ s \in Seq(T) /\ Len(s) = m + n
        /\ \A i \in 1..(m + n) : s[i] = IF i <= m THEN a[i] ELSE b[i - m]
    BY ConcatProperties, Zenon
  <1> HIDE DEF s
  <1>2. \A i \in 1..m : s[i] = a[i]
    BY <1>1
  <1>3. ASSUME NEW i \in 1..n PROVE s[m + i] = b[i]
    <2>1. m + i \in 1..(m + n) /\ ~(m + i <= m) /\ (m + i) - m = i
      OBVIOUS
    <2>2. s[m + i] = b[(m + i) - m]
      BY <1>1, <2>1
    <2> QED
      BY <2>1, <2>2
  <1> QED
    BY <1>1, <1>2, <1>3 DEF s, Glue, Follows

\* What stands where in the two lists.
LEMMA Listed ==
    ASSUME NEW T, NEW a \in Seq(T), NEW b \in Seq(T), NEW z \in Seq(T), NEW n \in Nat,
           Len(a) = n, Len(b) = n, Len(z) = 1
    PROVE  /\ DOMAIN Glue(Glue(a, b), z) = 1..(2 * n + 1)
           /\ \A i \in 1..n : Glue(Glue(a, b), z)[i] = a[i]
           /\ \A i \in 1..n : Glue(Glue(a, b), z)[n + i] = b[i]
           /\ Glue(Glue(a, b), z)[2 * n + 1] = z[1]
           /\ DOMAIN Glue(Glue(a, z), b) = 1..(2 * n + 1)
           /\ \A i \in 1..n : Glue(Glue(a, z), b)[i] = a[i]
           /\ Glue(Glue(a, z), b)[n + 1] = z[1]
           /\ \A i \in 1..n : Glue(Glue(a, z), b)[n + 1 + i] = b[i]
  <1>0. 1 \in Nat /\ n + n \in Nat /\ n + 1 \in Nat
    OBVIOUS
  <1>1. Follows(Glue(a, b), a, b, n, n, T)
    BY Joined
  <1>2. Follows(Glue(a, z), a, z, n, 1, T)
    BY <1>0, Joined
  <1>3. Follows(Glue(Glue(a, b), z), Glue(a, b), z, n + n, 1, T)
    <2>1. Glue(a, b) \in Seq(T) /\ Len(Glue(a, b)) = n + n
      BY <1>1 DEF Follows
    <2> QED
      BY <1>0, <2>1, Joined
  <1>4. Follows(Glue(Glue(a, z), b), Glue(a, z), b, n + 1, n, T)
    <2>1. Glue(a, z) \in Seq(T) /\ Len(Glue(a, z)) = n + 1
      BY <1>2 DEF Follows
    <2> QED
      BY <1>0, <2>1, Joined
  <1>5. /\ DOMAIN Glue(Glue(a, b), z) = 1..(2 * n + 1)
        /\ DOMAIN Glue(Glue(a, z), b) = 1..(2 * n + 1)
    BY <1>3, <1>4, LenProperties DEF Follows
  <1>6. /\ \A i \in 1..n : Glue(Glue(a, b), z)[i] = a[i]
        /\ \A i \in 1..n : Glue(Glue(a, b), z)[n + i] = b[i]
        /\ Glue(Glue(a, b), z)[2 * n + 1] = z[1]
    <2>1. ASSUME NEW i \in 1..n
          PROVE  Glue(Glue(a, b), z)[i] = a[i] /\ Glue(Glue(a, b), z)[n + i] = b[i]
      <3>1. i \in 1..(n + n) /\ n + i \in 1..(n + n)
        OBVIOUS
      <3>2. /\ Glue(Glue(a, b), z)[i] = Glue(a, b)[i]
            /\ Glue(Glue(a, b), z)[n + i] = Glue(a, b)[n + i]
        BY <1>3, <3>1 DEF Follows
      <3> QED
        BY <1>1, <3>2 DEF Follows
    <2>2. Glue(Glue(a, b), z)[2 * n + 1] = z[1]
      BY <1>3 DEF Follows
    <2> QED
      BY <2>1, <2>2
  <1>7. /\ \A i \in 1..n : Glue(Glue(a, z), b)[i] = a[i]
        /\ Glue(Glue(a, z), b)[n + 1] = z[1]
        /\ \A i \in 1..n : Glue(Glue(a, z), b)[n + 1 + i] = b[i]
    <2>1. ASSUME NEW i \in 1..n PROVE Glue(Glue(a, z), b)[i] = a[i]
      <3>1. i \in 1..(n + 1)
        OBVIOUS
      <3>2. Glue(Glue(a, z), b)[i] = Glue(a, z)[i]
        BY <1>4, <3>1 DEF Follows
      <3> QED
        BY <1>2, <3>2 DEF Follows
    <2>2. Glue(Glue(a, z), b)[n + 1] = z[1]
      BY <1>2, <1>4 DEF Follows
    <2>3. \A i \in 1..n : Glue(Glue(a, z), b)[n + 1 + i] = b[i]
      BY <1>4 DEF Follows
    <2> QED
      BY <2>1, <2>2, <2>3
  <1> QED
    BY <1>5, <1>6, <1>7

StopList == Steps["stop"]
StartList == Steps["start"]

LEMMA ListOf ==
    \A op : /\ op = "stop" => Steps[op] = StopList
            /\ op = "start" => Steps[op] = StartList
  BY Zenon DEF StopList, StartList

\* The list of stop: agents, sessions, the daemon.
LEMMA StopSteps ==
    /\ DOMAIN Steps["stop"] = 1..N
    /\ \A i \in 1..L : StopList[i].kind = "stop-agent"
    /\ \A i \in 1..L : StopList[L + i].kind = "remove-session" /\ StopList[L + i].component = RoleOrder[i]
    /\ StopList[N].kind = "stop-daemon"
  <1> DEFINE a == Each("stop-agent")
             b == Each("remove-session")
             z == <<Act("stop-daemon", "daemon")>>
  <1>1. /\ a \in Seq(StepType) /\ Len(a) = L
        /\ \A i \in 1..L : a[i] = Act("stop-agent", RoleOrder[i])
    BY EachStep DEF StepKinds
  <1>2. /\ b \in Seq(StepType) /\ Len(b) = L
        /\ \A i \in 1..L : b[i] = Act("remove-session", RoleOrder[i])
    BY EachStep DEF StepKinds
  <1>3. z \in Seq(StepType) /\ Len(z) = 1 /\ z[1] = Act("stop-daemon", "daemon")
    <2>1. Act("stop-daemon", "daemon") \in StepType
      BY ActType DEF StepType, StepKinds
    <2> QED
      BY <2>1
  <1>4. StopList = Glue(Glue(a, b), z)
    <2>1. "stop" \in Operations
      BY DEF Operations, Exclusive
    <2> QED
      BY <2>1 DEF Steps, Glue, StopList
  <1> HIDE DEF a, b, z
  <1>5. L \in Nat /\ N = 2 * L + 1
    BY OrderType DEF N
  <1>6. /\ DOMAIN Glue(Glue(a, b), z) = 1..(2 * L + 1)
        /\ \A i \in 1..L : Glue(Glue(a, b), z)[i] = a[i]
        /\ \A i \in 1..L : Glue(Glue(a, b), z)[L + i] = b[i]
        /\ Glue(Glue(a, b), z)[2 * L + 1] = z[1]
    BY <1>1, <1>2, <1>3, <1>5, Listed
  <1>7. \A kind, component : Act(kind, component).kind = kind /\ Act(kind, component).component = component
    BY DEF Act
  <1>8. \A i \in 1..L : StopList[i].kind = "stop-agent"
    BY <1>1, <1>4, <1>6, <1>7
  <1>9. \A i \in 1..L : StopList[L + i].kind = "remove-session" /\ StopList[L + i].component = RoleOrder[i]
    BY <1>2, <1>4, <1>6, <1>7
  <1>10. StopList[N].kind = "stop-daemon"
    BY <1>3, <1>4, <1>5, <1>6, <1>7
  <1>11. DOMAIN Steps["stop"] = 1..N
    BY <1>4, <1>5, <1>6 DEF StopList
  <1> QED
    BY <1>8, <1>9, <1>10, <1>11

\* The list of start: worktrees, the daemon, sessions with their agents.
LEMMA StartSteps ==
    /\ DOMAIN Steps["start"] = 1..N
    /\ \A i \in 1..L : StartList[i].kind = "create-worktree" /\ StartList[i].component = RoleOrder[i]
    /\ StartList[L + 1].kind = "start-daemon"
    /\ \A i \in 1..L : /\ StartList[L + 1 + i].kind = "create-session"
                       /\ StartList[L + 1 + i].component = RoleOrder[i]
  <1> DEFINE a == Each("create-worktree")
             b == Each("create-session")
             z == <<Act("start-daemon", "daemon")>>
  <1>1. /\ a \in Seq(StepType) /\ Len(a) = L
        /\ \A i \in 1..L : a[i] = Act("create-worktree", RoleOrder[i])
    BY EachStep DEF StepKinds
  <1>2. /\ b \in Seq(StepType) /\ Len(b) = L
        /\ \A i \in 1..L : b[i] = Act("create-session", RoleOrder[i])
    BY EachStep DEF StepKinds
  <1>3. z \in Seq(StepType) /\ Len(z) = 1 /\ z[1] = Act("start-daemon", "daemon")
    <2>1. Act("start-daemon", "daemon") \in StepType
      BY ActType DEF StepType, StepKinds
    <2> QED
      BY <2>1
  <1>4. StartList = Glue(Glue(a, z), b)
    <2>1. "start" \in Operations
      BY DEF Operations, Exclusive
    <2> QED
      BY <2>1 DEF Steps, Glue, StartList
  <1> HIDE DEF a, b, z
  <1>5. L \in Nat /\ N = 2 * L + 1
    BY OrderType DEF N
  <1>6. /\ DOMAIN Glue(Glue(a, z), b) = 1..(2 * L + 1)
        /\ \A i \in 1..L : Glue(Glue(a, z), b)[i] = a[i]
        /\ Glue(Glue(a, z), b)[L + 1] = z[1]
        /\ \A i \in 1..L : Glue(Glue(a, z), b)[L + 1 + i] = b[i]
    BY <1>1, <1>2, <1>3, <1>5, Listed
  <1>7. \A kind, component : Act(kind, component).kind = kind /\ Act(kind, component).component = component
    BY DEF Act
  <1>8. \A i \in 1..L : StartList[i].kind = "create-worktree" /\ StartList[i].component = RoleOrder[i]
    BY <1>1, <1>4, <1>6, <1>7
  <1>9. StartList[L + 1].kind = "start-daemon"
    BY <1>3, <1>4, <1>6, <1>7
  <1>10. \A i \in 1..L : /\ StartList[L + 1 + i].kind = "create-session"
                         /\ StartList[L + 1 + i].component = RoleOrder[i]
    BY <1>2, <1>4, <1>6, <1>7
  <1>11. DOMAIN Steps["start"] = 1..N
    BY <1>4, <1>5, <1>6 DEF StartList
  <1> QED
    BY <1>8, <1>9, <1>10, <1>11

\* Whatever list an operation begins with, its positions are numbers.
LEMMA ListsAreNumbered ==
    /\ \A op \in Operations \ {"repair"} : DOMAIN Steps[op] \subseteq Nat
    /\ PlanFrom(Detect) \subseteq Nat
  <1>1. \A op \in {"start", "stop"} : DOMAIN Steps[op] \subseteq Nat
    BY StartSteps, StopSteps, OrderType
  <1>2. ASSUME NEW op \in Unlocked PROVE DOMAIN Steps[op] \subseteq Nat
    <2>1. \E kind \in {"create-worktree", "remove-worktree", "create-bare-session",
                        "remove-session", "start-agent", "stop-agent"} : Steps[op] = Each(kind)
      BY DEF Steps, Unlocked, Operations
    <2> QED
      BY <2>1, OrderType DEF Each
  <1>3. PlanFrom(Detect) \subseteq Nat
    <2>1. DOMAIN RepairSteps \subseteq Nat
      BY DEF RepairSteps
    <2> QED
      BY <2>1 DEF PlanFrom
  <1> QED
    BY <1>1, <1>2, <1>3 DEF Operations, Exclusive

-----------------------------------------------------------------------------
(* The type invariant, part by part.                                       *)

TreesType == tree \in [Roles -> TreeStates] /\ registered \in [Roles -> BOOLEAN]
PanesType == pane \in [Roles -> PaneStates] /\ socket \in BOOLEAN
ProcessType == daemon \in {"stopped", "running", "failed"} /\ pidFile \in BOOLEAN
WorkType ==
    /\ integration \in [Roles -> {"none", "pending", "failed"}]
    /\ orphans \in [Roles -> 0..MaxOrphans]
    /\ litter \subseteq Litter
Command == [op : Operations \cup {"none"}, todo : SUBSET Nat, next : Kinds, failed : BOOLEAN]
CmdType == cmd \in [Commands -> Command]
OtherType ==
    /\ broken \subseteq EnvFaults
    /\ trouble \in 0..MaxTrouble
    /\ alone \in [Commands -> BOOLEAN]

LEMMA TypeParts ==
    /\ TypeOK <=> TreesType /\ PanesType /\ ProcessType /\ WorkType /\ CmdType /\ OtherType
    /\ TypeOK' <=> TreesType' /\ PanesType' /\ ProcessType' /\ WorkType' /\ CmdType' /\ OtherType'
  BY DEF TypeOK, TreesType, PanesType, ProcessType, WorkType, Command, CmdType, OtherType, Kinds

\* What is left once the step at hand is done.
Rest(c) == cmd[c].todo \ {First(cmd[c].todo)}

\* How a step leaves its command.
Turned(c, todo, next, failed) ==
    /\ cmd'[c].op = cmd[c].op /\ cmd'[c].todo = todo
    /\ cmd'[c].next = next /\ cmd'[c].failed = failed
    /\ \A d \in Commands \ {c} : cmd'[d] = cmd[d]

LEMMA TurnTypes ==
    ASSUME CmdType, NEW c \in Commands
    PROVE  /\ Succeed(c) => CmdType' /\ Turned(c, Rest(c), "none", cmd[c].failed)
           /\ Fail(c) => CmdType' /\ \E todo \in SUBSET cmd[c].todo : Turned(c, todo, "none", TRUE)
           /\ \A kind \in Kinds : Continue(c, kind) =>
                CmdType' /\ Turned(c, cmd[c].todo, kind, cmd[c].failed)
  <1> DEFINE left == IF cmd[c].op \in Unlocked THEN {} ELSE Rest(c)
  <1>0. /\ cmd[c] \in Command /\ Rest(c) \in SUBSET Nat /\ left \in SUBSET Nat
        /\ left \in SUBSET cmd[c].todo /\ "none" \in Kinds
    BY DEF CmdType, Command, Kinds, Rest
  <1>1. ASSUME Succeed(c) PROVE CmdType' /\ Turned(c, Rest(c), "none", cmd[c].failed)
    <2>1. cmd' = [cmd EXCEPT ![c].todo = Rest(c), ![c].next = "none"]
      BY <1>1 DEF Succeed, Rest
    <2> QED
      BY <1>0, <2>1 DEF CmdType, Command, Turned
  <1>2. ASSUME Fail(c)
        PROVE  CmdType' /\ Turned(c, left, "none", TRUE)
    <2>1. cmd' = [cmd EXCEPT ![c].todo = left, ![c].next = "none", ![c].failed = TRUE]
      BY <1>2 DEF Fail, Rest
    <2> HIDE DEF left
    <2> QED
      BY <1>0, <2>1 DEF CmdType, Command, Turned
  <1>3. ASSUME NEW kind \in Kinds, Continue(c, kind)
        PROVE  CmdType' /\ Turned(c, cmd[c].todo, kind, cmd[c].failed)
    BY <1>3 DEF Continue, CmdType, Command, Turned
  <1> HIDE DEF left
  <1> QED
    BY <1>0, <1>1, <1>2, <1>3

LEMMA StepTypes ==
    ASSUME TypeOK, NEW c \in Commands, Step(c)
    PROVE  TypeOK'
  <1>0. TreesType /\ PanesType /\ ProcessType /\ WorkType /\ CmdType /\ OtherType
    BY TypeParts
  <1>1. OtherType' /\ UNCHANGED <<trouble, broken>>
    <2>1. UNCHANGED broken
      BY DEF Step, CreateWorktree, RemoveWorktree, EnsureSession, RemoveSession, CheckSocket,
             UnlinkSocket, StartAgent, TypeLaunchLine, PressEnter, StopAgent, StartDaemon, StopDaemon,
             ClearDaemonMetadata, ReconcileOrphan, Integrate, CleanTempFiles
    <2> QED
      BY <1>0, <2>1 DEF OtherType, Step
  <1>2. CmdType'
    <2>1. Succeed(c) \/ Fail(c) \/ \E kind \in Kinds : Continue(c, kind)
      BY DEF Step, CreateWorktree, RemoveWorktree, EnsureSession, RemoveSession, CheckSocket,
             UnlinkSocket, StartAgent, TypeLaunchLine, PressEnter, StopAgent, StartDaemon, StopDaemon,
             ClearDaemonMetadata, ReconcileOrphan, Integrate, CleanTempFiles, Kinds
    <2> QED
      BY <1>0, <2>1, TurnTypes
  <1>3. TreesType'
    <2>1. CASE CreateWorktree(c)
      BY <1>0, <2>1 DEF CreateWorktree, TreesType, trees, TreeStates
    <2>2. CASE RemoveWorktree(c)
      BY <1>0, <2>2 DEF RemoveWorktree, TreesType, trees, TreeStates
    <2>3. CASE UNCHANGED trees
      BY <1>0, <2>3 DEF TreesType, trees
    <2> QED
      BY <2>1, <2>2, <2>3 DEF Step, EnsureSession, RemoveSession, CheckSocket,
             UnlinkSocket, StartAgent, TypeLaunchLine, PressEnter, StopAgent, StartDaemon, StopDaemon,
             ClearDaemonMetadata, ReconcileOrphan, Integrate, CleanTempFiles
  <1>4. PanesType'
    <2>1. CASE EnsureSession(c)
      BY <1>0, <2>1 DEF EnsureSession, PanesType, panes, PaneStates
    <2>2. CASE RemoveSession(c)
      BY <1>0, <2>2 DEF RemoveSession, SessionEnds, PanesType, panes, PaneStates
    <2>3. CASE UnlinkSocket(c)
      BY <1>0, <2>3 DEF UnlinkSocket, PanesType, PaneStates
    <2>4. CASE TypeLaunchLine(c)
      BY <1>0, <2>4 DEF TypeLaunchLine, PanesType, PaneStates
    <2>5. CASE PressEnter(c)
      BY <1>0, <2>5 DEF PressEnter, PanesType, PaneStates
    <2>6. CASE StopAgent(c)
      BY <1>0, <2>6 DEF StopAgent, PanesType, PaneStates
    <2>7. CASE UNCHANGED panes
      BY <1>0, <2>7 DEF PanesType, panes
    <2> QED
      BY <2>1, <2>2, <2>3, <2>4, <2>5, <2>6, <2>7
         DEF Step, CreateWorktree, RemoveWorktree, CheckSocket, StartAgent, StartDaemon,
             StopDaemon, ClearDaemonMetadata, ReconcileOrphan, Integrate, CleanTempFiles
  <1>5. ProcessType'
    <2>1. CASE StartDaemon(c) \/ StopDaemon(c)
      BY <1>0, <2>1 DEF StartDaemon, StopDaemon, ProcessType, process
    <2>2. CASE ClearDaemonMetadata(c)
      BY <1>0, <2>2 DEF ClearDaemonMetadata, ProcessType
    <2>3. CASE UNCHANGED process
      BY <1>0, <2>3 DEF ProcessType, process
    <2> QED
      BY <2>1, <2>2, <2>3
         DEF Step, CreateWorktree, RemoveWorktree, EnsureSession, RemoveSession, CheckSocket,
             UnlinkSocket, StartAgent, TypeLaunchLine, PressEnter, StopAgent, ReconcileOrphan, Integrate,
             CleanTempFiles
  <1>6. WorkType'
    <2>1. CASE ReconcileOrphan(c)
      <3> DEFINE r == Subject(c)
      <3>1. /\ orphans' = [orphans EXCEPT ![r] = IF @ > 0 THEN @ - 1 ELSE 0]
            /\ UNCHANGED <<integration, litter>>
        BY <2>1 DEF ReconcileOrphan
      <3> HIDE DEF r
      <3>2. \A n \in 0..MaxOrphans : (IF n > 0 THEN n - 1 ELSE 0) \in 0..MaxOrphans
        BY MaxOrphansNat
      <3>3. orphans' \in [Roles -> 0..MaxOrphans]
        BY <1>0, <3>1, <3>2 DEF WorkType
      <3> QED
        BY <1>0, <3>1, <3>3 DEF WorkType
    <2>2. CASE Integrate(c)
      BY <1>0, <2>2 DEF Integrate, WorkType
    <2>3. CASE CleanTempFiles(c)
      BY <1>0, <2>3 DEF CleanTempFiles, WorkType
    <2>4. CASE UNCHANGED work
      BY <1>0, <2>4 DEF WorkType, work
    <2> QED
      BY <2>1, <2>2, <2>3, <2>4
         DEF Step, CreateWorktree, RemoveWorktree, EnsureSession, RemoveSession, CheckSocket,
             UnlinkSocket, StartAgent, TypeLaunchLine, PressEnter, StopAgent, StartDaemon, StopDaemon,
             ClearDaemonMetadata
  <1> QED
    BY <1>1, <1>2, <1>3, <1>4, <1>5, <1>6, TypeParts

LEMMA InvokeTypes ==
    ASSUME TypeOK, NEW c \in Commands, Invoke(c)
    PROVE  TypeOK'
  <1>0. TreesType /\ PanesType /\ ProcessType /\ WorkType /\ CmdType /\ OtherType
    BY TypeParts
  <1>1. PICK op \in Operations : Begin(c, op)
    BY UsesChosen DEF Invoke, Operations, Exclusive
  <1>2. trouble' \in 0..MaxTrouble
    BY <1>0, MaxTroubleNat DEF Invoke, OtherType
  <1> DEFINE list == IF op = "repair" THEN PlanFrom(Detect) ELSE DOMAIN Steps[op]
             begun == [op |-> op, todo |-> list, next |-> "none", failed |-> FALSE]
  <1>3. /\ cmd' = [cmd EXCEPT ![c] = begun]
        /\ alone' = [alone EXCEPT ![c] = TRUE]
        /\ UNCHANGED <<trees, panes, process, broken, work>>
    BY <1>1 DEF Begin
  <1>4. list \in SUBSET Nat
    BY ListsAreNumbered
  <1> HIDE DEF list
  <1>5. begun \in Command
    BY <1>4 DEF Command, Kinds
  <1> HIDE DEF begun
  <1>6. CmdType'
    BY <1>0, <1>3, <1>5 DEF CmdType
  <1>7. OtherType'
    BY <1>0, <1>2, <1>3 DEF OtherType
  <1> QED
    BY <1>0, <1>3, <1>6, <1>7, TypeParts
       DEF TreesType, PanesType, ProcessType, WorkType, trees, panes, process, work

LEMMA IdleType == Idle \in Command
  BY DEF Idle, Command, Kinds

LEMMA DisturbanceTypes ==
    ASSUME TypeOK, Disturbance
    PROVE  TypeOK'
  <1>0. TreesType /\ PanesType /\ ProcessType /\ WorkType /\ CmdType /\ OtherType
    BY TypeParts
  <1>1. trouble' \in 0..MaxTrouble /\ alone' \in [Commands -> BOOLEAN]
    BY <1>0, MaxTroubleNat DEF Disturbance, OtherType
  <1>2. ASSUME NEW c \in Commands, ToolFails(c) \/ CommandDies(c) PROVE TypeOK'
    <2>1. CmdType'
      <3>1. CASE ToolFails(c)
        BY <1>0, <3>1, TurnTypes DEF ToolFails
      <3>2. CASE CommandDies(c)
        <4>1. cmd' = [cmd EXCEPT ![c] = Idle]
          BY <3>2 DEF CommandDies
        <4> QED
          BY <1>0, <4>1, IdleType DEF CmdType
      <3> QED
        BY <1>2, <3>1, <3>2
    <2>2. UNCHANGED <<trees, panes, process, broken, work>>
      BY <1>2 DEF ToolFails, CommandDies
    <2> QED
      BY <1>0, <1>1, <2>1, <2>2, TypeParts
         DEF TreesType, PanesType, ProcessType, WorkType, OtherType, trees, panes, process, work
  <1>3. ASSUME NEW e \in EnvFaults, EnvironmentChanges(e) PROVE TypeOK'
    BY <1>0, <1>1, <1>3, TypeParts
       DEF EnvironmentChanges, TreesType, PanesType, ProcessType, WorkType, CmdType, OtherType,
           trees, panes, process, work
  <1>4. ASSUME UNCHANGED <<trees, process, broken, work, cmd>>, PanesType' PROVE TypeOK'
    BY <1>0, <1>1, <1>4, TypeParts
       DEF TreesType, ProcessType, WorkType, CmdType, OtherType, trees, process, work
  <1>5. ASSUME UNCHANGED <<trees, panes, pidFile, broken, work, cmd>>,
               daemon' \in {"stopped", "running", "failed"}
        PROVE  TypeOK'
    BY <1>0, <1>1, <1>5, TypeParts
       DEF TreesType, PanesType, ProcessType, WorkType, CmdType, OtherType, trees, panes, work
  <1>6. ASSUME UNCHANGED <<panes, process, broken, work, cmd>>, TreesType' PROVE TypeOK'
    BY <1>0, <1>1, <1>6, TypeParts
       DEF PanesType, ProcessType, WorkType, CmdType, OtherType, panes, process, work
  <1>7. ASSUME UNCHANGED <<trees, panes, process, broken, cmd>>, WorkType' PROVE TypeOK'
    BY <1>0, <1>1, <1>7, TypeParts
       DEF TreesType, PanesType, ProcessType, CmdType, OtherType, trees, panes, process
  <1>8. CASE ServerDies
    BY <1>0, <1>4, <1>8 DEF ServerDies, PanesType, PaneStates
  <1>9. CASE DaemonDies \/ LockStolen
    BY <1>5, <1>9 DEF DaemonDies, LockStolen
  <1>10. ASSUME NEW r \in Roles, SessionDies(r) \/ AgentExits(r) PROVE TypeOK'
    <2>1. PanesType'
      BY <1>0, <1>10 DEF SessionDies, SessionEnds, AgentExits, PanesType, PaneStates
    <2> QED
      BY <1>4, <1>10, <2>1 DEF SessionDies, AgentExits
  <1>11. ASSUME NEW r \in Roles, Prune(r) \/ \E state \in TreeStates : TreeChanges(r, state)
         PROVE  TypeOK'
    <2>1. TreesType'
      BY <1>0, <1>11 DEF Prune, TreeChanges, TreesType
    <2> QED
      BY <1>6, <1>11, <2>1 DEF Prune, TreeChanges
  <1>12. ASSUME NEW r \in Roles,
                \/ \E state \in {"none", "pending", "failed"} : WorkChanges(r, state)
                \/ \E n \in 1..MaxOrphans : OrphansAppear(r, n)
         PROVE  TypeOK'
    <2>1. WorkType'
      <3>1. CASE \E state \in {"none", "pending", "failed"} : WorkChanges(r, state)
        BY <1>0, <3>1 DEF WorkChanges, WorkType
      <3>2. ASSUME NEW n \in 1..MaxOrphans, OrphansAppear(r, n) PROVE WorkType'
        <4>1. n \in 0..MaxOrphans
          BY MaxOrphansNat
        <4> QED
          BY <1>0, <3>2, <4>1 DEF OrphansAppear, WorkType
      <3> QED
        BY <1>12, <3>1, <3>2
    <2> QED
      BY <1>7, <1>12, <2>1 DEF WorkChanges, OrphansAppear
  <1>13. ASSUME NEW x \in Litter, LitterAppears(x) PROVE TypeOK'
    <2>1. WorkType'
      BY <1>0, <1>13 DEF LitterAppears, WorkType
    <2> QED
      BY <1>7, <1>13, <2>1 DEF LitterAppears
  <1> QED
    BY <1>2, <1>3, <1>8, <1>9, <1>10, <1>11, <1>12, <1>13 DEF Disturbance

\* Every variable stays in its domain, whatever the terminals do and whatever breaks
\* under them.
THEOREM TypeCorrect == Spec => []TypeOK
  <1>1. ASSUME Init PROVE TypeOK
    <2>1. CmdType
      BY <1>1, IdleType DEF Init, CmdType
    <2>2. TreesType /\ PanesType
      BY <1>1 DEF Init, TreesType, PanesType, TreeStates, PaneStates
    <2>3. ProcessType /\ OtherType
      <3>1. daemon = "stopped" /\ pidFile = FALSE /\ broken = {} /\ trouble = 0
        BY <1>1 DEF Init
      <3>2. alone = [c \in Commands |-> TRUE]
        BY <1>1 DEF Init
      <3>3. alone \in [Commands -> BOOLEAN]
        BY <3>2
      <3>4. 0 \in 0..MaxTrouble
        BY MaxTroubleNat
      <3> QED
        BY <3>1, <3>3, <3>4 DEF ProcessType, OtherType
    <2>4. WorkType
      BY <1>1, MaxOrphansNat DEF Init, WorkType
    <2> QED
      BY <2>1, <2>2, <2>3, <2>4, TypeParts
  <1>2. TypeOK /\ [Next]_vars => TypeOK'
    <2> SUFFICES ASSUME TypeOK, [Next]_vars PROVE TypeOK'
      OBVIOUS
    <2>0. TreesType /\ PanesType /\ ProcessType /\ WorkType /\ CmdType /\ OtherType
      BY TypeParts
    <2>1. ASSUME NEW c \in Commands, Finish(c) PROVE TypeOK'
      <3>1. CmdType'
        <4>1. cmd' = [cmd EXCEPT ![c] = Idle]
          BY <2>1 DEF Finish
        <4> QED
          BY <2>0, <4>1, IdleType DEF CmdType
      <3> QED
        BY <2>0, <2>1, <3>1, TypeParts
           DEF Finish, TreesType, PanesType, ProcessType, WorkType, OtherType,
               trees, panes, process, work
    <2>2. ASSUME NEW r \in Roles, Launches(r) PROVE TypeOK'
      <3>1. PanesType'
        BY <2>0, <2>2 DEF Launches, PanesType, PaneStates
      <3>2. alone' \in [Commands -> BOOLEAN]
        BY <2>0, <2>2 DEF Launches, OtherType
      <3> QED
        BY <2>0, <2>2, <3>1, <3>2, TypeParts
           DEF Launches, TreesType, ProcessType, WorkType, CmdType, OtherType, trees, process, work
    <2>3. ASSUME NEW r \in Roles, DaemonRetires(r) PROVE TypeOK'
      <3>1. \A n \in 0..MaxOrphans : n > 0 => n - 1 \in 0..MaxOrphans
        BY MaxOrphansNat
      <3>2. orphans' \in [Roles -> 0..MaxOrphans]
        BY <2>0, <2>3, <3>1 DEF DaemonRetires, WorkType
      <3> QED
        BY <2>0, <2>3, <3>2, TypeParts
           DEF DaemonRetires, TreesType, PanesType, ProcessType, WorkType, CmdType, OtherType,
               trees, panes, process
    <2>4. CASE UNCHANGED vars
      BY <2>0, <2>4, TypeParts
         DEF vars, TreesType, PanesType, ProcessType, WorkType, CmdType, OtherType
    <2> QED
      BY <2>1, <2>2, <2>3, <2>4, InvokeTypes, StepTypes, DisturbanceTypes DEF Next
  <1> QED
    BY <1>1, <1>2, PTL DEF Spec

-----------------------------------------------------------------------------
(* What doctor and status make of the same swarm.                          *)

\* A path that git does not track holds nothing, or a directory of somebody else's
\* branch.
Untracked == \A r \in Roles : ~registered[r] => tree[r] \in {"missing", "wrong-branch"}

LEMMA UntrackedHolds == Spec => []Untracked
  <1>1. Init => Untracked
    BY DEF Init, Untracked
  <1>2. TypeOK /\ Untracked /\ [Next]_vars => Untracked'
    <2> SUFFICES ASSUME TypeOK, Untracked, [Next]_vars PROVE Untracked'
      OBVIOUS
    <2>0. TreesType
      BY TypeParts
    <2>1. CASE UNCHANGED trees
      BY <2>1 DEF Untracked, trees
    <2>2. ASSUME NEW c \in Commands, CreateWorktree(c) \/ RemoveWorktree(c) PROVE Untracked'
      BY <2>0, <2>1, <2>2 DEF CreateWorktree, RemoveWorktree, Untracked, TreesType
    <2>3. ASSUME NEW c \in Commands, Step(c), ~CreateWorktree(c), ~RemoveWorktree(c)
          PROVE  Untracked'
      <3>1. UNCHANGED trees
        BY <2>3 DEF Step, EnsureSession, RemoveSession, CheckSocket, UnlinkSocket, StartAgent,
                    TypeLaunchLine, PressEnter, StopAgent, StartDaemon, StopDaemon, ClearDaemonMetadata,
                    ReconcileOrphan, Integrate, CleanTempFiles
      <3> QED
        BY <2>1, <3>1
    <2>4. ASSUME NEW r \in Roles, Prune(r) \/ \E state \in TreeStates : TreeChanges(r, state)
          PROVE  Untracked'
      BY <2>0, <2>4 DEF Prune, TreeChanges, Untracked, TreesType
    <2>5. ASSUME Disturbance, ~UNCHANGED trees PROVE Untracked'
      BY <2>4, <2>5 DEF Disturbance, ToolFails, CommandDies, EnvironmentChanges, ServerDies,
                        DaemonDies, LockStolen, SessionDies, AgentExits, WorkChanges,
                        OrphansAppear, LitterAppears, trees
    <2>6. ASSUME NEW c \in Commands, Invoke(c) \/ Finish(c) PROVE UNCHANGED trees
      BY <2>6 DEF Invoke, Begin, Finish
    <2>7. ASSUME NEW r \in Roles, Launches(r) \/ DaemonRetires(r) PROVE UNCHANGED trees
      BY <2>7 DEF Launches, DaemonRetires
    <2>8. CASE UNCHANGED vars
      BY <2>1, <2>8 DEF vars, trees
    <2> QED
      BY <2>1, <2>2, <2>3, <2>5, <2>6, <2>7, <2>8 DEF Next
  <1> QED
    BY <1>1, <1>2, TypeCorrect, PTL DEF Spec

\* Whatever is reported as more than a remark is held against the swarm.
LEMMA Counts ==
    ASSUME NEW code, NEW component, NEW repairable \in BOOLEAN,
           NEW severity \in {"critical", "error", "warning"}
    PROVE  LET d == Diagnosis(code, severity, component, repairable) IN Blocks(d) \/ Degrades(d)
  BY DEF Diagnosis, Blocks, Degrades

\* With a server up, a swarm doctor has nothing against is one that runs.
LEMMA DoctorSees ==
    ASSUME TypeOK, ServerAlive, DoctorHealth = "healthy"
    PROVE  /\ daemon = "running" /\ "backend" \notin broken
           /\ \A r \in Roles : tree[r] = "healthy" /\ SessionLive(r) /\ AgentState(r) # "not-started"
  <1>1. \A d \in Detect : ~Blocks(d) /\ ~Degrades(d)
    BY DEF DoctorHealth
  <1>2. "repository" \notin broken
    <2>1. ASSUME "repository" \in broken PROVE FALSE
      <3>1. Diagnosis("REPO_MISSING", "critical", "repository", FALSE) \in Detect
        BY <2>1 DEF Detect
      <3> QED
        BY <1>1, <3>1, Counts
    <2> QED
      BY <2>1
  <1>3. /\ InspectEnvironment \subseteq Detect /\ InspectDaemon \subseteq Detect
        /\ \A r \in Roles : InspectWorktree(r) \subseteq Detect /\ InspectRuntime(r) \subseteq Detect
    BY <1>2 DEF Detect
  <1>4. daemon = "running"
    <2>1. daemon # "failed"
      <3>1. ASSUME daemon = "failed" PROVE FALSE
        <4>1. Diagnosis("DAEMON_UNVERIFIED", "error", "daemon", FALSE) \in InspectDaemon
          BY <3>1 DEF InspectDaemon, When
        <4> QED
          BY <1>1, <1>3, <4>1, Counts
      <3> QED
        BY <3>1
    <2>2. daemon # "stopped"
      <3>1. ASSUME daemon = "stopped" PROVE FALSE
        <4>1. Diagnosis("DAEMON_NOT_RUNNING", "error", "daemon", TRUE) \in InspectDaemon
          BY <3>1 DEF InspectDaemon, When
        <4> QED
          BY <1>1, <1>3, <4>1, Counts
      <3> QED
        BY <3>1
    <2> QED
      BY <2>1, <2>2 DEF TypeOK
  <1>5. ASSUME NEW r \in Roles
        PROVE  /\ "backend" \notin broken
               /\ tree[r] = "healthy" /\ SessionLive(r) /\ AgentState(r) # "not-started"
    <2>1. ASSUME "backend" \in broken PROVE FALSE
      <3>1. Diagnosis("BACKEND_MISSING", "error", r, FALSE) \in InspectEnvironment
        BY <2>1 DEF InspectEnvironment
      <3> QED
        BY <1>1, <1>3, <3>1, Counts
    <2>2. ASSUME tree[r] # "healthy" PROVE FALSE
      <3>1. PICK x \in TreeReports : x[1] = tree[r]
        BY <2>2 DEF TypeOK, TreeStates, TreeReports
      <3>2. Diagnosis(x[2], x[3], r, tree[r] = "missing" /\ ~registered[r]) \in InspectWorktree(r)
        BY <3>1 DEF InspectWorktree
      <3>3. x[3] \in {"critical", "error", "warning"}
        BY <3>1 DEF TreeReports
      <3>4. (tree[r] = "missing" /\ ~registered[r]) \in BOOLEAN
        OBVIOUS
      <3> QED
        BY <1>1, <1>3, <3>2, <3>3, <3>4, Counts
    <2>3. ASSUME ~SessionLive(r) PROVE FALSE
      <3>1. Diagnosis("SESSION_MISSING", "error", r, TRUE) \in InspectRuntime(r)
        BY <2>3 DEF InspectRuntime, When
      <3> QED
        BY <1>1, <1>3, <3>1, Counts
    <2>4. ASSUME AgentState(r) = "not-started" PROVE FALSE
      <3>1. Diagnosis("AGENT_MISSING", "error", r, TRUE) \in InspectRuntime(r)
        BY <2>4 DEF InspectRuntime, When
      <3> QED
        BY <1>1, <1>3, <3>1, Counts
    <2> QED
      BY <2>1, <2>2, <2>3, <2>4
  <1>6. \E r \in Roles : TRUE
    BY DEF ServerAlive
  <1> QED
    BY <1>4, <1>5, <1>6

\* While a tmux server answers, doctor calls nothing healthy that status does not, but
\* for agents it could not ask after, whatever failed and whatever repairs are under way
\* (Detect, Manager.Status).
THEOREM DoctorAgreesWithStatus == Spec => []HealthyIsUp
  <1>1. TypeOK /\ Untracked => HealthyIsUp
    <2> SUFFICES ASSUME TypeOK, Untracked, ServerAlive, DoctorHealth = "healthy"
                 PROVE  \/ StatusHealth = "healthy"
                        \/ StatusHealth = "degraded" /\ daemon = "running" /\ Unasked
      BY DEF HealthyIsUp
    <2>1. "tmux" \notin broken /\ daemon = "running" /\ "backend" \notin broken
      BY DoctorSees DEF ServerAlive
    <2>2. ASSUME NEW r \in Roles
          PROVE  registered[r] /\ SessionLive(r) /\ AgentState(r) \in {"running", "error"}
      <3>1. SessionLive(r) /\ AgentState(r) # "not-started"
        BY DoctorSees
      <3>2. registered[r]
        BY DoctorSees DEF Untracked
      <3>3. AgentState(r) \in {"running", "error"}
        BY <2>1, <3>1 DEF AgentState
      <3> QED
        BY <3>1, <3>2, <3>3
    <2>3. Unasked
      BY <2>2 DEF Unasked, RoleUp
    <2>4. \A r \in Roles : AgentState(r) # "backend-missing"
      BY <2>2
    <2>5. StatusHealth \in {"healthy", "degraded"}
      BY <2>1, <2>4 DEF StatusHealth, Running
    <2> QED
      BY <2>1, <2>3, <2>5
  <1> QED
    BY <1>1, UntrackedHolds, TypeCorrect, PTL

-----------------------------------------------------------------------------
(* What a command that nothing interferes with has done so far.            *)

Going(c, op) == cmd[c].op = op /\ ~cmd[c].failed /\ alone[c]

LEMMA FirstOf ==
    ASSUME NEW k \in Nat, NEW m \in Nat, k <= m
    PROVE  First(k..m) = k /\ (k..m) \ {k} = (k + 1)..m
  <1>1. k \in k..m /\ \A n \in k..m : k <= n
    OBVIOUS
  <1>2. ASSUME NEW n \in k..m, \A i \in k..m : n <= i PROVE n = k
    BY <1>1, <1>2
  <1>3. First(k..m) = k
    BY <1>1, <1>2 DEF First
  <1> QED
    BY <1>3

\* A step does what its command is about to do, and nothing else.
LEMMA StepDoes ==
    ASSUME NEW c \in Commands, Step(c)
    PROVE  /\ Doing(c, "stop-agent") => StopAgent(c)
           /\ Doing(c, "remove-session") => RemoveSession(c)
           /\ Doing(c, "stop-daemon") => StopDaemon(c)
           /\ Doing(c, "create-worktree") => CreateWorktree(c)
           /\ Doing(c, "start-daemon") => StartDaemon(c)
           /\ Doing(c, "create-session") => EnsureSession(c)
           /\ Doing(c, "start-agent") => StartAgent(c)
           /\ Doing(c, "type-launch-line") => TypeLaunchLine(c)
           /\ Doing(c, "press-enter") => PressEnter(c)
           /\ cmd[c].todo # {}
  BY DEF Step, CreateWorktree, RemoveWorktree, EnsureSession, RemoveSession, CheckSocket,
         UnlinkSocket, StartAgent, TypeLaunchLine, PressEnter, StopAgent, StartDaemon, StopDaemon,
         ClearDaemonMetadata, ReconcileOrphan, Integrate, CleanTempFiles, Doing

Begun(c, op) ==
    /\ cmd'[c].op = op /\ cmd'[c].next = "none"
    /\ cmd'[c].todo = IF op = "repair" THEN PlanFrom(Detect) ELSE DOMAIN Steps[op]
    /\ UNCHANGED <<tree, registered, pane, socket, daemon, pidFile, broken, integration, litter>>

\* All that the environment does under a command that stays alone.
Undisturbed(c) ==
    /\ cmd'[c] = cmd[c] /\ alone'[c] = alone[c]
    /\ UNCHANGED <<tree, registered, socket, daemon, pidFile, broken, integration, litter>>
    /\ \A r \in Roles :
         \/ pane'[r] = pane[r]
         \/ /\ pane[r] = "typed" /\ pane'[r] = "agent"
            /\ ~(cmd[c].next = "type-launch-line" /\ Subject(c) = r)

\* What a step of the system may be to a command.
LEMMA StepsOf ==
    ASSUME TypeOK, [Next]_vars, NEW c \in Commands
    PROVE  \/ Step(c)
           \/ \E op \in Operations : Begun(c, op)
           \/ ~alone'[c]
           \/ cmd'[c].op = "none"
           \/ Undisturbed(c)
  <1>0. PanesType /\ CmdType /\ OtherType
    BY TypeParts
  <1>1. ASSUME NEW d \in Commands, Invoke(d)
        PROVE  (\E op \in Operations : Begun(c, op)) \/ Undisturbed(c)
    <2>1. PICK op \in Operations : Begin(d, op)
      BY <1>1, UsesChosen DEF Invoke, Operations, Exclusive
    <2> DEFINE list == IF op = "repair" THEN PlanFrom(Detect) ELSE DOMAIN Steps[op]
    <2>2. /\ cmd' = [cmd EXCEPT ![d] = [op |-> op, todo |-> list, next |-> "none", failed |-> FALSE]]
          /\ alone' = [alone EXCEPT ![d] = TRUE]
          /\ UNCHANGED <<trees, panes, process, broken, work>>
      BY <2>1 DEF Begin
    <2>3. list = IF op = "repair" THEN PlanFrom(Detect) ELSE DOMAIN Steps[op]
      OBVIOUS
    <2> HIDE DEF list
    <2>4. CASE d = c
      BY <1>0, <2>2, <2>3, <2>4 DEF CmdType, Begun, trees, panes, process, work
    <2>5. CASE d # c
      BY <1>0, <2>2, <2>5 DEF CmdType, OtherType, Undisturbed, trees, panes, process, work
    <2> QED
      BY <2>4, <2>5
  <1>2. ASSUME NEW d \in Commands, Step(d), d # c PROVE ~alone'[c]
    BY <1>2 DEF Step
  <1>3. ASSUME NEW d \in Commands, Finish(d) PROVE cmd'[c].op = "none" \/ Undisturbed(c)
    <2>1. cmd' = [cmd EXCEPT ![d] = Idle] /\ UNCHANGED <<trees, panes, process, alone>>
      BY <1>3 DEF Finish
    <2>2. UNCHANGED <<broken, work>>
      BY <1>3 DEF Finish
    <2> QED
      BY <1>0, <2>1, <2>2 DEF CmdType, Idle, Undisturbed, trees, panes, process, work
  <1>4. ASSUME NEW r \in Roles, Launches(r) PROVE ~alone'[c] \/ Undisturbed(c)
    <2>1. alone'[c] = (alone[c] /\ ~(cmd[c].next = "type-launch-line" /\ Subject(c) = r))
      BY <1>4 DEF Launches
    <2>2. alone'[c] = alone[c] \/ ~alone'[c]
      BY <1>0, <2>1 DEF OtherType
    <2> QED
      BY <1>0, <1>4, <2>2 DEF Launches, PanesType, Undisturbed, trees, process, work
  <1>5. ASSUME NEW r \in Roles, DaemonRetires(r) PROVE Undisturbed(c)
    BY <1>5 DEF DaemonRetires, Undisturbed, trees, panes, process
  <1>6. ASSUME Disturbance PROVE ~alone'[c]
    BY <1>6 DEF Disturbance
  <1>7. ASSUME UNCHANGED vars PROVE Undisturbed(c)
    BY <1>7 DEF vars, Undisturbed
  <1> QED
    BY <1>1, <1>2, <1>3, <1>4, <1>5, <1>6, <1>7 DEF Next

\* How far stop has come: the steps before k are done.
Stopped(k) ==
    /\ \A i \in 1..L : L + i < k => pane[RoleOrder[i]] = "none"
    /\ N < k => daemon = "stopped" /\ ~pidFile
StopInv ==
    \A c \in Commands : Going(c, "stop") =>
        /\ cmd[c].next = "none"
        /\ \E k \in 1..(N + 1) : cmd[c].todo = k..N /\ Stopped(k)

LEMMA StopGoesOn ==
    ASSUME TypeOK, NEW c \in Commands, cmd[c].op = "stop", cmd[c].next = "none",
           NEW k \in 1..N, cmd[c].todo = k..N, Stopped(k), Step(c), ~cmd'[c].failed
    PROVE  cmd'[c].next = "none" /\ cmd'[c].todo = (k + 1)..N /\ Stopped(k + 1)'
  <1>0. /\ CmdType /\ PanesType /\ L \in Nat /\ N = 2 * L + 1 /\ k \in Nat /\ k <= N /\ N \in Nat
        /\ \A i \in 1..L : RoleOrder[i] \in Roles
    BY TypeParts, OrderType DEF N
  <1>1. First(cmd[c].todo) = k /\ Rest(c) = (k + 1)..N
    BY <1>0, FirstOf DEF Rest
  <1>2. Current(c) = StopList[k] /\ cmd[c].todo # {}
    <2>1. Steps[cmd[c].op] = StopList
      BY ListOf
    <2>2. Current(c) = StopList[k]
      BY <1>1, <2>1, Zenon DEF Current
    <2>3. k \in k..N
      BY <1>0
    <2> QED
      BY <2>2, <2>3
  <1>3. ~Fail(c)
    BY <1>0, TurnTypes DEF Turned
  <1>4. Succeed(c) => cmd'[c].next = "none" /\ cmd'[c].todo = (k + 1)..N
    BY <1>0, <1>1, TurnTypes DEF Turned
  <1>5. ASSUME NEW i \in 1..L, k = i
        PROVE  Succeed(c) /\ Stopped(k + 1)'
    <2>1. Current(c).kind = "stop-agent"
      BY <1>2, <1>5, StopSteps
    <2>2. StopAgent(c)
      BY <1>2, <2>1, StepDoes DEF Doing
    <2>3. \A j \in 1..L : ~(L + j < k + 1)
      BY <1>0, <1>5
    <2>4. ~(N < k + 1)
      BY <1>0, <1>5
    <2> QED
      BY <1>3, <2>2, <2>3, <2>4 DEF StopAgent, Stopped
  <1>6. ASSUME NEW i \in 1..L, k = L + i
        PROVE  Succeed(c) /\ Stopped(k + 1)'
    <2>1. Current(c).kind = "remove-session" /\ Subject(c) = RoleOrder[i]
      BY <1>2, <1>6, StopSteps DEF Subject
    <2>2. RemoveSession(c)
      BY <1>2, <2>1, StepDoes DEF Doing
    <2>3. /\ Succeed(c)
          /\ \A r \in Roles : pane'[r] = IF r = RoleOrder[i] THEN "none" ELSE pane[r]
      BY <1>0, <1>3, <2>1, <2>2 DEF RemoveSession, SessionEnds, PanesType, panes
    <2>4. \A j \in 1..L : L + j < k + 1 => j = i \/ L + j < k
      BY <1>0, <1>6
    <2>5. ~(N < k + 1)
      BY <1>0, <1>6
    <2>6. ASSUME NEW j \in 1..L, L + j < k + 1 PROVE pane'[RoleOrder[j]] = "none"
      BY <1>0, <2>3, <2>4, <2>6 DEF Stopped
    <2> QED
      BY <2>3, <2>5, <2>6 DEF Stopped
  <1>7. ASSUME k = N
        PROVE  Succeed(c) /\ Stopped(k + 1)'
    <2>1. Current(c).kind = "stop-daemon"
      BY <1>2, <1>7, StopSteps
    <2>2. StopDaemon(c)
      BY <1>2, <2>1, StepDoes DEF Doing
    <2>3. /\ Succeed(c) /\ daemon' = "stopped" /\ pidFile' = FALSE /\ pane' = pane
      BY <1>3, <2>2 DEF StopDaemon, panes
    <2>4. \A j \in 1..L : L + j < k
      BY <1>0, <1>7
    <2> QED
      BY <2>3, <2>4 DEF Stopped
  <1>8. (\E i \in 1..L : k = i) \/ (\E i \in 1..L : k = L + i) \/ k = N
    <2>1. CASE k <= L
      BY <1>0, <2>1
    <2>2. CASE L < k /\ k <= 2 * L
      <3>1. k - L \in 1..L /\ k = L + (k - L)
        BY <1>0, <2>2
      <3> QED
        BY <3>1
    <2>3. CASE 2 * L < k
      BY <1>0, <2>3
    <2> QED
      BY <1>0, <2>1, <2>2, <2>3
  <1> QED
    BY <1>4, <1>5, <1>6, <1>7, <1>8

LEMMA StopHolds == Spec => []StopInv
  <1>1. Init => StopInv
    BY DEF Init, Idle, StopInv, Going
  <1>2. TypeOK /\ StopInv /\ [Next]_vars => StopInv'
    <2> SUFFICES ASSUME TypeOK, StopInv, [Next]_vars, NEW c \in Commands, Going(c, "stop")'
                 PROVE  /\ cmd'[c].next = "none"
                        /\ \E k \in 1..(N + 1) : cmd'[c].todo = k..N /\ Stopped(k)'
      BY DEF StopInv
    <2>0. /\ CmdType /\ PanesType /\ N \in Nat /\ L \in Nat /\ N = 2 * L + 1
          /\ \A i \in 1..L : RoleOrder[i] \in Roles
      BY TypeParts, OrderType DEF N
    <2>1. cmd'[c].op = "stop" /\ ~cmd'[c].failed /\ alone'[c]
      BY DEF Going
    <2>2. CASE Step(c)
      <3>1. \/ Succeed(c) \/ Fail(c) \/ \E kind \in Kinds : Continue(c, kind)
        BY <2>2 DEF Step, CreateWorktree, RemoveWorktree, EnsureSession, RemoveSession, CheckSocket,
             UnlinkSocket, StartAgent, TypeLaunchLine, PressEnter, StopAgent, StartDaemon, StopDaemon,
             ClearDaemonMetadata, ReconcileOrphan, Integrate, CleanTempFiles, Kinds
      <3>2. cmd[c].op = "stop" /\ ~cmd[c].failed
        BY <2>0, <2>1, <3>1, TurnTypes DEF Turned
      <3>3. alone[c]
        BY <2>1, <2>2 DEF Step
      <3>4. cmd[c].next = "none"
        BY <3>2, <3>3 DEF StopInv, Going
      <3>5. PICK k \in 1..(N + 1) : cmd[c].todo = k..N /\ Stopped(k)
        BY <3>2, <3>3 DEF StopInv, Going
      <3>6. k \in 1..N /\ k + 1 \in 1..(N + 1)
        BY <2>0, <2>2, <3>5, StepDoes
      <3>7. cmd'[c].next = "none" /\ cmd'[c].todo = (k + 1)..N /\ Stopped(k + 1)'
        BY <2>1, <2>2, <3>2, <3>4, <3>5, <3>6, StopGoesOn
      <3> QED
        BY <3>6, <3>7
    <2>3. ASSUME NEW op \in Operations, Begun(c, op)
          PROVE  cmd'[c].next = "none" /\ cmd'[c].todo = 1..N /\ Stopped(1)'
      <3>1. cmd'[c].next = "none" /\ cmd'[c].todo = 1..N
        BY <2>1, <2>3, StopSteps DEF Begun
      <3>2. ~(N < 1) /\ \A i \in 1..L : ~(L + i < 1)
        BY <2>0
      <3> QED
        BY <3>1, <3>2 DEF Stopped
    <2>4. CASE Undisturbed(c)
      <3>1. Going(c, "stop")
        BY <2>1, <2>4 DEF Undisturbed, Going
      <3>2. PICK k \in 1..(N + 1) : cmd[c].todo = k..N /\ Stopped(k)
        BY <3>1 DEF StopInv
      <3>3. Stopped(k)'
        BY <2>0, <2>4, <3>2 DEF Undisturbed, Stopped
      <3> QED
        BY <2>4, <3>1, <3>2, <3>3 DEF Undisturbed, StopInv
    <2>5. 1 \in 1..(N + 1)
      BY <2>0
    <2> QED
      BY <2>1, <2>2, <2>3, <2>4, <2>5, StepsOf
  <1> QED
    BY <1>1, <1>2, TypeCorrect, PTL DEF Spec

\* A stop that ends without an error, and that nothing interfered with, leaves no
\* session, no agent and no daemon, wherever it set out from (Manager.Stop).
THEOREM StopIsComplete == Spec => []StopDelivers
  <1>1. StopInv => StopDelivers
    <2> SUFFICES ASSUME StopInv, NEW c \in Commands, Clean(c, "stop")
                 PROVE  daemon = "stopped" /\ ~pidFile /\ \A r \in Roles : pane[r] = "none"
      BY DEF StopDelivers
    <2>0. N \in Nat /\ L \in Nat /\ N = 2 * L + 1
      BY OrderType DEF N
    <2>1. PICK k \in 1..(N + 1) : cmd[c].todo = k..N /\ Stopped(k)
      BY DEF StopInv, Clean, Going
    <2>2. k = N + 1
      <3>1. k..N = {}
        BY <2>1 DEF Clean
      <3>2. k <= N => k \in k..N
        BY <2>0
      <3> QED
        BY <2>0, <3>1, <3>2
    <2>3. N < k /\ \A i \in 1..L : L + i < k
      BY <2>0, <2>2
    <2>4. \A i \in 1..L : pane[RoleOrder[i]] = "none"
      BY <2>1, <2>3 DEF Stopped
    <2>5. daemon = "stopped" /\ ~pidFile
      BY <2>1, <2>3 DEF Stopped
    <2> QED
      BY <2>4, <2>5, OrderType
  <1> QED
    BY <1>1, StopHolds, PTL

\* A pane that runs no agent and has not been told to.
Bare == {"none", "shell", "line"}

\* How far start has come; and that of a session that has been ensured, but not its
\* agent, the worktree was there; and that a launch line has been typed into it.
Started(k) ==
    /\ \A i \in 1..L : i < k => registered[RoleOrder[i]]
    /\ L + 1 < k => daemon = "running"
    /\ \A i \in 1..L : L + 1 + i < k =>
            tree[RoleOrder[i]] # "missing" /\ pane[RoleOrder[i]] \notin Bare
Between(k) == \E i \in 1..L : k = L + 1 + i /\ tree[RoleOrder[i]] # "missing"
AtPane(k) == \E i \in 1..L : k = L + 1 + i /\ pane[RoleOrder[i]] \notin {"none", "shell"}
AgentKinds == {"start-agent", "type-launch-line", "press-enter"}
StartInv ==
    \A c \in Commands : Going(c, "start") =>
        /\ cmd[c].next \in AgentKinds \cup {"none"}
        /\ \E k \in 1..(N + 1) :
             /\ cmd[c].todo = k..N /\ Started(k)
             /\ cmd[c].next # "none" => Between(k)
             /\ cmd[c].next = "press-enter" => AtPane(k)

LEMMA StartGoesOn ==
    ASSUME TypeOK, NEW c \in Commands, cmd[c].op = "start",
           cmd[c].next \in AgentKinds \cup {"none"},
           NEW k \in 1..N, cmd[c].todo = k..N, Started(k), cmd[c].next # "none" => Between(k),
           cmd[c].next = "press-enter" => AtPane(k), Step(c), ~cmd'[c].failed
    PROVE  \/ cmd'[c].next = "none" /\ cmd'[c].todo = (k + 1)..N /\ Started(k + 1)'
           \/ /\ cmd'[c].next \in AgentKinds
              /\ cmd'[c].todo = k..N /\ Started(k)' /\ Between(k)'
              /\ cmd'[c].next = "press-enter" => AtPane(k)'
  <1>0. /\ CmdType /\ PanesType /\ TreesType
        /\ L \in Nat /\ N = 2 * L + 1 /\ k \in Nat /\ k <= N /\ N \in Nat
        /\ \A i \in 1..L : RoleOrder[i] \in Roles
    BY TypeParts, OrderType DEF N
  <1>1. First(cmd[c].todo) = k /\ Rest(c) = (k + 1)..N
    BY <1>0, FirstOf DEF Rest
  <1>2. Current(c) = StartList[k] /\ cmd[c].todo # {}
    <2>1. Steps[cmd[c].op] = StartList
      BY ListOf
    <2>2. Current(c) = StartList[k]
      BY <1>1, <2>1, Zenon DEF Current
    <2>3. k \in k..N
      BY <1>0
    <2> QED
      BY <2>2, <2>3
  <1>3. ~Fail(c)
    BY <1>0, TurnTypes DEF Turned
  <1>4. Succeed(c) => cmd'[c].next = "none" /\ cmd'[c].todo = (k + 1)..N
    BY <1>0, <1>1, TurnTypes DEF Turned
  <1>5. ASSUME NEW kind \in AgentKinds, Continue(c, kind)
        PROVE  cmd'[c].next = kind /\ cmd'[c].todo = k..N
    BY <1>0, <1>5 DEF Continue, CmdType, Command
  <1>6. CASE cmd[c].next = "none"
    <2>1. ASSUME NEW i \in 1..L, k = i
          PROVE  Succeed(c) /\ Started(k + 1)'
      <3>1. Current(c).kind = "create-worktree" /\ Subject(c) = RoleOrder[i]
        BY <1>2, <2>1, StartSteps DEF Subject
      <3>2. CreateWorktree(c)
        BY <1>2, <1>6, <3>1, StepDoes DEF Doing
      <3>3. /\ Succeed(c)
            /\ \A r \in Roles : registered[r] \/ r = RoleOrder[i] => registered'[r]
        BY <1>0, <1>3, <3>1, <3>2 DEF CreateWorktree, TreesType, trees
      <3>4. \A j \in 1..L : j < k + 1 => j = i \/ j < k
        BY <1>0, <2>1
      <3>5. ~(L + 1 < k + 1) /\ \A j \in 1..L : ~(L + 1 + j < k + 1)
        BY <1>0, <2>1
      <3>6. ASSUME NEW j \in 1..L, j < k + 1 PROVE registered'[RoleOrder[j]]
        BY <1>0, <3>3, <3>4, <3>6 DEF Started
      <3> QED
        BY <3>3, <3>5, <3>6 DEF Started
    <2>2. ASSUME k = L + 1
          PROVE  Succeed(c) /\ Started(k + 1)'
      <3>1. Current(c).kind = "start-daemon"
        BY <1>2, <2>2, StartSteps
      <3>2. StartDaemon(c)
        BY <1>2, <1>6, <3>1, StepDoes DEF Doing
      <3>3. Succeed(c) /\ daemon' = "running" /\ registered' = registered
        BY <1>3, <3>2 DEF StartDaemon, process, trees
      <3>4. \A j \in 1..L : j < k /\ ~(L + 1 + j < k + 1)
        BY <1>0, <2>2
      <3> QED
        BY <3>3, <3>4 DEF Started
    <2>3. ASSUME NEW i \in 1..L, k = L + 1 + i
          PROVE  Continue(c, "start-agent") /\ Started(k)' /\ Between(k)'
      <3>1. Current(c).kind = "create-session" /\ Subject(c) = RoleOrder[i]
        BY <1>2, <2>3, StartSteps DEF Subject
      <3>2. EnsureSession(c)
        BY <1>2, <1>6, <3>1, StepDoes DEF Doing
      <3>3. /\ Continue(c, "start-agent") /\ tree[RoleOrder[i]] # "missing"
            /\ UNCHANGED <<tree, registered, daemon>>
            /\ \A r \in Roles : pane[r] # "none" => pane'[r] = pane[r]
        BY <1>0, <1>3, <3>1, <3>2 DEF EnsureSession, PanesType, trees, panes, process
      <3>4. Started(k)'
        BY <1>0, <3>3 DEF Started, Bare
      <3> QED
        BY <2>3, <3>3, <3>4 DEF Between
    <2>4. (\E i \in 1..L : k = i) \/ k = L + 1 \/ \E i \in 1..L : k = L + 1 + i
      <3>1. CASE k <= L
        BY <1>0, <3>1
      <3>2. CASE L + 1 < k
        <4>1. k - (L + 1) \in 1..L /\ k = L + 1 + (k - (L + 1))
          BY <1>0, <3>2
        <4> QED
          BY <4>1
      <3> QED
        BY <1>0, <3>1, <3>2
    <2> QED
      BY <1>4, <1>5, <2>1, <2>2, <2>3, <2>4 DEF AgentKinds
  <1>7. CASE cmd[c].next # "none"
    <2>1. PICK i \in 1..L : k = L + 1 + i /\ tree[RoleOrder[i]] # "missing"
      BY <1>7 DEF Between
    <2>2. Subject(c) = RoleOrder[i]
      BY <1>2, <2>1, StartSteps DEF Subject
    <2>3. /\ \A j \in 1..L : j < k + 1 /\ j < k
          /\ L + 1 < k
          /\ \A j \in 1..L : L + 1 + j < k + 1 => j = i \/ L + 1 + j < k
      BY <1>0, <2>1
    \* Once the agent of role i is there, and every other pane that had one still has.
    <2>4. ASSUME UNCHANGED <<tree, registered, daemon>>,
                 pane'[RoleOrder[i]] \notin Bare,
                 \A r \in Roles : pane[r] \notin Bare => pane'[r] \notin Bare
          PROVE  Started(k + 1)'
      <3>1. ASSUME NEW j \in 1..L, L + 1 + j < k + 1
            PROVE  tree'[RoleOrder[j]] # "missing" /\ pane'[RoleOrder[j]] \notin Bare
        BY <1>0, <2>1, <2>3, <2>4, <3>1 DEF Started
      <3> QED
        BY <2>3, <2>4, <3>1 DEF Started
    <2>5. CASE cmd[c].next = "start-agent"
      <3>1. StartAgent(c)
        BY <1>2, <2>5, StepDoes DEF Doing
      <3>2. UNCHANGED <<tree, registered, daemon, pane>>
        BY <3>1 DEF StartAgent, trees, panes, process
      <3>3. CASE Continue(c, "type-launch-line")
        <4>1. Started(k)' /\ Between(k)'
          BY <2>1, <3>2 DEF Started, Between
        <4> QED
          BY <1>5, <3>3, <4>1 DEF AgentKinds
      <3>4. CASE Succeed(c) /\ AgentState(RoleOrder[i]) = "running"
        <4>1. pane[RoleOrder[i]] \notin Bare
          BY <3>4 DEF AgentState, SessionLive, Bare
        <4> QED
          BY <1>4, <2>4, <3>2, <3>4, <4>1
      <3> QED
        BY <1>3, <2>2, <3>1, <3>3, <3>4 DEF StartAgent
    <2>6. CASE cmd[c].next = "type-launch-line"
      <3>1. TypeLaunchLine(c)
        BY <1>2, <2>6, StepDoes DEF Doing
      <3>2. /\ Continue(c, "press-enter") /\ UNCHANGED <<tree, registered, daemon>>
            /\ pane'[RoleOrder[i]] \notin {"none", "shell"}
            /\ \A r \in Roles : r # RoleOrder[i] => pane'[r] = pane[r]
        BY <1>0, <1>3, <2>2, <3>1 DEF TypeLaunchLine, PanesType, trees, process
      <3>3. \A j \in 1..L : L + 1 + j < k =>
              tree'[RoleOrder[j]] # "missing" /\ pane'[RoleOrder[j]] \notin Bare
        <4> SUFFICES ASSUME NEW j \in 1..L, L + 1 + j < k
                     PROVE  tree'[RoleOrder[j]] # "missing" /\ pane'[RoleOrder[j]] \notin Bare
          OBVIOUS
        <4>1. tree[RoleOrder[j]] # "missing" /\ pane[RoleOrder[j]] \notin Bare
          BY DEF Started
        <4>2. CASE RoleOrder[j] = RoleOrder[i]
          BY <1>0, <1>3, <2>2, <3>1, <3>2, <4>1, <4>2 DEF TypeLaunchLine, PanesType, Bare
        <4>3. CASE RoleOrder[j] # RoleOrder[i]
          BY <1>0, <3>2, <4>1, <4>3
        <4> QED
          BY <4>2, <4>3
      <3>4. Started(k)' /\ Between(k)' /\ AtPane(k)'
        BY <2>1, <2>3, <3>2, <3>3 DEF Started, Between, AtPane
      <3> QED
        BY <1>5, <3>2, <3>4 DEF AgentKinds
    <2>7. CASE cmd[c].next = "press-enter"
      <3>1. PressEnter(c)
        BY <1>2, <2>7, StepDoes DEF Doing
      <3>2. pane[RoleOrder[i]] \notin {"none", "shell"}
        BY <1>0, <2>1, <2>7 DEF AtPane
      <3>3. /\ Succeed(c) /\ UNCHANGED <<tree, registered, daemon>>
            /\ pane'[RoleOrder[i]] \notin Bare
            /\ \A r \in Roles : pane[r] \notin Bare => pane'[r] \notin Bare
        BY <1>0, <1>3, <2>2, <3>1, <3>2 DEF PressEnter, PanesType, Bare, trees, process
      <3> QED
        BY <1>4, <2>4, <3>3
    <2> QED
      BY <1>7, <2>5, <2>6, <2>7 DEF AgentKinds
  <1> QED
    BY <1>6, <1>7

LEMMA StartHolds == Spec => []StartInv
  <1>1. Init => StartInv
    BY DEF Init, Idle, StartInv, Going
  <1>2. TypeOK /\ StartInv /\ [Next]_vars => StartInv'
    <2> SUFFICES ASSUME TypeOK, StartInv, [Next]_vars, NEW c \in Commands, Going(c, "start")'
                 PROVE  /\ cmd'[c].next \in AgentKinds \cup {"none"}
                        /\ \E k \in 1..(N + 1) :
                             /\ cmd'[c].todo = k..N /\ Started(k)'
                             /\ cmd'[c].next # "none" => Between(k)'
                             /\ cmd'[c].next = "press-enter" => AtPane(k)'
      BY DEF StartInv
    <2>0. /\ CmdType /\ PanesType /\ N \in Nat /\ L \in Nat /\ N = 2 * L + 1
          /\ \A i \in 1..L : RoleOrder[i] \in Roles
      BY TypeParts, OrderType DEF N
    <2>1. cmd'[c].op = "start" /\ ~cmd'[c].failed /\ alone'[c]
      BY DEF Going
    <2>2. CASE Step(c)
      <3>1. \/ Succeed(c) \/ Fail(c) \/ \E kind \in Kinds : Continue(c, kind)
        BY <2>2 DEF Step, CreateWorktree, RemoveWorktree, EnsureSession, RemoveSession, CheckSocket,
             UnlinkSocket, StartAgent, TypeLaunchLine, PressEnter, StopAgent, StartDaemon, StopDaemon,
             ClearDaemonMetadata, ReconcileOrphan, Integrate, CleanTempFiles, Kinds
      <3>2. cmd[c].op = "start" /\ ~cmd[c].failed
        BY <2>0, <2>1, <3>1, TurnTypes DEF Turned
      <3>3. alone[c]
        BY <2>1, <2>2 DEF Step
      <3>4. cmd[c].next \in AgentKinds \cup {"none"}
        BY <3>2, <3>3 DEF StartInv, Going
      <3>5. PICK k \in 1..(N + 1) : /\ cmd[c].todo = k..N /\ Started(k)
                                    /\ cmd[c].next # "none" => Between(k)
                                    /\ cmd[c].next = "press-enter" => AtPane(k)
        BY <3>2, <3>3 DEF StartInv, Going
      <3>6. k \in 1..N /\ k + 1 \in 1..(N + 1)
        BY <2>0, <2>2, <3>5, StepDoes
      <3>7. \/ cmd'[c].next = "none" /\ cmd'[c].todo = (k + 1)..N /\ Started(k + 1)'
            \/ /\ cmd'[c].next \in AgentKinds
               /\ cmd'[c].todo = k..N /\ Started(k)' /\ Between(k)'
               /\ cmd'[c].next = "press-enter" => AtPane(k)'
        BY <2>1, <2>2, <3>2, <3>4, <3>5, <3>6, StartGoesOn
      <3> QED
        BY <3>5, <3>6, <3>7
    <2>3. ASSUME NEW op \in Operations, Begun(c, op)
          PROVE  cmd'[c].next = "none" /\ cmd'[c].todo = 1..N /\ Started(1)'
      <3>1. cmd'[c].next = "none" /\ cmd'[c].todo = 1..N
        BY <2>1, <2>3, StartSteps DEF Begun
      <3>2. ~(L + 1 < 1) /\ \A i \in 1..L : ~(i < 1) /\ ~(L + 1 + i < 1)
        BY <2>0
      <3> QED
        BY <3>1, <3>2 DEF Started
    <2>4. CASE Undisturbed(c)
      <3>1. Going(c, "start")
        BY <2>1, <2>4 DEF Undisturbed, Going
      <3>2. PICK k \in 1..(N + 1) : /\ cmd[c].todo = k..N /\ Started(k)
                                    /\ cmd[c].next # "none" => Between(k)
                                    /\ cmd[c].next = "press-enter" => AtPane(k)
        BY <3>1 DEF StartInv
      <3>3. Started(k)'
        BY <2>0, <2>4, <3>2 DEF Undisturbed, Started, Bare
      <3>4. (Between(k) => Between(k)') /\ (AtPane(k) => AtPane(k)')
        BY <2>0, <2>4 DEF Undisturbed, Between, AtPane
      <3> QED
        BY <2>4, <3>1, <3>2, <3>3, <3>4 DEF Undisturbed, StartInv
    <2>5. 1 \in 1..(N + 1)
      BY <2>0
    <2> QED
      BY <2>1, <2>2, <2>3, <2>4, <2>5, StepsOf
  <1> QED
    BY <1>1, <1>2, TypeCorrect, PTL DEF Spec

\* A start that ends without an error, and that nothing interfered with, leaves every
\* role with a worktree and an agent that runs or is about to, and the daemon running,
\* whatever a crash or a failed command had left before it (Manager.Start).
THEOREM StartIsComplete == Spec => []StartDelivers
  <1>1. StartInv => StartDelivers
    <2> SUFFICES ASSUME StartInv, NEW c \in Commands, Clean(c, "start")
                 PROVE  /\ daemon = "running"
                        /\ \A r \in Roles : /\ registered[r] /\ tree[r] # "missing"
                                            /\ pane[r] \notin Bare
      BY DEF StartDelivers, Bare
    <2>0. N \in Nat /\ L \in Nat /\ N = 2 * L + 1
      BY OrderType DEF N
    <2>1. PICK k \in 1..(N + 1) : cmd[c].todo = k..N /\ Started(k)
      BY DEF StartInv, Clean, Going
    <2>2. k = N + 1
      <3>1. k..N = {}
        BY <2>1 DEF Clean
      <3>2. k <= N => k \in k..N
        BY <2>0
      <3> QED
        BY <2>0, <3>1, <3>2
    <2>3. L + 1 < k /\ \A i \in 1..L : i < k /\ L + 1 + i < k
      BY <2>0, <2>2
    <2>4. daemon = "running"
      BY <2>1, <2>3 DEF Started
    <2>5. \A i \in 1..L : /\ registered[RoleOrder[i]] /\ tree[RoleOrder[i]] # "missing"
                          /\ pane[RoleOrder[i]] \notin Bare
      BY <2>1, <2>3 DEF Started
    <2>6. ASSUME NEW r \in Roles
          PROVE  registered[r] /\ tree[r] # "missing" /\ pane[r] \notin Bare
      <3>1. PICK i \in 1..L : RoleOrder[i] = r
        BY OrderType
      <3> QED
        BY <2>5, <3>1
    <2> QED
      BY <2>4, <2>6
  <1> QED
    BY <1>1, StartHolds, PTL

-----------------------------------------------------------------------------
(* What brings the swarm up takes nothing down.                            *)

LEMMA FirstIn ==
    ASSUME NEW S \in SUBSET Nat, S # {}
    PROVE  First(S) \in S
  <1>1. PICK n \in S : \A m \in S : <<m, n>> \notin OpToRel(<, Nat)
    BY WFMin, NatLessThanWellFounded, Zenon
  <1>2. \A m \in S : ~(m < n)
    BY <1>1, Zenon DEF OpToRel
  <1>3. \A m \in S : n <= m
    BY <1>2
  <1> QED
    BY <1>3 DEF First

LEMMA Row ==
    ASSUME NEW m \in Nat, NEW n \in 1..(10 * m)
    PROVE  ((n - 1) \div m) + 1 \in 1..10
  <1> DEFINE q == (n - 1) \div m
  <1>1. m \in Nat \ {0} /\ n - 1 \in Nat
    OBVIOUS
  <1>2. q \in Int /\ m * q <= n - 1 /\ n - 1 < m * (q + 1)
    BY <1>1
  <1> HIDE DEF q
  <1>3. q >= 0
    <2>1. ASSUME q < 0 PROVE FALSE
      <3>1. q + 1 <= 0
        BY <1>2, <2>1
      <3>2. m * (q + 1) <= 0
        BY <1>1, <1>2, <3>1
      <3> QED
        BY <1>1, <1>2, <3>2
    <2> QED
      BY <1>2, <2>1
  <1>4. q <= 9
    <2>1. ASSUME q >= 10 PROVE FALSE
      <3>1. m * 10 <= m * q
        BY <1>1, <1>2, <2>1
      <3> QED
        BY <1>1, <1>2, <3>1
    <2> QED
      BY <1>2, <2>1
  <1> QED
    BY <1>2, <1>3, <1>4 DEF q

BuildKinds == {"create-worktree", "create-session", "create-bare-session", "start-agent", "start-daemon"}
PlanKinds ==
    {"clear-daemon-metadata", "remove-stale-socket", "prune-worktrees", "create-worktree",
     "start-daemon", "create-session", "start-agent", "reconcile-orphan", "integrate",
     "clean-temp-files"}

\* What a repair may do, and why it does it.
LEMMA RepairKinds ==
    ASSUME NEW n \in DOMAIN RepairSteps
    PROVE  /\ RepairSteps[n].kind \in PlanKinds
           /\ RepairSteps[n].kind = "remove-stale-socket" => CauseOf(n) = "TMUX_SOCKET_STALE"
           /\ RepairSteps[n].kind = "create-session" => CauseOf(n) = "SESSION_MISSING"
  <1> DEFINE m == Len(Components)
             i == ((n - 1) \div m) + 1
  <1>1. Components \in Seq(Roles \cup {"daemon", "tmux", "runtime"})
    <2> DEFINE T == Roles \cup {"daemon", "tmux", "runtime"}
    <2>1. RoleOrder \in Seq(T)
      BY OrderType, SeqDef
    <2>2. <<"daemon", "tmux", "runtime">> \in Seq(T)
      OBVIOUS
    <2> QED
      BY <2>1, <2>2, ConcatProperties, Zenon DEF Components
  <1>2. m \in Nat
    BY <1>1, LenProperties
  <1>3. Len(PlanOrder) = 10
    BY DEF PlanOrder
  <1>4. /\ n \in 1..(10 * m)
        /\ RepairSteps[n].kind = PlanOrder[i][1] /\ CauseOf(n) = PlanOrder[i][2]
    <2>1. DOMAIN RepairSteps = 1..(10 * m)
      BY <1>3 DEF RepairSteps
    <2>2. RepairSteps[n] = Act(PlanOrder[i][1], Components[((n - 1) % m) + 1])
      BY DEF RepairSteps
    <2> HIDE DEF i, m
    <2>3. RepairSteps[n].kind = PlanOrder[i][1]
      BY <2>2 DEF Act
    <2> QED
      BY <2>1, <2>3 DEF CauseOf, i, m
  <1> HIDE DEF m
  <1>5. i \in 1..10
    BY <1>2, <1>4, Row
  <1> HIDE DEF i
  <1>6. /\ PlanOrder[i][1] \in PlanKinds
        /\ PlanOrder[i][1] = "remove-stale-socket" => PlanOrder[i][2] = "TMUX_SOCKET_STALE"
        /\ PlanOrder[i][1] = "create-session" => PlanOrder[i][2] = "SESSION_MISSING"
    BY <1>5 DEF PlanOrder, PlanKinds
  <1> QED
    BY <1>4, <1>6

List(c) == Steps[cmd[c].op]

\* The steps of what brings the swarm up.
LEMMA BringsKinds ==
    ASSUME NEW c \in Commands, cmd[c].op \in BringsUp, NEW n \in DOMAIN List(c)
    PROVE  /\ cmd[c].op # "repair" => List(c)[n].kind \in BuildKinds
           /\ cmd[c].op = "repair" => List(c) = RepairSteps /\ List(c)[n].kind \in PlanKinds
  <1>1. CASE cmd[c].op = "start"
    <2>1. List(c) = StartList
      BY <1>1, ListOf DEF List
    <2>2. DOMAIN StartList = 1..N
      BY StartSteps DEF StartList
    <2>3. (\E i \in 1..L : n = i) \/ n = L + 1 \/ \E i \in 1..L : n = L + 1 + i
      <3>1. n \in 1..(2 * L + 1) /\ L \in Nat
        BY <2>1, <2>2, OrderType DEF N
      <3>2. CASE n <= L
        BY <3>1, <3>2
      <3>3. CASE L + 1 < n
        <4>1. n - (L + 1) \in 1..L /\ n = L + 1 + (n - (L + 1))
          BY <3>1, <3>3
        <4> QED
          BY <4>1
      <3> QED
        BY <3>1, <3>2, <3>3
    <2> QED
      BY <1>1, <2>1, <2>3, StartSteps DEF BuildKinds
  <1>2. CASE cmd[c].op \in {"worktrees-create", "sessions-create", "agents-start"}
    <2>1. PICK kind \in {"create-worktree", "create-bare-session", "start-agent"} : List(c) = Each(kind)
      BY <1>2 DEF List, Steps, Operations, Unlocked
    <2>2. n \in 1..L
      BY <2>1, OrderType DEF Each
    <2>3. List(c)[n].kind = kind
      BY <2>1, <2>2, OrderType DEF Each, Act
    <2> QED
      BY <1>2, <2>3 DEF BuildKinds
  <1>3. CASE cmd[c].op = "repair"
    <2>1. List(c) = RepairSteps
      BY <1>3 DEF List, Steps, Operations, Exclusive
    <2> QED
      BY <1>3, <2>1, RepairKinds
  <1> QED
    BY <1>1, <1>2, <1>3 DEF BringsUp

\* What doctor offers to repair, and what it saw.
Repairable(d) ==
    \/ d.code = "TMUX_SOCKET_STALE" /\ "tmux" \notin broken /\ socket /\ ~ServerAlive
    \/ d.code = "DAEMON_STALE_PID" /\ daemon = "stopped" /\ pidFile
    \/ d.code = "DAEMON_NOT_RUNNING" /\ daemon = "stopped" /\ ServerAlive
    \/ d.code = "RUNTIME_TEMP_FILES" /\ <<"temp", "runtime">> \in litter
    \/ \E r \in Roles :
         /\ d.component = r
         /\ \/ d.code = "WORKTREE_MISSING" /\ tree[r] = "missing" /\ ~registered[r]
            \/ d.code = "SESSION_MISSING" /\ ServerAlive /\ ~SessionLive(r)
            \/ d.code = "AGENT_MISSING" /\ AgentState(r) = "not-started"
            \/ d.code = "INTEGRATION_PENDING" /\ integration[r] = "pending"
            \/ d.code = "HANDOFF_ORPHAN_DELIVERY"

LEMMA Offered ==
    ASSUME NEW d \in Detect, d.repairable
    PROVE  "repository" \notin broken /\ Repairable(d)
  <1>1. d # Diagnosis("REPO_MISSING", "critical", "repository", FALSE)
    BY DEF Diagnosis
  <1>2. d \notin InspectEnvironment
    BY DEF InspectEnvironment, When, Diagnosis
  <1>3. d \in InspectTmux => Repairable(d)
    BY DEF InspectTmux, When, Diagnosis, Repairable
  <1>4. d \in InspectDaemon => Repairable(d)
    BY DEF InspectDaemon, When, Diagnosis, Repairable
  <1>5. d \in InspectShared => Repairable(d)
    BY DEF InspectShared, When, Diagnosis, Repairable
  <1>6. ASSUME NEW r \in Roles, d \in InspectWorktree(r) PROVE Repairable(d)
    <2>1. PICK x \in TreeReports :
            x[1] = tree[r] /\ d = Diagnosis(x[2], x[3], r, tree[r] = "missing" /\ ~registered[r])
      BY <1>6 DEF InspectWorktree
    <2>2. d.code = x[2] /\ d.component = r /\ (d.repairable <=> tree[r] = "missing" /\ ~registered[r])
      BY <2>1 DEF Diagnosis
    <2>3. x[1] = "missing" => x[2] = "WORKTREE_MISSING"
      BY DEF TreeReports
    <2> QED
      BY <2>1, <2>2, <2>3 DEF Repairable
  <1>7. ASSUME NEW r \in Roles, d \in InspectRuntime(r) PROVE Repairable(d)
    BY <1>7 DEF InspectRuntime, When, Diagnosis, Repairable
  <1>8. ASSUME NEW r \in Roles, d \in InspectWork(r) PROVE Repairable(d)
    BY <1>8 DEF InspectWork, When, Diagnosis, Repairable
  <1> QED
    BY <1>1, <1>2, <1>3, <1>4, <1>5, <1>6, <1>7, <1>8 DEF Detect

\* What a command that brings the swarm up knows as long as nothing interferes: the
\* pane it is about to type into shows no agent, the one it is about to enter the line
\* in has got the line, the socket it is about to remove has nothing behind it.
Knows(c) ==
    /\ cmd[c].todo \subseteq DOMAIN List(c)
    /\ cmd[c].next = "type-launch-line" => \A r \in Roles : r = Subject(c) => pane[r] # "agent"
    /\ cmd[c].next = "press-enter" =>
         \A r \in Roles : r = Subject(c) => pane[r] \notin {"none", "shell"}
    /\ cmd[c].next = "unlink-socket" => \A r \in Roles : pane[r] = "none"
    /\ cmd[c].op = "repair" /\ "tmux" \in broken
         => \A n \in cmd[c].todo : RepairSteps[n].kind # "remove-stale-socket"
KnowsInv == \A c \in Commands : alone[c] /\ cmd[c].op \in BringsUp => Knows(c)

Unharmed ==
    /\ daemon = "running" => daemon' = "running"
    /\ \A r \in Roles :
         /\ registered[r] => registered'[r] /\ tree'[r] = tree[r]
         /\ pane[r] # "none" => pane'[r] # "none"
         /\ pane[r] = "agent" => pane'[r] = "agent"

\* Such a command takes no step that takes something down.
LEMMA BringsOnly ==
    ASSUME TypeOK, NEW c \in Commands, cmd[c].op \in BringsUp, Knows(c), cmd[c].todo # {}
    PROVE  /\ ~Doing(c, "remove-worktree") /\ ~Doing(c, "remove-session")
           /\ ~Doing(c, "stop-agent") /\ ~Doing(c, "stop-daemon")
           /\ Doing(c, "remove-stale-socket") =>
                cmd[c].op = "repair" /\ "tmux" \notin broken
           /\ \A kind \in {"unlink-socket", "type-launch-line", "press-enter"} : Doing(c, kind) => cmd[c].next = kind
  <1>0. cmd[c].todo \in SUBSET Nat /\ cmd[c].next \in Kinds
    BY TypeParts DEF CmdType, Command
  <1> DEFINE n == First(cmd[c].todo)
  <1>1. n \in cmd[c].todo /\ n \in DOMAIN List(c)
    BY <1>0, FirstIn DEF Knows
  <1>2. Current(c) = List(c)[n]
    BY DEF Current, List
  <1> HIDE DEF n
  <1>3. /\ cmd[c].op # "repair" => Current(c).kind \in BuildKinds
        /\ cmd[c].op = "repair" => List(c) = RepairSteps /\ Current(c).kind \in PlanKinds
    BY <1>1, <1>2, BringsKinds
  <1>4. Current(c).kind \in BuildKinds \cup PlanKinds
    BY <1>3
  <1>5. ASSUME Doing(c, "remove-stale-socket") PROVE cmd[c].op = "repair" /\ "tmux" \notin broken
    <2>1. Current(c).kind = "remove-stale-socket"
      BY <1>0, <1>5 DEF Doing, Kinds
    <2>2. cmd[c].op = "repair"
      BY <1>3, <2>1 DEF BuildKinds
    <2>3. RepairSteps[n].kind = "remove-stale-socket"
      BY <1>2, <1>3, <2>1, <2>2
    <2> QED
      BY <1>1, <2>2, <2>3 DEF Knows
  <1>6. \A kind \in {"remove-worktree", "remove-session", "stop-agent", "stop-daemon"} : ~Doing(c, kind)
    BY <1>0, <1>4 DEF Doing, Kinds, BuildKinds, PlanKinds
  <1>7. \A kind \in {"unlink-socket", "type-launch-line", "press-enter"} : Doing(c, kind) => cmd[c].next = kind
    BY <1>0, <1>4 DEF Doing, Kinds, BuildKinds, PlanKinds
  <1> QED
    BY <1>5, <1>6, <1>7

LEMMA BringsNoHarm ==
    ASSUME TypeOK, NEW c \in Commands, cmd[c].op \in BringsUp, Knows(c), Step(c)
    PROVE  Unharmed
  <1>0. TreesType /\ PanesType
    BY TypeParts
  <1>1. /\ ~Doing(c, "remove-worktree") /\ ~Doing(c, "remove-session")
        /\ ~Doing(c, "stop-agent") /\ ~Doing(c, "stop-daemon")
    BY StepDoes, BringsOnly
  <1>2. CASE CreateWorktree(c)
    BY <1>0, <1>2 DEF CreateWorktree, TreesType, trees, panes, process, Unharmed
  <1>3. CASE EnsureSession(c)
    BY <1>0, <1>3 DEF EnsureSession, PanesType, trees, panes, process, Unharmed
  <1>4. CASE UnlinkSocket(c)
    <2>1. Doing(c, "unlink-socket")
      BY <1>4 DEF UnlinkSocket
    <2>2. cmd[c].next = "unlink-socket"
      BY <2>1, StepDoes, BringsOnly
    <2>3. \A r \in Roles : pane[r] = "none"
      BY <2>2 DEF Knows
    <2> QED
      BY <1>4, <2>3 DEF UnlinkSocket, trees, process, Unharmed
  <1>5. CASE TypeLaunchLine(c)
    <2>1. Doing(c, "type-launch-line")
      BY <1>5 DEF TypeLaunchLine
    <2>2. cmd[c].next = "type-launch-line"
      BY <2>1, StepDoes, BringsOnly
    <2>3. \A r \in Roles : r = Subject(c) => pane[r] # "agent"
      BY <2>2 DEF Knows
    <2> QED
      BY <1>0, <1>5, <2>3 DEF TypeLaunchLine, PanesType, trees, process, Unharmed
  <1>6. CASE PressEnter(c)
    BY <1>0, <1>6 DEF PressEnter, PanesType, trees, process, Unharmed
  <1>7. CASE StartDaemon(c)
    BY <1>7 DEF StartDaemon, trees, panes, process, Unharmed
  <1>8. CASE UNCHANGED <<trees, panes, daemon>>
    BY <1>8 DEF trees, panes, Unharmed
  <1> QED
    BY <1>1, <1>2, <1>3, <1>4, <1>5, <1>6, <1>7, <1>8
       DEF Step, RemoveWorktree, RemoveSession, CheckSocket, StartAgent, StopAgent, StopDaemon,
           ClearDaemonMetadata, ReconcileOrphan, Integrate, CleanTempFiles, trees, panes, process

\* Where a step leaves its command, and on what grounds.
LEMMA StepTurns ==
    ASSUME TypeOK, NEW c \in Commands, Step(c)
    PROVE  /\ cmd'[c].op = cmd[c].op /\ cmd'[c].todo \subseteq cmd[c].todo
           /\ broken' = broken
           /\ cmd'[c].next = "type-launch-line" =>
                /\ cmd'[c].todo = cmd[c].todo /\ pane' = pane
                /\ AgentState(Subject(c)) = "not-started"
           /\ cmd'[c].next = "press-enter" => cmd'[c].todo = cmd[c].todo /\ TypeLaunchLine(c)
           /\ cmd'[c].next = "unlink-socket" =>
                Doing(c, "remove-stale-socket") /\ pane' = pane /\ ~ServerAlive
  <1>0. CmdType
    BY TypeParts
  <1>1. broken' = broken
    BY DEF Step, CreateWorktree, RemoveWorktree, EnsureSession, RemoveSession, CheckSocket,
           UnlinkSocket, StartAgent, TypeLaunchLine, PressEnter, StopAgent, StartDaemon, StopDaemon,
           ClearDaemonMetadata, ReconcileOrphan, Integrate, CleanTempFiles
  <1>2. \/ Succeed(c) \/ Fail(c) \/ Continue(c, "start-agent")
        \/ /\ Continue(c, "type-launch-line") /\ pane' = pane
           /\ AgentState(Subject(c)) = "not-started"
        \/ Continue(c, "press-enter") /\ TypeLaunchLine(c)
        \/ /\ Continue(c, "unlink-socket") /\ pane' = pane
           /\ Doing(c, "remove-stale-socket") /\ ~ServerAlive
    BY DEF Step, CreateWorktree, RemoveWorktree, EnsureSession, RemoveSession, CheckSocket,
           UnlinkSocket, StartAgent, TypeLaunchLine, PressEnter, StopAgent, StartDaemon, StopDaemon,
           ClearDaemonMetadata, ReconcileOrphan, Integrate, CleanTempFiles, panes
  <1>3. CASE Succeed(c)
    BY <1>0, <1>1, <1>3, TurnTypes DEF Turned, Rest
  <1>4. CASE Fail(c)
    BY <1>0, <1>1, <1>4, TurnTypes DEF Turned
  <1>5. \A kind \in Kinds : Continue(c, kind) =>
            cmd'[c].op = cmd[c].op /\ cmd'[c].todo = cmd[c].todo /\ cmd'[c].next = kind
    BY <1>0 DEF Continue, CmdType, Command
  <1> QED
    BY <1>1, <1>2, <1>3, <1>4, <1>5 DEF Kinds

LEMMA SameCommand ==
    ASSUME NEW c \in Commands, cmd'[c].op = cmd[c].op
    PROVE  /\ List(c)' = List(c)
           /\ cmd'[c].todo = cmd[c].todo => Subject(c)' = Subject(c)
  <1>1. List(c)' = List(c)
    BY Zenon DEF List
  <1>2. Current(c) = List(c)[First(cmd[c].todo)] /\ Current(c)' = List(c)'[First(cmd'[c].todo)]
    BY DEF Current, List
  <1> QED
    BY <1>1, <1>2, Zenon DEF Subject

LEMMA KnowsHolds == Spec => []KnowsInv
  <1>1. Init => KnowsInv
    BY DEF Init, Idle, KnowsInv, BringsUp
  <1>2. TypeOK /\ KnowsInv /\ [Next]_vars => KnowsInv'
    <2> SUFFICES ASSUME TypeOK, KnowsInv, [Next]_vars, NEW c \in Commands,
                        alone'[c], cmd'[c].op \in BringsUp
                 PROVE  Knows(c)'
      BY DEF KnowsInv
    <2>0. CmdType /\ PanesType
      BY TypeParts
    <2>1. CASE Step(c)
      <3>1. /\ cmd'[c].op = cmd[c].op /\ cmd'[c].todo \subseteq cmd[c].todo /\ broken' = broken
        BY <2>1, StepTurns
      <3>2. Knows(c)
        BY <2>1, <3>1 DEF KnowsInv, Step
      <3>3. cmd'[c].todo \subseteq DOMAIN List(c)'
        BY <3>1, <3>2, SameCommand DEF Knows
      <3>4. ASSUME cmd'[c].next = "type-launch-line", NEW r \in Roles, r = Subject(c)'
            PROVE  pane'[r] # "agent"
        <4>1. r = Subject(c)
          BY <2>1, <3>1, <3>4, StepTurns, SameCommand
        <4>2. pane' = pane /\ AgentState(r) = "not-started"
          BY <2>1, <3>4, <4>1, StepTurns
        <4> QED
          BY <4>2 DEF AgentState
      <3>5. ASSUME cmd'[c].next = "press-enter", NEW r \in Roles, r = Subject(c)'
            PROVE  pane'[r] \notin {"none", "shell"}
        <4>1. r = Subject(c) /\ TypeLaunchLine(c) /\ ~Fail(c)
          <5>1. TypeLaunchLine(c) /\ cmd'[c].todo = cmd[c].todo
            BY <2>1, <3>5, StepTurns
          <5>2. r = Subject(c)
            BY <3>1, <3>5, <5>1, SameCommand
          <5>3. ~Fail(c)
            BY <2>0, <3>5, TurnTypes DEF Turned
          <5> QED
            BY <5>1, <5>2, <5>3
        <4> QED
          BY <2>0, <4>1 DEF TypeLaunchLine, PanesType
      <3>6. ASSUME cmd'[c].next = "unlink-socket", NEW r \in Roles PROVE pane'[r] = "none"
        <4>1. Doing(c, "remove-stale-socket") /\ pane' = pane /\ ~ServerAlive
          BY <2>1, <3>6, StepTurns
        <4>2. cmd[c].todo # {}
          BY <4>1 DEF Doing
        <4>3. "tmux" \notin broken
          BY <3>1, <3>2, <4>1, <4>2, BringsOnly
        <4> QED
          BY <4>1, <4>3 DEF ServerAlive
      <3>7. cmd'[c].op = "repair" /\ "tmux" \in broken'
              => \A n \in cmd'[c].todo : RepairSteps[n].kind # "remove-stale-socket"
        BY <3>1, <3>2 DEF Knows
      <3> QED
        BY <3>3, <3>4, <3>5, <3>6, <3>7 DEF Knows
    <2>2. ASSUME NEW op \in Operations, Begun(c, op) PROVE Knows(c)'
      <3>1. /\ cmd'[c].op = op /\ cmd'[c].next = "none" /\ broken' = broken
            /\ cmd'[c].todo = IF op = "repair" THEN PlanFrom(Detect) ELSE DOMAIN Steps[op]
        BY <2>2 DEF Begun
      <3>2. List(c)' = Steps[op]
        BY <3>1, Zenon DEF List
      <3>3. CASE op = "repair"
        <4>1. Steps[op] = RepairSteps
          BY <3>3 DEF Steps
        <4>2. cmd'[c].todo = PlanFrom(Detect) /\ PlanFrom(Detect) \subseteq DOMAIN RepairSteps
          BY <3>1, <3>3 DEF PlanFrom
        <4>3. ASSUME NEW n \in PlanFrom(Detect), "tmux" \in broken
              PROVE  RepairSteps[n].kind # "remove-stale-socket"
          <5>1. PICK d \in Detect : d.code = CauseOf(n) /\ d.repairable
            BY DEF PlanFrom, Reported
          <5>2. Repairable(d)
            BY <5>1, Offered
          <5>3. d.code # "TMUX_SOCKET_STALE"
            BY <4>3, <5>2 DEF Repairable
          <5>4. n \in DOMAIN RepairSteps
            BY DEF PlanFrom
          <5> QED
            BY <5>1, <5>3, <5>4, RepairKinds
        <4> QED
          BY <3>1, <3>2, <4>1, <4>2, <4>3 DEF Knows
      <3>4. CASE op # "repair"
        <4>1. cmd'[c].todo \subseteq DOMAIN List(c)'
          BY <3>1, <3>2, <3>4
        <4> QED
          BY <3>1, <3>4, <4>1 DEF Knows
      <3> QED
        BY <3>3, <3>4
    <2>3. CASE Undisturbed(c)
      <3>1. cmd'[c] = cmd[c] /\ broken' = broken /\ alone[c]
        BY <2>3 DEF Undisturbed
      <3>2. Knows(c)
        BY <3>1 DEF KnowsInv
      <3>3. List(c)' = List(c) /\ Subject(c)' = Subject(c)
        BY <3>1, SameCommand
      <3>4. ASSUME cmd'[c].next = "type-launch-line", NEW r \in Roles, r = Subject(c)'
            PROVE  pane'[r] # "agent"
        BY <2>3, <3>1, <3>2, <3>3, <3>4 DEF Undisturbed, Knows
      <3>5. ASSUME cmd'[c].next = "press-enter", NEW r \in Roles, r = Subject(c)'
            PROVE  pane'[r] \notin {"none", "shell"}
        BY <2>3, <3>1, <3>2, <3>3, <3>5 DEF Undisturbed, Knows
      <3>6. ASSUME cmd'[c].next = "unlink-socket", NEW r \in Roles PROVE pane'[r] = "none"
        BY <2>3, <3>1, <3>2, <3>6 DEF Undisturbed, Knows
      <3>7. /\ cmd'[c].todo \subseteq DOMAIN List(c)'
            /\ cmd'[c].op = "repair" /\ "tmux" \in broken'
                 => \A n \in cmd'[c].todo : RepairSteps[n].kind # "remove-stale-socket"
        BY <3>1, <3>2, <3>3 DEF Knows
      <3> QED
        BY <3>4, <3>5, <3>6, <3>7 DEF Knows
    <2>4. cmd'[c].op # "none"
      BY DEF BringsUp
    <2> QED
      BY <2>1, <2>2, <2>3, <2>4, StepsOf
  <1> QED
    BY <1>1, <1>2, TypeCorrect, PTL DEF Spec

\* While nothing interferes, a command that brings the swarm up takes nothing down and
\* types into no agent, however many terminals it shares the swarm with (Policy B of
\* Manager.Start, Executor.Execute).
THEOREM BringingUpIsGentle == Spec => NothingDisturbed
  <1>1. TypeOK /\ KnowsInv /\ [Next]_vars =>
          [\A c \in Commands :
             cmd'[c] # cmd[c] /\ cmd[c].op \in BringsUp /\ alone[c] /\ alone'[c] => Unharmed]_vars
    <2> SUFFICES ASSUME TypeOK, KnowsInv, [Next]_vars, NEW c \in Commands,
                        cmd'[c] # cmd[c], cmd[c].op \in BringsUp, alone[c], alone'[c]
                 PROVE  Unharmed
      OBVIOUS
    <2>0. CmdType
      BY TypeParts
    <2>1. Knows(c)
      BY DEF KnowsInv
    <2>2. CASE Step(c)
      BY <2>1, <2>2, BringsNoHarm
    <2>3. CASE \E d \in Commands : Invoke(d) \/ Finish(d)
      <3>1. PICK d \in Commands : Invoke(d) \/ Finish(d)
        BY <2>3
      <3>2. CASE d = c
        <4>1. Finish(c)
          BY <3>1, <3>2 DEF Invoke, Begin, Idle, BringsUp
        <4> QED
          BY <4>1 DEF Finish, Unharmed, trees, panes, process
      <3>3. CASE d # c
        BY <2>0, <3>1, <3>3 DEF Invoke, Begin, Finish, CmdType
      <3> QED
        BY <3>2, <3>3
    <2>4. CASE \E d \in Commands : Step(d) /\ d # c
      BY <2>4 DEF Step
    <2>5. CASE \E r \in Roles : Launches(r) \/ DaemonRetires(r)
      BY <2>5 DEF Launches, DaemonRetires
    <2>6. CASE Disturbance
      BY <2>6 DEF Disturbance
    <2>7. CASE UNCHANGED vars
      BY <2>7 DEF vars
    <2> QED
      BY <2>2, <2>3, <2>4, <2>5, <2>6, <2>7 DEF Next
  <1> QED
    BY <1>1, TypeCorrect, KnowsHolds, PTL DEF Spec, NothingDisturbed, Unharmed

-----------------------------------------------------------------------------
(* What a repair that nothing interferes with still has to do.             *)

\* The repairs that are left of a command, and those a report calls for.
Left(c) == {RepairSteps[n] : n \in cmd[c].todo}
Planned(report) == {RepairSteps[n] : n \in PlanFrom(report)}

\* Whatever is repairable is about to be repaired.
DaemonAwaits(c) ==
    /\ daemon = "stopped" /\ pidFile => Act("clear-daemon-metadata", "daemon") \in Left(c)
    /\ daemon = "stopped" /\ ServerAlive => Act("start-daemon", "daemon") \in Left(c)
TreesAwait(c) ==
    \A r \in Roles :
        tree[r] = "missing" /\ ~registered[r] => Act("create-worktree", r) \in Left(c)
PanesAwait(c) ==
    /\ "tmux" \notin broken /\ socket /\ ~ServerAlive => Act("remove-stale-socket", "tmux") \in Left(c)
    /\ \A r \in Roles :
         /\ ServerAlive /\ ~SessionLive(r) => Act("create-session", r) \in Left(c)
         /\ AgentState(r) = "not-started" =>
              \/ pane[r] = "typed"
              \/ Act("start-agent", r) \in Left(c) \/ Act("create-session", r) \in Left(c)
WorkAwaits(c) ==
    /\ <<"temp", "runtime">> \in litter => Act("clean-temp-files", "runtime") \in Left(c)
    /\ \A r \in Roles : integration[r] = "pending" => Act("integrate", r) \in Left(c)
Awaits(c) == DaemonAwaits(c) /\ TreesAwait(c) /\ PanesAwait(c) /\ WorkAwaits(c)

\* A session is only created next to others, and the second half of a step belongs to
\* the repair it is the second half of.
Proper(c) ==
    /\ \A a \in Left(c) : a.kind = "create-session" => ServerAlive
    /\ cmd[c].next = "unlink-socket" => Current(c).kind = "remove-stale-socket"
    /\ cmd[c].next = "start-agent" => Current(c).kind = "create-session"
    /\ cmd[c].next \in {"type-launch-line", "press-enter"}
         => Current(c).kind \in {"create-session", "start-agent"}

RepairInv ==
    \A c \in Commands :
        Going(c, "repair") /\ "repository" \notin broken => Awaits(c) /\ Proper(c)

LEMMA ComponentsType ==
    /\ Len(Components) = L + 3
    /\ \A r \in Roles : \E j \in 1..(L + 3) : Components[j] = r
    /\ Components[L + 1] = "daemon" /\ Components[L + 2] = "tmux" /\ Components[L + 3] = "runtime"
  <1> DEFINE T == Roles \cup {"daemon", "tmux", "runtime"}
             z == <<"daemon", "tmux", "runtime">>
  <1>1. RoleOrder \in Seq(T) /\ L \in Nat /\ Len(RoleOrder) = L
    BY OrderType, SeqDef DEF L
  <1>2. z \in Seq(T) /\ Len(z) = 3 /\ z[1] = "daemon" /\ z[2] = "tmux" /\ z[3] = "runtime"
    OBVIOUS
  <1>3. Components = Glue(RoleOrder, z)
    BY DEF Components, Glue
  <1> HIDE DEF T, z
  <1>4. 3 \in Nat /\ {1, 2, 3} \subseteq 1..3
    OBVIOUS
  <1>5. Follows(Glue(RoleOrder, z), RoleOrder, z, L, 3, T)
    BY <1>1, <1>2, <1>4, Joined
  <1>6. /\ Len(Components) = L + 3
        /\ \A i \in 1..L : Components[i] = RoleOrder[i]
        /\ \A i \in 1..3 : Components[L + i] = z[i]
    BY <1>3, <1>5 DEF Follows
  <1>7. \A r \in Roles : \E j \in 1..(L + 3) : Components[j] = r
    <2>1. \A i \in 1..L : i \in 1..(L + 3)
      BY <1>1
    <2> QED
      BY <1>6, <2>1, OrderType
  <1> QED
    BY <1>2, <1>4, <1>6, <1>7

\* Place n of a list of ten rows of length m is place j of row i.
IsCell(n, m, i, j) ==
    n \in 1..(10 * m) /\ ((n - 1) \div m) + 1 = i /\ ((n - 1) % m) + 1 = j

\* The repair of kind i of component j has its place in the list.
LEMMA Cell ==
    ASSUME NEW m \in Nat, NEW i \in 1..10, NEW j \in 1..m
    PROVE  IsCell((i - 1) * m + j, m, i, j)
  <1> DEFINE x == (i - 1) * m + (j - 1)
             q == x \div m
             e == x % m
  <1>1. /\ m \in Nat \ {0} /\ x \in Int /\ (i - 1) * m >= 0 /\ (i - 1) * m <= 9 * m
        /\ (i - 1) * m + j - 1 = x
    OBVIOUS
  <1>2. q \in Int /\ e \in 0..(m - 1) /\ x = m * q + e
    BY <1>1
  <1>3. (i - 1) * m + j \in 1..(10 * m)
    BY <1>1
  <1> HIDE DEF q, e
  <1>4. m * (i - 1 - q) = e - (j - 1)
    BY <1>1, <1>2
  <1> HIDE DEF x
  <1>5. i - 1 = q
    <2> DEFINE d == i - 1 - q
    <2>1. d \in Int /\ m * d < m /\ -m < m * d
      BY <1>1, <1>2, <1>4
    <2> HIDE DEF d
    <2>2. d < 1 /\ -1 < d
      <3>1. ASSUME d >= 1 PROVE FALSE
        BY <1>1, <2>1, <3>1
      <3>2. ASSUME d <= -1 PROVE FALSE
        BY <1>1, <2>1, <3>2
      <3> QED
        BY <2>1, <3>1, <3>2
    <2>3. d = 0
      BY <2>1, <2>2
    <2> QED
      BY <1>2, <2>3 DEF d
  <1>6. j - 1 = e
    <2>1. m * 0 = 0 /\ i - 1 - q = 0
      BY <1>1, <1>2, <1>5
    <2> QED
      BY <1>2, <1>4, <2>1
  <1>7. (((i - 1) * m + j) - 1) \div m = q /\ (((i - 1) * m + j) - 1) % m = e
    BY <1>1 DEF q, e
  <1> QED
    BY <1>2, <1>3, <1>5, <1>6, <1>7 DEF IsCell

\* What is reported with a code that kind i answers is planned.
LEMMA PlanCovers ==
    ASSUME NEW report, NEW i \in 1..10, NEW j \in 1..(L + 3),
           Reported(report, PlanOrder[i][2], Components[j]),
           PlanOrder[i][1] = "start-agent" => ~Reported(report, "SESSION_MISSING", Components[j])
    PROVE  Act(PlanOrder[i][1], Components[j]) \in Planned(report)
  <1> DEFINE m == L + 3
  <1>0. Len(PlanOrder) = 10
    BY DEF PlanOrder
  <1>1. m \in Nat /\ Len(Components) = m /\ j \in 1..m
    BY OrderType, ComponentsType
  <1> HIDE DEF m
  <1>2. PICK n : IsCell(n, m, i, j)
    BY <1>1, Cell
  <1>3. n \in DOMAIN RepairSteps /\ RepairSteps[n] = Act(PlanOrder[i][1], Components[j])
    BY <1>0, <1>1, <1>2 DEF RepairSteps, IsCell
  <1>4. CauseOf(n) = PlanOrder[i][2]
    BY <1>1, <1>2 DEF CauseOf, IsCell
  <1>5. RepairSteps[n].kind = PlanOrder[i][1] /\ RepairSteps[n].component = Components[j]
    BY <1>3 DEF Act
  <1>6. n \in PlanFrom(report)
    BY <1>3, <1>4, <1>5 DEF PlanFrom
  <1> QED
    BY <1>3, <1>6 DEF Planned

LEMMA SamePanes ==
    ASSUME UNCHANGED <<pane, broken>>
    PROVE  /\ ServerAlive' <=> ServerAlive
           /\ \A r \in Roles : /\ SessionLive(r)' <=> SessionLive(r)
                               /\ AgentState(r)' = AgentState(r)
  <1>1. ServerAlive' <=> ServerAlive
    BY DEF ServerAlive
  <1>2. \A r \in Roles : SessionLive(r)' <=> SessionLive(r)
    BY <1>1 DEF SessionLive
  <1>3. \A r \in Roles : AgentState(r)' = AgentState(r)
    BY <1>2 DEF AgentState
  <1> QED
    BY <1>1, <1>2, <1>3

\* Only the repair at hand leaves the list.
Kept(c) == \A a \in Left(c) : a # Current(c) => a \in Left(c)'

\* What one part of the swarm awaits is not lost by a repair of another part.
LEMMA DaemonStays ==
    ASSUME NEW c \in Commands, Kept(c), DaemonAwaits(c),
           \/ daemon' = "running"
           \/ /\ UNCHANGED <<daemon, pidFile>> /\ (ServerAlive' <=> ServerAlive)
              /\ \/ Current(c).kind \notin {"clear-daemon-metadata", "start-daemon"}
                 \/ Left(c)' = Left(c)
    PROVE  DaemonAwaits(c)'
  BY DEF Kept, DaemonAwaits, Act

LEMMA TreesStay ==
    ASSUME NEW c \in Commands, Kept(c), TreesAwait(c), UNCHANGED trees,
           Current(c).kind # "create-worktree" \/ Left(c)' = Left(c)
    PROVE  TreesAwait(c)'
  BY DEF Kept, TreesAwait, Act, trees

LEMMA PanesStay ==
    ASSUME NEW c \in Commands, Kept(c), PanesAwait(c), UNCHANGED <<panes, broken>>,
           \/ Current(c).kind \notin {"remove-stale-socket", "create-session", "start-agent"}
           \/ Left(c)' = Left(c)
    PROVE  PanesAwait(c)'
  <1>1. UNCHANGED <<pane, socket, broken>>
    BY DEF panes
  <1>2. /\ ServerAlive' <=> ServerAlive
        /\ \A r \in Roles : (SessionLive(r)' <=> SessionLive(r)) /\ AgentState(r)' = AgentState(r)
    BY <1>1, SamePanes
  <1> QED
    BY <1>1, <1>2 DEF Kept, PanesAwait, Act

LEMMA WorkStays ==
    ASSUME NEW c \in Commands, Kept(c), WorkAwaits(c), UNCHANGED <<integration, litter>>,
           Current(c).kind \notin {"integrate", "clean-temp-files"} \/ Left(c)' = Left(c)
    PROVE  WorkAwaits(c)'
  BY DEF Kept, WorkAwaits, Act

\* How a step that does not fail changes the list of its repair.
LEMMA RepairTurns ==
    ASSUME TypeOK, NEW c \in Commands, cmd[c].op = "repair", Knows(c), Step(c), ~cmd'[c].failed
    PROVE  /\ ~Fail(c) /\ Kept(c) /\ Left(c)' \subseteq Left(c) /\ Current(c) \in Left(c)
           /\ Current(c).kind \in PlanKinds /\ Current(c) = Act(Current(c).kind, Subject(c))
           /\ cmd'[c].op = cmd[c].op
           /\ Succeed(c) => cmd'[c].next = "none"
           /\ \A kind \in Kinds : Continue(c, kind) =>
                cmd'[c].next = kind /\ Left(c)' = Left(c) /\ Current(c)' = Current(c)
  <1>0. CmdType /\ cmd[c] \in Command
    BY TypeParts DEF CmdType
  <1> DEFINE n == First(cmd[c].todo)
  <1>1. n \in cmd[c].todo
    BY <1>0, StepDoes, FirstIn DEF Command
  <1>2. List(c) = RepairSteps
    BY DEF List, Steps, Operations, Exclusive
  <1>3. Current(c) = RepairSteps[n] /\ n \in DOMAIN RepairSteps
    BY <1>1, <1>2 DEF Current, List, Knows
  <1> HIDE DEF n
  <1>4. Current(c) \in Left(c) /\ Current(c).kind \in PlanKinds
    BY <1>1, <1>3, RepairKinds DEF Left
  <1>5. Current(c) = Act(Current(c).kind, Subject(c))
    <2>1. \E kind, component : RepairSteps[n] = Act(kind, component)
      BY <1>3 DEF RepairSteps
    <2> QED
      BY <1>3, <2>1 DEF Act, Subject
  <1>6. ~Fail(c)
    BY <1>0, TurnTypes DEF Turned
  <1>7. Succeed(c) \/ \E kind \in Kinds : Continue(c, kind)
    BY <1>6 DEF Step, CreateWorktree, RemoveWorktree, EnsureSession, RemoveSession, CheckSocket,
           UnlinkSocket, StartAgent, TypeLaunchLine, PressEnter, StopAgent, StartDaemon, StopDaemon,
           ClearDaemonMetadata, ReconcileOrphan, Integrate, CleanTempFiles, Kinds
  <1>8. ASSUME Succeed(c)
        PROVE  /\ Kept(c) /\ Left(c)' \subseteq Left(c) /\ cmd'[c].op = cmd[c].op
               /\ cmd'[c].next = "none"
    <2>1. cmd'[c].todo = cmd[c].todo \ {n} /\ cmd'[c].next = "none" /\ cmd'[c].op = cmd[c].op
      BY <1>0, <1>8, TurnTypes DEF Turned, Rest, n
    <2> QED
      BY <1>3, <2>1 DEF Kept, Left
  <1>9. ASSUME NEW kind \in Kinds, Continue(c, kind)
        PROVE  /\ Kept(c) /\ Left(c)' = Left(c) /\ cmd'[c].op = cmd[c].op
               /\ cmd'[c].next = kind /\ Current(c)' = Current(c)
    <2>1. cmd'[c].todo = cmd[c].todo /\ cmd'[c].next = kind /\ cmd'[c].op = cmd[c].op
      BY <1>0, <1>9, TurnTypes DEF Turned
    <2>2. Left(c)' = Left(c)
      BY <2>1 DEF Left
    <2>3. Current(c)' = Current(c)
      BY <2>1, Zenon DEF Current
    <2> QED
      BY <2>1, <2>2, <2>3 DEF Kept
  <1> QED
    BY <1>4, <1>5, <1>6, <1>7, <1>8, <1>9

\* A repair that makes a step has taken care of what it took off its list.
LEMMA RepairGoesOn ==
    ASSUME TypeOK, NEW c \in Commands, cmd[c].op = "repair", Knows(c), Awaits(c), Proper(c),
           Step(c), ~cmd'[c].failed
    PROVE  Awaits(c)' /\ Proper(c)'
  <1>0. TreesType /\ PanesType /\ ProcessType /\ WorkType /\ cmd[c].next \in Kinds
    BY TypeParts DEF CmdType, Command
  <1>1. /\ ~Fail(c) /\ Kept(c) /\ Left(c)' \subseteq Left(c) /\ Current(c) \in Left(c)
        /\ Current(c).kind \in PlanKinds /\ Current(c) = Act(Current(c).kind, Subject(c))
    BY RepairTurns
  <1>2. /\ Succeed(c) => cmd'[c].next = "none"
        /\ \A kind \in Kinds : Continue(c, kind) =>
             cmd'[c].next = kind /\ Left(c)' = Left(c) /\ Current(c)' = Current(c)
    BY RepairTurns
  <1>3. DaemonAwaits(c) /\ TreesAwait(c) /\ PanesAwait(c) /\ WorkAwaits(c)
    BY DEF Awaits
  <1>4. broken' = broken
    BY StepTurns
  <1>5. UNCHANGED <<pane, broken>> =>
          (ServerAlive' <=> ServerAlive) /\ \A r \in Roles : AgentState(r)' = AgentState(r)
    BY SamePanes
  \* What the step is about, in the first half of a repair and in the second.
  <1>6. \A kind \in PlanKinds \ {"start-agent"} : Doing(c, kind) => Current(c).kind = kind
    BY <1>0 DEF Doing, Kinds, PlanKinds
  <1>7. /\ Doing(c, "unlink-socket") => Current(c).kind = "remove-stale-socket"
        /\ Doing(c, "start-agent") \/ Doing(c, "type-launch-line") \/ Doing(c, "press-enter") =>
             Current(c).kind \in {"create-session", "start-agent"}
    BY <1>1 DEF Doing, Proper, PlanKinds
  <1>8. ServerAlive => ServerAlive'
    <2>1. Unharmed
      BY BringsNoHarm DEF BringsUp
    <2> QED
      BY <1>4, <2>1 DEF Unharmed, ServerAlive
  <1>9. ASSUME Succeed(c) PROVE Proper(c)'
    BY <1>1, <1>2, <1>8, <1>9 DEF Proper
  <1>10. ASSUME NEW kind \in {"start-agent", "type-launch-line", "press-enter", "unlink-socket"},
                Continue(c, kind),
                kind = "unlink-socket" => Current(c).kind = "remove-stale-socket",
                kind = "start-agent" => Current(c).kind = "create-session",
                kind \in {"type-launch-line", "press-enter"} =>
                    Current(c).kind \in {"create-session", "start-agent"}
         PROVE  Proper(c)'
    <2>1. cmd'[c].next = kind /\ Left(c)' = Left(c) /\ Current(c)' = Current(c)
      BY <1>2, <1>10 DEF Kinds
    <2> QED
      BY <1>8, <1>10, <2>1 DEF Proper
  <1>11. CASE CreateWorktree(c)
    <2>1. Current(c).kind = "create-worktree"
      BY <1>6, <1>11 DEF CreateWorktree, PlanKinds
    <2>2. /\ Succeed(c) /\ UNCHANGED <<panes, process, work>>
          /\ \A r \in Roles :
               IF r = Subject(c) THEN registered'[r]
               ELSE tree'[r] = tree[r] /\ registered'[r] = registered[r]
      BY <1>0, <1>1, <1>11 DEF CreateWorktree, TreesType, trees
    <2>3. TreesAwait(c)'
      <3>1. ASSUME NEW r \in Roles, r # Subject(c) PROVE Act("create-worktree", r) # Current(c)
        BY <3>1 DEF Act, Subject
      <3> QED
        BY <1>1, <1>3, <2>2, <3>1 DEF TreesAwait, Kept
    <2>4. DaemonAwaits(c)' /\ PanesAwait(c)' /\ WorkAwaits(c)'
      BY <1>1, <1>3, <1>4, <1>5, <2>1, <2>2, DaemonStays, PanesStay, WorkStays DEF panes, process, work
    <2> QED
      BY <1>9, <2>2, <2>3, <2>4 DEF Awaits
  <1>12. CASE EnsureSession(c)
    <2>1. Current(c).kind = "create-session"
      BY <1>0, <1>1, <1>12 DEF EnsureSession, PlanKinds, Doing, Kinds
    <2>2. ServerAlive
      BY <1>1, <2>1 DEF Proper
    <2>3. /\ Continue(c, "start-agent") /\ UNCHANGED <<trees, process, work>>
          /\ \A r \in Roles :
               r # Subject(c) => pane'[r] = pane[r]
      BY <1>0, <1>1, <1>12, <2>1 DEF EnsureSession, PanesType, panes
    <2>4. Left(c)' = Left(c)
      BY <1>2, <2>3 DEF Kinds
    <2>5. PanesAwait(c)'
      <3>1. \A r \in Roles : r # Subject(c) =>
              /\ SessionLive(r)' <=> SessionLive(r)
              /\ AgentState(r)' = AgentState(r)
        BY <1>4, <1>8, <2>2, <2>3 DEF SessionLive, AgentState
      <3>2. ASSUME NEW r \in Roles, r = Subject(c) PROVE Act("create-session", r) \in Left(c)
        <4>1. Current(c) = Act("create-session", r)
          BY <1>1, <2>1, <3>2 DEF Act
        <4> QED
          BY <1>1, <4>1
      <3> QED
        BY <1>3, <1>8, <2>2, <2>3, <2>4, <3>1, <3>2 DEF PanesAwait
    <2>6. DaemonAwaits(c)' /\ TreesAwait(c)' /\ WorkAwaits(c)'
      BY <1>1, <1>3, <1>8, <2>2, <2>3, <2>4, DaemonStays, TreesStay, WorkStays DEF process, work
    <2> QED
      BY <1>10, <2>1, <2>3, <2>5, <2>6 DEF Awaits
  <1>13. CASE CheckSocket(c)
    <2>1. Current(c).kind = "remove-stale-socket"
      BY <1>6, <1>13 DEF CheckSocket, PlanKinds
    <2>2. Continue(c, "unlink-socket") /\ UNCHANGED <<trees, panes, process, work>>
      BY <1>1, <1>13 DEF CheckSocket
    <2>3. Left(c)' = Left(c)
      BY <1>2, <2>2 DEF Kinds
    <2>4. Awaits(c)'
      BY <1>1, <1>3, <1>4, <1>5, <2>2, <2>3, DaemonStays, TreesStay, PanesStay, WorkStays
         DEF Awaits, process, panes, work
    <2> QED
      BY <1>10, <2>1, <2>2, <2>4
  <1>14. CASE UnlinkSocket(c)
    <2>1. Doing(c, "unlink-socket")
      BY <1>14 DEF UnlinkSocket
    <2>2. Current(c).kind = "remove-stale-socket" /\ cmd[c].next = "unlink-socket"
      BY <1>7, <2>1, StepDoes, BringsOnly DEF BringsUp
    <2>3. /\ Succeed(c) /\ socket' = FALSE /\ pane' = pane
          /\ UNCHANGED <<trees, process, work>>
      BY <1>0, <1>14, <2>2 DEF UnlinkSocket, Knows, PanesType
    <2>4. PanesAwait(c)'
      <3>1. \A r \in Roles : /\ Act("start-agent", r) # Current(c)
                             /\ Act("create-session", r) # Current(c)
        BY <2>2 DEF Act
      <3>2. ServerAlive' <=> ServerAlive
        BY <1>4, <1>5, <2>3
      <3>3. \A r \in Roles : (SessionLive(r)' <=> SessionLive(r)) /\ AgentState(r)' = AgentState(r)
        BY <1>4, <2>3, SamePanes
      <3> QED
        BY <1>1, <1>3, <2>3, <3>1, <3>2, <3>3 DEF PanesAwait, Kept
    <2>5. DaemonAwaits(c)' /\ TreesAwait(c)' /\ WorkAwaits(c)'
      BY <1>1, <1>3, <1>4, <1>5, <2>2, <2>3, DaemonStays, TreesStay, WorkStays DEF process, work
    <2> QED
      BY <1>9, <2>3, <2>4, <2>5 DEF Awaits
  <1>15. CASE StartAgent(c)
    <2>1. Current(c).kind \in {"create-session", "start-agent"}
      BY <1>7, <1>15 DEF StartAgent
    <2>2. UNCHANGED <<trees, panes, process, work>>
      BY <1>15 DEF StartAgent
    <2>3. DaemonAwaits(c)' /\ TreesAwait(c)' /\ WorkAwaits(c)'
      BY <1>1, <1>3, <1>4, <1>5, <2>1, <2>2, DaemonStays, TreesStay, WorkStays DEF panes, process, work
    <2>4. CASE Continue(c, "type-launch-line")
      <3>1. Left(c)' = Left(c)
        BY <1>2, <2>4 DEF Kinds
      <3> QED
        BY <1>1, <1>3, <1>4, <1>10, <2>1, <2>2, <2>3, <2>4, <3>1, PanesStay DEF Awaits
    <2>5. CASE Succeed(c) /\ AgentState(Subject(c)) = "running"
      <3>1. UNCHANGED <<pane, socket>>
        BY <2>2 DEF panes
      <3>2. SessionLive(Subject(c)) /\ AgentState(Subject(c)) # "not-started"
        BY <2>5 DEF AgentState
      <3>3. \A r \in Roles : r # Subject(c) =>
              Act("start-agent", r) # Current(c) /\ Act("create-session", r) # Current(c)
        BY DEF Act, Subject
      <3>4. Act("remove-stale-socket", "tmux") # Current(c)
        BY <2>1 DEF Act
      <3>5. \A r \in Roles : (SessionLive(r)' <=> SessionLive(r)) /\ AgentState(r)' = AgentState(r)
        BY <1>4, <3>1, SamePanes
      <3>6. ServerAlive' <=> ServerAlive
        BY <1>4, <1>5, <3>1
      <3>7. PanesAwait(c)'
        BY <1>1, <1>3, <1>4, <3>1, <3>2, <3>3, <3>4, <3>5, <3>6 DEF PanesAwait, Kept
      <3> QED
        BY <1>9, <2>3, <2>5, <3>7 DEF Awaits
    <2> QED
      BY <1>1, <1>15, <2>4, <2>5 DEF StartAgent
  <1>16. CASE TypeLaunchLine(c)
    <2>1. Current(c).kind \in {"create-session", "start-agent"}
      BY <1>7, <1>16 DEF TypeLaunchLine
    <2>2. /\ Continue(c, "press-enter") /\ SessionLive(Subject(c))
          /\ UNCHANGED <<trees, socket, process, work>>
          /\ \A r \in Roles : r # Subject(c) => pane'[r] = pane[r]
      BY <1>0, <1>1, <1>16 DEF TypeLaunchLine, PanesType
    <2>3. ServerAlive /\ ServerAlive'
      BY <1>8, <2>2 DEF SessionLive
    <2>4. Left(c)' = Left(c)
      BY <1>2, <2>2 DEF Kinds
    <2>5. \A r \in Roles : r # Subject(c) =>
            (SessionLive(r)' <=> SessionLive(r)) /\ AgentState(r)' = AgentState(r)
      BY <1>4, <2>2, <2>3 DEF SessionLive, AgentState
    <2>6. \A r \in Roles : r = Subject(c) =>
            /\ SessionLive(r)'
            /\ Act("start-agent", r) \in Left(c) \/ Act("create-session", r) \in Left(c)
      <3> SUFFICES ASSUME NEW r \in Roles, r = Subject(c)
                   PROVE  /\ SessionLive(r)'
                          /\ Act("start-agent", r) \in Left(c) \/ Act("create-session", r) \in Left(c)
        OBVIOUS
      <3>1. pane'[r] # "none"
        BY <1>0, <1>1, <1>16 DEF TypeLaunchLine, PanesType
      <3>2. Current(c) = Act("start-agent", r) \/ Current(c) = Act("create-session", r)
        BY <1>1, <2>1 DEF Act
      <3> QED
        BY <1>1, <2>3, <3>1, <3>2 DEF SessionLive
    <2>7. PanesAwait(c)'
      BY <1>1, <1>3, <2>2, <2>3, <2>4, <2>5, <2>6 DEF PanesAwait
    <2>8. DaemonAwaits(c)' /\ TreesAwait(c)' /\ WorkAwaits(c)'
      BY <1>1, <1>3, <2>1, <2>2, <2>3, DaemonStays, TreesStay, WorkStays DEF process, work
    <2> QED
      BY <1>10, <2>1, <2>2, <2>7, <2>8 DEF Awaits
  <1>17. CASE PressEnter(c)
    <2>1. Current(c).kind \in {"create-session", "start-agent"}
      BY <1>7, <1>17 DEF PressEnter
    <2>2. /\ Succeed(c) /\ SessionLive(Subject(c)) /\ UNCHANGED <<trees, socket, process, work>>
          /\ \A r \in Roles : IF r = Subject(c) THEN pane'[r] \notin Bare ELSE pane'[r] = pane[r]
      <3>1. cmd[c].next = "press-enter"
        BY <1>17, StepDoes, BringsOnly DEF PressEnter, BringsUp
      <3>2. \A r \in Roles : r = Subject(c) => pane[r] \notin {"none", "shell"}
        BY <3>1 DEF Knows
      <3> QED
        BY <1>0, <1>1, <1>17, <3>2 DEF PressEnter, PanesType, Bare
    <2>3. ServerAlive /\ ServerAlive'
      BY <1>8, <2>2 DEF SessionLive
    <2>4. \A r \in Roles : r # Subject(c) =>
            /\ Act("start-agent", r) # Current(c) /\ Act("create-session", r) # Current(c)
            /\ SessionLive(r)' <=> SessionLive(r)
            /\ AgentState(r)' = AgentState(r)
      BY <1>4, <2>2, <2>3 DEF Act, Subject, SessionLive, AgentState
    <2>5. \A r \in Roles : r = Subject(c) =>
            SessionLive(r)' /\ (AgentState(r)' = "not-started" => pane'[r] = "typed")
      BY <2>2, <2>3 DEF SessionLive, AgentState, Bare
    <2>6. PanesAwait(c)'
      BY <1>1, <1>3, <2>2, <2>3, <2>4, <2>5 DEF PanesAwait, Kept
    <2>7. DaemonAwaits(c)' /\ TreesAwait(c)' /\ WorkAwaits(c)'
      BY <1>1, <1>3, <2>1, <2>2, <2>3, DaemonStays, TreesStay, WorkStays DEF process, work
    <2> QED
      BY <1>9, <2>2, <2>6, <2>7 DEF Awaits
  <1>18. CASE StartDaemon(c)
    <2>1. Current(c).kind = "start-daemon"
      BY <1>6, <1>18 DEF StartDaemon, PlanKinds
    <2>2. Succeed(c) /\ daemon' = "running" /\ UNCHANGED <<trees, panes, work>>
      BY <1>0, <1>1, <1>18 DEF StartDaemon, ProcessType, process
    <2>3. Awaits(c)'
      BY <1>1, <1>3, <1>4, <2>1, <2>2, DaemonStays, TreesStay, PanesStay, WorkStays DEF Awaits, work
    <2> QED
      BY <1>9, <2>2, <2>3
  <1>19. CASE ClearDaemonMetadata(c)
    <2>1. Current(c).kind = "clear-daemon-metadata"
      BY <1>6, <1>19 DEF ClearDaemonMetadata, PlanKinds
    <2>2. /\ Succeed(c) /\ UNCHANGED <<trees, panes, daemon, work>>
          /\ daemon = "stopped" => ~pidFile'
      BY <1>19 DEF ClearDaemonMetadata
    <2>3. ServerAlive' <=> ServerAlive
      BY <1>4, <1>5, <2>2 DEF panes
    <2>4. DaemonAwaits(c)'
      BY <1>1, <1>3, <2>1, <2>2, <2>3 DEF DaemonAwaits, Kept, Act
    <2>5. TreesAwait(c)' /\ PanesAwait(c)' /\ WorkAwaits(c)'
      BY <1>1, <1>3, <1>4, <2>1, <2>2, TreesStay, PanesStay, WorkStays DEF work
    <2> QED
      BY <1>9, <2>2, <2>4, <2>5 DEF Awaits
  <1>20. CASE ReconcileOrphan(c)
    <2>1. Current(c).kind = "reconcile-orphan"
      BY <1>6, <1>20 DEF ReconcileOrphan, PlanKinds
    <2>2. Succeed(c) /\ UNCHANGED <<trees, panes, process, integration, litter>>
      BY <1>20 DEF ReconcileOrphan
    <2>3. Awaits(c)'
      BY <1>1, <1>3, <1>4, <1>5, <2>1, <2>2, DaemonStays, TreesStay, PanesStay, WorkStays
         DEF Awaits, panes, process
    <2> QED
      BY <1>9, <2>2, <2>3
  <1>21. CASE Integrate(c)
    <2>1. Current(c).kind = "integrate"
      BY <1>6, <1>21 DEF Integrate, PlanKinds
    <2>2. /\ Succeed(c) /\ UNCHANGED <<trees, panes, process, litter>>
          /\ \A r \in Roles : IF r = Subject(c) THEN integration'[r] # "pending"
                              ELSE integration'[r] = integration[r]
      BY <1>0, <1>1, <1>21 DEF Integrate, WorkType
    <2>3. \A r \in Roles : r # Subject(c) => Act("integrate", r) # Current(c)
      BY DEF Act, Subject
    <2>4. Act("clean-temp-files", "runtime") # Current(c)
      BY <2>1 DEF Act
    <2>5. WorkAwaits(c)'
      BY <1>1, <1>3, <2>2, <2>3, <2>4 DEF WorkAwaits, Kept
    <2>6. DaemonAwaits(c)' /\ TreesAwait(c)' /\ PanesAwait(c)'
      BY <1>1, <1>3, <1>4, <1>5, <2>1, <2>2, DaemonStays, TreesStay, PanesStay DEF panes, process
    <2> QED
      BY <1>9, <2>2, <2>5, <2>6 DEF Awaits
  <1>22. CASE CleanTempFiles(c)
    <2>1. Current(c).kind = "clean-temp-files"
      BY <1>6, <1>22 DEF CleanTempFiles, PlanKinds
    <2>2. /\ Succeed(c) /\ UNCHANGED <<trees, panes, process, integration>>
          /\ <<"temp", "runtime">> \notin litter'
      BY <1>22 DEF CleanTempFiles
    <2>3. WorkAwaits(c)'
      BY <1>1, <1>3, <2>1, <2>2 DEF WorkAwaits, Kept, Act
    <2>4. DaemonAwaits(c)' /\ TreesAwait(c)' /\ PanesAwait(c)'
      BY <1>1, <1>3, <1>4, <1>5, <2>1, <2>2, DaemonStays, TreesStay, PanesStay DEF panes, process
    <2> QED
      BY <1>9, <2>2, <2>3, <2>4 DEF Awaits
  <1>23. ~RemoveWorktree(c) /\ ~RemoveSession(c) /\ ~StopAgent(c) /\ ~StopDaemon(c)
    <2>1. /\ ~Doing(c, "remove-worktree") /\ ~Doing(c, "remove-session")
          /\ ~Doing(c, "stop-agent") /\ ~Doing(c, "stop-daemon")
      BY StepDoes, BringsOnly DEF BringsUp
    <2> QED
      BY <2>1 DEF RemoveWorktree, RemoveSession, StopAgent, StopDaemon
  <1> QED
    BY <1>11, <1>12, <1>13, <1>14, <1>15, <1>16, <1>17, <1>18, <1>19, <1>20, <1>21, <1>22, <1>23
       DEF Step

\* What is repairable and reported is planned; the agent maybe with its session.
LEMMA Answered ==
    ASSUME NEW report, NEW d \in report, d.repairable,
           d.component \in Roles \cup {"daemon", "tmux", "runtime"}
    PROVE  LET planned(kind) == Act(kind, d.component) \in Planned(report) IN
           /\ d.code = "DAEMON_STALE_PID" => planned("clear-daemon-metadata")
           /\ d.code = "TMUX_SOCKET_STALE" => planned("remove-stale-socket")
           /\ d.code = "WORKTREE_MISSING" => planned("create-worktree")
           /\ d.code = "DAEMON_NOT_RUNNING" => planned("start-daemon")
           /\ d.code = "SESSION_MISSING" => planned("create-session")
           /\ d.code = "AGENT_MISSING" => planned("start-agent") \/ planned("create-session")
           /\ d.code = "INTEGRATION_PENDING" => planned("integrate")
           /\ d.code = "RUNTIME_TEMP_FILES" => planned("clean-temp-files")
  <1>1. PICK j \in 1..(L + 3) : Components[j] = d.component
    <2>1. L + 1 \in 1..(L + 3) /\ L + 2 \in 1..(L + 3) /\ L + 3 \in 1..(L + 3)
      BY OrderType
    <2> QED
      BY <2>1, ComponentsType
  <1>2. ASSUME NEW i \in 1..10, NEW e \in report, e.repairable, e.component = d.component,
               e.code = PlanOrder[i][2], i = 7 => ~Reported(report, "SESSION_MISSING", d.component)
        PROVE  Act(PlanOrder[i][1], d.component) \in Planned(report)
    <2>1. Reported(report, PlanOrder[i][2], Components[j])
      BY <1>1, <1>2 DEF Reported
    <2>2. PlanOrder[i][1] = "start-agent" => i = 7
      BY DEF PlanOrder
    <2> QED
      BY <1>1, <1>2, <2>1, <2>2, PlanCovers
  <1> DEFINE kindOf(i) == PlanOrder[i][1]
             codeOf(i) == PlanOrder[i][2]
  <1>3. /\ codeOf(1) = "DAEMON_STALE_PID" /\ kindOf(1) = "clear-daemon-metadata"
        /\ codeOf(2) = "TMUX_SOCKET_STALE" /\ kindOf(2) = "remove-stale-socket"
        /\ codeOf(4) = "WORKTREE_MISSING" /\ kindOf(4) = "create-worktree"
        /\ codeOf(5) = "DAEMON_NOT_RUNNING" /\ kindOf(5) = "start-daemon"
        /\ codeOf(6) = "SESSION_MISSING" /\ kindOf(6) = "create-session"
        /\ codeOf(7) = "AGENT_MISSING" /\ kindOf(7) = "start-agent"
        /\ codeOf(9) = "INTEGRATION_PENDING" /\ kindOf(9) = "integrate"
        /\ codeOf(10) = "RUNTIME_TEMP_FILES" /\ kindOf(10) = "clean-temp-files"
    BY DEF PlanOrder
  <1>4. ASSUME NEW i \in 1..10, NEW e \in report, e.repairable, e.component = d.component,
               e.code = codeOf(i), i = 7 => ~Reported(report, "SESSION_MISSING", d.component)
        PROVE  [kind |-> kindOf(i), component |-> d.component] \in Planned(report)
    BY <1>2, <1>4 DEF Act
  <1> HIDE DEF kindOf, codeOf
  <1>5. ASSUME d.code = "AGENT_MISSING", Reported(report, "SESSION_MISSING", d.component)
        PROVE  [kind |-> "create-session", component |-> d.component] \in Planned(report)
    <2>1. PICK e \in report : e.code = "SESSION_MISSING" /\ e.component = d.component /\ e.repairable
      BY <1>5 DEF Reported
    <2> QED
      BY <1>3, <1>4, <2>1
  <1>6. ASSUME NEW i \in {1, 2, 4, 5, 6, 9, 10}, d.code = codeOf(i)
        PROVE  [kind |-> kindOf(i), component |-> d.component] \in Planned(report)
    BY <1>4, <1>6
  <1>7. ASSUME d.code = codeOf(7), ~Reported(report, "SESSION_MISSING", d.component)
        PROVE  [kind |-> kindOf(7), component |-> d.component] \in Planned(report)
    BY <1>4, <1>7
  <1> QED
    BY <1>3, <1>5, <1>6, <1>7 DEF Act

\* A repair begins with all that is repairable before it.
LEMMA RepairBegins ==
    ASSUME TypeOK, NEW c \in Commands, cmd'[c].todo = PlanFrom(Detect), cmd'[c].next = "none",
           UNCHANGED <<tree, registered, pane, socket, daemon, pidFile, broken, integration, litter>>,
           "repository" \notin broken
    PROVE  Awaits(c)' /\ Proper(c)'
  <1>1. Left(c)' = Planned(Detect)
    BY DEF Left, Planned
  <1>2. /\ InspectTmux \subseteq Detect /\ InspectDaemon \subseteq Detect /\ InspectShared \subseteq Detect
        /\ \A r \in Roles : InspectWorktree(r) \cup InspectRuntime(r) \cup InspectWork(r) \subseteq Detect
    BY DEF Detect
  <1>3. /\ ServerAlive' <=> ServerAlive
        /\ \A r \in Roles : (SessionLive(r)' <=> SessionLive(r)) /\ AgentState(r)' = AgentState(r)
    BY SamePanes
  <1>4. DaemonAwaits(c)'
    <2>1. ASSUME daemon = "stopped", pidFile
          PROVE  Act("clear-daemon-metadata", "daemon") \in Planned(Detect)
      <3>1. Diagnosis("DAEMON_STALE_PID", "warning", "daemon", TRUE) \in Detect
        BY <1>2, <2>1 DEF InspectDaemon, When
      <3>2. \E d \in Detect : d.code = "DAEMON_STALE_PID" /\ d.component = "daemon" /\ d.repairable
        BY <3>1 DEF Diagnosis
      <3> QED
        BY <3>2, Answered
    <2>2. ASSUME daemon = "stopped", ServerAlive
          PROVE  Act("start-daemon", "daemon") \in Planned(Detect)
      <3>1. Diagnosis("DAEMON_NOT_RUNNING", "error", "daemon", TRUE) \in Detect
        BY <1>2, <2>2 DEF InspectDaemon, When
      <3>2. \E d \in Detect : d.code = "DAEMON_NOT_RUNNING" /\ d.component = "daemon" /\ d.repairable
        BY <3>1 DEF Diagnosis
      <3> QED
        BY <3>2, Answered
    <2> QED
      BY <1>1, <1>3, <2>1, <2>2 DEF DaemonAwaits
  <1>5. TreesAwait(c)'
    <2>1. ASSUME NEW r \in Roles, tree[r] = "missing", ~registered[r]
          PROVE  Act("create-worktree", r) \in Planned(Detect)
      <3>1. <<"missing", "WORKTREE_MISSING", "error">> \in {y \in TreeReports : y[1] = tree[r]}
        BY <2>1 DEF TreeReports
      <3>2. Diagnosis("WORKTREE_MISSING", "error", r, tree[r] = "missing" /\ ~registered[r])
              \in InspectWorktree(r)
        BY <3>1 DEF InspectWorktree
      <3>3. \E d \in Detect : d.code = "WORKTREE_MISSING" /\ d.component = r /\ d.repairable
        BY <1>2, <2>1, <3>2 DEF Diagnosis
      <3> QED
        BY <3>3, Answered
    <2> QED
      BY <1>1, <2>1 DEF TreesAwait
  <1>6. PanesAwait(c)'
    <2>1. ASSUME "tmux" \notin broken, socket, ~ServerAlive
          PROVE  Act("remove-stale-socket", "tmux") \in Planned(Detect)
      <3>1. Diagnosis("TMUX_SOCKET_STALE", "warning", "tmux", TRUE) \in Detect
        BY <1>2, <2>1 DEF InspectTmux, When
      <3>2. \E d \in Detect : d.code = "TMUX_SOCKET_STALE" /\ d.component = "tmux" /\ d.repairable
        BY <3>1 DEF Diagnosis
      <3> QED
        BY <3>2, Answered
    <2>2. ASSUME NEW r \in Roles, ServerAlive, ~SessionLive(r)
          PROVE  Act("create-session", r) \in Planned(Detect)
      <3>1. Diagnosis("SESSION_MISSING", "error", r, TRUE) \in Detect
        BY <1>2, <2>2 DEF InspectRuntime, When
      <3>2. \E d \in Detect : d.code = "SESSION_MISSING" /\ d.component = r /\ d.repairable
        BY <3>1 DEF Diagnosis
      <3> QED
        BY <3>2, Answered
    <2>3. ASSUME NEW r \in Roles, AgentState(r) = "not-started"
          PROVE  Act("start-agent", r) \in Planned(Detect) \/ Act("create-session", r) \in Planned(Detect)
      <3>1. Diagnosis("AGENT_MISSING", "error", r, TRUE) \in Detect
        BY <1>2, <2>3 DEF InspectRuntime, When
      <3>2. \E d \in Detect : d.code = "AGENT_MISSING" /\ d.component = r /\ d.repairable
        BY <3>1 DEF Diagnosis
      <3> QED
        BY <3>2, Answered
    <2> QED
      BY <1>1, <1>3, <2>1, <2>2, <2>3 DEF PanesAwait
  <1>7. WorkAwaits(c)'
    <2>1. ASSUME <<"temp", "runtime">> \in litter
          PROVE  Act("clean-temp-files", "runtime") \in Planned(Detect)
      <3>1. Diagnosis("RUNTIME_TEMP_FILES", "info", "runtime", TRUE) \in Detect
        BY <1>2, <2>1 DEF InspectShared, When
      <3>2. \E d \in Detect : d.code = "RUNTIME_TEMP_FILES" /\ d.component = "runtime" /\ d.repairable
        BY <3>1 DEF Diagnosis
      <3> QED
        BY <3>2, Answered
    <2>2. ASSUME NEW r \in Roles, integration[r] = "pending"
          PROVE  Act("integrate", r) \in Planned(Detect)
      <3>1. Diagnosis("INTEGRATION_PENDING", "warning", r, TRUE) \in Detect
        BY <1>2, <2>2 DEF InspectWork, When
      <3>2. \E d \in Detect : d.code = "INTEGRATION_PENDING" /\ d.component = r /\ d.repairable
        BY <3>1 DEF Diagnosis
      <3> QED
        BY <3>2, Answered
    <2> QED
      BY <1>1, <2>1, <2>2 DEF WorkAwaits
  <1>8. Proper(c)'
    <2>1. ASSUME NEW a \in Planned(Detect), a.kind = "create-session" PROVE ServerAlive
      <3>1. PICK n \in PlanFrom(Detect) : a = RepairSteps[n]
        BY DEF Planned
      <3>2. PICK d \in Detect : d.code = CauseOf(n) /\ d.repairable
        BY <3>1 DEF PlanFrom, Reported
      <3>3. d.code = "SESSION_MISSING"
        BY <2>1, <3>1, <3>2, RepairKinds DEF PlanFrom
      <3> QED
        BY <3>2, <3>3, Offered DEF Repairable
    <2> QED
      BY <1>1, <1>3, <2>1 DEF Proper
  <1> QED
    BY <1>4, <1>5, <1>6, <1>7, <1>8 DEF Awaits

LEMMA RepairHolds == Spec => []RepairInv
  <1>1. Init => RepairInv
    BY DEF Init, Idle, RepairInv, Going
  <1>2. TypeOK /\ KnowsInv /\ RepairInv /\ [Next]_vars => RepairInv'
    <2> SUFFICES ASSUME TypeOK, KnowsInv, RepairInv, [Next]_vars, NEW c \in Commands,
                        Going(c, "repair")', "repository" \notin broken'
                 PROVE  Awaits(c)' /\ Proper(c)'
      BY DEF RepairInv
    <2>1. cmd'[c].op = "repair" /\ ~cmd'[c].failed /\ alone'[c]
      BY DEF Going
    <2>2. CASE Step(c)
      <3>1. \/ Succeed(c) \/ Fail(c) \/ \E kind \in Kinds : Continue(c, kind)
        BY <2>2 DEF Step, CreateWorktree, RemoveWorktree, EnsureSession, RemoveSession, CheckSocket,
             UnlinkSocket, StartAgent, TypeLaunchLine, PressEnter, StopAgent, StartDaemon, StopDaemon,
             ClearDaemonMetadata, ReconcileOrphan, Integrate, CleanTempFiles, Kinds
      <3>2. cmd[c].op = "repair" /\ ~cmd[c].failed
        BY <2>1, <3>1, TypeParts, TurnTypes DEF Turned
      <3>3. alone[c] /\ broken' = broken
        BY <2>1, <2>2, StepTurns DEF Step
      <3>4. Knows(c) /\ Awaits(c) /\ Proper(c)
        BY <3>2, <3>3 DEF KnowsInv, RepairInv, Going, BringsUp
      <3> QED
        BY <2>1, <2>2, <3>2, <3>4, RepairGoesOn
    <2>3. ASSUME NEW op \in Operations, Begun(c, op) PROVE Awaits(c)' /\ Proper(c)'
      <3>1. /\ cmd'[c].todo = PlanFrom(Detect) /\ cmd'[c].next = "none"
            /\ UNCHANGED <<tree, registered, pane, socket, daemon, pidFile, broken, integration, litter>>
        BY <2>1, <2>3 DEF Begun
      <3> QED
        BY <3>1, RepairBegins
    <2>4. CASE Undisturbed(c)
      <3>1. /\ cmd'[c] = cmd[c] /\ alone[c]
            /\ UNCHANGED <<tree, registered, socket, daemon, pidFile, broken, integration, litter>>
        BY <2>1, <2>4 DEF Undisturbed
      <3>2. Awaits(c) /\ Proper(c)
        BY <2>1, <3>1 DEF RepairInv, Going
      <3>3. Left(c)' = Left(c) /\ Current(c)' = Current(c)
        <4>1. Left(c)' = Left(c)
          BY <3>1 DEF Left
        <4>2. Current(c)' = Current(c)
          BY <3>1, Zenon DEF Current
        <4> QED
          BY <4>1, <4>2
      <3>4. \A r \in Roles : pane'[r] = pane[r] \/ (pane[r] = "typed" /\ pane'[r] = "agent")
        BY <2>4 DEF Undisturbed
      <3>5. ServerAlive' <=> ServerAlive
        BY <3>1, <3>4 DEF ServerAlive
      <3>6. \A r \in Roles : SessionLive(r)' <=> SessionLive(r)
        BY <3>4, <3>5 DEF SessionLive
      <3>7. \A r \in Roles : AgentState(r)' = "not-started" => AgentState(r) = "not-started"
                                                            /\ pane'[r] = pane[r]
        BY <3>1, <3>4, <3>6 DEF AgentState
      <3>8. DaemonAwaits(c)' /\ TreesAwait(c)' /\ WorkAwaits(c)'
        BY <3>1, <3>2, <3>3, <3>5 DEF Awaits, DaemonAwaits, TreesAwait, WorkAwaits
      <3>9. PanesAwait(c)'
        BY <3>1, <3>2, <3>3, <3>5, <3>6, <3>7 DEF Awaits, PanesAwait
      <3>10. Proper(c)'
        BY <3>1, <3>2, <3>3, <3>5 DEF Proper
      <3> QED
        BY <3>8, <3>9, <3>10 DEF Awaits
    <2> QED
      BY <2>1, <2>2, <2>3, <2>4, StepsOf
  <1> QED
    BY <1>1, <1>2, TypeCorrect, KnowsHolds, PTL DEF Spec

\* After a repair in which every action succeeded and that nothing interfered with,
\* doctor finds nothing repairable but the other orphans of a role and agents whose
\* launch line was just typed, whatever the repair set out from (PlanFrom,
\* Executor.Execute).
THEOREM RepairIsComplete == Spec => []RepairDelivers
  <1>1. RepairInv => RepairDelivers
    <2> SUFFICES ASSUME RepairInv, NEW c \in Commands, Clean(c, "repair"),
                        NEW d \in Detect, d.repairable
                 PROVE  \/ d.code = "HANDOFF_ORPHAN_DELIVERY"
                        \/ d.code = "AGENT_MISSING" /\ pane[d.component] = "typed"
      BY DEF RepairDelivers
    <2>1. "repository" \notin broken /\ Repairable(d)
      BY Offered
    <2>2. Awaits(c)
      BY <2>1 DEF RepairInv, Going, Clean
    <2>3. Left(c) = {}
      BY DEF Left, Clean
    <2> QED
      BY <2>1, <2>2, <2>3
         DEF Repairable, Awaits, DaemonAwaits, TreesAwait, PanesAwait, WorkAwaits
  <1> QED
    BY <1>1, RepairHolds, PTL
=============================================================================
