------------------------------ MODULE MCHandoff ------------------------------
(* Small instances of Handoff for TLC. *)
EXTENDS Handoff

CONSTANTS a, b, c, w, x, y, z, s0, s1, s2

\* Fan-out: a sends x to b and c.
FanSender == [i \in Ids |-> a]
FanDests == [i \in Ids |-> {b, c}]
FlatRank == [i \in Ids |-> CASE i = x -> 1 [] i = y -> 2 [] i = z -> 3 [] OTHER -> 4]
PairDests == [i \in Ids |-> {b}]
FlatPriority == [i \in Ids |-> 10]
FanShells == [s \in Shells |-> IF s = s0 THEN a ELSE b]
TaskMode == [r \in Roles |-> "task"]

\* Pipeline: the developer submits x and y to b, which works in batch mode and
\* hands w and z on to c.
WorkSender == [i \in Ids |-> IF i \in {x, y} THEN System ELSE b]
WorkDests == [i \in Ids |-> IF i \in {x, y} THEN {b} ELSE {c}]
WorkShells == [s \in Shells |-> b]
BatchMode == [r \in Roles |-> "batch"]

\* Commits: a sends the commit x to b, which has the task y submitted to it.
CommitSender == [i \in Ids |-> IF i = x THEN a ELSE System]

\* What is done in the shells.  The sender's shell s0 sends.
DeliveryUses == [s \in Shells |-> IF s = s0 THEN {"send"}
                                  ELSE {"ready", "done", "integrate", "ack"}]
MendingUses == [s \in Shells |-> IF s = s0 THEN {"send"}
                                 ELSE {"ready", "done", "integrate"}]
WorkUses == [s \in Shells |-> IF s = s1 THEN {"ready", "done", "next"}
                              ELSE {"ready", "done"}]
=============================================================================
