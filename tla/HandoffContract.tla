--------------------------- MODULE HandoffContract ---------------------------
(***************************************************************************)
(* What the handoff subsystem promises, without daemon, listings, crashes  *)
(* or retries: a message that was accepted reaches each destination; a     *)
(* destination that holds a copy, untouched or taken, is given no other;   *)
(* work that was taken never becomes untouched again; and the sender is    *)
(* told "sent" only when every destination got a copy.                     *)
(*                                                                         *)
(* An acknowledged copy is out of the promise: the store forgets it, so    *)
(* the message may be given to that destination again.                     *)
(***************************************************************************)
CONSTANTS Roles, Ids, Dests

VARIABLES
    accepted,   \* messages a sender or the developer handed over
    settled,    \* accepted messages reported as sent
    waiting,    \* waiting[r]: copies r has not taken
    taken,      \* taken[r]: copies r works on or has finished
    withdrawn   \* withdrawn[r]: copies r acknowledged without taking them

vars == <<accepted, settled, waiting, taken, withdrawn>>

Given(r) == waiting[r] \cup taken[r] \cup withdrawn[r]

Init ==
    /\ accepted = {} /\ settled = {}
    /\ waiting = [r \in Roles |-> {}]
    /\ taken = [r \in Roles |-> {}]
    /\ withdrawn = [r \in Roles |-> {}]

\* A message is accepted once.
Accept(i) ==
    /\ i \notin accepted
    /\ accepted' = accepted \cup {i}
    /\ UNCHANGED <<settled, waiting, taken, withdrawn>>

\* A submitted task is given to its destination as it is accepted.
Submit(i, r) ==
    /\ i \notin accepted /\ Dests[i] = {r}
    /\ accepted' = accepted \cup {i}
    /\ waiting' = [waiting EXCEPT ![r] = @ \cup {i}]
    /\ UNCHANGED <<settled, taken, withdrawn>>

\* The check for an earlier copy and the writing of the new one are one step.
Give(i, r) ==
    /\ i \in accepted /\ r \in Dests[i]
    /\ i \notin waiting[r] \cup taken[r]
    /\ waiting' = [waiting EXCEPT ![r] = @ \cup {i}]
    /\ UNCHANGED <<accepted, settled, taken, withdrawn>>

Take(i, r) ==
    /\ i \in waiting[r]
    /\ waiting' = [waiting EXCEPT ![r] = @ \ {i}]
    /\ taken' = [taken EXCEPT ![r] = @ \cup {i}]
    /\ UNCHANGED <<accepted, settled, withdrawn>>

Withdraw(i, r) ==
    /\ i \in waiting[r]
    /\ waiting' = [waiting EXCEPT ![r] = @ \ {i}]
    /\ withdrawn' = [withdrawn EXCEPT ![r] = @ \cup {i}]
    /\ UNCHANGED <<accepted, settled, taken>>

Settle(i) ==
    /\ i \in accepted \ settled
    /\ \A r \in Dests[i] : i \in Given(r)
    /\ settled' = settled \cup {i}
    /\ UNCHANGED <<accepted, waiting, taken, withdrawn>>

Next ==
    \E i \in Ids :
        \/ Accept(i)
        \/ Settle(i)
        \/ \E r \in Roles :
            Submit(i, r) \/ Give(i, r) \/ Take(i, r) \/ Withdraw(i, r)

Spec == Init /\ [][Next]_vars
=============================================================================
