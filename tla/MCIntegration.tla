--------------------------- MODULE MCIntegration ---------------------------
(* A small instance of Integration for TLC: the sender's branch has two commits on  *)
(* top of the common one, each with a handoff of its own.                           *)
EXTENDS Integration, TLC

CONSTANTS agent, doctor, h1, h2

Sent(change) == Patch(change, "sender")
MCBase == <<Sent("base")>>
MCHanded == [h \in {h1, h2} |-> IF h = h1 THEN <<Sent("base"), Sent("one")>>
                                ELSE <<Sent("base"), Sent("one"), Sent("two")>>]
MCSymmetry == Permutations({agent, doctor})
MCBefore(g, h) == g = h1 /\ h = h2
=============================================================================
