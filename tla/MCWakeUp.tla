------------------------------ MODULE MCWakeUp ------------------------------
(* A small instance of WakeUp for TLC: a task that is submitted, and a message of   *)
(* lower priority that is delivered.                                                *)
EXTENDS WakeUp

CONSTANTS task, message

MCAbove(m, n) == m = task /\ n = message
=============================================================================
