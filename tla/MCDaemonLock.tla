---------------------------- MODULE MCDaemonLock ----------------------------
(***************************************************************************)
(* DaemonLock for TLC: the state space is finite, so nothing is cut off.   *)
(***************************************************************************)
EXTENDS DaemonLock

CONSTANTS d1, d2, c1, c2

MCPids == {d1, d2}
MCCommands == {c1, c2}
=============================================================================
