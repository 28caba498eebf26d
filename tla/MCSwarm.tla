------------------------------ MODULE MCSwarm ------------------------------
(* A small instance of Swarm for TLC: one role in task mode, one in batch mode. *)
EXTENDS Swarm, TLC

CONSTANTS planner, coder, c1, c2

MCRoleOrder == <<planner, coder>>

\* start, stop and repair exclude each other anyway: one terminal has them all, the
\* other one the commands that take no lock.
MCUses == (c1 :> Exclusive) @@ (c2 :> Unlocked)

\* One thing that stands in the way of repair, one that repair removes.
MCLitter == {<<"crowded", coder>>, <<"temp", "runtime">>}
=============================================================================
