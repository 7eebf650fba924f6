-------------------------- MODULE MCSurgeTimelock --------------------------
(* A small instance of SurgeTimelock over a rollup with Surge's one tier.   *)
EXTENDS SurgeTimelock

CONSTANTS u1, f, r

SurgeTier == <<[validityBond |-> 0, contestBond |-> 0, cooldownWindow |-> 0, provingWindow |-> 2]>>
=============================================================================
