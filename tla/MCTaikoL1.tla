----------------------------- MODULE MCTaikoL1 -----------------------------
(* Small instances of TaikoL1 for TLC.                                     *)
EXTENDS TaikoL1Ledger, TLC

CONSTANTS u1, u2, f, g, r, q

(* A bonded tier that can be contested below a bondless top tier, the shape *)
(* of TierProviderBase.                                                     *)
TwoTiers == <<[validityBond |-> 8, contestBond |-> 16, cooldownWindow |-> 1, provingWindow |-> 1],
              [validityBond |-> 0, contestBond |-> 0, cooldownWindow |-> 1, provingWindow |-> 1]>>

(* The one tier of SurgeTierProviderBase: no bond and no cooldown.          *)
SurgeTier == <<[validityBond |-> 0, contestBond |-> 0, cooldownWindow |-> 0, provingWindow |-> 2]>>

UserSymmetry == Permutations({u1, u2})
=============================================================================
