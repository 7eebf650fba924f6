------------------------------ MODULE MCBridge ------------------------------
(* Small instances of Bridge for TLC.                                      *)
EXTENDS BridgeSettlement, TLC

CONSTANTS L1, L2, L3

(* A message that anyone may process, one for its owner only, and one that  *)
(* calls nothing.                                                           *)
Ordinary == [value |-> 1, fee |-> 1, hasGasLimit |-> TRUE, target |-> "other"]
OwnersOwn == [value |-> 1, fee |-> 0, hasGasLimit |-> FALSE, target |-> "hook"]
Empty == [value |-> 0, fee |-> 1, hasGasLimit |-> TRUE, target |-> "plain"]
ThreeBodies == {Ordinary, OwnersOwn, Empty}
OneBody == {Ordinary}

(* An L1 and one L2, or two L2s that know of each other over the L1.        *)
TwoChains == {<<L1, L2>>, <<L2, L1>>}
ThreeChains == TwoChains \cup {<<L1, L3>>, <<L3, L1>>}

(* All the Ether of each chain.                                             *)
SupplyOf == [c \in Chains |-> 6]

(* All Ether of the L1 has been deposited.                                  *)
DepositedOf == [c \in Chains |-> IF c = L1 THEN 6 ELSE 0]

(* The Ether has moved to L2; what another chain sends it has received.     *)
MovedOf == [c \in Chains |-> IF c = L2 THEN 4 ELSE 6]
=============================================================================
