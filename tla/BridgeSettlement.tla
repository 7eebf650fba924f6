-------------------------- MODULE BridgeSettlement --------------------------
(* The bridges implement MessageSettlement.  What a message has come to is *)
(* read from the statuses on its two chains.                               *)
EXTENDS Bridge

Settlement == INSTANCE MessageSettlement WITH
                pending <- Pending, delivered <- Delivered, recalled <- Recalled

(* A message is delivered or recalled, never both and never twice, although *)
(* the two chains learn of each other only by old state roots and a callee  *)
(* may call back into the bridge.                                           *)
ImplementsSettlement == Settlement!Spec
=============================================================================
