----------------------------- MODULE MCRelayer -----------------------------
(* Small instances of Relayer for TLC. *)
EXTENDS Relayer, TLC

CONSTANTS m1, m2, t1

(* One message, or two of one source transaction.                          *)
One == m1 :> t1
Pair == (m1 :> t1) @@ (m2 :> t1)
=============================================================================
