-------------------------- MODULE MessageSettlement --------------------------
(***************************************************************************)
(* What the bridges promise a sender: a message is settled at most once, by*)
(* delivery on its destination or by recall on its source, and only after  *)
(* it was sent.                                                            *)
(***************************************************************************)
CONSTANT Message

VARIABLES pending,    \* messages sent and not settled
          delivered,  \* messages whose call was made on the destination
          recalled    \* messages returned on the source

Init == pending = {} /\ delivered = {} /\ recalled = {}

Send(m) ==
  /\ m \notin pending \cup delivered \cup recalled
  /\ pending' = pending \cup {m}
  /\ UNCHANGED <<delivered, recalled>>

Deliver(m) ==
  /\ m \in pending
  /\ pending' = pending \ {m}
  /\ delivered' = delivered \cup {m}
  /\ UNCHANGED recalled

Recall(m) ==
  /\ m \in pending
  /\ pending' = pending \ {m}
  /\ recalled' = recalled \cup {m}
  /\ UNCHANGED delivered

Next == \E m \in Message : Send(m) \/ Deliver(m) \/ Recall(m)

Spec == Init /\ [][Next]_<<pending, delivered, recalled>>
=============================================================================
