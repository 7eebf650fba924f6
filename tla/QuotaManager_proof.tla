------------------------- MODULE QuotaManager_proof -------------------------
(***************************************************************************)
(* The money of the bridges, for every value of the constants: no balance  *)
(* and no bucket is overdrawn, no bucket holds more than its quota, and    *)
(* what a bridge releases over any stretch of time is within its quota and *)
(* the refill, whatever the order of processing, retries, recalls and      *)
(* changes of the quota and its period.                                    *)
(***************************************************************************)
EXTENDS Bridge_proof, Sums_proof

(* A bucket is used in the past and never holds more than its quota.        *)
BucketWithinQuota ==
  \A c \in Chains : /\ tokenQuota[c].updatedAt <= now
                    /\ tokenQuota[c].available <= tokenQuota[c].quota

MoneyTyped ==
  /\ now \in 1..MaxTime
  /\ tokenQuota \in [Chains -> Quota]
  /\ quotaPeriod \in [Chains -> QuotaPeriods]
  /\ ether \in [Chains -> Nat]
  /\ outflow \in [Chains -> [0..MaxTime -> Nat]]

(* An id is handed out only while there is one left.                        *)
IdsTyped == nextMessageId \in [Chains -> 0..MaxMessages]

MInv == MoneyTyped /\ BucketWithinQuota /\ IdsTyped

-----------------------------------------------------------------------------
(* The two calls that move money *)

(* What is refilled is a natural number, cut off at the quota.              *)
LEMMA Refill ==
  ASSUME MInv, NEW c \in Chains
  PROVE  availableQuota(c) \in 0..tokenQuota[c].quota
<1> DEFINE q == tokenQuota[c]
           elapsed == now - q.updatedAt
           issued == (q.quota * elapsed) \div quotaPeriod[c]
<1>1. /\ q.quota \in Nat /\ q.available \in Nat /\ q.updatedAt \in Nat
      /\ q.updatedAt <= now /\ now \in Nat
  BY QuotaAssumption DEF MInv, MoneyTyped, BucketWithinQuota, Quota
<1>2. quotaPeriod[c] \in Nat \ {0}
  BY QuotaAssumption DEF MInv, MoneyTyped
<1>3. issued \in Nat
  <2>1. elapsed \in Nat
    BY <1>1
  <2> HIDE DEF elapsed
  <2>2. q.quota * elapsed \in Nat
    BY <1>1, <2>1
  <2> DEFINE product == q.quota * elapsed
  <2>3. product \in Nat
    BY <2>2
  <2> HIDE DEF product
  <2>4. product \div quotaPeriod[c] \in Nat
    BY <1>2, <2>3
  <2> QED BY <2>4 DEF product
<1> HIDE DEF issued
<1>4. availableQuota(c) = IF q.updatedAt = 0 \/ q.available + issued > q.quota
                          THEN q.quota ELSE q.available + issued
  BY DEF availableQuota, issued
<1> HIDE DEF q
<1> QED BY <1>1, <1>3, <1>4 DEF q

(* A draw leaves what the refilled bucket held beyond the amount.           *)
LEMMA Draw ==
  ASSUME MInv, NEW c \in Chains, NEW amount \in Nat,
         consumeQuota(c, amount), UNCHANGED <<now, quotaPeriod>>
  PROVE  /\ tokenQuota' \in [Chains -> Quota]
         /\ BucketWithinQuota'
<1>1. CASE UNCHANGED tokenQuota
  BY <1>1 DEF MInv, MoneyTyped, BucketWithinQuota
<1>2. CASE availableQuota(c) >= amount
           /\ tokenQuota' = [tokenQuota EXCEPT ![c].available = availableQuota(c) - amount,
                                               ![c].updatedAt = now]
  <2> DEFINE left == availableQuota(c) - amount
  <2>1. left \in Nat /\ left <= tokenQuota[c].quota
    <3>1. availableQuota(c) \in 0..tokenQuota[c].quota
      BY Refill
    <3>2. tokenQuota[c].quota \in Nat
      BY DEF MInv, MoneyTyped, Quota
    <3> QED BY <1>2, <3>1, <3>2
  <2>2. tokenQuota' = [tokenQuota EXCEPT ![c] =
          [tokenQuota[c] EXCEPT !.available = left, !.updatedAt = now]]
    BY <1>2 DEF MInv, MoneyTyped
  <2> HIDE DEF left
  <2>3. now \in 0..MaxTime /\ now <= now
    BY QuotaAssumption DEF MInv, MoneyTyped
  <2> QED BY <2>1, <2>2, <2>3 DEF MInv, MoneyTyped, BucketWithinQuota, Quota
<1> QED BY <1>1, <1>2 DEF consumeQuota

(* A bridge releases only Ether it has.                                     *)
LEMMA Pay ==
  ASSUME MInv, NEW c \in Chains, NEW amount \in Nat, Release(c, amount)
  PROVE  ether' \in [Chains -> Nat] /\ outflow' \in [Chains -> [0..MaxTime -> Nat]]
<1>1. ether[c] - amount \in Nat
  BY DEF Release, MInv, MoneyTyped
<1>2. ether' = [ether EXCEPT ![c] = ether[c] - amount]
  BY DEF Release
<1> DEFINE paid == [t \in 0..MaxTime |-> IF t >= now THEN outflow[c][t] + amount
                                                       ELSE outflow[c][t]]
<1>3. paid \in [0..MaxTime -> Nat]
  <2>1. outflow[c] \in [0..MaxTime -> Nat]
    BY DEF MInv, MoneyTyped
  <2>2. ASSUME NEW t \in 0..MaxTime PROVE outflow[c][t] \in Nat /\ outflow[c][t] + amount \in Nat
    <3>1. outflow[c][t] \in Nat
      BY <2>1
    <3> QED BY <3>1
  <2>3. \A t \in 0..MaxTime : (IF t >= now THEN outflow[c][t] + amount ELSE outflow[c][t]) \in Nat
    BY <2>2
  <2> QED BY <2>3
<1>4. outflow' = [outflow EXCEPT ![c] = paid]
  BY DEF Release, MInv, MoneyTyped
<1> HIDE DEF paid
<1> QED BY <1>1, <1>2, <1>3, <1>4 DEF MInv, MoneyTyped

-----------------------------------------------------------------------------
(* The handlers *)

(* What a handler of a bridge does with money: it draws at most once and    *)
(* releases at most once, and hands out no id.                              *)
Moves(c) ==
  /\ UNCHANGED <<now, quotaPeriod, nextMessageId>>
  /\ UNCHANGED tokenQuota \/ \E amount \in Nat : consumeQuota(c, amount)
  /\ UNCHANGED <<ether, outflow>> \/ \E amount \in Nat : Release(c, amount)

LEMMA MovesKeep ==
  ASSUME MInv, NEW c \in Chains, Moves(c)
  PROVE  MInv'
<1>1. UNCHANGED <<now, quotaPeriod, nextMessageId>>
  BY DEF Moves
<1>2. tokenQuota' \in [Chains -> Quota] /\ BucketWithinQuota'
  BY <1>1, Draw DEF Moves, MInv, MoneyTyped, BucketWithinQuota
<1>3. ether' \in [Chains -> Nat] /\ outflow' \in [Chains -> [0..MaxTime -> Nat]]
  BY Pay DEF Moves, MInv, MoneyTyped
<1> QED BY <1>1, <1>2, <1>3 DEF MInv, MoneyTyped, IdsTyped

LEMMA Amounts ==
  ASSUME NEW m \in Message
  PROVE  /\ m.body.value \in Nat /\ m.body.fee \in Nat
         /\ m.body.value + m.body.fee \in Nat
<1>1. m.body.value \in Nat /\ m.body.fee \in Nat
  BY BridgeAssumption DEF Message, Body
<1> QED BY <1>1

LEMMA EndRetryMoves ==
  ASSUME NEW c \in Chains, NEW m \in Message, NEW succeeded, NEW last,
         EndRetry(c, m, succeeded, last)
  PROVE  UNCHANGED <<ether, outflow>> \/ \E amount \in Nat : Release(c, amount)
BY Amounts DEF EndRetry, Fail

LEMMA BridgeStepMoves ==
  ASSUME IInv, NEW c \in Chains, BridgeStep(c)
  PROVE  Moves(c)
<1> USE SentMessages DEF IInv
<1>1. ASSUME NEW m \in Sent, recallMessage(c, m) \/ failMessage(c, m)
      PROVE  Moves(c)
  BY <1>1, Amounts DEF recallMessage, failMessage, Fail, Moves, quotaVars
<1>2. ASSUME NEW m \in Heard(c), NEW byOwner, NEW isContract,
             processMessage(c, m, byOwner, isContract)
      PROVE  Moves(c)
  <2>1. m.body.value + m.body.fee \in Nat
    BY Amounts
  <2>2. CASE UnableToInvoke(m, isContract) \/ NothingToInvoke(m)
    BY <1>2, <2>1, <2>2 DEF processMessage, Moves
  <2>3. CASE ~(UnableToInvoke(m, isContract) \/ NothingToInvoke(m))
    BY <1>2, <2>1, <2>3 DEF processMessage, Moves, Enter
  <2> QED BY <2>2, <2>3
<1>3. ASSUME NEW m \in Sent, NEW byOwner, NEW last, NEW isContract,
             retryMessage(c, m, byOwner, last, isContract)
      PROVE  Moves(c)
  <2>1. m \in Message /\ m.body.value \in Nat
    BY Amounts
  <2>2. consumeQuota(c, m.body.value)
    BY <1>3 DEF retryMessage
  <2>3. CASE Enter(c, m, TRUE, last)
    BY <2>1, <2>2, <2>3 DEF Moves, Enter
  <2>4. CASE ~Enter(c, m, TRUE, last)
    <3>1. PICK succeeded \in BOOLEAN : EndRetry(c, m, succeeded, last)
      BY <1>3, <2>4 DEF retryMessage
    <3>2. UNCHANGED <<now, quotaPeriod, nextMessageId>>
      BY <1>3, <2>4 DEF retryMessage
    <3> QED BY <2>1, <2>2, <3>1, <3>2, EndRetryMoves DEF Moves
  <2> QED BY <2>3, <2>4
<1>4. ASSUME NEW succeeded \in BOOLEAN,
             finishProcessMessage(c, succeeded) \/ finishRetryMessage(c, succeeded)
      PROVE  Moves(c)
  <2>1. InnerCall(c).msg \in Message
    BY <1>4, OneCall DEF finishProcessMessage, finishRetryMessage, Call
  <2>2. UNCHANGED <<now, tokenQuota, quotaPeriod, nextMessageId>>
    BY <1>4 DEF finishProcessMessage, finishRetryMessage, quotaVars
  <2>3. UNCHANGED <<ether, outflow>> \/ \E amount \in Nat : Release(c, amount)
    BY <1>4, <2>1, Amounts, EndRetryMoves DEF finishProcessMessage, finishRetryMessage
  <2> QED BY <2>2, <2>3 DEF Moves
<1> QED BY <1>1, <1>2, <1>3, <1>4 DEF BridgeStep

-----------------------------------------------------------------------------
(* The theorems *)

LEMMA InitMoney == Init => MInv
<1> SUFFICES ASSUME Init PROVE MInv
  OBVIOUS
<1>1. now \in 1..MaxTime /\ 0 \in 0..MaxTime /\ 0 <= now
  BY QuotaAssumption DEF Init, QuotaInit
<1>2. nextMessageId \in [Chains -> 0..MaxMessages]
  BY BridgeAssumption DEF Init
<1>3. ether \in [Chains -> Nat] /\ outflow \in [Chains -> [0..MaxTime -> Nat]]
  BY BridgeAssumption DEF Init
<1> DEFINE empty == [updatedAt |-> 0, quota |-> 0, available |-> 0]
<1>4. empty \in Quota /\ empty.updatedAt <= now /\ empty.available <= empty.quota
  BY <1>1, QuotaAssumption DEF Init, QuotaInit, Quota
<1>5. tokenQuota = [c \in Chains |-> empty] /\ quotaPeriod \in [Chains -> QuotaPeriods]
  BY DEF Init, QuotaInit
<1> HIDE DEF empty
<1>6. tokenQuota \in [Chains -> Quota] /\ BucketWithinQuota
  BY <1>4, <1>5 DEF BucketWithinQuota
<1> QED BY <1>1, <1>2, <1>3, <1>5, <1>6 DEF MInv, MoneyTyped, IdsTyped

(* Only the clock may move.                                                 *)
MoneyRests ==
  /\ now' = now \/ (now < MaxTime /\ now' = now + 1)
  /\ UNCHANGED <<tokenQuota, quotaPeriod, nextMessageId, ether, outflow>>

LEMMA NextMoney == IInv /\ MInv /\ [Next]_vars => MInv'
<1> SUFFICES ASSUME IInv, MInv, [Next]_vars PROVE MInv'
  OBVIOUS
<1>1. ASSUME NEW m \in Message, sendMessage(m.srcChainId, m)
      PROVE  MInv'
  <2> DEFINE c == m.srcChainId
  <2>1. c \in Chains /\ m.body.value \in Nat /\ m.body.fee \in Nat
    BY Amounts DEF Message
  <2>2. nextMessageId[c] \in 0..(MaxMessages - 1)
    BY <1>1 DEF sendMessage, Message, Ids
  <2>3. /\ nextMessageId' = [nextMessageId EXCEPT ![c] = nextMessageId[c] + 1]
        /\ ether' = [ether EXCEPT ![c] = ether[c] + m.body.value + m.body.fee]
        /\ UNCHANGED <<now, tokenQuota, quotaPeriod, outflow>>
    BY <1>1 DEF sendMessage, IdAfter, quotaVars
  <2> HIDE DEF c
  <2>4. nextMessageId[c] + 1 \in 0..MaxMessages
    BY <2>2, BridgeAssumption
  <2>5. ether[c] + m.body.value + m.body.fee \in Nat
    BY <2>1 DEF MInv, MoneyTyped
  <2> QED BY <2>1, <2>3, <2>4, <2>5 DEF MInv, MoneyTyped, IdsTyped, BucketWithinQuota
<1>2. ASSUME NEW c \in Chains, BridgeStep(c)
      PROVE  MInv'
  BY <1>2, BridgeStepMoves, MovesKeep
<1>3. ASSUME NEW c \in Chains, NEW quota \in Quotas, setQuota(c, quota)
      PROVE  MInv'
  <2>1. quota \in Nat /\ 0 \in 0..MaxTime
    BY QuotaAssumption
  <2>2. /\ tokenQuota' = [tokenQuota EXCEPT ![c] = [updatedAt |-> 0, quota |-> quota,
                                                    available |-> quota]]
        /\ outflow' = [outflow EXCEPT ![c] = [t \in DOMAIN outflow[c] |-> 0]]
        /\ UNCHANGED <<now, quotaPeriod, nextMessageId, ether>>
    BY <1>3 DEF setQuota, updateQuota
  <2>3. outflow' \in [Chains -> [0..MaxTime -> Nat]]
    BY <2>2 DEF MInv, MoneyTyped
  <2>4. tokenQuota' \in [Chains -> Quota]
    BY <2>1, <2>2 DEF MInv, MoneyTyped, Quota
  <2>5. BucketWithinQuota'
    BY <2>1, <2>2 DEF MInv, MoneyTyped, BucketWithinQuota
  <2> QED BY <2>2, <2>3, <2>4, <2>5 DEF MInv, MoneyTyped, IdsTyped
<1>4. ASSUME NEW c \in Chains, NEW period \in QuotaPeriods, setPeriod(c, period)
      PROVE  MInv'
  BY <1>4 DEF setPeriod, setQuotaPeriod, bridgeVars, MInv, MoneyTyped, IdsTyped,
              BucketWithinQuota
<1>5. ASSUME MoneyRests
      PROVE  MInv'
  <2>1. now' \in 1..MaxTime /\ now' >= now
    BY <1>5, QuotaAssumption DEF MoneyRests, MInv, MoneyTyped
  <2>2. \A c \in Chains : tokenQuota[c].updatedAt \in Nat
    BY DEF MInv, MoneyTyped, Quota
  <2>3. BucketWithinQuota'
    BY <1>5, <2>1, <2>2 DEF MoneyRests, MInv, MoneyTyped, BucketWithinQuota
  <2> QED BY <1>5, <2>1, <2>3 DEF MoneyRests, MInv, MoneyTyped, IdsTyped
<1>6. ASSUME NEW c \in Chains, NEW d \in Chains, syncChainData(c, d)
      PROVE  MInv'
  BY <1>5, <1>6 DEF MoneyRests, syncChainData, quotaVars
<1>7. ASSUME Tick \/ UNCHANGED vars
      PROVE  MInv'
  BY <1>5, <1>7 DEF MoneyRests, Tick, vars, quotaVars, bridgeVars
<1> QED
  BY <1>1, <1>2, <1>3, <1>4, <1>6, <1>7 DEF Next

(* Statuses, signals, balances, buckets and the released amounts keep their *)
(* types in any history: no balance and no bucket is ever overdrawn.        *)
THEOREM TypeCorrect == Spec => []TypeOK
<1>1. IInv /\ MInv => TypeOK
  <2> SUFFICES ASSUME IInv, MInv PROVE TypeOK
    OBVIOUS
  <2>1. now \in 0..MaxTime
    BY QuotaAssumption DEF MInv, MoneyTyped
  <2>2. DOMAIN messageStatus = Chains
    BY DEF IInv, Typed
  <2>3. ASSUME NEW c \in Chains
        PROVE  /\ DOMAIN messageStatus[c] \subseteq Message
               /\ messageStatus[c] \in [DOMAIN messageStatus[c] -> Status \ {"NEW"}]
    <3>1. PICK D \in SUBSET Message : messageStatus[c] \in [D -> Status \ {"NEW"}]
      BY DEF IInv, Typed
    <3> QED BY <3>1
  <2> QED BY <2>1, <2>2, <2>3 DEF IInv, Typed, MInv, MoneyTyped, IdsTyped, TypeOK
<1> QED
  BY <1>1, InitMoney, NextMoney, Consistent, PTL DEF Spec

(* No bucket ever holds more than its quota, whenever it was refilled and   *)
(* under whatever period: one transaction releases at most one quota.       *)
THEOREM BucketSafe == Spec => []BucketWithinQuota
<1>1. MInv => BucketWithinQuota
  BY DEF MInv
<1> QED
  BY <1>1, InitMoney, NextMoney, Consistent, PTL DEF Spec
-----------------------------------------------------------------------------
(* What flows out *)

(* What a call in progress will have released when it has returned, at most.*)
Owed(c) ==
  IF calls[c] = <<>> THEN 0
  ELSE calls[c][1].msg.body.value + IF calls[c][1].retry THEN 0 ELSE calls[c][1].msg.body.fee

(* The refill of a stretch of time.                                         *)
Refilled(quota, elapsed, period) == (quota * elapsed) \div period

(* Since its bucket was last used a chain has released nothing; and what it *)
(* released from any time on until then, with what it still owes to a call  *)
(* in progress and what was left in the bucket, is within quota and refill. *)
FlowIsBounded(c) ==
  LET q == tokenQuota[c]
  IN  ~IsUnlimited(c) =>
        /\ calls[c] # <<>> => q.updatedAt = now
        /\ \A t \in q.updatedAt..MaxTime : outflow[c][t] = outflow[c][q.updatedAt]
        /\ \A s \in 1..q.updatedAt, period \in ShortestPeriods :
             q.available + Owed(c) + outflow[c][q.updatedAt] - outflow[c][s - 1]
               <= q.quota + Refilled(q.quota, q.updatedAt - s, period)

FInv == \A c \in Chains : FlowIsBounded(c)

(* The integer division: its bounds, two divisions against one, and a larger*)
(* divisor.                                                                 *)
LEMMA Division ==
  ASSUME NEW a \in Nat, NEW p \in Nat \ {0}
  PROVE  /\ a \div p \in Nat
         /\ p * (a \div p) <= a
         /\ \A k \in Nat : p * k <= a => k <= a \div p
<1>1. a = p * (a \div p) + (a % p) /\ a % p \in 0..(p - 1) /\ a \div p \in Nat
  OBVIOUS
<1>2. ASSUME NEW k \in Nat, p * k <= a PROVE k <= a \div p
  BY <1>2
<1> QED BY <1>1, <1>2

LEMMA DivisionAdds ==
  ASSUME NEW a \in Nat, NEW b \in Nat, NEW p \in Nat \ {0}
  PROVE  a \div p + b \div p <= (a + b) \div p
<1>1. /\ a \div p \in Nat /\ p * (a \div p) <= a
      /\ b \div p \in Nat /\ p * (b \div p) <= b
  BY Division
<1> DEFINE x == a \div p
           y == b \div p
<1>2. x \in Nat /\ y \in Nat /\ p * x <= a /\ p * y <= b
  BY <1>1
<1> HIDE DEF x, y
<1>3. p * (x + y) = p * x + p * y /\ p * x \in Nat /\ p * y \in Nat
  BY <1>2
<1>4. p * (x + y) <= a + b
  BY <1>2, <1>3
<1>5. a + b \in Nat /\ x + y \in Nat
  BY <1>2
<1>6. x + y <= (a + b) \div p
  BY <1>4, <1>5, Division
<1> QED BY <1>6 DEF x, y

LEMMA DivisorShrinks ==
  ASSUME NEW a \in Nat, NEW p \in Nat \ {0}, NEW r \in Nat \ {0}, p <= r
  PROVE  a \div r <= a \div p
<1>1. a \div r \in Nat /\ r * (a \div r) <= a
  BY Division
<1> DEFINE x == a \div r
<1>2. x \in Nat /\ r * x <= a
  BY <1>1
<1> HIDE DEF x
<1>3. p * x <= r * x /\ p * x \in Nat /\ r * x \in Nat
  BY <1>2
<1>4. p * x <= a
  BY <1>2, <1>3
<1>5. x <= a \div p
  BY <1>2, <1>4, Division
<1> QED BY <1>5 DEF x

(* Refills of adjacent stretches, the later one under a longer period.      *)
LEMMA RefillsAdd ==
  ASSUME NEW quota \in Nat, NEW i \in Nat, NEW j \in Nat,
         NEW p \in Nat \ {0}, NEW r \in Nat \ {0}, p <= r
  PROVE  /\ Refilled(quota, i, p) \in Nat
         /\ Refilled(quota, i, p) + Refilled(quota, j, r) <= Refilled(quota, i + j, p)
<1> DEFINE a == quota * i
           b == quota * j
<1>1. a \in Nat /\ b \in Nat
  OBVIOUS
<1>2. quota * (i + j) = a + b
  OBVIOUS
<1> HIDE DEF a, b
<1>3. a \div p \in Nat /\ b \div p \in Nat /\ b \div r \in Nat /\ (a + b) \div p \in Nat
  BY <1>1, Division
<1>4. a \div p + b \div p <= (a + b) \div p /\ b \div r <= b \div p
  BY <1>1, DivisionAdds, DivisorShrinks
<1>5. a \div p + b \div r <= (a + b) \div p
  BY <1>3, <1>4
<1> QED BY <1>2, <1>3, <1>5 DEF Refilled, a, b

LEMMA RefillIsNatural ==
  ASSUME NEW quota \in Nat, NEW i \in Nat, NEW p \in Nat \ {0}
  PROVE  Refilled(quota, i, p) \in Nat
<1>1. p <= p
  OBVIOUS
<1> QED BY <1>1, RefillsAdd

(* The numbers of a chain.                                                  *)
LEMMA FlowTypes ==
  ASSUME IInv, MInv, NEW c \in Chains
  PROVE  /\ tokenQuota[c].quota \in Nat /\ tokenQuota[c].available \in Nat
         /\ tokenQuota[c].updatedAt \in 0..now /\ now \in 1..MaxTime
         /\ MaxTime \in Nat
         /\ \A t \in 0..MaxTime : outflow[c][t] \in Nat
         /\ quotaPeriod[c] \in Nat \ {0}
         /\ \A p \in ShortestPeriods : p \in Nat \ {0} /\ p <= quotaPeriod[c]
         /\ Owed(c) \in Nat
<1>1. /\ tokenQuota[c].quota \in Nat /\ tokenQuota[c].available \in Nat
      /\ tokenQuota[c].updatedAt \in Nat /\ tokenQuota[c].updatedAt <= now
      /\ now \in 1..MaxTime /\ MaxTime \in Nat
  BY QuotaAssumption DEF MInv, MoneyTyped, BucketWithinQuota, Quota
<1>2. \A t \in 0..MaxTime : outflow[c][t] \in Nat
  BY DEF MInv, MoneyTyped
<1>3. quotaPeriod[c] \in QuotaPeriods
  BY DEF MInv, MoneyTyped
<1>4. /\ quotaPeriod[c] \in Nat \ {0}
      /\ \A p \in ShortestPeriods : p \in Nat \ {0} /\ p <= quotaPeriod[c]
  BY <1>3, QuotaAssumption DEF ShortestPeriods
<1>5. Owed(c) \in Nat
  <2>1. CASE calls[c] = <<>>
    BY <2>1 DEF Owed
  <2>2. CASE calls[c] # <<>>
    <3>1. calls[c][1] \in Call
      BY <2>2, OneCall
    <3>2. calls[c][1].msg \in Message
      BY <3>1 DEF Call
    <3> QED BY <2>2, <3>2, Amounts DEF Owed
  <2> QED BY <2>1, <2>2
<1> QED BY <1>1, <1>2, <1>4, <1>5

(* What a chain that owes nothing has released since some time, and what it *)
(* may still draw, is within the quota and the refill until now.            *)
LEMMA Drawable ==
  ASSUME IInv, MInv, NEW c \in Chains, FlowIsBounded(c), ~IsUnlimited(c), Owed(c) = 0,
         NEW s \in 1..now, NEW p \in ShortestPeriods
  PROVE  availableQuota(c) + outflow[c][now] - outflow[c][s - 1]
           <= tokenQuota[c].quota + Refilled(tokenQuota[c].quota, now - s, p)
<1> DEFINE q == tokenQuota[c].quota
           a == tokenQuota[c].available
           u == tokenQuota[c].updatedAt
           issued == Refilled(q, now - u, quotaPeriod[c])
<1>1. /\ q \in Nat /\ a \in Nat /\ u \in 0..now /\ now \in 1..MaxTime /\ MaxTime \in Nat
      /\ p \in Nat \ {0} /\ quotaPeriod[c] \in Nat \ {0} /\ p <= quotaPeriod[c]
      /\ \A t \in 0..MaxTime : outflow[c][t] \in Nat
  BY FlowTypes
<1>2. /\ availableQuota(c) = IF u = 0 \/ a + issued > q THEN q ELSE a + issued
      /\ availableQuota(c) \in 0..q
  BY Refill DEF availableQuota, Refilled
<1>3. /\ \A t \in u..MaxTime : outflow[c][t] = outflow[c][u]
      /\ s \in 1..u => a + outflow[c][u] - outflow[c][s - 1] <= q + Refilled(q, u - s, p)
  <2>1. s \in 1..u => a + Owed(c) + outflow[c][u] - outflow[c][s - 1]
                       <= q + Refilled(q, u - s, p)
    BY DEF FlowIsBounded
  <2>2. \A t \in u..MaxTime : outflow[c][t] = outflow[c][u]
    BY DEF FlowIsBounded
  <2> QED BY <1>1, <2>1, <2>2
<1>4. outflow[c][now] = outflow[c][u]
  BY <1>1, <1>3
<1> HIDE DEF q, a, u, issued
<1>5. CASE s <= u
  <2>1. /\ Refilled(q, u - s, p) \in Nat
        /\ Refilled(q, u - s, p) + issued <= Refilled(q, (u - s) + (now - u), p)
    <3>1. u - s \in Nat /\ now - u \in Nat
      BY <1>1, <1>5
    <3> QED BY <1>1, <3>1, RefillsAdd DEF issued
  <2>2. (u - s) + (now - u) = now - s
    BY <1>1
  <2>3. issued \in Nat
    <3>1. now - u \in Nat
      BY <1>1
    <3> QED BY <1>1, <3>1, RefillIsNatural DEF issued
  <2>4. s \in 1..u /\ u # 0
    BY <1>1, <1>5
  <2>5. a + outflow[c][u] - outflow[c][s - 1] <= q + Refilled(q, u - s, p)
    BY <1>3, <2>4
  <2>6. availableQuota(c) <= a + issued
    BY <1>1, <1>2, <2>3, <2>4
  <2>7. /\ outflow[c][u] \in Nat /\ outflow[c][s - 1] \in Nat /\ availableQuota(c) \in Nat
        /\ Refilled(q, now - s, p) \in Nat
    <3>1. u \in 0..MaxTime /\ s - 1 \in 0..MaxTime /\ now - s \in Nat
      BY <1>1
    <3>2. Refilled(q, now - s, p) \in Nat
      BY <1>1, <3>1, RefillIsNatural
    <3>3. availableQuota(c) \in Nat
      BY <1>1, <1>2
    <3>4. outflow[c][u] \in Nat /\ outflow[c][s - 1] \in Nat
      BY <1>1, <3>1
    <3> QED BY <3>2, <3>3, <3>4
  <2>8. Refilled(q, u - s, p) + issued <= Refilled(q, now - s, p)
    BY <2>1, <2>2
  <2> QED BY <1>1, <1>4, <2>1, <2>3, <2>5, <2>6, <2>7, <2>8 DEF q
<1>6. CASE s > u
  <2>1. s - 1 \in u..MaxTime
    BY <1>1, <1>6
  <2>2. outflow[c][s - 1] = outflow[c][u] /\ outflow[c][u] \in Nat
    BY <1>1, <1>3, <2>1
  <2>3. Refilled(q, now - s, p) \in Nat
    <3>1. now - s \in Nat
      BY <1>1
    <3> QED BY <1>1, <3>1, RefillIsNatural
  <2> QED BY <1>1, <1>2, <1>4, <2>2, <2>3 DEF q
<1> QED BY <1>1, <1>5, <1>6

(* What a step of one chain leaves alone.                                   *)
OthersRest(c) ==
  /\ UNCHANGED now
  /\ \A d \in Chains \ {c} :
       /\ tokenQuota'[d] = tokenQuota[d]
       /\ calls'[d] = calls[d]
       /\ outflow'[d] = outflow[d]

Releases(c, amount) ==
  \A t \in 0..MaxTime :
    outflow'[c][t] = IF t >= now THEN outflow[c][t] + amount ELSE outflow[c][t]

LEMMA OthersStayBounded ==
  ASSUME FInv, NEW c \in Chains, OthersRest(c), FlowIsBounded(c)'
  PROVE  FInv'
<1> SUFFICES ASSUME NEW d \in Chains, d # c
             PROVE  FlowIsBounded(d)'
  BY DEF FInv
<1> QED
  BY DEF FInv, FlowIsBounded, OthersRest, IsUnlimited, Owed

(* A handler that draws from the bucket releases, or owes, what it drew.    *)
LEMMA SpendStaysBounded ==
  ASSUME IInv, MInv, FInv, NEW c \in Chains, NEW drawn \in Nat, NEW released \in Nat,
         NotEntered(c), consumeQuota(c, drawn), OthersRest(c), Releases(c, released),
         Owed(c)' \in Nat, released + Owed(c)' <= drawn
  PROVE  FInv'
<1> SUFFICES ASSUME ~IsUnlimited(c)'
             PROVE  /\ tokenQuota'[c].updatedAt = now'
                    /\ \A t \in now..MaxTime : outflow'[c][t] = outflow'[c][now]
                    /\ \A s \in 1..now, period \in ShortestPeriods :
                         tokenQuota'[c].available + Owed(c)' + outflow'[c][now] - outflow'[c][s - 1]
                           <= tokenQuota'[c].quota + Refilled(tokenQuota'[c].quota, now - s, period)
  BY OthersStayBounded DEF FlowIsBounded, OthersRest
<1> DEFINE left == availableQuota(c) - drawn
<1>1. /\ ~IsUnlimited(c) /\ availableQuota(c) >= drawn
      /\ tokenQuota'[c].quota = tokenQuota[c].quota
      /\ tokenQuota'[c].updatedAt = now /\ tokenQuota'[c].available = left
  <2>1. CASE UNCHANGED tokenQuota /\ IsUnlimited(c)
    BY <2>1 DEF IsUnlimited
  <2>2. CASE /\ ~IsUnlimited(c) /\ availableQuota(c) >= drawn
             /\ tokenQuota' = [tokenQuota EXCEPT ![c].available = availableQuota(c) - drawn,
                                                 ![c].updatedAt = now]
    <3>1. tokenQuota' = [tokenQuota EXCEPT ![c] =
            [tokenQuota[c] EXCEPT !.available = left, !.updatedAt = now]]
      BY <2>2 DEF MInv, MoneyTyped
    <3>2. tokenQuota[c] \in Quota
      BY DEF MInv, MoneyTyped
    <3> HIDE DEF left
    <3>3. tokenQuota'[c] = [tokenQuota[c] EXCEPT !.available = left, !.updatedAt = now]
      BY <3>1 DEF MInv, MoneyTyped
    <3>4. /\ tokenQuota'[c].quota = tokenQuota[c].quota
          /\ tokenQuota'[c].updatedAt = now /\ tokenQuota'[c].available = left
      BY <3>2, <3>3 DEF Quota
    <3> QED BY <2>2, <3>4
  <2> QED BY <2>1, <2>2 DEF consumeQuota
<1>2. /\ now \in 1..MaxTime /\ MaxTime \in Nat /\ UNCHANGED now
      /\ \A t \in 0..MaxTime : outflow[c][t] \in Nat
      /\ availableQuota(c) \in Nat
  BY FlowTypes, Refill DEF OthersRest
<1>3. Owed(c) = 0 /\ FlowIsBounded(c)
  BY DEF Owed, NotEntered, FInv
<1>4. \A t \in now..MaxTime : outflow[c][t] = outflow[c][now]
  <2>1. tokenQuota[c].updatedAt \in 0..now
    BY FlowTypes
  <2>2. \A t \in tokenQuota[c].updatedAt..MaxTime : outflow[c][t] = outflow[c][tokenQuota[c].updatedAt]
    BY <1>1, <1>3 DEF FlowIsBounded
  <2> QED BY <1>2, <2>1, <2>2
<1>5. \A t \in now..MaxTime : outflow'[c][t] = outflow'[c][now]
  BY <1>2, <1>4 DEF Releases
<1>6. ASSUME NEW s \in 1..now, NEW period \in ShortestPeriods
      PROVE  tokenQuota'[c].available + Owed(c)' + outflow'[c][now] - outflow'[c][s - 1]
               <= tokenQuota'[c].quota + Refilled(tokenQuota'[c].quota, now - s, period)
  <2> DEFINE bound == tokenQuota[c].quota + Refilled(tokenQuota[c].quota, now - s, period)
  <2>1. availableQuota(c) + outflow[c][now] - outflow[c][s - 1] <= bound
    BY <1>1, <1>3, Drawable
  <2>2. bound \in Nat
    <3>1. now - s \in Nat /\ tokenQuota[c].quota \in Nat /\ period \in Nat \ {0}
      BY FlowTypes
    <3>2. Refilled(tokenQuota[c].quota, now - s, period) \in Nat
      BY <3>1, RefillIsNatural
    <3> QED BY <3>1, <3>2
  <2>3. tokenQuota'[c].quota + Refilled(tokenQuota'[c].quota, now - s, period) = bound
    BY <1>1
  <2> HIDE DEF bound
  <2>4. /\ outflow'[c][now] = outflow[c][now] + released
        /\ outflow'[c][s - 1] = outflow[c][s - 1]
        /\ outflow[c][now] \in Nat /\ outflow[c][s - 1] \in Nat
    <3>1. /\ now \in 0..MaxTime /\ now >= now
          /\ s - 1 \in 0..MaxTime /\ ~(s - 1 >= now)
      BY <1>2
    <3> QED BY <1>2, <3>1 DEF Releases
  <2>5. left + Owed(c)' + (outflow[c][now] + released) - outflow[c][s - 1] <= bound
    BY <1>2, <2>1, <2>2, <2>4
  <2> QED BY <1>1, <2>3, <2>4, <2>5
<1> QED BY <1>1, <1>2, <1>5, <1>6

(* A call that returns releases at most what its bridge owed.               *)
LEMMA ReturnStaysBounded ==
  ASSUME IInv, MInv, FInv, NEW c \in Chains, NEW released \in Nat,
         calls[c] # <<>>, calls'[c] = <<>>, UNCHANGED tokenQuota,
         OthersRest(c), Releases(c, released), released <= Owed(c)
  PROVE  FInv'
<1> SUFFICES ASSUME ~IsUnlimited(c)
             PROVE  /\ \A t \in now..MaxTime : outflow'[c][t] = outflow'[c][now]
                    /\ \A s \in 1..now, period \in ShortestPeriods :
                         tokenQuota[c].available + 0 + outflow'[c][now] - outflow'[c][s - 1]
                           <= tokenQuota[c].quota + Refilled(tokenQuota[c].quota, now - s, period)
  <2>1. ~IsUnlimited(c) => tokenQuota[c].updatedAt = now
    BY DEF FInv, FlowIsBounded
  <2>2. Owed(c)' = 0
    BY DEF Owed
  <2> QED BY <2>1, <2>2, OthersStayBounded DEF FlowIsBounded, OthersRest, IsUnlimited
<1>1. /\ now \in 1..MaxTime /\ MaxTime \in Nat
      /\ \A t \in 0..MaxTime : outflow[c][t] \in Nat
      /\ tokenQuota[c].available \in Nat /\ tokenQuota[c].quota \in Nat /\ Owed(c) \in Nat
  BY FlowTypes
<1>2. /\ tokenQuota[c].updatedAt = now
      /\ \A t \in now..MaxTime : outflow[c][t] = outflow[c][now]
      /\ \A s \in 1..now, period \in ShortestPeriods :
           tokenQuota[c].available + Owed(c) + outflow[c][now] - outflow[c][s - 1]
             <= tokenQuota[c].quota + Refilled(tokenQuota[c].quota, now - s, period)
  BY DEF FInv, FlowIsBounded
<1>3. \A t \in now..MaxTime : outflow'[c][t] = outflow'[c][now]
  <2> SUFFICES ASSUME NEW t \in now..MaxTime
               PROVE  outflow'[c][t] = outflow'[c][now]
    OBVIOUS
  <2>1. t \in 0..MaxTime /\ now \in 0..MaxTime /\ t >= now /\ now >= now
    BY <1>1
  <2>2. outflow[c][t] = outflow[c][now]
    BY <1>2
  <2> QED BY <2>1, <2>2 DEF Releases
<1>4. ASSUME NEW s \in 1..now, NEW period \in ShortestPeriods
      PROVE  tokenQuota[c].available + 0 + outflow'[c][now] - outflow'[c][s - 1]
               <= tokenQuota[c].quota + Refilled(tokenQuota[c].quota, now - s, period)
  <2> DEFINE refill == Refilled(tokenQuota[c].quota, now - s, period)
  <2>1. tokenQuota[c].available + Owed(c) + outflow[c][now] - outflow[c][s - 1]
          <= tokenQuota[c].quota + refill
    BY <1>2
  <2>2. refill \in Nat
    <3>1. now - s \in Nat /\ period \in Nat \ {0}
      BY FlowTypes
    <3> QED BY <1>1, <3>1, RefillIsNatural
  <2> HIDE DEF refill
  <2>3. /\ outflow'[c][now] = outflow[c][now] + released
        /\ outflow'[c][s - 1] = outflow[c][s - 1]
        /\ outflow[c][now] \in Nat /\ outflow[c][s - 1] \in Nat
    <3>1. /\ now \in 0..MaxTime /\ now >= now
          /\ s - 1 \in 0..MaxTime /\ ~(s - 1 >= now)
      BY <1>1
    <3> QED BY <1>1, <3>1 DEF Releases
  <2> DEFINE a == tokenQuota[c].available
             owed == Owed(c)
             bound == tokenQuota[c].quota + refill
             last == outflow[c][now]
             first == outflow[c][s - 1]
  <2>4. /\ a \in Nat /\ owed \in Nat /\ bound \in Nat /\ last \in Nat /\ first \in Nat
        /\ a + owed + last - first <= bound /\ released <= owed
    <3>1. a \in Nat /\ owed \in Nat /\ last \in Nat /\ first \in Nat
      BY <1>1, <2>3
    <3>2. bound \in Nat
      BY <1>1, <2>2
    <3>3. a + owed + last - first <= bound
      BY <2>1
    <3> QED BY <3>1, <3>2, <3>3
  <2>5. a + 0 + (last + released) - first <= bound
    <3> HIDE DEF a, owed, bound, last, first
    <3> QED BY <2>4
  <2> QED BY <2>3, <2>5 DEF refill
<1> QED BY <1>3, <1>4

-----------------------------------------------------------------------------
(* The handlers, and what flows out by them *)

LEMMA ReleaseFacts ==
  ASSUME MInv, NEW c \in Chains, NEW amount \in Nat, Release(c, amount)
  PROVE  /\ Releases(c, amount)
         /\ \A d \in Chains \ {c} : outflow'[d] = outflow[d]
BY DEF Release, Releases, MInv, MoneyTyped

LEMMA NothingReleased ==
  ASSUME MInv, NEW c \in Chains, UNCHANGED outflow
  PROVE  /\ Releases(c, 0)
         /\ \A d \in Chains \ {c} : outflow'[d] = outflow[d]
<1>1. \A t \in 0..MaxTime : outflow[c][t] \in Nat
  BY DEF MInv, MoneyTyped
<1> QED BY <1>1 DEF Releases

LEMMA DrawFacts ==
  ASSUME MInv, NEW c \in Chains, NEW amount, consumeQuota(c, amount)
  PROVE  \A d \in Chains \ {c} : tokenQuota'[d] = tokenQuota[d]
BY DEF consumeQuota, MInv, MoneyTyped

(* A call opened on a message owes its value, and its fee when it is made   *)
(* for the first time.                                                      *)
LEMMA EnterFacts ==
  ASSUME IInv, NEW c \in Chains, NEW m \in Message, NEW retry \in BOOLEAN, NEW last,
         NotEntered(c), Enter(c, m, retry, last)
  PROVE  /\ \A d \in Chains \ {c} : calls'[d] = calls[d]
         /\ Owed(c)' = m.body.value + IF retry THEN 0 ELSE m.body.fee
         /\ UNCHANGED <<now, outflow>>
<1> DEFINE call == [msg |-> m, retry |-> retry, last |-> last]
<1>1. call.msg = m /\ call.retry = retry
  OBVIOUS
<1>2. calls' = [calls EXCEPT ![c] = Append(@, call)] /\ calls[c] = <<>>
  BY DEF Enter, NotEntered
<1> HIDE DEF call
<1>3. calls'[c] = <<call>> /\ \A d \in Chains \ {c} : calls'[d] = calls[d]
  <2>1. Append(<<>>, call) = <<call>>
    OBVIOUS
  <2> QED BY <1>2, <2>1 DEF IInv, Typed
<1>4. calls'[c] # <<>> /\ calls'[c][1] = call
  BY <1>3
<1>5. Owed(c)' = m.body.value + IF retry THEN 0 ELSE m.body.fee
  BY <1>1, <1>4 DEF Owed
<1> QED BY <1>3, <1>5 DEF Enter

(* A message settled at once releases at most what was drawn for it.        *)
LEMMA SettledAtOnce ==
  ASSUME IInv, MInv, FInv, NEW c \in Chains, NEW drawn \in Nat,
         NotEntered(c), consumeQuota(c, drawn), UNCHANGED <<now, calls>>,
         Release(c, drawn) \/ UNCHANGED outflow
  PROVE  FInv'
<1>1. Owed(c)' = 0
  BY DEF Owed, NotEntered
<1>2. /\ UNCHANGED now
      /\ \A d \in Chains \ {c} : calls'[d] = calls[d] /\ tokenQuota'[d] = tokenQuota[d]
  BY DrawFacts
<1>3. CASE Release(c, drawn)
  <2>1. Releases(c, drawn) /\ OthersRest(c)
    BY <1>2, <1>3, ReleaseFacts DEF OthersRest
  <2>2. Owed(c)' \in Nat /\ drawn + Owed(c)' <= drawn
    BY <1>1
  <2> QED BY <2>1, <2>2, SpendStaysBounded
<1>4. CASE UNCHANGED outflow
  <2>1. Releases(c, 0) /\ OthersRest(c)
    BY <1>2, <1>4, NothingReleased DEF OthersRest
  <2>2. Owed(c)' \in Nat /\ 0 + Owed(c)' <= drawn /\ 0 \in Nat
    BY <1>1
  <2> QED BY <2>1, <2>2, SpendStaysBounded
<1> QED BY <1>3, <1>4

(* A call is opened after all that it may release has been drawn.           *)
LEMMA CalledAfterDrawing ==
  ASSUME IInv, MInv, FInv, NEW c \in Chains, NEW m \in Message, NEW retry \in BOOLEAN, NEW last,
         NotEntered(c), Enter(c, m, retry, last),
         consumeQuota(c, m.body.value + IF retry THEN 0 ELSE m.body.fee)
  PROVE  FInv'
<1> DEFINE drawn == m.body.value + IF retry THEN 0 ELSE m.body.fee
<1>1. drawn \in Nat
  BY Amounts
<1>2. /\ \A d \in Chains \ {c} : calls'[d] = calls[d]
      /\ Owed(c)' = drawn
      /\ UNCHANGED <<now, outflow>>
  BY EnterFacts
<1> HIDE DEF drawn
<1>3. consumeQuota(c, drawn)
  BY DEF drawn
<1>4. Releases(c, 0) /\ OthersRest(c)
  BY <1>2, <1>3, DrawFacts, NothingReleased DEF OthersRest
<1>5. Owed(c)' \in Nat /\ 0 + Owed(c)' <= drawn /\ 0 \in Nat
  BY <1>1, <1>2
<1> QED BY <1>1, <1>3, <1>4, <1>5, SpendStaysBounded

LEMMA FinishStaysBounded ==
  ASSUME IInv, MInv, FInv, NEW c \in Chains, NEW succeeded \in BOOLEAN,
         finishProcessMessage(c, succeeded) \/ finishRetryMessage(c, succeeded)
  PROVE  FInv'
<1> DEFINE m == InnerCall(c).msg
           value == m.body.value
           fee == m.body.fee
<1>1. calls[c] # <<>> /\ Leave(c) /\ UNCHANGED <<now, tokenQuota>>
  BY DEF finishProcessMessage, finishRetryMessage, quotaVars
<1>2. /\ CallsAfter(c) /\ InnerCall(c) = calls[c][1] /\ m \in Message
  BY <1>1, OneCall DEF Call
<1>3. value \in Nat /\ fee \in Nat
  BY <1>2, Amounts
<1>4. calls'[c] = <<>> /\ \A d \in Chains \ {c} : calls'[d] = calls[d]
  BY <1>2 DEF CallsAfter, IInv, Typed
<1>5. Owed(c) = value + IF InnerCall(c).retry THEN 0 ELSE fee
  BY <1>1, <1>2 DEF Owed
<1>6. \E released \in Nat : /\ released <= Owed(c)
                            /\ Release(c, released) \/ (released = 0 /\ UNCHANGED outflow)
  <2>1. CASE finishProcessMessage(c, succeeded)
    <3>1. ~InnerCall(c).retry /\ Release(c, IF succeeded THEN value + fee ELSE fee)
      BY <2>1 DEF finishProcessMessage
    <3> HIDE DEF value, fee
    <3>2. (IF succeeded THEN value + fee ELSE fee) \in Nat
      BY <1>3
    <3>3. (IF succeeded THEN value + fee ELSE fee) <= Owed(c)
      BY <1>3, <1>5, <3>1
    <3> QED BY <3>1, <3>2, <3>3
  <2>2. CASE finishRetryMessage(c, succeeded)
    <3>1. InnerCall(c).retry /\ (Release(c, value) \/ UNCHANGED outflow)
      BY <2>2 DEF finishRetryMessage, EndRetry, Fail
    <3> HIDE DEF value, fee
    <3>2. value <= Owed(c) /\ 0 <= Owed(c) /\ 0 \in Nat
      BY <1>3, <1>5, <3>1
    <3> QED BY <1>3, <3>1, <3>2
  <2> QED BY <2>1, <2>2
<1>7. PICK released \in Nat : /\ released <= Owed(c)
                              /\ Release(c, released) \/ (released = 0 /\ UNCHANGED outflow)
  BY <1>6
<1>8. Releases(c, released) /\ OthersRest(c)
  BY <1>1, <1>4, <1>7, ReleaseFacts, NothingReleased DEF OthersRest
<1> QED BY <1>1, <1>4, <1>7, <1>8, ReturnStaysBounded

LEMMA BridgeStepStaysBounded ==
  ASSUME IInv, MInv, FInv, NEW c \in Chains, BridgeStep(c)
  PROVE  FInv'
<1>0. \A m \in Sent \cup Heard(c) : m \in Message
  BY SentMessages DEF IInv
<1>1. ASSUME NEW m \in Message, recallMessage(c, m)
      PROVE  FInv'
  BY <1>1, Amounts, SettledAtOnce DEF recallMessage
<1>2. ASSUME NEW m \in Message, failMessage(c, m)
      PROVE  FInv'
  <2>1. UNCHANGED tokenQuota /\ UNCHANGED now /\ UNCHANGED calls /\ UNCHANGED outflow
    BY <1>2 DEF failMessage, Fail, quotaVars
  <2> QED BY <2>1 DEF FInv, FlowIsBounded, IsUnlimited, Owed
<1>3. ASSUME NEW m \in Message, NEW byOwner, NEW isContract,
             processMessage(c, m, byOwner, isContract)
      PROVE  FInv'
  <2>1. NotEntered(c) /\ consumeQuota(c, m.body.value + m.body.fee)
    BY <1>3 DEF processMessage
  <2>2. CASE UnableToInvoke(m, isContract) \/ NothingToInvoke(m)
    <3>1. Release(c, m.body.value + m.body.fee) /\ UNCHANGED <<now, calls>>
      BY <1>3, <2>2 DEF processMessage
    <3> QED BY <2>1, <3>1, Amounts, SettledAtOnce
  <2>3. CASE ~(UnableToInvoke(m, isContract) \/ NothingToInvoke(m))
    <3>1. Enter(c, m, FALSE, FALSE)
      BY <1>3, <2>3 DEF processMessage
    <3> QED BY <2>1, <3>1, CalledAfterDrawing
  <2> QED BY <2>2, <2>3
<1>4. ASSUME NEW m \in Message, NEW byOwner, NEW last, NEW isContract,
             retryMessage(c, m, byOwner, last, isContract)
      PROVE  FInv'
  <2>1. NotEntered(c) /\ consumeQuota(c, m.body.value) /\ m.body.value \in Nat
    BY <1>4, Amounts DEF retryMessage
  <2>2. CASE Enter(c, m, TRUE, last)
    <3>1. m.body.value + 0 = m.body.value
      BY <2>1
    <3> QED BY <2>1, <2>2, <3>1, CalledAfterDrawing
  <2>3. CASE ~Enter(c, m, TRUE, last)
    <3>1. PICK succeeded \in BOOLEAN : EndRetry(c, m, succeeded, last)
      BY <1>4, <2>3 DEF retryMessage
    <3>2. UNCHANGED <<now, calls>>
      BY <1>4, <2>3 DEF retryMessage
    <3>3. Release(c, m.body.value) \/ UNCHANGED outflow
      BY <3>1 DEF EndRetry, Fail
    <3> QED BY <2>1, <3>2, <3>3, SettledAtOnce
  <2> QED BY <2>2, <2>3
<1>5. ASSUME NEW succeeded \in BOOLEAN,
             finishProcessMessage(c, succeeded) \/ finishRetryMessage(c, succeeded)
      PROVE  FInv'
  BY <1>5, FinishStaysBounded
<1> QED BY <1>0, <1>1, <1>2, <1>3, <1>4, <1>5 DEF BridgeStep

LEMMA NextStaysBounded == IInv /\ MInv /\ FInv /\ [Next]_vars => FInv'
<1> SUFFICES ASSUME IInv, MInv, FInv, [Next]_vars PROVE FInv'
  OBVIOUS
<1>1. ASSUME UNCHANGED tokenQuota, UNCHANGED calls, UNCHANGED outflow,
             UNCHANGED now \/ \A c \in Chains : calls[c] = <<>>
      PROVE  FInv'
  BY <1>1 DEF FInv, FlowIsBounded, IsUnlimited, Owed
<1>2. ASSUME NEW m \in Message, sendMessage(m.srcChainId, m)
      PROVE  FInv'
  BY <1>1, <1>2 DEF sendMessage, quotaVars
<1>3. ASSUME NEW c \in Chains, BridgeStep(c)
      PROVE  FInv'
  BY <1>3, BridgeStepStaysBounded
<1>4. ASSUME NEW c \in Chains, NEW d \in Chains, syncChainData(c, d)
      PROVE  FInv'
  BY <1>1, <1>4 DEF syncChainData, quotaVars
<1>5. ASSUME NEW c \in Chains, NEW quota \in Quotas, setQuota(c, quota)
      PROVE  FInv'
  <2>1. /\ tokenQuota'[c].updatedAt = 0 /\ calls'[c] = <<>>
        /\ \A t \in 0..MaxTime : outflow'[c][t] = 0
        /\ OthersRest(c)
    BY <1>5 DEF setQuota, updateQuota, OthersRest, MInv, MoneyTyped
  <2>2. MaxTime \in Nat
    BY QuotaAssumption
  <2>3. FlowIsBounded(c)'
    BY <2>1, <2>2 DEF FlowIsBounded
  <2> QED BY <2>1, <2>3, OthersStayBounded
<1>6. ASSUME NEW c \in Chains, NEW period \in QuotaPeriods, setPeriod(c, period)
      PROVE  FInv'
  BY <1>1, <1>6 DEF setPeriod, setQuotaPeriod, bridgeVars
<1>7. ASSUME Tick \/ UNCHANGED vars
      PROVE  FInv'
  BY <1>1, <1>7 DEF Tick, vars, quotaVars, bridgeVars
<1> QED
  BY <1>2, <1>3, <1>4, <1>5, <1>6, <1>7 DEF Next

(* Over any stretch of time a bridge releases at most its quota and what    *)
(* the quota refills meanwhile, for any quotas and periods, any amounts, and*)
(* however calls, failures, retries, recalls and changes of the period mix. *)
THEOREM OutflowSafe == Spec => []OutflowWithinQuota
<1>1. IInv /\ MInv /\ FInv => OutflowWithinQuota
  <2> SUFFICES ASSUME IInv, MInv, FInv,
                      NEW c \in Chains, NEW s \in 1..now, NEW period \in ShortestPeriods,
                      ~IsUnlimited(c)
               PROVE  outflow[c][now] - outflow[c][s - 1]
                        <= tokenQuota[c].quota + Refilled(tokenQuota[c].quota, now - s, period)
    BY DEF OutflowWithinQuota, Refilled
  <2> DEFINE bound == tokenQuota[c].quota + Refilled(tokenQuota[c].quota, now - s, period)
             u == tokenQuota[c].updatedAt
  <2>1. /\ now \in 1..MaxTime /\ MaxTime \in Nat /\ u \in 0..now
        /\ \A t \in 0..MaxTime : outflow[c][t] \in Nat
        /\ tokenQuota[c].quota \in Nat /\ tokenQuota[c].available \in Nat /\ Owed(c) \in Nat
        /\ period \in Nat \ {0}
    BY FlowTypes
  <2>2. /\ \A t \in u..MaxTime : outflow[c][t] = outflow[c][u]
        /\ s \in 1..u =>
             tokenQuota[c].available + Owed(c) + outflow[c][u] - outflow[c][s - 1]
               <= tokenQuota[c].quota + Refilled(tokenQuota[c].quota, u - s, period)
    BY DEF FInv, FlowIsBounded
  <2>3. bound \in Nat
    <3>1. now - s \in Nat
      BY <2>1
    <3>2. Refilled(tokenQuota[c].quota, now - s, period) \in Nat
      BY <2>1, <3>1, RefillIsNatural
    <3> QED BY <2>1, <3>2
  <2> HIDE DEF u
  <2>4. outflow[c][now] = outflow[c][u] /\ outflow[c][u] \in Nat /\ outflow[c][s - 1] \in Nat
    BY <2>1, <2>2
  <2>5. CASE s <= u
    <3>1. /\ u - s \in Nat /\ now - u \in Nat /\ (u - s) + (now - u) = now - s
          /\ s \in 1..u /\ period <= period
      BY <2>1, <2>5
    <3> DEFINE early == Refilled(tokenQuota[c].quota, u - s, period)
               late == Refilled(tokenQuota[c].quota, now - u, period)
               all == Refilled(tokenQuota[c].quota, now - s, period)
    <3>2. early \in Nat /\ late \in Nat /\ all \in Nat /\ early + late <= all
      <4>1. late \in Nat /\ early \in Nat
        BY <2>1, <3>1, RefillIsNatural
      <4>2. now - s \in Nat
        BY <2>1
      <4>3. all \in Nat
        BY <2>1, <4>2, RefillIsNatural
      <4>4. early + late <= Refilled(tokenQuota[c].quota, (u - s) + (now - u), period)
        BY <2>1, <3>1, RefillsAdd
      <4> QED BY <3>1, <4>1, <4>3, <4>4
    <3>3. tokenQuota[c].available + Owed(c) + outflow[c][u] - outflow[c][s - 1]
            <= tokenQuota[c].quota + early
      BY <2>2, <3>1
    <3>4. bound = tokenQuota[c].quota + all
      OBVIOUS
    <3> HIDE DEF early, late, all, bound
    <3>5. outflow[c][u] - outflow[c][s - 1] <= bound
      BY <2>1, <2>4, <3>2, <3>3, <3>4
    <3> QED BY <2>4, <3>5 DEF bound
  <2>6. CASE s > u
    <3>1. s - 1 \in u..MaxTime
      BY <2>1, <2>6
    <3>2. outflow[c][s - 1] = outflow[c][u]
      BY <2>2, <3>1
    <3> HIDE DEF bound
    <3>3. outflow[c][now] - outflow[c][s - 1] <= bound
      BY <2>3, <2>4, <3>2
    <3> QED BY <3>3 DEF bound
  <2> QED BY <2>1, <2>5, <2>6
<1>2. Init => FInv
  BY DEF Init, QuotaInit, FInv, FlowIsBounded, IsUnlimited
<1> QED
  BY <1>1, <1>2, InitMoney, NextMoney, NextStaysBounded, Consistent, PTL DEF Spec

-----------------------------------------------------------------------------
(* All bridges together *)

(* Claim, over every message there may be.                                  *)
Claims == [m \in Message |-> Claim(m)]

CInv ==
  /\ IsFiniteSet(Pending)
  /\ SumFunctionOnSet(ether, Chains)
       = SumFunctionOnSet(Premint, Chains) + SumFunctionOnSet(Claims, Pending)

(* A claim is an amount, and only pending messages that were sent have one. *)
LEMMA ClaimTypes ==
  ASSUME IInv
  PROVE  /\ Pending \subseteq Message
         /\ \A m \in Message : Claims[m] = Claim(m) /\ Claims[m] \in Nat
<1>1. Pending \subseteq Message
  BY SentMessages DEF IInv, Pending
<1>2. ASSUME NEW m \in Message PROVE Claim(m) \in Nat
  BY Amounts DEF Claim
<1> QED BY <1>1, <1>2 DEF Claims

(* The sums of an invariant state are integers.                             *)
LEMMA SumTypes ==
  ASSUME IInv, MInv, CInv
  PROVE  /\ SumFunctionOnSet(ether, Chains) \in Int
         /\ SumFunctionOnSet(Premint, Chains) \in Int
         /\ SumFunctionOnSet(Claims, Pending) \in Int
<1>1. /\ IsFiniteSet(Chains) /\ \A c \in Chains : ether[c] \in Nat /\ Premint[c] \in Nat
  BY BridgeAssumption DEF MInv, MoneyTyped
<1>2. IsFiniteSet(Pending) /\ \A m \in Pending : Claims[m] \in Nat
  BY ClaimTypes DEF CInv
<1>3. SumFunctionOnSet(ether, Chains) \in Nat /\ SumFunctionOnSet(Premint, Chains) \in Nat
  BY <1>1, SumNat
<1>4. SumFunctionOnSet(Claims, Pending) \in Nat
  BY <1>2, SumNat
<1> QED BY <1>3, <1>4

(* Ether that one bridge gains or loses changes the sum by as much.         *)
LEMMA BridgeGains ==
  ASSUME MInv, MInv', NEW c \in Chains, NEW amount \in Int,
         \A d \in Chains : ether'[d] = IF d = c THEN ether[c] + amount ELSE ether[d]
  PROVE  SumFunctionOnSet(ether', Chains) = SumFunctionOnSet(ether, Chains) + amount
<1>1. /\ IsFiniteSet(Chains)
      /\ \A d \in Chains : ether[d] \in Int /\ ether'[d] \in Int
      /\ \A d \in Chains \ {c} : ether'[d] = ether[d]
      /\ ether'[c] = ether[c] + amount
  BY BridgeAssumption DEF MInv, MoneyTyped
<1>2. Updates(ether, ether', Chains, c)
  BY <1>1 DEF Updates
<1>3. SumFunctionOnSet(ether', Chains) = SumFunctionOnSet(ether, Chains) + ether'[c] - ether[c]
  BY <1>2, SumUpdate
<1>4. SumFunctionOnSet(ether, Chains) \in Int
  BY <1>1, SumInt
<1> QED BY <1>1, <1>3, <1>4

(* A bridge that writes a status pays what the message can claim less.      *)
LEMMA ChangeConserves ==
  ASSUME IInv, IInv', MInv, MInv', CInv, NEW c, NEW m, NEW status, Changes(c, m, status)
  PROVE  CInv'
<1> DEFINE due == Due(c, m, status)
           old == SumFunctionOnSet(Claims, Pending)
<1>1. /\ c \in Chains /\ m \in Message /\ status \in Status \ {"NEW"}
      /\ Pays(c, due) /\ UpdateMessageStatus(c, m, status)
  BY DEF Changes, Status
<1>2. m.body.value \in Nat /\ m.body.fee \in Nat /\ m.body.value + m.body.fee \in Nat
  BY <1>1, Amounts
<1>3. due \in Nat
  BY <1>2 DEF Due
<1>4. /\ StatusOf(c, m)' = status
      /\ \A d \in Chains, x \in Message :
           d # c \/ x # m => StatusOf(d, x)' = StatusOf(d, x)
  BY <1>1, StatusUpdate DEF IInv
<1>5. \A x \in Message \ {m} : Claims'[x] = Claims[x]
  <2> SUFFICES ASSUME NEW x \in Message \ {m} PROVE Claims'[x] = Claims[x]
    OBVIOUS
  <2>1. StatusOf(x.destChainId, x)' = StatusOf(x.destChainId, x)
    BY <1>4 DEF Message
  <2> QED BY <2>1 DEF Claims, Claim
<1>6. /\ m \in Pending
      /\ \/ status \in {"DONE", "RECALLED"} /\ Pending' = Pending \ {m}
         \/ status \in {"RETRIABLE", "FAILED"} /\ Pending' = Pending
  BY ChangeSettles
<1>7. /\ IsFiniteSet(Pending) /\ IsFiniteSet(Pending \ {m})
      /\ \A x \in Pending : x \in Message /\ Claims[x] \in Nat /\ Claims'[x] \in Nat
  <2>1. \A x \in Message : Claims'[x] \in Nat
    BY Amounts DEF Claims, Claim
  <2> QED BY <2>1, ClaimTypes, FS_RemoveElement DEF CInv
<1>8. Claims[m] = m.body.value + IF StatusOf(m.destChainId, m) = "NEW" THEN m.body.fee ELSE 0
  BY <1>1 DEF Claims, Claim
<1>9. SumFunctionOnSet(Claims', Pending') = old - due
  <2>1. CASE status \in {"DONE", "RECALLED"}
    <3>1. due = Claims[m]
      BY <1>2, <1>8, <2>1 DEF Due, Changes
    <3>2. SumFunctionOnSet(Claims, Pending \ {m}) = old - Claims[m]
      <4>1. \A x \in Pending : Claims[x] \in Int
        BY <1>7
      <4>2. old = Claims[m] + SumFunctionOnSet(Claims, Pending \ {m})
        BY <1>6, <1>7, <4>1, SumRemove
      <4>3. SumFunctionOnSet(Claims, Pending \ {m}) \in Int
        BY <1>7, <4>1, SumInt
      <4>4. Claims[m] \in Int
        BY <1>6, <4>1
      <4> HIDE DEF old
      <4> QED BY <4>2, <4>3, <4>4
    <3>3. \A x \in Pending \ {m} : Claims[x] \in Int /\ Claims'[x] = Claims[x]
      BY <1>5, <1>7
    <3>4. SumFunctionOnSet(Claims', Pending \ {m}) = SumFunctionOnSet(Claims, Pending \ {m})
      BY <1>7, <3>3, SumCongruent
    <3> QED BY <1>6, <2>1, <3>1, <3>2, <3>4
  <2>2. CASE status \in {"RETRIABLE", "FAILED"}
    <3>1. c = m.destChainId
      BY <2>2 DEF Changes
    <3>2. Claims'[m] = m.body.value
      BY <1>1, <1>2, <1>4, <2>2, <3>1 DEF Claims, Claim
    <3>3. Claims'[m] - Claims[m] = -due
      BY <1>2, <1>8, <2>2, <3>1, <3>2 DEF Due, Changes
    <3>4. Updates(Claims, Claims', Pending, m)
      <4>1. \A x \in Pending : Claims[x] \in Int /\ Claims'[x] \in Int
        BY <1>6, <1>7, <2>2
      <4>2. \A x \in Pending \ {m} : Claims'[x] = Claims[x]
        BY <1>5, <1>7
      <4> QED BY <1>6, <1>7, <4>1, <4>2 DEF Updates
    <3>5. SumFunctionOnSet(Claims', Pending) = old + Claims'[m] - Claims[m]
      BY <3>4, SumUpdate
    <3>6. old \in Int
      BY SumTypes
    <3>7. Claims'[m] \in Int /\ Claims[m] \in Int
      BY <1>2, <1>6, <1>7, <3>2
    <3>8. Pending' = Pending
      BY <1>6, <2>2
    <3> HIDE DEF due, old
    <3> QED BY <1>3, <3>3, <3>5, <3>6, <3>7, <3>8
  <2> QED BY <1>6, <2>1, <2>2
<1>10. SumFunctionOnSet(ether', Chains) = SumFunctionOnSet(ether, Chains) - due
  <2> HIDE DEF due
  <2>1. CASE due = 0 /\ UNCHANGED ether
    BY <2>1, SumTypes
  <2>2. CASE ether' = [ether EXCEPT ![c] = @ - due]
    <3>1. /\ -due \in Int
          /\ \A d \in Chains : ether'[d] = IF d = c THEN ether[c] + (-due) ELSE ether[d]
      BY <1>1, <1>3, <2>2 DEF MInv, MoneyTyped
    <3>2. SumFunctionOnSet(ether', Chains) = SumFunctionOnSet(ether, Chains) + (-due)
      BY <1>1, <3>1, BridgeGains
    <3> QED BY <1>3, <3>2, SumTypes
  <2> QED BY <1>1, <2>1, <2>2 DEF Pays
<1>11. IsFiniteSet(Pending')
  BY <1>6, <1>7
<1>12. /\ SumFunctionOnSet(ether, Chains) = SumFunctionOnSet(Premint, Chains) + old
       /\ SumFunctionOnSet(Premint, Chains) \in Int /\ old \in Int
  BY SumTypes DEF CInv
<1> HIDE DEF due, old
<1>13. SumFunctionOnSet(ether', Chains)
         = SumFunctionOnSet(Premint, Chains) + SumFunctionOnSet(Claims', Pending')
  BY <1>3, <1>9, <1>10, <1>12
<1> QED BY <1>11, <1>13 DEF CInv

(* A sent message claims what its sender locked.                            *)
LEMMA SendConserves ==
  ASSUME IInv, IInv', MInv, MInv', CInv, NEW m \in Message, sendMessage(m.srcChainId, m)
  PROVE  CInv'
<1> DEFINE c == m.srcChainId
           amount == m.body.value + m.body.fee
           old == SumFunctionOnSet(Claims, Pending)
<1>1. c \in Chains /\ m.body.value \in Nat /\ m.body.fee \in Nat /\ amount \in Nat
  BY Amounts DEF Message
<1>2. /\ UNCHANGED messageStatus
      /\ ether' = [ether EXCEPT ![c] = @ + m.body.value + m.body.fee]
  BY DEF sendMessage
<1>3. ~WasSent(m) /\ Pending' = Pending \cup {m} /\ m \notin Pending
  <2>1. /\ m \notin Sent /\ Sent' = Sent \cup {m}
        /\ UNCHANGED <<Delivered, Recalled>>
    BY SendStep
  <2>2. ~WasSent(m)
    BY <2>1, SentAtSource DEF IInv
  <2>3. \A d \in Chains : StatusOf(d, m) = "NEW"
    BY <2>2 DEF IInv, StatusSound
  <2>4. m \notin Delivered /\ m \notin Recalled
    BY <2>3, Settled DEF IInv
  <2> QED BY <2>1, <2>2, <2>4 DEF Pending
<1>4. Claims' = Claims
  BY <1>2 DEF Claims, Claim, StatusOf
<1>5. Claims[m] = amount
  <2>1. m.destChainId \in Chains
    BY DEF Message
  <2>2. StatusOf(m.destChainId, m) = "NEW"
    BY <1>3, <2>1 DEF IInv, StatusSound
  <2> QED BY <2>2 DEF Claims, Claim
<1>6. SumFunctionOnSet(ether', Chains) = SumFunctionOnSet(ether, Chains) + amount
  <2>1. \A d \in Chains : ether'[d] = IF d = c THEN ether[c] + amount ELSE ether[d]
    BY <1>1, <1>2 DEF MInv, MoneyTyped
  <2>2. amount \in Int
    BY <1>1
  <2> HIDE DEF c, amount
  <2> QED BY <1>1, <2>1, <2>2, BridgeGains
<1>7. /\ IsFiniteSet(Pending) /\ Pending \subseteq Message
      /\ \A x \in Message : Claims[x] \in Int
  BY ClaimTypes DEF CInv
<1>8. IsFiniteSet(Pending \cup {m})
  BY <1>7, FS_AddElement
<1>9. SumFunctionOnSet(Claims, Pending \cup {m}) = Claims[m] + old
  <2>1. \A x \in Pending \cup {m} : Claims[x] \in Int
    BY <1>7
  <2> QED BY <1>3, <1>7, <2>1, SumInsert
<1>10. /\ SumFunctionOnSet(ether, Chains) = SumFunctionOnSet(Premint, Chains) + old
       /\ SumFunctionOnSet(Premint, Chains) \in Int /\ old \in Int
  BY SumTypes DEF CInv
<1>11. SumFunctionOnSet(Claims', Pending') = amount + old
  BY <1>3, <1>4, <1>5, <1>9
<1> HIDE DEF amount, old
<1>12. SumFunctionOnSet(ether', Chains)
         = SumFunctionOnSet(Premint, Chains) + SumFunctionOnSet(Claims', Pending')
  BY <1>1, <1>6, <1>10, <1>11
<1> QED BY <1>3, <1>8, <1>12 DEF CInv

(* A step that moves no Ether and writes no status conserves the sum.       *)
LEMMA RestConserves ==
  ASSUME CInv, UNCHANGED <<messageStatus, signals, ether>>
  PROVE  CInv'
<1>1. Pending' = Pending
  BY Unseen
<1>2. Claims' = Claims
  BY DEF Claims, Claim, StatusOf
<1> QED BY <1>1, <1>2 DEF CInv

LEMMA InitConserves == Init => CInv
<1> SUFFICES ASSUME Init PROVE CInv
  OBVIOUS
<1>1. Pending = {} /\ ether = Premint
  BY InitInv DEF Init
<1>2. SumFunctionOnSet(Claims, {}) = 0
  BY SumEmpty
<1>3. SumFunctionOnSet(Premint, Chains) \in Nat
  <2>1. IsFiniteSet(Chains) /\ \A c \in Chains : Premint[c] \in Nat
    BY BridgeAssumption
  <2> QED BY <2>1, SumNat
<1>4. IsFiniteSet({})
  BY FS_EmptySet
<1> QED BY <1>1, <1>2, <1>3, <1>4 DEF CInv

LEMMA NextConserves == IInv /\ IInv' /\ MInv /\ MInv' /\ CInv /\ [Next]_vars => CInv'
<1> SUFFICES ASSUME IInv, IInv', MInv, MInv', CInv, [Next]_vars PROVE CInv'
  OBVIOUS
<1>1. CASE \E m \in Message : sendMessage(m.srcChainId, m)
  BY <1>1, SendConserves
<1>2. ASSUME NEW c \in Chains, BridgeStep(c)
      PROVE  CInv'
  <2>1. CASE \E m, status : Changes(c, m, status) /\ CallsAfter(c)
    BY <2>1, ChangeConserves
  <2>2. CASE \E m, retry, last : Opens(c, m, retry, last)
    <3>1. UNCHANGED <<messageStatus, signals, ether>>
      BY <2>2 DEF Opens, Enter
    <3> QED BY <3>1, RestConserves
  <2> QED BY <1>2, <2>1, <2>2, BridgeStepKinds
<1>3. CASE \E c, d \in Chains : syncChainData(c, d)
  <2>1. UNCHANGED <<messageStatus, signals, ether>>
    BY <1>3 DEF syncChainData
  <2> QED BY <2>1, RestConserves
<1>4. CASE \/ \E c \in Chains, quota \in Quotas : setQuota(c, quota)
           \/ \E c \in Chains, period \in QuotaPeriods : setPeriod(c, period)
  <2>1. UNCHANGED <<messageStatus, signals, ether>>
    BY <1>4 DEF setQuota, setPeriod, bridgeVars
  <2> QED BY <2>1, RestConserves
<1>5. CASE Tick \/ UNCHANGED vars
  <2>1. UNCHANGED <<messageStatus, signals, ether>>
    BY <1>5 DEF Tick, vars, bridgeVars
  <2> QED BY <2>1, RestConserves
<1> QED BY <1>1, <1>2, <1>3, <1>4, <1>5 DEF Next

(* The bridges of all chains together hold, beyond the Ether minted into    *)
(* them, exactly what the pending messages can still claim: no interplay of *)
(* processing, retries, callbacks, failures and recalls, on any number of   *)
(* chains, pays a message twice or loses its Ether.                         *)
THEOREM EtherSafe == Spec => []EtherConserved
<1>1. IInv /\ MInv /\ CInv => EtherConserved
  <2> SUFFICES ASSUME IInv, MInv, CInv PROVE EtherConserved
    OBVIOUS
  <2> DEFINE claims == [m \in Pending |-> Claim(m)]
  <2>1. SumFunction(ether) = SumFunctionOnSet(ether, Chains)
    BY DEF SumFunction, MInv, MoneyTyped
  <2>2. SumFunction(Premint) = SumFunctionOnSet(Premint, Chains)
    BY BridgeAssumption DEF SumFunction
  <2>3. SumFunction(claims) = SumFunctionOnSet(claims, Pending)
    <3>1. DOMAIN claims = Pending
      OBVIOUS
    <3> HIDE DEF claims
    <3> QED BY <3>1 DEF SumFunction
  <2>4. \A m \in Pending : Claims[m] \in Int /\ claims[m] = Claims[m]
    BY ClaimTypes
  <2> HIDE DEF claims
  <2>5. SumFunctionOnSet(claims, Pending) = SumFunctionOnSet(Claims, Pending)
    BY <2>4, SumCongruent DEF CInv
  <2> QED BY <2>1, <2>2, <2>3, <2>5 DEF EtherConserved, CInv, claims
<1> QED
  BY <1>1, InitConserves, NextConserves, InitMoney, NextMoney, Consistent, PTL DEF Spec
=============================================================================
