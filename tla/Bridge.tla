------------------------------- MODULE Bridge -------------------------------
(***************************************************************************)
(* The Bridge contracts of several chains, with the SignalService through  *)
(* which one chain learns the signals of another and the QuotaManager that *)
(* limits the Ether a bridge releases.  A message locks its value and fee  *)
(* on its source; its destination makes its call, or fails it and lets the *)
(* source return the value.                                                *)
(*                                                                         *)
(* A message stands for its hash.  A call out of processMessage and        *)
(* retryMessage hands control to the callee, so each of the two is a step  *)
(* up to the call and a step after it; the other handlers, and the mere    *)
(* Ether transfers, are one step.  A transaction that reverts is no step.  *)
(***************************************************************************)
EXTENDS QuotaManager, FiniteSets, Functions, Sequences

CONSTANTS
  Links,         \* <<c, d>>: chain c is given the state roots of chain d
  Bodies,        \* what senders choose of a message besides its destination
  Supply,        \* all the Ether of a chain
  Premint        \* the Ether in the bridge of a chain at genesis

CONSTANT MaxMessages  \* bound of the model: messages sent from each chain

(* The address and calldata of a message: an address that cannot be called, *)
(* no calldata, calldata for onMessageInvocation, any other calldata.       *)
Targets == {"prohibited", "plain", "hook", "other"}

Body == [value : Nat, fee : Nat, hasGasLimit : BOOLEAN, target : Targets]

Ids == 0..(MaxMessages - 1)

Message == [id : Ids, srcChainId : Chains, destChainId : Chains, body : Bodies]

Status == {"NEW", "RETRIABLE", "DONE", "FAILED", "RECALLED"}

(* A signal says that a message was sent, or that it failed.                *)
Signal == [msg : Message, failed : BOOLEAN]

(* A call in progress: made by processMessage or by retryMessage, as the    *)
(* last attempt or not.                                                     *)
Call == [msg : Message, retry : BOOLEAN, last : BOOLEAN]

ASSUME BridgeAssumption ==
  /\ IsFiniteSet(Chains)
  /\ Links \subseteq Chains \X Chains
  /\ Bodies \subseteq Body
  /\ Supply \in [Chains -> Nat] /\ Premint \in [Chains -> Nat]
  /\ MaxMessages \in Nat

VARIABLES
  nextMessageId,  \* Bridge.nextMessageId of each chain
  messageStatus,  \* Bridge.messageStatus of each chain, without the NEW ones
  signals,        \* the signals in the SignalService of each chain
  known,          \* known[c][d]: the signals of d that can be proved on c
  ether,          \* address(Bridge).balance of each chain
  calls,          \* the calls in progress on each chain, the innermost last
  outflow         \* history: Ether released up to each time, since updateQuota

bridgeVars == <<nextMessageId, messageStatus, signals, known, ether, calls, outflow>>

vars == <<quotaVars, bridgeVars>>

-----------------------------------------------------------------------------
(* Helpers *)

StatusOf(c, m) == IF m \in DOMAIN messageStatus[c] THEN messageStatus[c][m] ELSE "NEW"

(* Faulty: a function may be entered from a call it makes.                  *)
NotEntered_Always(c) == TRUE

(* The nonReentrant guard.                                                  *)
NotEntered(c) == calls[c] = <<>>

sentSignal(m) == [msg |-> m, failed |-> FALSE]

signalForFailedMessage(m) == [msg |-> m, failed |-> TRUE]

sendSignal(c, s) == signals' = [signals EXCEPT ![c] = @ \cup {s}]

(* Writing the status a message already has reverts.                        *)
UpdateMessageStatus(c, m, status) ==
  /\ StatusOf(c, m) # status
  /\ messageStatus' = [messageStatus EXCEPT ![c] =
       [x \in DOMAIN @ \cup {m} |-> IF x = m THEN status ELSE @[x]]]

Release(c, amount) ==
  /\ ether[c] >= amount
  /\ ether' = [ether EXCEPT ![c] = @ - amount]
  /\ outflow' = [outflow EXCEPT ![c] =
       [t \in DOMAIN @ |-> IF t >= now THEN @[t] + amount ELSE @[t]]]

(* isContract says whether there is code at the address when it is asked.   *)
UnableToInvoke(m, isContract) ==
  m.body.target = "prohibited" \/ (m.body.target = "other" /\ isContract)

NothingToInvoke(m) == m.body.value = 0 /\ m.body.target = "plain"

Enter(c, m, retry, last) ==
  /\ calls' = [calls EXCEPT ![c] = Append(@, [msg |-> m, retry |-> retry, last |-> last])]
  /\ UNCHANGED <<now, quotaPeriod, nextMessageId, messageStatus, signals, known, ether, outflow>>

InnerCall(c) == calls[c][Len(calls[c])]

Leave(c) == calls' = [calls EXCEPT ![c] = SubSeq(@, 1, Len(@) - 1)]

-----------------------------------------------------------------------------
(* The Bridge on the source chain *)

(* Faulty: all messages have the same id.                                   *)
IdAfter_Same(n) == n

IdAfter(n) == n + 1

sendMessage(c, m) ==
  /\ NotEntered(c)
  /\ m.srcChainId = c /\ m.destChainId # c
  /\ m.body.hasGasLimit \/ m.body.fee = 0
  /\ m.id = nextMessageId[c]
  /\ m.body.value + m.body.fee <= Supply[c] - ether[c]
  /\ nextMessageId' = [nextMessageId EXCEPT ![c] = IdAfter(@)]
  /\ ether' = [ether EXCEPT ![c] = @ + m.body.value + m.body.fee]
  /\ sendSignal(c, sentSignal(m))
  /\ UNCHANGED <<quotaVars, messageStatus, known, calls, outflow>>

(* The value goes to the sender, by its onMessageRecalled or plainly; the   *)
(* status has been written by then.                                         *)
recallMessage(c, m) ==
  /\ NotEntered(c)
  /\ m.srcChainId = c
  /\ StatusOf(c, m) = "NEW"
  /\ sentSignal(m) \in signals[c]
  /\ signalForFailedMessage(m) \in known[c][m.destChainId]
  /\ UpdateMessageStatus(c, m, "RECALLED")
  /\ consumeQuota(c, m.body.value)
  /\ Release(c, m.body.value)
  /\ UNCHANGED <<now, quotaPeriod, nextMessageId, signals, known, calls>>

-----------------------------------------------------------------------------
(* The Bridge on the destination chain *)

(* Up to the call, or to the end when there is no call to make.  The fee is *)
(* split between the relayer and the owner, so all of it is released.       *)
processMessage(c, m, byOwner, isContract) ==
  /\ NotEntered(c)
  /\ m.destChainId = c
  /\ byOwner \/ m.body.hasGasLimit
  /\ StatusOf(c, m) = "NEW"
  /\ sentSignal(m) \in known[c][m.srcChainId]
  /\ consumeQuota(c, m.body.value + m.body.fee)
  /\ IF UnableToInvoke(m, isContract) \/ NothingToInvoke(m)
     THEN /\ UpdateMessageStatus(c, m, "DONE")
          /\ Release(c, m.body.value + m.body.fee)
          /\ UNCHANGED <<now, quotaPeriod, nextMessageId, signals, known, calls>>
     ELSE Enter(c, m, FALSE, FALSE)

(* After the call: a call that fails returns its value to the bridge.       *)
finishProcessMessage(c, succeeded) ==
  LET m == InnerCall(c).msg
  IN  /\ calls[c] # <<>>
      /\ ~InnerCall(c).retry
      /\ UpdateMessageStatus(c, m, IF succeeded THEN "DONE" ELSE "RETRIABLE")
      /\ Release(c, IF succeeded THEN m.body.value + m.body.fee ELSE m.body.fee)
      /\ Leave(c)
      /\ UNCHANGED <<quotaVars, nextMessageId, signals, known>>

Fail(c, m) ==
  /\ UpdateMessageStatus(c, m, "FAILED")
  /\ sendSignal(c, signalForFailedMessage(m))
  /\ UNCHANGED <<ether, outflow>>

(* Faulty: the failure is not signalled.                                    *)
EndRetry_NoSignal(c, m, succeeded, last) ==
  \/ /\ succeeded
     /\ UpdateMessageStatus(c, m, "DONE")
     /\ Release(c, m.body.value)
     /\ UNCHANGED signals
  \/ /\ ~succeeded /\ last
     /\ UpdateMessageStatus(c, m, "FAILED")
     /\ UNCHANGED <<signals, ether, outflow>>

(* An attempt that fails and is not the last one reverts.                   *)
EndRetry(c, m, succeeded, last) ==
  \/ /\ succeeded
     /\ UpdateMessageStatus(c, m, "DONE")
     /\ Release(c, m.body.value)
     /\ UNCHANGED signals
  \/ /\ ~succeeded /\ last
     /\ Fail(c, m)

retryMessage(c, m, byOwner, last, isContract) ==
  /\ NotEntered(c)
  /\ m.destChainId = c
  /\ StatusOf(c, m) = "RETRIABLE"
  /\ consumeQuota(c, m.body.value)
  /\ \/ /\ UnableToInvoke(m, isContract)
        /\ \E succeeded \in BOOLEAN : EndRetry(c, m, succeeded, last)
        /\ UNCHANGED <<now, quotaPeriod, nextMessageId, known, calls>>
     \/ /\ ~UnableToInvoke(m, isContract)
        /\ byOwner \/ (m.body.hasGasLimit /\ ~last)
        /\ IF NothingToInvoke(m)
           THEN /\ EndRetry(c, m, TRUE, last)
                /\ UNCHANGED <<now, quotaPeriod, nextMessageId, known, calls>>
           ELSE Enter(c, m, TRUE, last)

finishRetryMessage(c, succeeded) ==
  /\ calls[c] # <<>>
  /\ InnerCall(c).retry
  /\ EndRetry(c, InnerCall(c).msg, succeeded, InnerCall(c).last)
  /\ Leave(c)
  /\ UNCHANGED <<quotaVars, nextMessageId, known>>

(* By the owner of the message only.                                        *)
failMessage(c, m) ==
  /\ NotEntered(c)
  /\ m.destChainId = c
  /\ StatusOf(c, m) = "RETRIABLE"
  /\ Fail(c, m)
  /\ UNCHANGED <<quotaVars, nextMessageId, known, calls>>

-----------------------------------------------------------------------------
(* The SignalService and the QuotaManager *)

(* Chain c is given a state root of chain d: TaikoL1's verification on L1,  *)
(* the anchor transaction on an L2.  With it come the roots d was given, by *)
(* which signals are proved over several hops.                              *)
syncChainData(c, d) ==
  /\ <<c, d>> \in Links
  /\ calls[d] = <<>>
  /\ known' = [known EXCEPT ![c] =
       [e \in Chains |-> IF e = c THEN {}
                         ELSE known[c][e] \cup IF e = d THEN signals[d] ELSE known[d][e]]]
  /\ UNCHANGED <<quotaVars, nextMessageId, messageStatus, signals, ether, calls, outflow>>

(* The owner's two calls are transactions of their own.                     *)
setQuota(c, quota) ==
  /\ calls[c] = <<>>
  /\ updateQuota(c, quota)
  /\ outflow' = [outflow EXCEPT ![c] = [t \in DOMAIN @ |-> 0]]
  /\ UNCHANGED <<nextMessageId, messageStatus, signals, known, ether, calls>>

setPeriod(c, period) ==
  /\ calls[c] = <<>>
  /\ setQuotaPeriod(c, period)
  /\ UNCHANGED bridgeVars

Tick ==
  /\ now < MaxTime
  /\ \A c \in Chains : calls[c] = <<>>
  /\ now' = now + 1
  /\ UNCHANGED <<tokenQuota, quotaPeriod, bridgeVars>>

-----------------------------------------------------------------------------
Init ==
  /\ QuotaInit
  /\ nextMessageId = [c \in Chains |-> 0]
  /\ messageStatus = [c \in Chains |-> [m \in {} |-> "NEW"]]
  /\ signals = [c \in Chains |-> {}]
  /\ known = [c \in Chains |-> [d \in Chains |-> {}]]
  /\ ether = Premint
  /\ calls = [c \in Chains |-> <<>>]
  /\ outflow = [c \in Chains |-> [t \in 0..MaxTime |-> 0]]

(* The messages a chain has heard of.                                       *)
Heard(c) == {s.msg : s \in UNION {known[c][d] : d \in Chains}}

Sent == {s.msg : s \in {x \in UNION {signals[c] : c \in Chains} : ~x.failed}}

BridgeStep(c) ==
  \/ \E m \in Sent : recallMessage(c, m) \/ failMessage(c, m)
  \/ \E m \in Heard(c), byOwner, isContract \in BOOLEAN :
       processMessage(c, m, byOwner, isContract)
  \/ \E m \in Sent, byOwner, last, isContract \in BOOLEAN :
       retryMessage(c, m, byOwner, last, isContract)
  \/ \E succeeded \in BOOLEAN : finishProcessMessage(c, succeeded)
  \/ \E succeeded \in BOOLEAN : finishRetryMessage(c, succeeded)

Next ==
  \/ \E m \in Message : sendMessage(m.srcChainId, m)
  \/ \E c \in Chains : BridgeStep(c)
  \/ \E c, d \in Chains : syncChainData(c, d)
  \/ \E c \in Chains, quota \in Quotas : setQuota(c, quota)
  \/ \E c \in Chains, period \in QuotaPeriods : setPeriod(c, period)
  \/ Tick

Spec == Init /\ [][Next]_vars

(* State roots keep being synced and calls return; somebody processes every *)
(* message, and its owner gives a failing one up and recalls it.            *)
Fairness ==
  /\ WF_vars(\E c, d \in Chains : syncChainData(c, d))
  /\ WF_vars(\E c \in Chains, succeeded \in BOOLEAN :
       finishProcessMessage(c, succeeded) \/ finishRetryMessage(c, succeeded))
  /\ WF_vars(\E c \in Chains : \E m \in Heard(c), isContract \in BOOLEAN :
       processMessage(c, m, TRUE, isContract))
  /\ WF_vars(\E c \in Chains : \E m \in Sent : failMessage(c, m))
  /\ WF_vars(\E c \in Chains : \E m \in Sent : recallMessage(c, m))

FairSpec == Spec /\ Fairness

-----------------------------------------------------------------------------
(* Properties *)

TypeOK ==
  /\ now \in 0..MaxTime
  /\ tokenQuota \in [Chains -> Quota]
  /\ quotaPeriod \in [Chains -> QuotaPeriods]
  /\ nextMessageId \in [Chains -> 0..MaxMessages]
  /\ DOMAIN messageStatus = Chains
  /\ \A c \in Chains : /\ DOMAIN messageStatus[c] \subseteq Message
                       /\ messageStatus[c] \in [DOMAIN messageStatus[c] -> Status \ {"NEW"}]
  /\ signals \in [Chains -> SUBSET Signal]
  /\ known \in [Chains -> [Chains -> SUBSET Signal]]
  /\ ether \in [Chains -> Nat]
  /\ calls \in [Chains -> Seq(Call)]
  /\ outflow \in [Chains -> [0..MaxTime -> Nat]]

Delivered == UNION {{m \in DOMAIN messageStatus[c] : messageStatus[c][m] = "DONE"} : c \in Chains}

Recalled == UNION {{m \in DOMAIN messageStatus[c] : messageStatus[c][m] = "RECALLED"} : c \in Chains}

Pending == Sent \ (Delivered \cup Recalled)

(* What a pending message still has to pay: its fee until it is processed,  *)
(* and its value.                                                           *)
Claim(m) == m.body.value + IF StatusOf(m.destChainId, m) = "NEW" THEN m.body.fee ELSE 0

(* The bridges of all chains together hold, beyond the Ether minted into    *)
(* them, exactly what the pending messages still have to pay: no interplay  *)
(* of processing, retries, callbacks, failures and recalls on two chains    *)
(* pays a message twice or loses its Ether.                                 *)
EtherConserved ==
  SumFunction(ether) = SumFunction(Premint) + SumFunction([m \in Pending |-> Claim(m)])

(* One period unless there is none: the fastest refill an owner can choose. *)
ShortestPeriods == {p \in QuotaPeriods : \A q \in QuotaPeriods : p <= q}

(* Over any stretch of time a bridge releases at most one quota and what    *)
(* the quota refills in that time, although messages are processed, retried *)
(* and recalled against one bucket and the period changes.                  *)
OutflowWithinQuota ==
  \A c \in Chains, s \in 1..now, period \in ShortestPeriods :
    ~IsUnlimited(c) =>
      outflow[c][now] - outflow[c][s - 1]
        <= tokenQuota[c].quota + (tokenQuota[c].quota * (now - s)) \div period

(* No message is left unsettled, nor its Ether locked, for ever.            *)
MessagesSettle == <>[](Pending = {})
=============================================================================
