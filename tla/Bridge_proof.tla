---------------------------- MODULE Bridge_proof ----------------------------
(***************************************************************************)
(* For every set of chains, links, messages and quotas: the bridges settle *)
(* a message at most once.  The invariant IInv relates what is spread over *)
(* chains: a status to the signal that led to it, what a chain knows of    *)
(* another to that chain's signals, and a call in progress to the status   *)
(* its message will have until it returns.                                 *)
(***************************************************************************)
EXTENDS BridgeSettlement, TLAPS

Typed ==
  /\ nextMessageId \in [Chains -> Nat]
  /\ messageStatus \in [Chains -> UNION {[D -> Status \ {"NEW"}] : D \in SUBSET Message}]
  /\ signals \in [Chains -> SUBSET Signal]
  /\ known \in [Chains -> [Chains -> SUBSET Signal]]
  /\ calls \in [Chains -> Seq(Call)]

(* A sent message has had its id handed out.                                *)
SignalsSound ==
  \A c \in Chains : \A s \in signals[c] :
    IF s.failed
    THEN s.msg.destChainId = c /\ StatusOf(c, s.msg) = "FAILED"
    ELSE /\ s.msg.srcChainId = c /\ s.msg.destChainId # c
         /\ s.msg.id < nextMessageId[c]

(* What is proved on a chain did happen on the other.                       *)
KnownSound == \A c, d \in Chains : known[c][d] \subseteq signals[d]

WasSent(m) == sentSignal(m) \in signals[m.srcChainId]

(* A message has a status only where it belongs, and is recalled only after *)
(* it failed.                                                               *)
StatusSound ==
  \A c \in Chains, m \in Message :
    StatusOf(c, m) # "NEW" =>
      /\ WasSent(m)
      /\ IF StatusOf(c, m) = "RECALLED"
         THEN c = m.srcChainId /\ StatusOf(m.destChainId, m) = "FAILED"
         ELSE c = m.destChainId

(* The status a message has while it is called.                             *)
CallIsSound(c) ==
  /\ Len(calls[c]) = 1
  /\ calls[c][1].msg.destChainId = c
  /\ WasSent(calls[c][1].msg)
  /\ StatusOf(c, calls[c][1].msg) = IF calls[c][1].retry THEN "RETRIABLE" ELSE "NEW"

CallsSound == \A c \in Chains : calls[c] # <<>> => CallIsSound(c)

IInv == Typed /\ SignalsSound /\ KnownSound /\ StatusSound /\ CallsSound

-----------------------------------------------------------------------------
(* Statuses as a function of chain and message *)

(* A status is NEW exactly when it is not stored.                           *)
LEMMA StatusType ==
  ASSUME Typed, NEW c \in Chains, NEW m
  PROVE  /\ StatusOf(c, m) \in Status
         /\ m \in DOMAIN messageStatus[c] <=> StatusOf(c, m) # "NEW"
         /\ StatusOf(c, m) # "NEW" => m \in Message
<1>1. PICK D \in SUBSET Message : messageStatus[c] \in [D -> Status \ {"NEW"}]
  BY DEF Typed
<1> QED BY <1>1 DEF StatusOf, Status

(* Storing a status changes it for one chain and one message.               *)
LEMMA StatusUpdate ==
  ASSUME Typed, NEW c \in Chains, NEW m \in Message,
         NEW status \in Status \ {"NEW"}, UpdateMessageStatus(c, m, status)
  PROVE  /\ messageStatus' \in [Chains -> UNION {[D -> Status \ {"NEW"}] : D \in SUBSET Message}]
         /\ StatusOf(c, m)' = status
         /\ \A d \in Chains, x \in Message :
              d # c \/ x # m => StatusOf(d, x)' = StatusOf(d, x)
<1> DEFINE new == [x \in DOMAIN messageStatus[c] \cup {m} |->
                     IF x = m THEN status ELSE messageStatus[c][x]]
<1>1. PICK D \in SUBSET Message : messageStatus[c] \in [D -> Status \ {"NEW"}]
  BY DEF Typed
<1>2. new \in [D \cup {m} -> Status \ {"NEW"}] /\ D \cup {m} \in SUBSET Message
  BY <1>1
<1>3. messageStatus' = [messageStatus EXCEPT ![c] = new]
  BY DEF UpdateMessageStatus
<1>4. messageStatus'[c] = new /\ \A d \in Chains : d # c => messageStatus'[d] = messageStatus[d]
  BY <1>3 DEF Typed
<1>5. messageStatus' \in [Chains -> UNION {[E -> Status \ {"NEW"}] : E \in SUBSET Message}]
  <2>1. new \in UNION {[E -> Status \ {"NEW"}] : E \in SUBSET Message}
    BY <1>2
  <2> HIDE DEF new
  <2> QED BY <1>3, <2>1 DEF Typed
<1> QED BY <1>4, <1>5 DEF StatusOf

(* The abstract sets, in terms of statuses.                                 *)
LEMMA Settled ==
  ASSUME Typed
  PROVE  /\ \A m : m \in Delivered <=> \E c \in Chains : StatusOf(c, m) = "DONE"
         /\ \A m : m \in Recalled <=> \E c \in Chains : StatusOf(c, m) = "RECALLED"
BY DEF Delivered, Recalled, StatusOf

LEMMA SentMessages ==
  ASSUME Typed
  PROVE  /\ Sent \subseteq Message
         /\ \A c \in Chains : Heard(c) \subseteq Message
BY DEF Typed, Sent, Heard, Signal

(* Under the invariant a message is sent where it comes from.               *)
LEMMA SentAtSource ==
  ASSUME Typed, SignalsSound, NEW m \in Message
  PROVE  m \in Sent <=> WasSent(m)
<1>1. WasSent(m) => m \in Sent
  BY DEF WasSent, Sent, sentSignal, Message
<1>2. ASSUME m \in Sent PROVE WasSent(m)
  <2>1. PICK c \in Chains : \E s \in signals[c] : s.msg = m /\ ~s.failed
    BY <1>2 DEF Sent
  <2>2. PICK s \in signals[c] : s.msg = m /\ ~s.failed
    BY <2>1
  <2>3. s = sentSignal(m) /\ m.srcChainId = c
    BY <2>1, <2>2 DEF Typed, Signal, sentSignal, SignalsSound
  <2> QED BY <2>2, <2>3 DEF WasSent
<1> QED BY <1>1, <1>2

-----------------------------------------------------------------------------
(* Steps that write a status.  Every one of them starts from a message of   *)
(* the chain it happens on, and its effect on the invariant is the same.    *)

(* What a bridge pays for a message when it writes its status.              *)
Due(c, m, status) ==
  IF status = "RECALLED" THEN m.body.value
  ELSE IF StatusOf(c, m) = "NEW"
  THEN IF status = "DONE" THEN m.body.value + m.body.fee ELSE m.body.fee
  ELSE IF status = "DONE" THEN m.body.value ELSE 0

Pays(c, amount) ==
  \/ amount = 0 /\ UNCHANGED ether
  \/ ether' = [ether EXCEPT ![c] = @ - amount]

(* The only status changes the handlers make.                               *)
Changes(c, m, status) ==
  /\ c \in Chains /\ m \in Message
  /\ WasSent(m)
  /\ m.srcChainId # m.destChainId
  /\ \/ /\ c = m.destChainId
        /\ \/ StatusOf(c, m) = "NEW" /\ status \in {"DONE", "RETRIABLE"}
           \/ StatusOf(c, m) = "RETRIABLE" /\ status \in {"DONE", "FAILED"}
     \/ /\ c = m.srcChainId /\ StatusOf(c, m) = "NEW"
        /\ status = "RECALLED" /\ StatusOf(m.destChainId, m) = "FAILED"
  /\ UpdateMessageStatus(c, m, status)
  /\ signals' = [signals EXCEPT ![c] =
                   IF status = "FAILED" THEN @ \cup {signalForFailedMessage(m)} ELSE @]
  /\ Pays(c, Due(c, m, status))
  /\ UNCHANGED <<nextMessageId, known>>

(* No call is left open on the message of a status change.                  *)
CallsAfter(c) ==
  /\ calls' = [calls EXCEPT ![c] = <<>>]

(* An admissible status change keeps the invariant.                         *)
LEMMA ChangeKeeps ==
  ASSUME IInv, NEW c, NEW m, NEW status, Changes(c, m, status), CallsAfter(c)
  PROVE  IInv'
<1>1. /\ c \in Chains /\ m \in Message
      /\ status \in Status \ {"NEW"}
      /\ UpdateMessageStatus(c, m, status)
  BY DEF Changes, Status
<1>2. /\ messageStatus' \in [Chains -> UNION {[D -> Status \ {"NEW"}] : D \in SUBSET Message}]
      /\ StatusOf(c, m)' = status
      /\ \A d \in Chains, x \in Message :
           d # c \/ x # m => StatusOf(d, x)' = StatusOf(d, x)
  BY <1>1, StatusUpdate DEF IInv
<1>3. /\ \A d \in Chains : signals[d] \subseteq signals'[d]
      /\ \A d \in Chains : \A s \in signals'[d] :
           s \in signals[d] \/ (d = c /\ s = signalForFailedMessage(m) /\ status = "FAILED")
      /\ signals' \in [Chains -> SUBSET Signal]
  <2>1. signalForFailedMessage(m) \in Signal
    BY <1>1 DEF signalForFailedMessage, Signal
  <2>2. signals' = [signals EXCEPT ![c] =
                   IF status = "FAILED" THEN @ \cup {signalForFailedMessage(m)} ELSE @]
    BY DEF Changes
  <2> QED BY <1>1, <2>1, <2>2 DEF IInv, Typed
<1>4. m.srcChainId \in Chains /\ m.destChainId \in Chains
  BY <1>1 DEF Message
<1>5. \A x \in Message : WasSent(x) => WasSent(x)'
  BY <1>3 DEF WasSent, Message
<1>6. Typed'
  BY <1>1, <1>2, <1>3 DEF IInv, Typed, Changes, CallsAfter
<1>7. SignalsSound'
  <2> SUFFICES ASSUME NEW d \in Chains, NEW s \in signals'[d]
               PROVE  IF s.failed
                      THEN s.msg.destChainId = d /\ StatusOf(d, s.msg)' = "FAILED"
                      ELSE /\ s.msg.srcChainId = d /\ s.msg.destChainId # d
                           /\ s.msg.id < nextMessageId'[d]
    BY DEF SignalsSound
  <2>1. CASE s \in signals[d]
    <3>1. s.msg \in Message
      BY <2>1 DEF IInv, Typed, Signal
    <3>2. CASE d = c /\ s.msg = m /\ s.failed
      BY <2>1, <3>2, <1>1, <1>4 DEF IInv, SignalsSound, Changes
    <3>3. CASE ~(d = c /\ s.msg = m /\ s.failed)
      BY <2>1, <3>1, <3>3, <1>2 DEF IInv, SignalsSound, Changes
    <3> QED BY <3>2, <3>3
  <2>2. CASE s \notin signals[d]
    BY <2>2, <1>2, <1>3 DEF signalForFailedMessage, Changes
  <2> QED BY <2>1, <2>2
<1>8. KnownSound'
  BY <1>3 DEF IInv, KnownSound, Changes
<1>9. StatusSound'
  <2> SUFFICES ASSUME NEW d \in Chains, NEW x \in Message, StatusOf(d, x)' # "NEW"
               PROVE  /\ WasSent(x)'
                      /\ IF StatusOf(d, x)' = "RECALLED"
                         THEN d = x.srcChainId /\ StatusOf(x.destChainId, x)' = "FAILED"
                         ELSE d = x.destChainId
    BY DEF StatusSound
  <2>1. CASE d = c /\ x = m
    BY <2>1, <1>1, <1>2, <1>4, <1>5 DEF Changes
  <2>2. CASE ~(d = c /\ x = m)
    <3>1. StatusOf(d, x)' = StatusOf(d, x) /\ x.destChainId \in Chains
      BY <2>2, <1>2 DEF Message
    <3>2. StatusOf(x.destChainId, x) = "FAILED" => StatusOf(x.destChainId, x)' = "FAILED"
      BY <1>1, <1>2, <1>4, <3>1 DEF Changes
    <3> QED BY <1>5, <3>1, <3>2 DEF IInv, StatusSound
  <2> QED BY <2>1, <2>2
<1>10. CallsSound'
  <2> SUFFICES ASSUME NEW d \in Chains, calls'[d] # <<>>
               PROVE  CallIsSound(d)'
    BY DEF CallsSound
  <2>1. d # c /\ calls'[d] = calls[d]
    BY <1>1 DEF CallsAfter, IInv, Typed
  <2>2. CallIsSound(d)
    BY <2>1 DEF IInv, CallsSound
  <2>3. calls[d][1].msg \in Message
    <3>1. calls[d] \in Seq(Call) /\ Len(calls[d]) = 1
      BY <2>2 DEF IInv, Typed, CallIsSound
    <3>2. calls[d][1] \in Call
      <4> HIDE DEF Call
      <4> QED BY <3>1
    <3> QED BY <3>2 DEF Call
  <2> QED BY <2>1, <2>2, <2>3, <1>2, <1>5 DEF CallIsSound
<1> QED BY <1>6, <1>7, <1>8, <1>9, <1>10 DEF IInv

(* What an admissible status change does to the abstract sets.              *)
LEMMA ChangeSettles ==
  ASSUME IInv, NEW c, NEW m, NEW status, Changes(c, m, status)
  PROVE  /\ m \in Pending
         /\ \/ /\ status = "DONE"
               /\ Pending' = Pending \ {m}
               /\ Delivered' = Delivered \cup {m} /\ Recalled' = Recalled
            \/ /\ status = "RECALLED"
               /\ Pending' = Pending \ {m}
               /\ Recalled' = Recalled \cup {m} /\ Delivered' = Delivered
            \/ /\ status \in {"RETRIABLE", "FAILED"}
               /\ Pending' = Pending /\ Delivered' = Delivered /\ Recalled' = Recalled
<1>1. c \in Chains /\ m \in Message /\ status \in Status \ {"NEW"} /\ WasSent(m)
  BY DEF Changes, Status
<1>2. /\ messageStatus' \in [Chains -> UNION {[D -> Status \ {"NEW"}] : D \in SUBSET Message}]
      /\ StatusOf(c, m)' = status
      /\ \A d \in Chains, x \in Message :
           d # c \/ x # m => StatusOf(d, x)' = StatusOf(d, x)
  BY <1>1, StatusUpdate DEF IInv, Changes
<1>3. Sent' = Sent
  <2>1. \A d \in Chains : \A s : ~s.failed => (s \in signals'[d] <=> s \in signals[d])
    BY <1>1 DEF Changes, IInv, Typed, signalForFailedMessage
  <2> QED BY <2>1 DEF Sent
<1>4. /\ \A x : x \in Delivered <=> \E d \in Chains : StatusOf(d, x) = "DONE"
      /\ \A x : x \in Recalled <=> \E d \in Chains : StatusOf(d, x) = "RECALLED"
  BY Settled DEF IInv
<1>5. /\ \A x : x \in Delivered' <=> \E d \in Chains : StatusOf(d, x)' = "DONE"
      /\ \A x : x \in Recalled' <=> \E d \in Chains : StatusOf(d, x)' = "RECALLED"
  BY <1>2 DEF Delivered, Recalled, StatusOf
<1>6. \A x : \A d \in Chains : x # m \/ d # c => StatusOf(d, x)' = StatusOf(d, x)
  <2> SUFFICES ASSUME NEW x, NEW d \in Chains, x # m \/ d # c
               PROVE  StatusOf(d, x)' = StatusOf(d, x)
    OBVIOUS
  <2>1. CASE x \in Message
    BY <2>1, <1>2
  <2>2. CASE x \notin Message
    BY <2>2, <1>1 DEF StatusOf, Changes, UpdateMessageStatus, IInv, Typed
  <2> QED BY <2>1, <2>2
<1>7. /\ \A d \in Chains : d # c => StatusOf(d, m) \notin {"DONE", "RECALLED"}
      /\ StatusOf(c, m) \notin {"DONE", "RECALLED"}
  BY <1>1 DEF Changes, IInv, StatusSound
<1>8. m \in Sent /\ m \notin Delivered /\ m \notin Recalled
  <2>1. m \in Sent
    BY <1>1, SentAtSource DEF IInv
  <2>2. \A d \in Chains : StatusOf(d, m) # "DONE" /\ StatusOf(d, m) # "RECALLED"
    BY <1>7
  <2> QED BY <1>4, <2>1, <2>2
<1>9. status \in {"DONE", "RECALLED", "RETRIABLE", "FAILED"}
  BY DEF Changes
<1>10. \A x : x # m => (x \in Delivered' <=> x \in Delivered) /\ (x \in Recalled' <=> x \in Recalled)
  <2> TAKE x
  <2> HAVE x # m
  <2>1. \A d \in Chains : StatusOf(d, x)' = StatusOf(d, x)
    BY <1>6
  <2> QED BY <1>4, <1>5, <2>1
<1>11. (m \in Delivered' <=> status = "DONE") /\ (m \in Recalled' <=> status = "RECALLED")
  <2>1. \A d \in Chains : d # c => StatusOf(d, m)' = StatusOf(d, m)
    BY <1>6
  <2> QED BY <1>1, <1>2, <1>5, <1>7, <2>1
<1> QED BY <1>3, <1>8, <1>9, <1>10, <1>11 DEF Pending

-----------------------------------------------------------------------------
(* The handlers.  Each one is a status change, a call or a sending.         *)

(* A call opened on a message that is not settled.                          *)
Opens(c, m, retry, last) ==
  /\ c \in Chains /\ m \in Message /\ retry \in BOOLEAN /\ last \in BOOLEAN
  /\ NotEntered(c)
  /\ m.destChainId = c
  /\ WasSent(m)
  /\ StatusOf(c, m) = IF retry THEN "RETRIABLE" ELSE "NEW"
  /\ Enter(c, m, retry, last)

(* A bridge with no call in progress may as well be said to leave one.      *)
LEMMA NothingToLeave ==
  ASSUME Typed, NEW c \in Chains, NotEntered(c), UNCHANGED calls
  PROVE  CallsAfter(c)
BY DEF Typed, NotEntered, CallsAfter

(* A message that a chain has heard of was sent to it or from it.           *)
LEMMA HeardIsSent ==
  ASSUME IInv, NEW c \in Chains, NEW m \in Message, sentSignal(m) \in known[c][m.srcChainId]
  PROVE  WasSent(m) /\ m.srcChainId # m.destChainId
<1>1. m.srcChainId \in Chains
  BY DEF Message
<1>2. sentSignal(m) \in signals[m.srcChainId]
  BY <1>1 DEF IInv, KnownSound
<1> QED BY <1>1, <1>2 DEF IInv, SignalsSound, WasSent, sentSignal

(* processMessage changes a status or opens a call.                         *)
LEMMA ProcessStep ==
  ASSUME IInv, NEW c \in Chains, NEW m \in Message, NEW byOwner, NEW isContract,
         processMessage(c, m, byOwner, isContract)
  PROVE  \/ Changes(c, m, "DONE") /\ CallsAfter(c)
         \/ Opens(c, m, FALSE, FALSE)
<1>1. WasSent(m) /\ m.srcChainId # m.destChainId
  BY HeardIsSent DEF processMessage
<1>2. CASE UnableToInvoke(m, isContract) \/ NothingToInvoke(m)
  <2>1. CallsAfter(c)
    BY <1>2, NothingToLeave DEF IInv, processMessage
  <2>2. Changes(c, m, "DONE")
    BY <1>1, <1>2 DEF IInv, Typed, processMessage, Changes, Release, Pays, Due
  <2> QED BY <2>1, <2>2
<1>3. CASE ~(UnableToInvoke(m, isContract) \/ NothingToInvoke(m))
  BY <1>1, <1>3 DEF processMessage, Opens
<1> QED BY <1>2, <1>3

(* The end of a retry, with or without a call, changes a status.            *)
LEMMA EndRetryStep ==
  ASSUME IInv, NEW c \in Chains, NEW m \in Message, NEW succeeded, NEW last,
         m.destChainId = c, StatusOf(c, m) = "RETRIABLE",
         EndRetry(c, m, succeeded, last), UNCHANGED <<nextMessageId, known>>
  PROVE  \E status \in {"DONE", "FAILED"} : Changes(c, m, status)
<1>1. WasSent(m)
  BY DEF IInv, StatusSound
<1>2. m.srcChainId # m.destChainId
  BY <1>1 DEF IInv, SignalsSound, WasSent, sentSignal, Message
<1>3. CASE UpdateMessageStatus(c, m, "DONE") /\ UNCHANGED signals /\ Release(c, m.body.value)
  BY <1>1, <1>2, <1>3 DEF Changes, IInv, Typed, Release, Pays, Due
<1>4. CASE Fail(c, m)
  BY <1>1, <1>2, <1>4 DEF Changes, Fail, sendSignal, Pays, Due
<1> QED BY <1>3, <1>4 DEF EndRetry

(* retryMessage changes a status or opens a call.                           *)
LEMMA RetryStep ==
  ASSUME IInv, NEW c \in Chains, NEW m \in Message, NEW byOwner, NEW last \in BOOLEAN,
         NEW isContract, retryMessage(c, m, byOwner, last, isContract)
  PROVE  \/ \E status \in {"DONE", "FAILED"} : Changes(c, m, status) /\ CallsAfter(c)
         \/ Opens(c, m, TRUE, last)
<1>1. WasSent(m)
  BY DEF IInv, StatusSound, retryMessage
<1>2. CASE Enter(c, m, TRUE, last)
  BY <1>1, <1>2 DEF retryMessage, Opens
<1>3. CASE ~Enter(c, m, TRUE, last)
  <2>1. \E succeeded \in BOOLEAN : EndRetry(c, m, succeeded, last)
    BY <1>3 DEF retryMessage
  <2>2. UNCHANGED <<nextMessageId, known, calls>>
    BY <1>3 DEF retryMessage
  <2>3. CallsAfter(c)
    BY <2>2, NothingToLeave DEF IInv, retryMessage
  <2> QED BY <2>1, <2>2, <2>3, EndRetryStep DEF retryMessage
<1> QED BY <1>2, <1>3

(* The innermost call is the only one, and leaving it leaves none.          *)
LEMMA OneCall ==
  ASSUME IInv, NEW c \in Chains, calls[c] # <<>>
  PROVE  /\ InnerCall(c) = calls[c][1] /\ InnerCall(c) \in Call
         /\ CallIsSound(c)
         /\ Leave(c) => CallsAfter(c)
<1>1. CallIsSound(c) /\ calls[c] \in Seq(Call) /\ Len(calls[c]) = 1
  BY DEF IInv, CallsSound, CallIsSound, Typed
<1>2. calls[c][1] \in Call /\ SubSeq(calls[c], 1, Len(calls[c]) - 1) = <<>>
  <2> HIDE DEF Call
  <2> QED BY <1>1
<1>3. Leave(c) => CallsAfter(c)
  BY <1>2 DEF Leave, CallsAfter, IInv, Typed
<1> QED BY <1>1, <1>2, <1>3 DEF InnerCall

(* The return of a call changes the status of its message.                  *)
LEMMA FinishStep ==
  ASSUME IInv, NEW c \in Chains, NEW succeeded \in BOOLEAN,
         finishProcessMessage(c, succeeded) \/ finishRetryMessage(c, succeeded)
  PROVE  \E m \in Message, status \in {"DONE", "RETRIABLE", "FAILED"} :
           Changes(c, m, status) /\ CallsAfter(c)
<1> DEFINE m == InnerCall(c).msg
<1>1. calls[c] # <<>> /\ Leave(c)
  BY DEF finishProcessMessage, finishRetryMessage
<1>2. /\ CallsAfter(c) /\ m \in Message
      /\ m.destChainId = c /\ WasSent(m)
      /\ StatusOf(c, m) = IF InnerCall(c).retry THEN "RETRIABLE" ELSE "NEW"
  BY <1>1, OneCall DEF CallIsSound, Call
<1>3. m.srcChainId # m.destChainId
  BY <1>2 DEF IInv, SignalsSound, WasSent, sentSignal, Message
<1> HIDE DEF m
<1>4. CASE finishProcessMessage(c, succeeded)
  <2>1. PICK status \in {"DONE", "RETRIABLE"} :
          /\ UpdateMessageStatus(c, m, status)
          /\ Release(c, IF status = "DONE" THEN m.body.value + m.body.fee ELSE m.body.fee)
    BY <1>4 DEF finishProcessMessage, m
  <2>2. Changes(c, m, status)
    BY <1>2, <1>3, <1>4, <2>1 DEF Changes, finishProcessMessage, IInv, Typed, Release, Pays, Due
  <2> QED BY <1>2, <2>2
<1>5. CASE finishRetryMessage(c, succeeded)
  BY <1>2, <1>5, EndRetryStep DEF finishRetryMessage, m
<1> QED BY <1>4, <1>5

(* recallMessage and failMessage change a status.                           *)
LEMMA RecallFailStep ==
  ASSUME IInv, NEW c \in Chains, NEW m \in Message,
         recallMessage(c, m) \/ failMessage(c, m)
  PROVE  \E status \in {"RECALLED", "FAILED"} : Changes(c, m, status) /\ CallsAfter(c)
<1>1. CallsAfter(c)
  BY NothingToLeave DEF IInv, recallMessage, failMessage
<1>2. CASE recallMessage(c, m)
  <2>1. WasSent(m) /\ m.srcChainId # m.destChainId
    BY <1>2 DEF recallMessage, WasSent, IInv, SignalsSound, sentSignal
  <2>2. m.destChainId \in Chains /\ signalForFailedMessage(m) \in signals[m.destChainId]
    BY <1>2 DEF recallMessage, IInv, KnownSound, Message
  <2>3. StatusOf(m.destChainId, m) = "FAILED"
    BY <2>2 DEF IInv, SignalsSound, signalForFailedMessage
  <2>4. Changes(c, m, "RECALLED")
    BY <1>2, <2>1, <2>3 DEF recallMessage, Changes, IInv, Typed, Release, Pays, Due
  <2> QED BY <1>1, <2>4
<1>3. CASE failMessage(c, m)
  <2>1. WasSent(m)
    BY <1>3 DEF failMessage, IInv, StatusSound
  <2>2. m.srcChainId # m.destChainId
    BY <2>1 DEF IInv, SignalsSound, WasSent, sentSignal, Message
  <2>3. Changes(c, m, "FAILED")
    BY <1>3, <2>1, <2>2 DEF failMessage, Changes, Fail, sendSignal, Pays, Due
  <2> QED BY <1>1, <2>3
<1> QED BY <1>2, <1>3

(* A step of one bridge changes a status or opens a call.                   *)
LEMMA BridgeStepKinds ==
  ASSUME IInv, NEW c \in Chains, BridgeStep(c)
  PROVE  \/ \E m, status : Changes(c, m, status) /\ CallsAfter(c)
         \/ \E m, retry, last : Opens(c, m, retry, last)
<1> USE SentMessages DEF IInv
<1>1. ASSUME NEW m \in Sent, recallMessage(c, m) \/ failMessage(c, m)
      PROVE  \E status : Changes(c, m, status) /\ CallsAfter(c)
  BY <1>1, RecallFailStep
<1>2. ASSUME NEW m \in Heard(c), NEW byOwner, NEW isContract,
             processMessage(c, m, byOwner, isContract)
      PROVE  (\E status : Changes(c, m, status) /\ CallsAfter(c)) \/ Opens(c, m, FALSE, FALSE)
  BY <1>2, ProcessStep
<1>3. ASSUME NEW m \in Sent, NEW byOwner, NEW last \in BOOLEAN, NEW isContract,
             retryMessage(c, m, byOwner, last, isContract)
      PROVE  (\E status : Changes(c, m, status) /\ CallsAfter(c)) \/ Opens(c, m, TRUE, last)
  BY <1>3, RetryStep
<1>4. ASSUME NEW succeeded \in BOOLEAN,
             finishProcessMessage(c, succeeded) \/ finishRetryMessage(c, succeeded)
      PROVE  \E m, status : Changes(c, m, status) /\ CallsAfter(c)
  BY <1>4, FinishStep
<1> QED BY <1>1, <1>2, <1>3, <1>4 DEF BridgeStep

(* A new message gets an id not handed out before, so it was never sent.    *)
LEMMA SendStep ==
  ASSUME IInv, NEW m \in Message, sendMessage(m.srcChainId, m)
  PROVE  /\ IInv'
         /\ m \notin Sent /\ Sent' = Sent \cup {m}
         /\ UNCHANGED <<Delivered, Recalled>>
<1> DEFINE c == m.srcChainId
<1>1. c \in Chains /\ m.destChainId # c /\ m.id = nextMessageId[c]
  BY DEF sendMessage, Message
<1>2. /\ nextMessageId' = [nextMessageId EXCEPT ![c] = @ + 1]
      /\ signals' = [signals EXCEPT ![c] = @ \cup {sentSignal(m)}]
      /\ UNCHANGED <<messageStatus, known, calls>>
  BY DEF sendMessage, sendSignal, IdAfter
<1>3. sentSignal(m) \in Signal
  BY DEF sentSignal, Signal
<1>4. ~WasSent(m)
  BY <1>1 DEF WasSent, IInv, Typed, SignalsSound, sentSignal
<1>5. m \notin Sent
  BY <1>4, SentAtSource DEF IInv
<1> HIDE DEF c
<1>6. \A x \in Message : WasSent(x) => WasSent(x)'
  BY <1>1, <1>2 DEF WasSent, IInv, Typed, Message
<1>7. \A d, x : StatusOf(d, x)' = StatusOf(d, x)
  BY <1>2 DEF StatusOf
<1>8. Typed'
  BY <1>1, <1>2, <1>3 DEF IInv, Typed
<1>9. SignalsSound'
  <2>1. \A d \in Chains : nextMessageId'[d] >= nextMessageId[d]
    BY <1>1, <1>2 DEF IInv, Typed
  <2>2. ASSUME NEW d \in Chains, NEW s \in signals[d], ~s.failed
        PROVE  s.msg.id < nextMessageId'[d]
    <3>1. s.msg.id < nextMessageId[d]
      BY <2>2 DEF IInv, SignalsSound
    <3>2. s.msg.id \in Int
      <4>1. s.msg \in Message
        BY DEF IInv, Typed, Signal
      <4> QED BY <4>1, BridgeAssumption DEF Message, Ids
    <3>3. nextMessageId[d] \in Int /\ nextMessageId'[d] \in Int
      BY <1>8 DEF IInv, Typed
    <3> QED BY <2>1, <3>1, <3>2, <3>3
  <2>3. \A d \in Chains : \A s \in signals'[d] :
          s \in signals[d] \/ (d = c /\ s = sentSignal(m))
    BY <1>1, <1>2 DEF IInv, Typed
  <2>4. m.id < nextMessageId'[c]
    BY <1>1, <1>2 DEF IInv, Typed
  <2> QED BY <1>1, <1>7, <2>2, <2>3, <2>4 DEF IInv, SignalsSound, sentSignal, c
<1>10. KnownSound'
  BY <1>1, <1>2 DEF IInv, KnownSound, Typed
<1>11. StatusSound'
  BY <1>6, <1>7 DEF IInv, StatusSound
<1>12. CallsSound'
  <2> SUFFICES ASSUME NEW d \in Chains, calls'[d] # <<>>
               PROVE  CallIsSound(d)'
    BY DEF CallsSound
  <2>1. calls[d] = calls'[d] /\ CallIsSound(d)
    BY <1>2 DEF IInv, CallsSound
  <2>2. calls[d][1].msg \in Message
    BY <2>1, OneCall DEF Call
  <2> QED BY <1>6, <1>7, <2>1, <2>2 DEF CallIsSound
<1>13. Sent' = Sent \cup {m}
  <2>1. \A d \in Chains : \A s : s \in signals'[d] <=> s \in signals[d] \/ (d = c /\ s = sentSignal(m))
    BY <1>1, <1>2 DEF IInv, Typed
  <2>2. ASSUME NEW x
        PROVE  x \in Sent' <=> x \in Sent \/ x = m
    <3>1. x \in Sent' <=> \E d \in Chains : \E s \in signals'[d] : ~s.failed /\ s.msg = x
      BY DEF Sent
    <3>2. x \in Sent <=> \E d \in Chains : \E s \in signals[d] : ~s.failed /\ s.msg = x
      BY DEF Sent
    <3>3. sentSignal(m) \in signals'[c] /\ ~sentSignal(m).failed /\ sentSignal(m).msg = m
      BY <1>1, <2>1 DEF sentSignal
    <3>4. x = m => x \in Sent'
      BY <1>1, <3>1, <3>3
    <3>5. x \in Sent => x \in Sent'
      BY <2>1, <3>1, <3>2
    <3>6. x \in Sent' => x \in Sent \/ x = m
      BY <2>1, <3>1, <3>2, <3>3
    <3> QED BY <3>4, <3>5, <3>6
  <2> QED BY <2>2
<1>14. UNCHANGED <<Delivered, Recalled>>
  BY <1>2 DEF Delivered, Recalled
<1> QED BY <1>5, <1>8, <1>9, <1>10, <1>11, <1>12, <1>13, <1>14 DEF IInv

(* A step that writes neither statuses nor signals is none of the abstract  *)
(* specification's.                                                         *)
LEMMA Unseen ==
  ASSUME UNCHANGED <<messageStatus, signals>>
  PROVE  UNCHANGED <<Pending, Delivered, Recalled>>
BY DEF Pending, Sent, Delivered, Recalled

(* Opening a call keeps the invariant.                                      *)
LEMMA OpenStep ==
  ASSUME IInv, NEW c, NEW m, NEW retry, NEW last, Opens(c, m, retry, last)
  PROVE  IInv' /\ UNCHANGED <<messageStatus, signals>>
<1> DEFINE call == [msg |-> m, retry |-> retry, last |-> last]
<1>1. /\ c \in Chains /\ call \in Call
      /\ UNCHANGED <<messageStatus, signals, nextMessageId, known>>
  BY DEF Opens, Enter, Call
<1>2. call.msg = m /\ call.retry = retry
  OBVIOUS
<1>3. calls' = [calls EXCEPT ![c] = Append(@, call)] /\ calls[c] = <<>>
  BY DEF Opens, Enter, NotEntered
<1> HIDE DEF call
<1>4. calls' = [calls EXCEPT ![c] = <<call>>] /\ <<call>> \in Seq(Call)
  <2>1. Append(<<>>, call) = <<call>>
    OBVIOUS
  <2> HIDE DEF Call
  <2> QED BY <1>1, <1>3, <2>1
<1>5. Typed'
  <2> HIDE DEF Call
  <2> QED BY <1>1, <1>4 DEF IInv, Typed
<1>6. SignalsSound' /\ KnownSound' /\ StatusSound'
  BY <1>1 DEF IInv, SignalsSound, KnownSound, StatusSound, StatusOf, WasSent
<1>7. CallsSound'
  <2> SUFFICES ASSUME NEW d \in Chains, calls'[d] # <<>>
               PROVE  CallIsSound(d)'
    BY DEF CallsSound
  <2>1. CASE d = c
    <3>1. calls'[c] = <<call>>
      BY <1>1, <1>4 DEF IInv, Typed
    <3>2. Len(<<call>>) = 1 /\ <<call>>[1] = call
      OBVIOUS
    <3> QED BY <1>1, <1>2, <2>1, <3>1, <3>2 DEF CallIsSound, Opens, StatusOf, WasSent
  <2>2. CASE d # c
    <3>1. calls'[d] = calls[d] /\ CallIsSound(d)
      BY <1>1, <1>4, <2>2 DEF IInv, Typed, CallsSound
    <3> QED BY <1>1, <3>1 DEF CallIsSound, StatusOf, WasSent
  <2> QED BY <2>1, <2>2
<1> QED BY <1>1, <1>5, <1>6, <1>7 DEF IInv

(* What a chain learns from another, or over it, did happen.                *)
LEMMA SyncStep ==
  ASSUME IInv, NEW c \in Chains, NEW d \in Chains, syncChainData(c, d)
  PROVE  IInv' /\ UNCHANGED <<messageStatus, signals>>
<1>1. UNCHANGED <<messageStatus, signals, nextMessageId, calls>>
  BY DEF syncChainData
<1> DEFINE learnt == [e \in Chains |-> IF e = c THEN {}
                        ELSE known[c][e] \cup IF e = d THEN signals[d] ELSE known[d][e]]
<1>2. /\ known' = [known EXCEPT ![c] = learnt]
      /\ learnt \in [Chains -> SUBSET Signal]
      /\ \A e \in Chains : learnt[e] \subseteq signals[e]
  BY DEF syncChainData, IInv, Typed, KnownSound
<1> HIDE DEF learnt
<1>3. Typed' /\ KnownSound'
  BY <1>1, <1>2 DEF IInv, Typed, KnownSound
<1>4. SignalsSound' /\ StatusSound' /\ CallsSound'
  BY <1>1 DEF IInv, SignalsSound, StatusSound, CallsSound, CallIsSound, StatusOf, WasSent
<1> QED BY <1>1, <1>3, <1>4 DEF IInv

-----------------------------------------------------------------------------
(* The theorems *)

LEMMA InitInv ==
  ASSUME Init
  PROVE  IInv /\ Pending = {} /\ Delivered = {} /\ Recalled = {}
<1>1. \A c \in Chains : /\ nextMessageId[c] = 0 /\ signals[c] = {} /\ calls[c] = <<>>
                       /\ messageStatus[c] = [m \in {} |-> "NEW"]
                       /\ \A d \in Chains : known[c][d] = {}
  BY DEF Init
<1>2. [m \in {} |-> "NEW"] \in [{} -> Status \ {"NEW"}] /\ {} \in SUBSET Message
  OBVIOUS
<1>3. Typed
  <2>1. messageStatus \in [Chains -> UNION {[D -> Status \ {"NEW"}] : D \in SUBSET Message}]
    <3> DEFINE empty == [m \in {} |-> "NEW"]
    <3>1. empty \in UNION {[D -> Status \ {"NEW"}] : D \in SUBSET Message}
      BY <1>2
    <3>2. messageStatus = [c \in Chains |-> empty]
      BY DEF Init
    <3> HIDE DEF empty
    <3> QED BY <3>1, <3>2
  <2>2. <<>> \in Seq(Call)
    OBVIOUS
  <2> HIDE DEF Call
  <2> QED BY <2>1, <2>2 DEF Init, Typed
<1>4. \A c \in Chains : \A m : StatusOf(c, m) = "NEW"
  BY <1>1 DEF StatusOf
<1>5. SignalsSound /\ KnownSound /\ CallsSound /\ StatusSound
  BY <1>1, <1>4 DEF SignalsSound, KnownSound, CallsSound, StatusSound
<1>6. Sent = {} /\ Delivered = {} /\ Recalled = {}
  BY <1>1 DEF Sent, Delivered, Recalled
<1> QED BY <1>3, <1>5, <1>6 DEF IInv, Pending

(* Every step of the bridges keeps the invariant and is a step of the       *)
(* abstract specification or none.                                          *)
LEMMA NextStep ==
  ASSUME IInv, [Next]_vars
  PROVE  IInv' /\ [Settlement!Next]_<<Pending, Delivered, Recalled>>
<1> DEFINE Goal == IInv' /\ [Settlement!Next]_<<Pending, Delivered, Recalled>>
<1>1. ASSUME NEW c, NEW m, NEW status, Changes(c, m, status), CallsAfter(c)
      PROVE  Goal
  <2>1. IInv' /\ m \in Message
    BY <1>1, ChangeKeeps DEF Changes
  <2> QED BY <1>1, <2>1, ChangeSettles DEF Settlement!Next, Settlement!Deliver, Settlement!Recall
<1>2. ASSUME IInv', UNCHANGED <<messageStatus, signals>>
      PROVE  Goal
  BY <1>2, Unseen
<1>3. ASSUME UNCHANGED <<nextMessageId, messageStatus, signals, known, calls>>
      PROVE  Goal
  <2>1. IInv'
    BY <1>3 DEF IInv, Typed, SignalsSound, KnownSound, StatusSound, CallsSound, CallIsSound,
                StatusOf, WasSent
  <2> QED BY <1>2, <1>3, <2>1
<1>4. ASSUME NEW m \in Message, sendMessage(m.srcChainId, m)
      PROVE  Goal
  <2>1. /\ m \notin Sent /\ Sent' = Sent \cup {m}
        /\ UNCHANGED <<Delivered, Recalled>> /\ IInv'
    BY <1>4, SendStep
  <2>2. m \notin Delivered /\ m \notin Recalled
    <3>1. ~WasSent(m)
      BY <2>1, SentAtSource DEF IInv
    <3>2. \A c \in Chains : StatusOf(c, m) = "NEW"
      BY <3>1 DEF IInv, StatusSound
    <3> QED BY <3>2, Settled DEF IInv
  <2>3. m \notin Pending /\ Pending' = Pending \cup {m}
    BY <2>1, <2>2 DEF Pending
  <2> QED BY <2>1, <2>2, <2>3 DEF Settlement!Next, Settlement!Send
<1>5. ASSUME NEW c \in Chains, BridgeStep(c)
      PROVE  Goal
  <2> HIDE DEF Goal
  <2>1. CASE \E m, status : Changes(c, m, status) /\ CallsAfter(c)
    BY <1>1, <2>1
  <2>2. CASE \E m, retry, last : Opens(c, m, retry, last)
    BY <1>2, <2>2, OpenStep
  <2> QED BY <1>5, <2>1, <2>2, BridgeStepKinds
<1>6. ASSUME NEW c \in Chains, NEW d \in Chains, syncChainData(c, d)
      PROVE  Goal
  BY <1>2, <1>6, SyncStep
<1>7. ASSUME NEW c \in Chains, NEW x, setQuota(c, x) \/ setPeriod(c, x)
      PROVE  Goal
  BY <1>3, <1>7 DEF setQuota, setPeriod, bridgeVars
<1>8. ASSUME Tick \/ UNCHANGED vars
      PROVE  Goal
  BY <1>3, <1>8 DEF Tick, vars, bridgeVars
<1> HIDE DEF Goal
<1>9. Goal
  <2>1. CASE \E m \in Message : sendMessage(m.srcChainId, m)
    BY <1>4, <2>1
  <2>2. CASE \E c \in Chains : BridgeStep(c)
    BY <1>5, <2>2
  <2>3. CASE \E c, d \in Chains : syncChainData(c, d)
    BY <1>6, <2>3
  <2>4. CASE \/ \E c \in Chains, quota \in Quotas : setQuota(c, quota)
             \/ \E c \in Chains, period \in QuotaPeriods : setPeriod(c, period)
    BY <1>7, <2>4
  <2>5. CASE Tick \/ UNCHANGED vars
    BY <1>8, <2>5
  <2>6. Next \/ UNCHANGED vars
    OBVIOUS
  <2> QED BY <2>1, <2>2, <2>3, <2>4, <2>5, <2>6 DEF Next
<1> QED BY <1>9 DEF Goal

(* Statuses, signals, knowledge and calls stay consistent over all chains:  *)
(* among other things, a message is recalled only after its destination     *)
(* failed it for good, and the guard of a call in progress keeps its        *)
(* message's status until the call returns.                                 *)
THEOREM Consistent == Spec => []IInv
<1>1. Init => IInv
  BY InitInv
<1>2. IInv /\ [Next]_vars => IInv'
  BY NextStep
<1> QED BY <1>1, <1>2, PTL DEF Spec

(* The bridges settle every message at most once.                           *)
THEOREM SettlesOnce == Spec => ImplementsSettlement
<1>1. Init => Settlement!Init
  BY InitInv DEF Settlement!Init
<1>2. IInv /\ [Next]_vars => [Settlement!Next]_<<Pending, Delivered, Recalled>>
  BY NextStep
<1> QED BY <1>1, <1>2, Consistent, PTL DEF Spec, ImplementsSettlement, Settlement!Spec
=============================================================================
