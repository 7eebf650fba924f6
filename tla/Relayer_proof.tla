--------------------------- MODULE Relayer_proof ---------------------------
(***************************************************************************)
(* For every set of messages and transactions, and any number of copies,   *)
(* reorgs, crashes and failed calls: what the relayer saves follows the     *)
(* destination, it wastes no transaction of its own accord, and as long as *)
(* nothing fails it loses no message.                                      *)
(*                                                                         *)
(* The invariant IInv adds what the processes know of each other: a saved  *)
(* message is confirmed for good, a queued one has gas, and a worker past  *)
(* its transaction has seen the message settled.                           *)
(***************************************************************************)
EXTENDS Relayer, FiniteSetTheorems, WellFoundedInduction, TLAPS

(* A transaction is in one block of the source chain.                       *)
OnceMined == \A j, k \in DOMAIN chain : j # k => chain[j] \cap chain[k] = {}

(* No reorg takes a saved message back.                                     *)
SavedConfirmed == \A m \in Messages : rows[m] # NoRow => Confirmed(m)

(* A message without gas is not published.                                  *)
QueuedHasGas == \A m \in ZeroGas : ready[m] = 0 /\ unacked[m] = 0 /\ parked[m] = 0

(* What a worker knows of its message at each step.                         *)
WorkerKnows(t) ==
  LET m == worker[t].m
  IN  /\ m \notin ZeroGas
      /\ worker[t].step # "prove" => Confirmed(m)
      /\ worker[t].step \in {"reverted", "mined", "save"} => status[m] # "New"
      /\ worker[t].step = "save" => worker[t].seen # "New"
      /\ worker[t].step = "save" /\ worker[t].seen = "Done" => status[m] = "Done"
      /\ worker[t].step = "wait" /\ faults = 0 => status[m] = "New" \/ m \in others

WorkersKnow == \A t \in Txs : worker[t] # Idle => WorkerKnows(t)

(* Without a fault no transaction is left without its worker.               *)
NoOrphans == faults = 0 => \A m \in Messages : orphans[m] = 0

IInv ==
  /\ TypeOK /\ OnceMined /\ SavedConfirmed /\ QueuedHasGas /\ WorkersKnow /\ NoOrphans
  /\ RowsFollowDestination /\ NoWaste /\ NothingLost

-----------------------------------------------------------------------------
(* Arithmetic and sets *)

(* A bounded set of naturals has a greatest element.                        *)
LEMMA GreatestExists ==
  ASSUME NEW n \in Nat, NEW S \in SUBSET (0..n), S # {}
  PROVE  Max(S) \in S /\ \A y \in S : y <= Max(S)
<1> DEFINE Above == {k..n : k \in S}
<1>1. IsWellFoundedOn(StrictSubsetOrdering(0..n), SUBSET (0..n))
  <2>1. IsFiniteSet(0..n)
    BY FS_Interval
  <2>. QED  BY ONLY <2>1, FS_FiniteSubsetsOfFinite,
       FS_StrictSubsetOrderingWellFounded, Zenon
<1>2. Above \in SUBSET (SUBSET (0..n)) /\ Above # {}
  <2>1. \A k \in S : k..n \in SUBSET (0..n)
    OBVIOUS
  <2>. QED  BY <2>1, Zenon
<1>3. PICK a \in Above : \A b \in Above : <<b, a>> \notin StrictSubsetOrdering(0..n)
  BY <1>1, <1>2, WFMin
<1>4. PICK x \in S : a = x..n
  OBVIOUS
<1>5. \A y \in S : y <= x
  <2> SUFFICES ASSUME NEW y \in S, y > x  PROVE FALSE
    OBVIOUS
  <2>1. y..n \in Above /\ y..n \subseteq x..n /\ y..n # x..n
    OBVIOUS
  <2>. QED  BY <2>1, <1>2, <1>3, <1>4 DEF StrictSubsetOrdering
<1>6. x \in S /\ \A y \in S : x >= y
  BY <1>5
<1>. QED  BY <1>6 DEF Max

LEMMA LeastOfTwo ==
  ASSUME NEW a \in Nat, NEW b \in Nat
  PROVE  Min({a, b}) \in Nat /\ Min({a, b}) <= a
BY DEF Min

LEMMA GreatestOfTwo ==
  ASSUME NEW a \in Nat, NEW b \in Nat
  PROVE  Max({a, b}) \in Nat
BY DEF Max

LEMMA Wraps ==
  ASSUME NEW a \in Int, NEW n \in Nat \ {0}
  PROVE  a % n \in Nat
OBVIOUS

-----------------------------------------------------------------------------
(* Which steps change what *)

LEMMA ChainSteps ==
  ASSUME [Next]_vars
  PROVE  MineBlock \/ Reorg \/ UNCHANGED chain
BY ZenonT(30) DEF Next, IndexerStep, Deliver, WorkerStep, WorkerFails, vars, destination, indexer,
  queue, counters, MineBlock, Reorg, Sync, OtherProcesses, OwnerRetries, OrphanMined, StartScan, RetryBatch,
  EndBatch, HandleEvent, HandleTimesOut, HandleFails, IndexerCrashes, DropDuplicate,
  AckSettled, StartProcessing, ExpireParked, Prove, SendTx, TxMined, ReadStatus,
  SaveStatus, DropReverted, FindUnprofitable, Requeue, ProcessingFails,
  ProcessingTimesOut, ChannelCloses, ProcessorCrashes

LEMMA RowSteps ==
  ASSUME [Next]_vars
  PROVE  \/ \E ix \in Indexers, m \in Messages : HandleEvent(ix, m) \/ HandleFails(ix, m)
         \/ \E t \in Txs : SaveStatus(t)
         \/ UNCHANGED rows
BY ZenonT(30) DEF Next, IndexerStep, Deliver, WorkerStep, WorkerFails, vars, destination, indexer,
  queue, counters, MineBlock, Reorg, Sync, OtherProcesses, OwnerRetries, OrphanMined, StartScan, RetryBatch,
  EndBatch, HandleEvent, HandleTimesOut, HandleFails, IndexerCrashes, DropDuplicate,
  AckSettled, StartProcessing, ExpireParked, Prove, SendTx, TxMined, ReadStatus,
  SaveStatus, DropReverted, FindUnprofitable, Requeue, ProcessingFails,
  ProcessingTimesOut, ChannelCloses, ProcessorCrashes

LEMMA StatusSteps ==
  ASSUME [Next]_vars
  PROVE  \/ \E m \in Messages : OtherProcesses(m) \/ OwnerRetries(m) \/ OrphanMined(m)
         \/ \E t \in Txs : TxMined(t)
         \/ UNCHANGED status
BY ZenonT(30) DEF Next, IndexerStep, Deliver, WorkerStep, WorkerFails, vars, destination, indexer,
  queue, counters, MineBlock, Reorg, Sync, OtherProcesses, OwnerRetries, OrphanMined, StartScan, RetryBatch,
  EndBatch, HandleEvent, HandleTimesOut, HandleFails, IndexerCrashes, DropDuplicate,
  AckSettled, StartProcessing, ExpireParked, Prove, SendTx, TxMined, ReadStatus,
  SaveStatus, DropReverted, FindUnprofitable, Requeue, ProcessingFails,
  ProcessingTimesOut, ChannelCloses, ProcessorCrashes

LEMMA QueueSteps ==
  ASSUME [Next]_vars
  PROVE  \/ \E ix \in Indexers, m \in Messages : HandleEvent(ix, m)
         \/ \E m \in Messages : Deliver(m) \/ ExpireParked(m)
         \/ \E t \in Txs : FindUnprofitable(t) \/ WorkerFails(t)
         \/ ChannelCloses \/ ProcessorCrashes
         \/ UNCHANGED queue
BY ZenonT(30) DEF Next, IndexerStep, WorkerStep, vars, destination, indexer, queue, counters,
  MineBlock, Reorg, Sync, OtherProcesses, OwnerRetries, OrphanMined, StartScan, RetryBatch,
  EndBatch, HandleTimesOut, HandleFails, IndexerCrashes, Prove, SendTx, TxMined,
  ReadStatus, SaveStatus, DropReverted

LEMMA WorkerSteps ==
  ASSUME [Next]_vars
  PROVE  \/ \E m \in Messages : StartProcessing(m)
         \/ \E t \in Txs : WorkerStep(t) \/ FindUnprofitable(t) \/ WorkerFails(t)
         \/ ChannelCloses \/ ProcessorCrashes
         \/ UNCHANGED worker
BY ZenonT(30) DEF Next, IndexerStep, Deliver, WorkerStep, WorkerFails, vars, destination, indexer,
  queue, counters, MineBlock, Reorg, Sync, OtherProcesses, OwnerRetries, OrphanMined, StartScan, RetryBatch,
  EndBatch, HandleEvent, HandleTimesOut, HandleFails, IndexerCrashes, DropDuplicate,
  AckSettled, StartProcessing, ExpireParked, Prove, SendTx, TxMined, ReadStatus,
  SaveStatus, DropReverted, FindUnprofitable, Requeue, ProcessingFails,
  ProcessingTimesOut, ChannelCloses, ProcessorCrashes

-----------------------------------------------------------------------------
(* Types, and the source chain *)

LEMMA BlockOfMined ==
  ASSUME OnceMined, NEW m \in Messages, OnChain(m)
  PROVE  /\ BlockOf(m) \in DOMAIN chain /\ TxOf[m] \in chain[BlockOf(m)]
         /\ \A h \in DOMAIN chain : TxOf[m] \in chain[h] => h = BlockOf(m)
BY DEF BlockOf, OnChain, Mined, OnceMined

LEMMA RestartType ==
  ASSUME TypeOK, OnceMined, SavedConfirmed
  PROVE  RestartCursor \in Nat
<1> DEFINE saved == {m \in Messages : rows[m] # NoRow}
           B == {BlockOf(m) : m \in saved}
<1>1. CASE saved = {}
  BY <1>1 DEF RestartCursor
<1>2. CASE saved # {}
  <2>1. \A m \in saved : BlockOf(m) \in 1..Len(chain)
    BY BlockOfMined DEF SavedConfirmed, Confirmed, TypeOK
  <2>2. B \subseteq 1..Len(chain) /\ B # {} /\ Len(chain) \in Nat
    BY <2>1, <1>2 DEF TypeOK
  <2>3. B \subseteq 0..Len(chain)
    BY <2>2
  <2> HIDE DEF B
  <2>4. Max(B) \in B
    BY <2>2, <2>3, GreatestExists
  <2>5. Max(B) \in 1..Len(chain)
    BY <2>2, <2>4, Zenon
  <2>6. Max(B) - 1 \in Nat
    BY <2>2, <2>5
  <2>. QED  BY <2>6, <1>2 DEF RestartCursor, B
<1>. QED  BY <1>1, <1>2

LEMMA ScanType ==
  ASSUME TypeOK, NEW ix \in Indexers
  PROVE  ScanFrom(ix) \in Nat /\ ScanEnd(ix) \in Nat
<1>1. /\ Len(chain) \in Nat /\ cursor \in Nat
      /\ CrawlStart \in Nat /\ CrawlEnd \in Nat /\ BlockNumbers \in Nat \ {0}
  BY RelayerAssumption DEF TypeOK
<1>2. (Len(chain) - CrawlStart) % BlockNumbers \in Nat
  BY <1>1, Wraps
<1>3. Max({0, (Len(chain) - CrawlStart) % BlockNumbers}) \in Nat
  BY <1>2, GreatestOfTwo
<1>4. ScanStart(ix) \in Nat
  BY <1>1, <1>3 DEF ScanStart
<1>5. (ScanStart(ix) + 1) % BlockNumbers \in Nat
  BY <1>1, <1>4, Wraps
<1>. QED  BY <1>1, <1>5 DEF ScanFrom, ScanEnd

(* One field of a batch or of a worker changes.                             *)
LEMMA BatchFields ==
  ASSUME TypeOK, NEW ix \in Indexers, NEW todo \in SUBSET Messages
  PROVE  /\ batch[ix].from \in Nat /\ batch[ix].end \in Nat
         /\ batch[ix].todo \in SUBSET Messages
         /\ [batch EXCEPT ![ix] = NoBatch] \in [Indexers -> Batch]
         /\ [batch EXCEPT ![ix].todo = todo] \in [Indexers -> Batch]
         /\ [batch EXCEPT ![ix].todo = todo, ![ix].err = TRUE] \in [Indexers -> Batch]
         /\ [batch[ix] EXCEPT !.todo = todo, !.err = FALSE, !.tries = @ + 1] \in Batch
<1>1. batch \in [Indexers -> Batch] /\ batch[ix] \in Batch
  BY DEF TypeOK
<1>2. /\ batch[ix].from \in Nat /\ batch[ix].end \in Nat /\ batch[ix].tries \in Nat
      /\ batch[ix].todo \in SUBSET Messages /\ batch[ix].err \in BOOLEAN
  BY <1>1 DEF Batch
<1>3. NoBatch \in Batch
  BY DEF NoBatch, Batch
<1>4. [batch EXCEPT ![ix].todo = todo] \in [Indexers -> Batch]
  BY <1>1, <1>2 DEF Batch
<1>5. [batch EXCEPT ![ix].todo = todo, ![ix].err = TRUE] \in [Indexers -> Batch]
  BY <1>1, <1>2 DEF Batch
<1>6. [batch[ix] EXCEPT !.todo = todo, !.err = FALSE, !.tries = @ + 1] \in Batch
  <2> DEFINE b == [batch[ix] EXCEPT !.todo = todo, !.err = FALSE]
  <2>1. b \in Batch
    BY <1>1 DEF Batch
  <2>2. [batch[ix] EXCEPT !.todo = todo, !.err = FALSE, !.tries = @ + 1]
          = [b EXCEPT !.tries = batch[ix].tries + 1]
    BY <1>1 DEF Batch
  <2> HIDE DEF b
  <2>3. [b EXCEPT !.tries = batch[ix].tries + 1] \in Batch
    BY <1>2, <2>1 DEF Batch
  <2>. QED  BY <2>2, <2>3
<1>. QED  BY <1>1, <1>2, <1>3, <1>4, <1>5, <1>6

LEMMA SavedType ==
  ASSUME TypeOK, NEW ix \in Indexers, NEW m \in Messages
  PROVE  Saved(ix, m) \in Statuses \cup {NoRow}
BY DEF Saved, TypeOK, Statuses

LEMMA Working ==
  ASSUME TypeOK, NEW t \in Txs, worker[t] # Idle
  PROVE  worker[t] \in Work /\ worker[t].m \in Messages /\ TxOf[worker[t].m] = t
BY DEF TypeOK, Work

LEMMA AtStep ==
  ASSUME TypeOK, NEW t \in Txs, NEW step \in Steps, At(t, step)
  PROVE  worker[t] # Idle
BY DEF At, Steps, Idle

WorkersTyped ==
  /\ worker \in [Txs -> Work \cup {Idle}]
  /\ \A t \in Txs : worker[t] # Idle => TxOf[worker[t].m] = t

LEMMA WorkerSet ==
  ASSUME TypeOK, NEW t \in Txs, NEW w \in Work, TxOf[w.m] = t,
         worker' = [worker EXCEPT ![t] = w]
  PROVE  WorkersTyped'
BY DEF TypeOK, WorkersTyped

LEMMA WorkerAnswers ==
  ASSUME TypeOK, NEW t \in Txs, Answers(t)
  PROVE  WorkersTyped'
BY DEF TypeOK, WorkersTyped, Answers

LEMMA WorkerMoves ==
  ASSUME TypeOK, NEW t \in Txs, worker[t] # Idle, NEW step \in Steps,
         worker' = [worker EXCEPT ![t].step = step]
  PROVE  WorkersTyped'
<1>1. worker[t] \in Work /\ TxOf[worker[t].m] = t
  BY Working
<1>2. /\ [worker[t] EXCEPT !.step = step] \in Work
      /\ [worker[t] EXCEPT !.step = step].m = worker[t].m
  BY <1>1 DEF Work
<1>3. worker' = [worker EXCEPT ![t] = [worker[t] EXCEPT !.step = step]]
  BY DEF TypeOK
<1>. QED  BY <1>1, <1>2, <1>3, WorkerSet

LEMMA TypeNext ==
  ASSUME TypeOK, OnceMined, SavedConfirmed, [Next]_vars
  PROVE  TypeOK'
<1>. USE DEF vars, destination, indexer, queue, counters
<1>1. CASE MineBlock
  BY <1>1 DEF MineBlock, TypeOK
<1>2. CASE Reorg
  <2>1. PICK h \in DOMAIN chain, fork \in [DOMAIN chain -> SUBSET Txs] :
          chain' = fork /\ synced' = Min({synced, h - 1})
    BY <1>2 DEF Reorg
  <2>2. DOMAIN chain = 1..Len(chain) /\ Len(chain) \in Nat /\ synced \in Nat
    BY DEF TypeOK
  <2>3. chain' \in Seq(SUBSET Txs) /\ synced' \in Nat
    <3>1. chain' \in [1..Len(chain) -> SUBSET Txs]
      BY <2>1, <2>2
    <3>2. chain' \in Seq(SUBSET Txs)
      BY <2>2, <3>1
    <3>3. h - 1 \in Nat
      BY <2>1, <2>2
    <3>. QED  BY <2>1, <2>2, <3>2, <3>3, LeastOfTwo
  <2>. QED  BY SMTT(20), <1>2, <2>3 DEF Reorg, TypeOK
<1>3. CASE Sync
  BY <1>3 DEF Sync, TypeOK
<1>4. ASSUME NEW m \in Messages, OtherProcesses(m)  PROVE TypeOK'
  BY <1>4 DEF OtherProcesses, Statuses, TypeOK
<1>5. ASSUME NEW m \in Messages, OwnerRetries(m)  PROVE TypeOK'
  BY <1>5 DEF OwnerRetries, Statuses, TypeOK
<1>6. ASSUME NEW m \in Messages, OrphanMined(m)  PROVE TypeOK'
  <2>1. orphans' \in [Messages -> Nat]
    BY <1>6 DEF OrphanMined, TypeOK
  <2>2. status' \in [Messages -> Statuses]
    BY <1>6 DEF OrphanMined, TypeOK, Statuses
  <2>. QED  BY <1>6, <2>1, <2>2 DEF OrphanMined, TypeOK
<1>7. ASSUME NEW ix \in Indexers, StartScan(ix)  PROVE TypeOK'
  <2> DEFINE b == [from |-> ScanFrom(ix), end |-> ScanEnd(ix),
                   todo |-> SentIn(ScanFrom(ix), ScanEnd(ix)), err |-> FALSE, tries |-> 0]
  <2>1. SentIn(ScanFrom(ix), ScanEnd(ix)) \in SUBSET Messages
    BY DEF SentIn
  <2>2. b \in Batch
    BY <2>1, ScanType DEF Batch
  <2>3. batch' = [batch EXCEPT ![ix] = b]
    BY <1>7 DEF StartScan
  <2> HIDE DEF b
  <2>4. batch' \in [Indexers -> Batch]
    BY <2>2, <2>3 DEF TypeOK
  <2>. QED  BY <1>7, <2>4 DEF StartScan, TypeOK
<1>8. ASSUME NEW ix \in Indexers, RetryBatch(ix)  PROVE TypeOK'
  <2>1. SentIn(batch[ix].from, batch[ix].end) \in SUBSET Messages
    BY DEF SentIn
  <2>2. batch' \in [Indexers -> Batch]
    BY <1>8, <2>1, BatchFields DEF RetryBatch, TypeOK
  <2>. QED  BY <1>8, <2>2 DEF RetryBatch, TypeOK
<1>9. ASSUME NEW ix \in Indexers, EndBatch(ix)  PROVE TypeOK'
  BY <1>9, BatchFields DEF EndBatch, NoBatch, TypeOK
<1>10. ASSUME NEW ix \in Indexers, NEW m \in Messages, HandleEvent(ix, m)  PROVE TypeOK'
  <2>1. batch[ix].todo \ {m} \in SUBSET Messages
    BY BatchFields
  <2>2. batch' \in [Indexers -> Batch]
    BY <1>10, <2>1, BatchFields DEF HandleEvent
  <2>3. rows' \in [Messages -> Statuses \cup {NoRow}]
    BY <1>10, SavedType DEF HandleEvent, TypeOK
  <2>4. ready' \in [Messages -> Nat]
    <3>1. ready \in [Messages -> Nat] /\ ready[m] \in Nat
      BY DEF TypeOK
    <3>2. ready' = [ready EXCEPT ![m] = ready[m] + 1] \/ ready' = ready
      BY <1>10 DEF HandleEvent
    <3>. QED  BY <3>1, <3>2
  <2>. QED  BY <1>10, <2>2, <2>3, <2>4 DEF HandleEvent, TypeOK
<1>11. ASSUME NEW ix \in Indexers, NEW m \in Messages, HandleTimesOut(ix, m)  PROVE TypeOK'
  <2>1. batch[ix].todo \ {m} \in SUBSET Messages
    BY BatchFields
  <2>2. batch' \in [Indexers -> Batch]
    BY <1>11, <2>1, BatchFields DEF HandleTimesOut
  <2>. QED  BY <1>11, <2>2 DEF HandleTimesOut, TypeOK
<1>12. ASSUME NEW ix \in Indexers, NEW m \in Messages, HandleFails(ix, m)  PROVE TypeOK'
  <2>1. batch[ix].todo \ {m} \in SUBSET Messages
    BY BatchFields
  <2>2. batch' \in [Indexers -> Batch]
    BY <1>12, <2>1, BatchFields DEF HandleFails
  <2>3. rows[m] \in Statuses \cup {NoRow} /\ Saved(ix, m) \in Statuses \cup {NoRow}
    BY SavedType DEF TypeOK
  <2>4. PICK row \in {rows[m], Saved(ix, m)} : rows' = [rows EXCEPT ![m] = row]
    BY <1>12 DEF HandleFails
  <2>5. rows' \in [Messages -> Statuses \cup {NoRow}]
    BY <2>3, <2>4 DEF TypeOK
  <2>. QED  BY SMTT(20), <1>12, <2>2, <2>5 DEF HandleFails, TypeOK
<1>13. ASSUME NEW ix \in Indexers, IndexerCrashes(ix)  PROVE TypeOK'
  <2>1. batch' \in [Indexers -> Batch]
    BY <1>13, BatchFields DEF IndexerCrashes
  <2>2. cursor' \in Nat
    BY <1>13, RestartType DEF IndexerCrashes, TypeOK
  <2>. QED  BY <1>13, <2>1, <2>2 DEF IndexerCrashes, TypeOK
<1>14. ASSUME NEW m \in Messages, DropDuplicate(m)  PROVE TypeOK'
  BY <1>14 DEF DropDuplicate, TypeOK
<1>15. ASSUME NEW m \in Messages, AckSettled(m)  PROVE TypeOK'
  BY <1>15 DEF AckSettled, TypeOK
<1>16. ASSUME NEW m \in Messages, StartProcessing(m)  PROVE TypeOK'
  <2>1. [step |-> "prove", m |-> m, seen |-> "New", held |-> TRUE] \in Work
    BY DEF Work, Steps, Statuses
  <2>2. TxOf[m] \in Txs
    BY RelayerAssumption
  <2>9. WorkersTyped'
    BY <1>16, <2>1, <2>2, WorkerSet DEF StartProcessing
  <2>. QED  BY <1>16, <2>9 DEF StartProcessing, WorkersTyped, TypeOK
<1>17. ASSUME NEW m \in Messages, ExpireParked(m)  PROVE TypeOK'
  BY <1>17 DEF ExpireParked, TypeOK
<1>18. ASSUME NEW t \in Txs, Prove(t)  PROVE TypeOK'
  <2>9. WorkersTyped'
    BY <1>18, AtStep, WorkerMoves DEF Prove, Steps
  <2>. QED  BY <1>18, <2>9 DEF Prove, WorkersTyped, TypeOK
<1>19. ASSUME NEW t \in Txs, SendTx(t)  PROVE TypeOK'
  <2>9. WorkersTyped'
    BY <1>19, AtStep, WorkerMoves, WorkerAnswers DEF SendTx, Steps
  <2>. QED  BY <1>19, <2>9 DEF SendTx, WorkersTyped, TypeOK
<1>20. ASSUME NEW t \in Txs, TxMined(t)  PROVE TypeOK'
  <2>1. worker[t] # Idle
    BY <1>20, AtStep DEF TxMined, Steps
  <2>9. WorkersTyped'
    BY <1>20, <2>1, WorkerMoves DEF TxMined, Steps
  <2>10. status' \in [Messages -> Statuses]
    BY ZenonT(30), <1>20, <2>1, Working DEF TxMined, TypeOK, Statuses
  <2>. QED  BY <1>20, <2>9, <2>10 DEF TxMined, WorkersTyped, TypeOK
<1>21. ASSUME NEW t \in Txs, ReadStatus(t)  PROVE TypeOK'
  <2>1. worker[t] # Idle
    BY <1>21, AtStep DEF ReadStatus, Steps
  <2>2. worker[t] \in Work /\ TxOf[worker[t].m] = t /\ status[worker[t].m] \in Statuses
    BY <2>1, Working DEF TypeOK
  <2> DEFINE w == [worker[t] EXCEPT !.step = "save", !.seen = status[worker[t].m]]
  <2>3. w \in Work /\ w.m = worker[t].m
    BY <2>2 DEF Work, Steps
  <2>4. worker' = [worker EXCEPT ![t] = w]
    BY <1>21 DEF ReadStatus, StatusRead, TypeOK
  <2> HIDE DEF w
  <2>9. WorkersTyped'
    BY <2>2, <2>3, <2>4, WorkerSet
  <2>. QED  BY <1>21, <2>9 DEF ReadStatus, WorkersTyped, TypeOK
<1>22. ASSUME NEW t \in Txs, SaveStatus(t)  PROVE TypeOK'
  BY <1>22 DEF SaveStatus, Answers, At, Work, Steps, Idle, TypeOK
<1>23. ASSUME NEW t \in Txs, DropReverted(t)  PROVE TypeOK'
  BY <1>23 DEF DropReverted, Answers, At, Work, Steps, Idle, TypeOK
<1>24. ASSUME NEW t \in Txs, FindUnprofitable(t)  PROVE TypeOK'
  BY <1>24 DEF FindUnprofitable, Answers, At, Work, Steps, Idle, TypeOK
<1>25. ASSUME NEW t \in Txs, Requeue(t)  PROVE TypeOK'
  BY <1>25 DEF Requeue, Answers, Work, Steps, Idle, TypeOK
<1>26. ASSUME NEW t \in Txs, ProcessingFails(t)  PROVE TypeOK'
  BY <1>26 DEF ProcessingFails, Answers, Work, Steps, Idle, TypeOK
<1>27. ASSUME NEW t \in Txs, ProcessingTimesOut(t)  PROVE TypeOK'
  BY <1>27 DEF ProcessingTimesOut, Answers, Work, Steps, Idle, Orphaned, TypeOK
<1>28. CASE ChannelCloses
  <2>1. \A t \in Txs : worker[t] # Idle =>
          /\ [worker[t] EXCEPT !.held = FALSE] \in Work
          /\ [worker[t] EXCEPT !.held = FALSE].m = worker[t].m
    BY Working DEF Work
  <2>2. \A t \in Txs : worker'[t] =
          IF worker[t] = Idle THEN Idle ELSE [worker[t] EXCEPT !.held = FALSE]
    BY <1>28 DEF ChannelCloses
  <2>3. worker' \in [Txs -> Work \cup {Idle}]
    BY <1>28, <2>1 DEF ChannelCloses
  <2>9. WorkersTyped'
    BY <2>1, <2>2, <2>3, Working DEF WorkersTyped
  <2>10. ready' \in [Messages -> Nat]
    BY <1>28 DEF ChannelCloses, Redelivered, TypeOK
  <2>. QED  BY SMTT(20), <1>28, <2>9, <2>10 DEF ChannelCloses, WorkersTyped, TypeOK
<1>29. CASE ProcessorCrashes
  BY <1>29 DEF ProcessorCrashes, Redelivered, Orphaned, Work, Idle, TypeOK
<1>30. CASE UNCHANGED vars
  BY <1>30 DEF TypeOK
<1>. QED
  BY <1>1, <1>2, <1>3, <1>4, <1>5, <1>6, <1>7, <1>8, <1>9, <1>10, <1>11, <1>12, <1>13, <1>14, <1>15, <1>16, <1>17, <1>18, <1>19, <1>20, <1>21, <1>22, <1>23, <1>24, <1>25, <1>26, <1>27, <1>28, <1>29, <1>30
     DEF Next, IndexerStep, Deliver, WorkerStep, WorkerFails

LEMMA ConfirmationsType == Confirmations \in Nat
BY RelayerAssumption

(* A block with enough confirmations stays where it is.                     *)
LEMMA StaysConfirmed ==
  ASSUME TypeOK, TypeOK', OnceMined, OnceMined', NEW m \in Messages, Confirmed(m),
         Len(chain) <= Len(chain'), chain'[BlockOf(m)] = chain[BlockOf(m)]
  PROVE  Confirmed(m)'
<1>1. /\ BlockOf(m) \in 1..Len(chain) /\ TxOf[m] \in chain[BlockOf(m)]
      /\ BlockOf(m) + Confirmations <= Len(chain)
  BY SMTT(20), BlockOfMined DEF Confirmed, TypeOK
<1>2. BlockOf(m) \in DOMAIN chain' /\ TxOf[m] \in chain'[BlockOf(m)]
  BY SMTT(20), <1>1 DEF TypeOK
<1>3. OnChain(m)'
  BY <1>2 DEF OnChain, Mined
<1>4. BlockOf(m)' \in DOMAIN chain' /\ TxOf[m] \in chain'[BlockOf(m)']
  BY <1>3 DEF BlockOf, OnChain, Mined
<1>5. BlockOf(m)' = BlockOf(m)
  BY <1>2, <1>4 DEF OnceMined
<1>6. Len(chain) \in Nat /\ Len(chain') \in Nat
  BY SMTT(20) DEF TypeOK
<1>. QED  BY <1>1, <1>3, <1>5, <1>6, ConfirmationsType DEF Confirmed

LEMMA OnceMinedNext ==
  ASSUME TypeOK, OnceMined, [Next]_vars
  PROVE  OnceMined'
<1>1. CASE MineBlock
  <2>1. PICK new \in SUBSET (Txs \ Mined) : chain' = Append(chain, new)
    BY <1>1 DEF MineBlock
  <2>2. \A h \in DOMAIN chain : chain[h] \cap new = {}
    BY <2>1 DEF Mined
  <2>3. /\ DOMAIN chain' = 1..Len(chain) + 1 /\ DOMAIN chain = 1..Len(chain)
        /\ Len(chain) \in Nat
        /\ \A h \in 1..Len(chain) + 1 :
             chain'[h] = IF h = Len(chain) + 1 THEN new ELSE chain[h]
    BY <2>1 DEF TypeOK
  <2>. QED  BY <2>2, <2>3 DEF OnceMined
<1>2. CASE Reorg
  BY <1>2 DEF Reorg, OnceMined
<1>3. CASE UNCHANGED chain
  BY <1>3 DEF OnceMined
<1>. QED  BY <1>1, <1>2, <1>3, ChainSteps

LEMMA ConfirmedNext ==
  ASSUME TypeOK, TypeOK', OnceMined, OnceMined', [Next]_vars, NEW m \in Messages, Confirmed(m)
  PROVE  Confirmed(m)'
<1>1. /\ BlockOf(m) \in 1..Len(chain) /\ DOMAIN chain = 1..Len(chain)
      /\ BlockOf(m) + Confirmations <= Len(chain)
      /\ Len(chain) \in Nat /\ Confirmations \in Nat
  <2>1. BlockOf(m) \in DOMAIN chain /\ BlockOf(m) + Confirmations <= Len(chain)
    BY BlockOfMined DEF Confirmed
  <2>2. DOMAIN chain = 1..Len(chain) /\ Len(chain) \in Nat
    BY DEF TypeOK
  <2>. QED  BY <2>1, <2>2, ConfirmationsType
<1>2. CASE MineBlock
  <2>1. Len(chain) <= Len(chain') /\ chain'[BlockOf(m)] = chain[BlockOf(m)]
    BY <1>1, <1>2 DEF MineBlock, TypeOK
  <2>. QED  BY <2>1, StaysConfirmed
<1>3. CASE Reorg
  <2>1. PICK h \in DOMAIN chain, fork \in [DOMAIN chain -> SUBSET Txs] :
          /\ h + Confirmations > Len(chain)
          /\ \A k \in 1..h - 1 : fork[k] = chain[k]
          /\ chain' = fork
    BY <1>3 DEF Reorg
  <2>2. Len(chain') = Len(chain)
    BY <1>1, <2>1 DEF TypeOK
  <2>3. BlockOf(m) \in 1..h - 1
    BY <1>1, <2>1
  <2>. QED  BY <1>1, <2>1, <2>2, <2>3, StaysConfirmed
<1>4. CASE UNCHANGED chain
  BY <1>4 DEF Confirmed, OnChain, Mined, BlockOf
<1>. QED  BY <1>2, <1>3, <1>4, ChainSteps

LEMMA SavedConfirmedNext ==
  ASSUME TypeOK, TypeOK', OnceMined, OnceMined', SavedConfirmed, WorkersKnow, [Next]_vars
  PROVE  SavedConfirmed'
<1> SUFFICES ASSUME NEW m \in Messages, rows'[m] # NoRow  PROVE Confirmed(m)'
  BY DEF SavedConfirmed
<1>1. CASE rows[m] # NoRow
  BY <1>1, ConfirmedNext DEF SavedConfirmed
<1>2. CASE rows[m] = NoRow
  <2>1. ASSUME NEW ix \in Indexers, NEW n \in Messages, HandleEvent(ix, n) \/ HandleFails(ix, n)
        PROVE  Confirmed(m)'
    <3>1. Confirmed(n)
      BY <2>1 DEF HandleEvent, HandleFails
    <3>2. n # m => rows'[m] = rows[m]
      BY <2>1 DEF HandleEvent, HandleFails, TypeOK
    <3>. QED  BY <1>2, <3>1, <3>2, ConfirmedNext
  <2>2. ASSUME NEW t \in Txs, SaveStatus(t)  PROVE Confirmed(m)'
    <3>1. worker[t] # Idle
      BY <2>2, AtStep DEF SaveStatus, Steps
    <3>2. Confirmed(worker[t].m)
      BY <2>2, <3>1 DEF WorkersKnow, WorkerKnows, SaveStatus, At
    <3>3. worker[t].m # m => rows'[m] = rows[m]
      BY <2>2 DEF SaveStatus, TypeOK
    <3>. QED  BY <1>2, <3>1, <3>2, <3>3, Working, ConfirmedNext
  <2>3. CASE UNCHANGED rows
    BY <1>2, <2>3
  <2>. QED  BY <2>1, <2>2, <2>3, RowSteps
<1>. QED  BY <1>1, <1>2

-----------------------------------------------------------------------------
(* What the processes know *)

(* A status never goes back to New, and Done is final.                      *)
LEMMA StatusMoves ==
  ASSUME TypeOK, [Next]_vars, NEW m \in Messages
  PROVE  /\ status[m] # "New" => status'[m] # "New"
         /\ status[m] = "Done" => status'[m] = "Done"
<1>1. ASSUME NEW n \in Messages, OtherProcesses(n) \/ OwnerRetries(n) \/ OrphanMined(n)
      PROVE  /\ status[m] # "New" => status'[m] # "New"
             /\ status[m] = "Done" => status'[m] = "Done"
  BY <1>1 DEF OtherProcesses, OwnerRetries, OrphanMined, TypeOK
<1>2. ASSUME NEW t \in Txs, TxMined(t)
      PROVE  /\ status[m] # "New" => status'[m] # "New"
             /\ status[m] = "Done" => status'[m] = "Done"
  BY <1>2 DEF TxMined, TypeOK
<1>3. CASE UNCHANGED status
  BY <1>3
<1>. QED  BY <1>1, <1>2, <1>3, StatusSteps

(* Without a fault a message is settled by others or by its own worker.     *)
LEMMA SettledBy ==
  ASSUME TypeOK, NoOrphans, [Next]_vars, faults = 0, NEW m \in Messages,
         status[m] = "New", status'[m] # "New"
  PROVE  m \in others' \/ \E t \in Txs : TxMined(t) /\ worker[t].m = m
<1>1. ASSUME NEW n \in Messages, OtherProcesses(n) \/ OwnerRetries(n) \/ OrphanMined(n)
      PROVE  m \in others'
  <2>1. ~OrphanMined(n)
    BY DEF OrphanMined, NoOrphans
  <2>. QED  BY <1>1, <2>1 DEF OtherProcesses, OwnerRetries, TypeOK
<1>2. ASSUME NEW t \in Txs, TxMined(t)  PROVE worker[t].m = m
  BY <1>2 DEF TxMined, TypeOK
<1>. QED  BY <1>1, <1>2, StatusSteps

LEMMA FaultSteps ==
  ASSUME [Next]_vars
  PROVE  faults' = faults + 1 \/ UNCHANGED faults
BY ZenonT(30) DEF Next, IndexerStep, Deliver, WorkerStep, WorkerFails, vars, destination, indexer,
  queue, counters, MineBlock, Reorg, Sync, OtherProcesses, OwnerRetries, OrphanMined, StartScan, RetryBatch,
  EndBatch, HandleEvent, HandleTimesOut, HandleFails, IndexerCrashes, DropDuplicate,
  AckSettled, StartProcessing, ExpireParked, Prove, SendTx, TxMined, ReadStatus,
  SaveStatus, DropReverted, FindUnprofitable, Requeue, ProcessingFails,
  ProcessingTimesOut, ChannelCloses, ProcessorCrashes

LEMMA CountersGrow ==
  ASSUME TypeOK, [Next]_vars
  PROVE  faults' = 0 => faults = 0
<1>1. faults \in Nat
  BY DEF TypeOK
<1>. QED  BY <1>1, FaultSteps

LEMMA OthersGrow ==
  ASSUME [Next]_vars
  PROVE  others \subseteq others'
BY ZenonT(30) DEF Next, IndexerStep, Deliver, WorkerStep, WorkerFails, vars, destination, indexer,
  queue, counters, MineBlock, Reorg, Sync, OtherProcesses, OwnerRetries, OrphanMined, StartScan, RetryBatch,
  EndBatch, HandleEvent, HandleTimesOut, HandleFails, IndexerCrashes, DropDuplicate,
  AckSettled, StartProcessing, ExpireParked, Prove, SendTx, TxMined, ReadStatus,
  SaveStatus, DropReverted, FindUnprofitable, Requeue, ProcessingFails,
  ProcessingTimesOut, ChannelCloses, ProcessorCrashes

LEMMA OrphanSteps ==
  ASSUME [Next]_vars
  PROVE  \/ \E m \in Messages : OrphanMined(m)
         \/ faults' = faults + 1
         \/ UNCHANGED orphans
BY ZenonT(30) DEF Next, IndexerStep, Deliver, WorkerStep, WorkerFails, vars, destination, indexer,
  queue, counters, MineBlock, Reorg, Sync, OtherProcesses, OwnerRetries, StartScan, RetryBatch,
  EndBatch, HandleEvent, HandleTimesOut, HandleFails, IndexerCrashes, DropDuplicate,
  AckSettled, StartProcessing, ExpireParked, Prove, SendTx, TxMined, ReadStatus,
  SaveStatus, DropReverted, FindUnprofitable, Requeue, ProcessingFails,
  ProcessingTimesOut, ChannelCloses, ProcessorCrashes

LEMMA NoOrphansNext ==
  ASSUME TypeOK, NoOrphans, [Next]_vars
  PROVE  NoOrphans'
<1> SUFFICES ASSUME faults' = 0  PROVE \A m \in Messages : orphans'[m] = 0
  BY DEF NoOrphans
<1>1. faults = 0
  BY CountersGrow
<1>2. ~ \E m \in Messages : OrphanMined(m)
  BY <1>1 DEF NoOrphans, OrphanMined
<1>3. faults' # faults + 1
  BY <1>1
<1>. QED  BY <1>1, <1>2, <1>3, OrphanSteps DEF NoOrphans

LEMMA QueuedHasGasNext ==
  ASSUME TypeOK, QueuedHasGas, WorkersKnow, [Next]_vars
  PROVE  QueuedHasGas'
<1>1. ZeroGas \subseteq Messages
  BY RelayerAssumption
<1> SUFFICES ASSUME NEW m \in ZeroGas
             PROVE  ready'[m] = 0 /\ unacked'[m] = 0 /\ parked'[m] = 0
  BY DEF QueuedHasGas
<1>2. ready[m] = 0 /\ unacked[m] = 0 /\ parked[m] = 0 /\ m \in Messages
  BY <1>1 DEF QueuedHasGas
<1>3. \A t \in Txs : worker[t] # Idle => worker[t].m # m /\ worker[t].m \in Messages
  BY Working DEF WorkersKnow, WorkerKnows
<1>4. ~Busy(m)
  BY <1>2, <1>3, RelayerAssumption DEF Busy
<1>5. ASSUME NEW ix \in Indexers, NEW n \in Messages, HandleEvent(ix, n)
      PROVE  ready'[m] = 0 /\ unacked'[m] = 0 /\ parked'[m] = 0
  BY <1>2, <1>5 DEF HandleEvent, Publishes, TypeOK
<1>6. ASSUME NEW n \in Messages, Deliver(n) \/ ExpireParked(n)
      PROVE  ready'[m] = 0 /\ unacked'[m] = 0 /\ parked'[m] = 0
  BY <1>2, <1>6 DEF Deliver, DropDuplicate, AckSettled, StartProcessing, ExpireParked, TypeOK
<1>7. ASSUME NEW t \in Txs, FindUnprofitable(t) \/ WorkerFails(t)
      PROVE  ready'[m] = 0 /\ unacked'[m] = 0 /\ parked'[m] = 0
  <2>1. worker[t].m # m /\ worker[t].m \in Messages
    BY <1>3, <1>7 DEF FindUnprofitable, WorkerFails, Requeue, ProcessingFails,
         ProcessingTimesOut, At, Idle
  <2>2. CASE FindUnprofitable(t)
    BY <1>2, <2>1, <2>2 DEF FindUnprofitable, TypeOK
  <2>3. CASE Requeue(t)
    BY <1>2, <2>1, <2>3 DEF Requeue, TypeOK
  <2>4. CASE ProcessingFails(t)
    BY <1>2, <2>4 DEF ProcessingFails, queue
  <2>5. CASE ProcessingTimesOut(t)
    BY <1>2, <2>1, <2>5 DEF ProcessingTimesOut, TypeOK
  <2>. QED  BY <1>7, <2>2, <2>3, <2>4, <2>5 DEF WorkerFails
<1>8. CASE ChannelCloses \/ ProcessorCrashes
  BY <1>2, <1>4, <1>8 DEF ChannelCloses, ProcessorCrashes, Redelivered
<1>9. CASE UNCHANGED queue
  BY <1>2, <1>9 DEF queue
<1>. QED  BY <1>5, <1>6, <1>7, <1>8, <1>9, QueueSteps

(* A worker at the same step knows what it knew.                            *)
LEMMA WorkerStays ==
  ASSUME TypeOK, TypeOK', OnceMined, OnceMined', WorkersKnow, NoOrphans, [Next]_vars,
         NEW t \in Txs, worker[t] # Idle, worker'[t].m = worker[t].m,
         worker'[t].step = worker[t].step, worker'[t].seen = worker[t].seen
  PROVE  WorkerKnows(t)'
<1> DEFINE m == worker[t].m
<1>1. WorkerKnows(t) /\ m \in Messages /\ TxOf[m] = t
  BY Working DEF WorkersKnow
<1>2. worker[t].step # "prove" => Confirmed(m)'
  BY <1>1, ConfirmedNext DEF WorkerKnows
<1>3. /\ status[m] # "New" => status'[m] # "New"
      /\ status[m] = "Done" => status'[m] = "Done"
  BY <1>1, StatusMoves
<1>4. worker[t].step = "wait" /\ faults' = 0 => status'[m] = "New" \/ m \in others'
  <2> SUFFICES ASSUME worker[t].step = "wait", faults' = 0, status'[m] # "New"
               PROVE  m \in others'
    OBVIOUS
  <2>1. faults = 0
    BY CountersGrow
  <2>2. CASE status[m] = "New"
    <3>1. m \in others' \/ \E u \in Txs : TxMined(u) /\ worker[u].m = m
      BY <1>1, <2>1, <2>2, SettledBy
    <3>2. ASSUME NEW u \in Txs, TxMined(u), worker[u].m = m  PROVE FALSE
      <4>1. worker[u] # Idle
        BY <3>2, AtStep DEF TxMined, Steps
      <4>2. u = t
        BY <1>1, <3>2, <4>1, Working
      <4>3. worker'[t].step \in {"mined", "reverted"}
        <5>1. worker[t] \in Work /\ worker \in [Txs -> Work \cup {Idle}]
          BY Working DEF TypeOK
        <5>2. \/ worker' = [worker EXCEPT ![t].step = "mined"]
              \/ worker' = [worker EXCEPT ![t].step = "reverted"]
          BY <3>2, <4>2 DEF TxMined
        <5>. QED  BY <5>1, <5>2 DEF Work
      <4>. QED  BY <4>3
    <3>. QED  BY <3>1, <3>2
  <2>3. CASE m \in others
    BY <2>3, OthersGrow
  <2>. QED  BY <1>1, <2>1, <2>2, <2>3 DEF WorkerKnows
<1>. QED  BY <1>1, <1>2, <1>3, <1>4 DEF WorkerKnows

LEMMA WorkersKnowNext ==
  ASSUME TypeOK, TypeOK', OnceMined, OnceMined', QueuedHasGas, WorkersKnow, NoOrphans, [Next]_vars
  PROVE  WorkersKnow'
<1> SUFFICES ASSUME NEW t \in Txs, worker'[t] # Idle  PROVE WorkerKnows(t)'
  BY DEF WorkersKnow
<1>1. CASE worker'[t] = worker[t]
  BY <1>1, WorkerStays
<1>2. ASSUME NEW m \in Messages, StartProcessing(m), worker'[t] # worker[t]
      PROVE  WorkerKnows(t)'
  <2>1. worker'[t] = [step |-> "prove", m |-> m, seen |-> "New", held |-> TRUE]
    BY <1>2 DEF StartProcessing, TypeOK
  <2>2. m \notin ZeroGas
    BY <1>2 DEF StartProcessing, CanProcess
  <2>. QED  BY <2>1, <2>2 DEF WorkerKnows
<1>3. ASSUME NEW u \in Txs, WorkerStep(u), worker'[t] # worker[t]
      PROVE  WorkerKnows(t)'
  <2>1. u = t
    BY <1>3 DEF WorkerStep, Prove, SendTx, Answers, TxMined, ReadStatus, SaveStatus,
         DropReverted, TypeOK
  <2>2. worker[t] # Idle
    BY <1>3, <2>1, AtStep DEF WorkerStep, Prove, SendTx, TxMined, ReadStatus, SaveStatus,
         DropReverted, Steps
  <2> DEFINE m == worker[t].m
  <2>3. /\ worker[t] \in Work /\ m \in Messages /\ TxOf[m] = t /\ WorkerKnows(t)
        /\ worker \in [Txs -> Work \cup {Idle}]
    BY <2>2, Working DEF WorkersKnow, TypeOK
  <2>4. CASE Prove(t)
    <3>1. worker'[t].m = m /\ worker'[t].step = "send"
      BY <2>3, <2>4 DEF Prove, Work
    <3>2. Confirmed(m)
      BY <2>4 DEF Prove
    <3>. QED  BY <2>3, <3>1, <3>2, ConfirmedNext DEF WorkerKnows
  <2>5. CASE SendTx(t)
    <3>1. CanProcess(m) /\ worker' = [worker EXCEPT ![t].step = "wait"]
      BY <2>3, <2>5 DEF SendTx, Answers
    <3>2. worker'[t].m = m /\ worker'[t].step = "wait" /\ status'[m] = "New"
      BY <2>3, <2>5, <3>1 DEF SendTx, Work, CanProcess, destination
    <3>3. Confirmed(m)
      BY <2>3, <2>5 DEF WorkerKnows, SendTx, At
    <3>. QED  BY <2>3, <3>2, <3>3, ConfirmedNext DEF WorkerKnows
  <2>6. CASE TxMined(t)
    <3>1. \/ worker' = [worker EXCEPT ![t].step = "mined"]
          \/ worker' = [worker EXCEPT ![t].step = "reverted"]
      BY <2>6 DEF TxMined
    <3>2. worker'[t].m = m /\ worker'[t].step \in {"mined", "reverted"}
      BY <2>3, <3>1 DEF Work
    <3>3. status'[m] # "New"
      BY <2>3, <2>6 DEF TxMined, TypeOK
    <3>4. Confirmed(m)
      BY <2>3, <2>6 DEF WorkerKnows, TxMined, At
    <3>. QED  BY <2>3, <3>2, <3>3, <3>4, ConfirmedNext DEF WorkerKnows
  <2>7. CASE ReadStatus(t)
    <3>1. worker'[t].m = m /\ worker'[t].step = "save" /\ worker'[t].seen = status[m]
      BY <2>3, <2>7 DEF ReadStatus, StatusRead, Work
    <3>2. status' = status
      BY <2>7 DEF ReadStatus, destination
    <3>3. Confirmed(m) /\ status[m] # "New"
      BY <2>3, <2>7 DEF WorkerKnows, ReadStatus, At
    <3>. QED  BY <2>3, <3>1, <3>2, <3>3, ConfirmedNext DEF WorkerKnows
  <2>8. CASE SaveStatus(t) \/ DropReverted(t)
    BY <2>3, <2>8 DEF SaveStatus, DropReverted, Answers
  <2>. QED  BY <1>3, <2>1, <2>4, <2>5, <2>6, <2>7, <2>8 DEF WorkerStep
<1>4. ASSUME NEW u \in Txs, FindUnprofitable(u) \/ WorkerFails(u), worker'[t] # worker[t]
      PROVE  WorkerKnows(t)'
  BY <1>4 DEF FindUnprofitable, WorkerFails, Requeue, ProcessingFails, ProcessingTimesOut,
       Answers, TypeOK
<1>5. CASE ChannelCloses
  <2>1. worker[t] # Idle /\ worker'[t] = [worker[t] EXCEPT !.held = FALSE]
    BY <1>5 DEF ChannelCloses
  <2>2. /\ worker'[t].m = worker[t].m /\ worker'[t].step = worker[t].step
        /\ worker'[t].seen = worker[t].seen
    BY <2>1, Working DEF Work
  <2>. QED  BY <2>1, <2>2, WorkerStays
<1>6. CASE ProcessorCrashes
  BY <1>6 DEF ProcessorCrashes
<1>. QED  BY <1>1, <1>2, <1>3, <1>4, <1>5, <1>6, WorkerSteps

-----------------------------------------------------------------------------
(* The properties *)

LEMMA RowsNext ==
  ASSUME TypeOK, WorkersKnow, RowsFollowDestination, [Next]_vars
  PROVE  RowsFollowDestination'
<1> SUFFICES ASSUME NEW m \in Messages
             PROVE  /\ rows'[m] = "Done" => status'[m] = "Done"
                    /\ rows'[m] = "Retriable" => status'[m] # "New"
  BY DEF RowsFollowDestination
<1> DEFINE Follows == /\ rows'[m] = "Done" => status'[m] = "Done"
                      /\ rows'[m] = "Retriable" => status'[m] # "New"
<1>1. CASE rows'[m] = rows[m]
  BY <1>1, StatusMoves DEF RowsFollowDestination
<1>2. ASSUME NEW ix \in Indexers, NEW n \in Messages, HandleEvent(ix, n) \/ HandleFails(ix, n),
             rows'[m] # rows[m]
      PROVE  Follows
  <2>1. n = m /\ rows'[m] = Saved(ix, m) /\ status' = status
    BY <1>2 DEF HandleEvent, HandleFails, TypeOK, destination
  <2>2. rows'[m] = status[m] \/ (rows'[m] = "Done" /\ status[m] = "Done")
    BY <1>2, <2>1 DEF Saved
  <2>. QED  BY <2>1, <2>2
<1>3. ASSUME NEW t \in Txs, SaveStatus(t), rows'[m] # rows[m]  PROVE Follows
  <2>1. worker[t] # Idle /\ worker[t].step = "save"
    BY <1>3, AtStep DEF SaveStatus, At, Steps
  <2>2. worker[t].m = m /\ rows'[m] = worker[t].seen /\ status' = status
    BY <1>3 DEF SaveStatus, TypeOK, destination
  <2>. QED  BY <2>1, <2>2 DEF WorkersKnow, WorkerKnows
<1>. QED  BY <1>1, <1>2, <1>3, RowSteps

(* A reverted transaction had to wait for its message to be settled first.  *)
LEMMA NoWasteNext ==
  ASSUME TypeOK, TypeOK', WorkersKnow, NoWaste, [Next]_vars
  PROVE  NoWaste'
<1> SUFFICES ASSUME NEW t \in Txs, worker'[t].step = "reverted", faults' = 0
             PROVE  worker'[t].m \in others'
  <2>1. faults' \in Nat
    BY DEF TypeOK
  <2>. QED  BY <2>1 DEF NoWaste, At
<1>1. faults = 0
  BY CountersGrow
<1>2. CASE worker'[t] = worker[t]
  BY <1>1, <1>2, OthersGrow DEF NoWaste, At
<1>3. ASSUME NEW m \in Messages, StartProcessing(m), worker'[t] # worker[t]  PROVE FALSE
  BY <1>3 DEF StartProcessing, TypeOK
<1>4. ASSUME NEW u \in Txs, WorkerStep(u), worker'[t] # worker[t]
      PROVE  worker'[t].m \in others'
  <2>1. u = t
    BY <1>4 DEF WorkerStep, Prove, SendTx, Answers, TxMined, ReadStatus, SaveStatus,
         DropReverted, TypeOK
  <2>2. worker[t] # Idle
    BY <1>4, <2>1, AtStep DEF WorkerStep, Prove, SendTx, TxMined, ReadStatus, SaveStatus,
         DropReverted, Steps
  <2>3. /\ worker[t] \in Work /\ WorkerKnows(t) /\ worker[t].m \in Messages
        /\ worker \in [Txs -> Work \cup {Idle}]
    BY <2>2, Working DEF WorkersKnow, TypeOK
  <2>4. CASE TxMined(t)
    <3>1. worker'[t].m = worker[t].m
      BY <2>3, <2>4 DEF TxMined, Work
    <3>2. status[worker[t].m] # "New"
      <4> SUFFICES ASSUME status[worker[t].m] = "New"  PROVE FALSE
        OBVIOUS
      <4>1. worker' = [worker EXCEPT ![t].step = "mined"]
        BY <2>4 DEF TxMined
      <4>2. worker'[t].step = "mined"
        BY <2>3, <4>1 DEF Work
      <4>. QED  BY <4>2
    <3>3. worker[t].m \in others
      BY <1>1, <2>3, <2>4, <3>2 DEF WorkerKnows, TxMined, At
    <3>. QED  BY <3>1, <3>3, OthersGrow
  <2>5. CASE ~TxMined(t)
    <3>1. worker'[t] = Idle \/ \E x \in {"send", "wait", "save"} : worker'[t].step = x
      <4>1. CASE Prove(t)
        BY <2>3, <4>1 DEF Prove, Work
      <4>2. CASE SendTx(t)
        BY <2>3, <4>2 DEF SendTx, Answers, Work
      <4>3. CASE ReadStatus(t)
        BY <2>3, <4>3 DEF ReadStatus, Work
      <4>4. CASE SaveStatus(t) \/ DropReverted(t)
        BY <2>3, <4>4 DEF SaveStatus, DropReverted, Answers
      <4>. QED  BY <1>4, <2>1, <2>5, <4>1, <4>2, <4>3, <4>4 DEF WorkerStep
    <3>. QED  BY <3>1 DEF Idle
  <2>. QED  BY <2>4, <2>5
<1>5. ASSUME NEW u \in Txs, FindUnprofitable(u) \/ WorkerFails(u), worker'[t] # worker[t]
      PROVE  FALSE
  BY <1>5 DEF FindUnprofitable, WorkerFails, Requeue, ProcessingFails, ProcessingTimesOut,
       Answers, Idle, TypeOK
<1>6. faults' # faults + 1
  BY <1>1
<1>7. CASE ChannelCloses \/ ProcessorCrashes
  BY <1>6, <1>7 DEF ChannelCloses, ProcessorCrashes
<1>. QED  BY <1>2, <1>3, <1>4, <1>5, <1>7, WorkerSteps

(* Without a fault a message in hand stays in hand, is settled, or gives    *)
(* way to another message of its transaction.                               *)
SiblingInHand(m) == \E n \in Messages \ {m} : TxOf[n] = TxOf[m] /\ InHand(n)

LEMMA HandStep ==
  ASSUME TypeOK, TypeOK', QueuedHasGas, WorkersKnow, [Next]_vars, faults' = 0,
         NEW m \in Messages, InHand(m)
  PROVE  InHand(m)' \/ status'[m] # "New" \/ SiblingInHand(m)'
<1>1. /\ ready[m] \in Nat /\ parked[m] \in Nat /\ ready'[m] \in Nat /\ parked'[m] \in Nat
      /\ faults = 0 /\ faults' # faults + 1 /\ TxOf[m] \in Txs
  <2>1. /\ ready[m] \in Nat /\ parked[m] \in Nat
    BY DEF TypeOK
  <2>2. /\ ready'[m] \in Nat /\ parked'[m] \in Nat
    BY DEF TypeOK
  <2>3. TxOf[m] \in Txs
    BY RelayerAssumption
  <2>. QED  BY <2>1, <2>2, <2>3, CountersGrow
<1>2. CASE UNCHANGED <<ready, parked, worker>>
  BY <1>2 DEF InHand, Busy
<1>3. ASSUME NEW ix \in Indexers, NEW n \in Messages, HandleEvent(ix, n)
      PROVE  InHand(m)'
  <2>1. UNCHANGED <<parked, worker>>
    BY <1>3 DEF HandleEvent
  <2>2. ready' = ready \/ ready' = [ready EXCEPT ![n] = ready[n] + 1]
    BY <1>3 DEF HandleEvent
  <2>3. ready \in [Messages -> Nat]
    BY DEF TypeOK
  <2>4. ready'[m] >= ready[m]
    BY <1>1, <2>2, <2>3
  <2>. QED  BY <1>1, <2>1, <2>4 DEF InHand, Busy
<1>4. ASSUME NEW n \in Messages, DropDuplicate(n)
      PROVE  InHand(m)' \/ SiblingInHand(m)'
  <2>1. UNCHANGED <<parked, worker>> /\ ready' = [ready EXCEPT ![n] = @ - 1]
    BY <1>4 DEF DropDuplicate
  <2>2. CASE n # m
    <3>1. ready'[m] = ready[m]
      BY <2>1, <2>2 DEF TypeOK
    <3>. QED  BY <2>1, <3>1 DEF InHand, Busy
  <2>3. CASE n = m
    <3> DEFINE k == worker[TxOf[m]].m
    <3>1. worker[TxOf[m]] # Idle /\ k \in Messages /\ TxOf[k] = TxOf[m]
      BY <1>1, <1>4, <2>3, Working DEF DropDuplicate
    <3>2. worker'[TxOf[k]] # Idle /\ worker'[TxOf[k]].m = k
      BY <2>1, <3>1
    <3>3. PICK j \in Messages : j = k
      BY <3>1
    <3>4. Busy(j)'
      BY <3>2, <3>3 DEF Busy
    <3>5. TxOf[j] = TxOf[m]
      BY <3>1, <3>3
    <3>. QED  BY <3>4, <3>5 DEF InHand, SiblingInHand
  <2>. QED  BY <2>2, <2>3
<1>5. ASSUME NEW n \in Messages, AckSettled(n)
      PROVE  InHand(m)' \/ status'[m] # "New"
  <2>1. UNCHANGED <<parked, worker>> /\ ready' = [ready EXCEPT ![n] = @ - 1]
    BY <1>5 DEF AckSettled
  <2>2. CASE n # m
    <3>1. ready'[m] = ready[m]
      BY <2>1, <2>2 DEF TypeOK
    <3>. QED  BY <2>1, <3>1 DEF InHand, Busy
  <2>3. CASE n = m
    <3>1. m \notin ZeroGas
      BY <1>1, <1>5, <2>3 DEF QueuedHasGas, AckSettled
    <3>2. status'[m] # "New"
      BY <1>5, <2>3, <3>1 DEF AckSettled, CanProcess, destination
    <3>. QED  BY <3>2
  <2>. QED  BY <2>2, <2>3
<1>6. ASSUME NEW n \in Messages, StartProcessing(n)
      PROVE  InHand(m)'
  <2>1. /\ UNCHANGED parked /\ ready' = [ready EXCEPT ![n] = @ - 1]
        /\ worker[TxOf[n]] = Idle
        /\ worker' = [worker EXCEPT ![TxOf[n]] =
                        [step |-> "prove", m |-> n, seen |-> "New", held |-> TRUE]]
    BY <1>6 DEF StartProcessing
  <2>2. CASE n # m
    <3>1. ready'[m] = ready[m]
      BY <2>1, <2>2 DEF TypeOK
    <3>2. Busy(m) => worker'[TxOf[m]] = worker[TxOf[m]]
      BY <1>1, <2>1 DEF Busy, TypeOK
    <3>. QED  BY <2>1, <3>1, <3>2 DEF InHand, Busy
  <2>3. CASE n = m
    <3>1. worker'[TxOf[m]] = [step |-> "prove", m |-> m, seen |-> "New", held |-> TRUE]
      BY <1>1, <2>1, <2>3 DEF TypeOK
    <3>. QED  BY <3>1 DEF InHand, Busy, Idle
  <2>. QED  BY <2>2, <2>3
<1>7. ASSUME NEW n \in Messages, ExpireParked(n)
      PROVE  InHand(m)'
  <2>1. ready'[m] + parked'[m] = ready[m] + parked[m] /\ UNCHANGED worker
    BY <1>1, <1>7 DEF ExpireParked, TypeOK
  <2>. QED  BY <2>1 DEF InHand, Busy
<1>8. ASSUME NEW t \in Txs, WorkerStep(t)
      PROVE  InHand(m)' \/ status'[m] # "New"
  <2>1. UNCHANGED <<ready, parked>>
    BY <1>8 DEF WorkerStep, Prove, SendTx, TxMined, ReadStatus, SaveStatus, DropReverted, queue
  <2>2. CASE ~Busy(m)
    BY <2>1, <2>2 DEF InHand
  <2>3. CASE Busy(m) /\ TxOf[m] # t
    <3>1. worker'[TxOf[m]] = worker[TxOf[m]]
      BY <1>1, <1>8, <2>3 DEF WorkerStep, Prove, SendTx, Answers, TxMined, ReadStatus,
           SaveStatus, DropReverted, TypeOK
    <3>. QED  BY <2>3, <3>1 DEF InHand, Busy
  <2>4. CASE Busy(m) /\ TxOf[m] = t
    <3>1. /\ worker[t] # Idle /\ worker[t].m = m /\ worker[t] \in Work /\ WorkerKnows(t)
          /\ worker \in [Txs -> Work \cup {Idle}]
      BY <2>4, Working DEF Busy, WorkersKnow, TypeOK
    <3>2. CASE SaveStatus(t) \/ DropReverted(t)
      BY <3>1, <3>2 DEF SaveStatus, DropReverted, At, WorkerKnows, destination
    <3>3. CASE SendTx(t) /\ ~CanProcess(m)
      BY <3>1, <3>3 DEF SendTx, CanProcess, WorkerKnows, destination
    <3>4. CASE Prove(t) \/ TxMined(t) \/ ReadStatus(t) \/ (SendTx(t) /\ CanProcess(m))
      <4>1. worker'[t].m = m /\ worker'[t].step \in Steps
        <5>1. CASE Prove(t)
          BY <3>1, <5>1 DEF Prove, Work, Steps
        <5>2. CASE SendTx(t) /\ CanProcess(m)
          BY <3>1, <5>2 DEF SendTx, Work, Steps
        <5>3. CASE TxMined(t)
          <6>1. \/ worker' = [worker EXCEPT ![t].step = "mined"]
                \/ worker' = [worker EXCEPT ![t].step = "reverted"]
            BY <5>3 DEF TxMined
          <6>. QED  BY <3>1, <6>1 DEF Work, Steps
        <5>4. CASE ReadStatus(t)
          BY <3>1, <5>4 DEF ReadStatus, Work, Steps
        <5>. QED  BY <3>4, <5>1, <5>2, <5>3, <5>4
      <4>2. worker'[t] # Idle
        BY <4>1 DEF Steps, Idle
      <4>. QED  BY <2>4, <4>1, <4>2 DEF InHand, Busy
    <3>. QED  BY <1>8, <3>2, <3>3, <3>4 DEF WorkerStep
  <2>. QED  BY <2>2, <2>3, <2>4
<1>9. ASSUME NEW t \in Txs, FindUnprofitable(t)
      PROVE  InHand(m)'
  <2>1. worker[t] # Idle
    BY <1>9, AtStep DEF FindUnprofitable, Steps
  <2>2. /\ UNCHANGED ready /\ parked' = [parked EXCEPT ![worker[t].m] = @ + 1]
        /\ worker' = [worker EXCEPT ![t] = Idle]
    BY <1>9 DEF FindUnprofitable, Answers
  <2>3. CASE worker[t].m = m
    BY SMTT(20), <1>1, <2>2, <2>3 DEF InHand, TypeOK
  <2>4. CASE worker[t].m # m
    <3>1. parked'[m] = parked[m]
      BY <2>2, <2>4 DEF TypeOK
    <3>2. Busy(m) => worker'[TxOf[m]] = worker[TxOf[m]]
      BY <1>1, <2>2, <2>4 DEF Busy, TypeOK
    <3>. QED  BY <2>2, <3>1, <3>2 DEF InHand, Busy
  <2>. QED  BY <2>3, <2>4
<1>10. ASSUME NEW t \in Txs, WorkerFails(t)  PROVE FALSE
  BY <1>1, <1>10 DEF WorkerFails, Requeue, ProcessingFails, ProcessingTimesOut
<1>11. CASE ChannelCloses \/ ProcessorCrashes
  BY <1>1, <1>11 DEF ChannelCloses, ProcessorCrashes
<1>. QED
  BY <1>2, <1>3, <1>4, <1>5, <1>6, <1>7, <1>8, <1>9, <1>10, <1>11, QueueSteps, WorkerSteps
  DEF Deliver, queue

LEMMA NothingLostNext ==
  ASSUME TypeOK, TypeOK', QueuedHasGas, WorkersKnow, NothingLost, [Next]_vars
  PROVE  NothingLost'
<1> SUFFICES ASSUME NEW m \in Messages, faults' = 0, rows'[m] # NoRow,
                    status'[m] = "New", m \notin ZeroGas
             PROVE  \/ InHand(m)'
                    \/ \E n \in Messages \ {m} :
                         TxOf[n] = TxOf[m] /\ (InHand(n)' \/ status'[n] # "New")
  BY DEF NothingLost
<1>1. faults = 0 /\ status[m] = "New"
  BY CountersGrow, StatusMoves
<1>2. CASE rows[m] # NoRow
  <2>1. CASE InHand(m)
    BY <2>1, HandStep DEF SiblingInHand
  <2>2. CASE \E n \in Messages \ {m} : TxOf[n] = TxOf[m] /\ (InHand(n) \/ status[n] # "New")
    <3>1. PICK n \in Messages \ {m} : TxOf[n] = TxOf[m] /\ (InHand(n) \/ status[n] # "New")
      BY <2>2
    <3>2. InHand(n)' \/ status'[n] # "New" \/ SiblingInHand(n)'
      BY <3>1, HandStep, StatusMoves
    <3>3. SiblingInHand(n)' =>
            InHand(m)' \/ \E k \in Messages \ {m} : TxOf[k] = TxOf[m] /\ InHand(k)'
      BY <3>1 DEF SiblingInHand
    <3>. QED  BY <3>1, <3>2, <3>3
  <2>. QED  BY <1>1, <1>2, <2>1, <2>2 DEF NothingLost
<1>3. CASE rows[m] = NoRow
  <2>1. ASSUME NEW ix \in Indexers, NEW n \in Messages, HandleEvent(ix, n)
        PROVE  InHand(m)'
    <3>1. n = m
      BY <1>3, <2>1 DEF HandleEvent, TypeOK
    <3>2. ready' = [ready EXCEPT ![m] = ready[m] + 1]
      BY <1>1, <2>1, <3>1 DEF HandleEvent, Publishes
    <3>3. ready \in [Messages -> Nat] /\ ready[m] \in Nat
      BY DEF TypeOK
    <3>4. parked'[m] \in Nat
      BY DEF TypeOK
    <3>5. ready'[m] + parked'[m] > 0
      BY <3>2, <3>3, <3>4
    <3>. QED  BY <3>5 DEF InHand
  <2>2. ASSUME NEW ix \in Indexers, NEW n \in Messages, HandleFails(ix, n)
        PROVE  FALSE
    BY <1>1, <2>2 DEF HandleFails
  <2>3. ASSUME NEW t \in Txs, SaveStatus(t)
        PROVE  FALSE
    <3>1. worker[t] # Idle /\ worker[t].step = "save"
      BY <2>3, AtStep DEF SaveStatus, At, Steps
    <3>2. worker[t].m = m
      BY <1>3, <2>3 DEF SaveStatus, TypeOK
    <3>. QED  BY <1>1, <3>1, <3>2 DEF WorkersKnow, WorkerKnows
  <2>4. ~ UNCHANGED rows
    BY <1>3
  <2>. QED  BY <2>1, <2>2, <2>3, <2>4, RowSteps
<1>. QED  BY <1>2, <1>3

LEMMA InitHolds == Init => IInv
<1> SUFFICES ASSUME Init  PROVE IInv
  OBVIOUS
<1>1. TypeOK
  BY DEF Init, TypeOK, Statuses, Batch, NoBatch
<1>2. OnceMined /\ SavedConfirmed /\ QueuedHasGas /\ WorkersKnow /\ NoOrphans
  BY RelayerAssumption DEF Init, OnceMined, SavedConfirmed, QueuedHasGas, WorkersKnow, NoOrphans
<1>3. RowsFollowDestination /\ NoWaste /\ NothingLost
  BY DEF Init, RowsFollowDestination, NoWaste, NothingLost, At, Idle, NoRow
<1>. QED  BY <1>1, <1>2, <1>3 DEF IInv

LEMMA StepHolds == IInv /\ [Next]_vars => IInv'
<1> SUFFICES ASSUME IInv, [Next]_vars  PROVE IInv'
  OBVIOUS
<1>. USE DEF IInv
<1>1. TypeOK'
  BY TypeNext
<1>2. OnceMined'
  BY OnceMinedNext
<1>3. SavedConfirmed'
  BY <1>1, <1>2, SavedConfirmedNext
<1>4. QueuedHasGas' /\ NoOrphans'
  BY QueuedHasGasNext, NoOrphansNext
<1>5. WorkersKnow'
  BY <1>1, <1>2, WorkersKnowNext
<1>6. RowsFollowDestination' /\ NoWaste' /\ NothingLost'
  BY <1>1, RowsNext, NoWasteNext, NothingLostNext
<1>. QED  BY <1>1, <1>2, <1>3, <1>4, <1>5, <1>6

LEMMA Invariance == Spec => []IInv
BY InitHolds, StepHolds, PTL DEF Spec

(* Every variable keeps its type: the crawl's wrapping subtraction and the  *)
(* cursor of a restarted indexer are block numbers.                         *)
THEOREM TypeCorrect == Spec => []TypeOK
<1>1. IInv => TypeOK
  BY DEF IInv
<1>. QED  BY <1>1, Invariance, PTL

(* No row is ahead of the destination, whoever wrote it last.               *)
THEOREM RowsNeverAhead == Spec => []RowsFollowDestination
<1>1. IInv => RowsFollowDestination
  BY DEF IInv
<1>. QED  BY <1>1, Invariance, PTL

(* The copies of a message lead to one transaction of the relayer.          *)
THEOREM NoTransactionWasted == Spec => []NoWaste
<1>1. IInv => NoWaste
  BY DEF IInv
<1>. QED  BY <1>1, Invariance, PTL

(* Without a fault the processor loses a message only to another one of     *)
(* the same source transaction.                                             *)
THEOREM NoMessageLost == Spec => []NothingLost
<1>1. IInv => NothingLost
  BY DEF IInv
<1>. QED  BY <1>1, Invariance, PTL
=============================================================================
