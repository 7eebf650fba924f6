------------------------------ MODULE Relayer ------------------------------
(***************************************************************************)
(* The bridge relayer (src/packages/relayer) for one direction: two        *)
(* indexers read the MessageSent events of the source chain, save them as  *)
(* rows of the database and publish them to a queue, and a processor takes *)
(* them from the queue and settles them on the destination's Bridge.       *)
(*                                                                         *)
(* The "sync" indexer reads every block once, from its cursor to the head; *)
(* the "crawl" indexer (CrawlPastBlocks) reads a window of past blocks     *)
(* over and over. Both and the processor are processes of their own that   *)
(* share the database and the queue, and each of them may crash.           *)
(*                                                                         *)
(* The environment is a source chain that reorganises, a destination that  *)
(* learns the source's state from time to time, and others who settle the  *)
(* same messages. A message is identified with its hash.                   *)
(***************************************************************************)
EXTENDS Integers, Sequences, FiniteSets, FiniteSetsExt

CONSTANTS
  Messages, Txs,      \* messages, and the source transactions that send them
  TxOf,               \* the transaction of each message
  ZeroGas,            \* the messages with a gas limit of 0
  Confirmations,      \* source blocks above an event before it is taken
  BackOffMaxRetries,  \* retries of a batch that failed
  CrawlStart,         \* numLatestBlocksStartWhenCrawling
  CrawlEnd,           \* numLatestBlocksEndWhenCrawling
  BlockNumbers,       \* block numbers wrap at this, 2^64 in the code
  MaxHeight,          \* bound: height of the source chain
  MaxCopies,          \* bound: copies of a message ready in the queue
  MaxTroubles         \* bound: reorgs, unprofitable attempts, and faults together

ASSUME RelayerAssumption ==
  /\ TxOf \in [Messages -> Txs]
  /\ ZeroGas \subseteq Messages
  /\ Confirmations \in Nat \ {0}
  /\ {BackOffMaxRetries, CrawlStart, CrawlEnd} \subseteq Nat
  /\ CrawlEnd <= CrawlStart
  /\ BlockNumbers \in Nat \ {0} /\ MaxHeight < BlockNumbers
  /\ {MaxHeight, MaxCopies, MaxTroubles} \subseteq Nat

VARIABLES
  chain,     \* source chain: the set of transactions of each block
  reorgs,    \* source reorganisations so far
  synced,    \* source height of the newest ChainDataSynced row
  status,    \* destination Bridge: status of each message
  others,    \* messages somebody else has settled
  rows,      \* MessageSent rows: NoRow or the status saved
  cursor,    \* latestIndexedBlockNumber of the sync indexer
  batch,     \* the batch each indexer works on
  ready,     \* queue: copies of each message to be delivered
  unacked,   \* queue: deliveries the processor abandoned without an answer
  parked,    \* copies in the unprofitable queue
  worker,    \* the goroutine that processes a source transaction
  orphans,   \* processMessage transactions nobody waits for any more
  unprofitable, \* times the fee did not pay for the gas
  faults     \* crashes, closed channels and failed calls so far

destination == <<synced, status, others>>
indexer == <<cursor, batch>>
queue == <<ready, unacked, parked>>
counters == <<unprofitable, faults>>
vars == <<chain, reorgs, destination, rows, indexer, queue, worker, orphans, counters>>

Troubles == reorgs + unprofitable + faults

-----------------------------------------------------------------------------
Statuses == {"New", "Retriable", "Done"}
NoRow == "NoRow"
Indexers == {"sync", "crawl"}
Batch == [from : Nat, end : Nat, todo : SUBSET Messages, err : BOOLEAN, tries : Nat]
NoBatch == [from |-> 1, end |-> 0, todo |-> {}, err |-> FALSE, tries |-> 0]
Steps == {"prove", "send", "wait", "reverted", "mined", "save"}
Idle == [step |-> "idle"]

\* seen is the status read before it is saved; held, whether the broker still
\* waits for an answer to this delivery
Work == [step : Steps, m : Messages, seen : Statuses, held : BOOLEAN]
Busy(m) == worker[TxOf[m]] # Idle /\ worker[TxOf[m]].m = m
At(t, step) == worker[t].step = step

-----------------------------------------------------------------------------
(* The source chain and the destination *)

Mined == UNION {chain[h] : h \in DOMAIN chain}
BlockOf(m) == CHOOSE h \in DOMAIN chain : TxOf[m] \in chain[h]
OnChain(m) == TxOf[m] \in Mined
SentIn(from, end) == {m \in Messages : OnChain(m) /\ BlockOf(m) \in from..end}

\* WaitConfirmations returns without an error
Confirmed(m) == OnChain(m) /\ BlockOf(m) + Confirmations <= Len(chain)

MineBlock ==
  /\ Len(chain) < MaxHeight
  /\ \E new \in SUBSET (Txs \ Mined) : chain' = Append(chain, new)
  /\ UNCHANGED <<reorgs, destination, rows, indexer, queue, worker, orphans, counters>>

\* Another fork of the same height takes over, with the blocks that have enough
\* confirmations; what the destination has synced of the old fork goes with it
Reorg ==
  /\ Troubles < MaxTroubles
  /\ \E h \in DOMAIN chain, fork \in [DOMAIN chain -> SUBSET Txs] :
       /\ h + Confirmations > Len(chain)
       /\ \A k \in 1..h - 1 : fork[k] = chain[k]
       /\ \A j, k \in DOMAIN fork : j # k => fork[j] \cap fork[k] = {}
       /\ chain' = fork
       /\ synced' = Min({synced, h - 1})
  /\ reorgs' = reorgs + 1
  /\ UNCHANGED <<status, others, rows, indexer, queue, worker, orphans, unprofitable, faults>>

\* The destination syncs the source's state, and the row about it is saved
Sync ==
  /\ synced < Len(chain)
  /\ synced' = Len(chain)
  /\ UNCHANGED <<chain, reorgs, status, others, rows, indexer, queue, worker, orphans, counters>>

\* Another relayer or the owner processes the message, once no reorg can undo it
OtherProcesses(m) ==
  /\ Confirmed(m) /\ BlockOf(m) <= synced
  /\ status[m] = "New"
  /\ \E s \in {"Done", "Retriable"} : status' = [status EXCEPT ![m] = s]
  /\ others' = others \cup {m}
  /\ UNCHANGED <<chain, reorgs, synced, rows, indexer, queue, worker, orphans, counters>>

OwnerRetries(m) ==
  /\ status[m] = "Retriable"
  /\ status' = [status EXCEPT ![m] = "Done"]
  /\ UNCHANGED <<chain, reorgs, synced, others, rows, indexer, queue, worker, orphans, counters>>

-----------------------------------------------------------------------------
(* The indexers *)

\* The last block that is not read; the crawl's subtraction wraps on a short chain
ScanStart(ix) ==
  IF ix = "sync" THEN cursor ELSE Max({0, (Len(chain) - CrawlStart) % BlockNumbers})

ScanEnd(ix) ==
  IF ix = "sync" \/ Len(chain) <= CrawlEnd THEN Len(chain) ELSE Len(chain) - CrawlEnd

\* The first block read, where the successor of the last block number is 0
ScanFrom(ix) == (ScanStart(ix) + 1) % BlockNumbers

\* filter: one batch from the cursor to the head
StartScan(ix) ==
  /\ batch[ix] = NoBatch
  /\ ScanFrom(ix) <= ScanEnd(ix)
  /\ batch' = [batch EXCEPT ![ix] =
       [from |-> ScanFrom(ix), end |-> ScanEnd(ix),
        todo |-> SentIn(ScanFrom(ix), ScanEnd(ix)), err |-> FALSE, tries |-> 0]]
  /\ UNCHANGED <<chain, reorgs, destination, rows, cursor, queue, worker, orphans, counters>>

\* Mutant: a row that exists is left alone
Saved_Once(ix, m) == IF rows[m] = NoRow THEN status[m] ELSE rows[m]

\* saveEventToDB with the status read from the destination
Saved(ix, m) ==
  CASE rows[m] = NoRow -> status[m]
    [] ix = "crawl" /\ status[m] = "Done" -> "Done"
    [] OTHER -> rows[m]

\* Mutant: a message that has a row is not published again
Publishes_FirstTime(m) == status[m] = "New" /\ m \notin ZeroGas /\ rows[m] = NoRow

Publishes(m) == status[m] = "New" /\ m \notin ZeroGas

\* handleMessageSentEvent, each event in a goroutine of its own
HandleEvent(ix, m) ==
  /\ m \in batch[ix].todo
  /\ Confirmed(m)
  /\ rows' = [rows EXCEPT ![m] = Saved(ix, m)]
  /\ IF Publishes(m)
     THEN /\ ready[m] < MaxCopies
          /\ ready' = [ready EXCEPT ![m] = @ + 1]
     ELSE UNCHANGED ready
  /\ batch' = [batch EXCEPT ![ix].todo = @ \ {m}]
  /\ UNCHANGED <<chain, reorgs, destination, cursor, unacked, parked, worker, orphans, counters>>

\* The wait for confirmations times out
HandleTimesOut(ix, m) ==
  /\ m \in batch[ix].todo
  /\ ~Confirmed(m)
  /\ batch' = [batch EXCEPT ![ix].todo = @ \ {m}, ![ix].err = TRUE]
  /\ UNCHANGED <<chain, reorgs, destination, rows, cursor, queue, worker, orphans, counters>>

\* A call fails, before the row is saved or between that and the publication
HandleFails(ix, m) ==
  /\ m \in batch[ix].todo
  /\ Confirmed(m)
  /\ Troubles < MaxTroubles
  /\ faults' = faults + 1
  /\ \E row \in {rows[m], Saved(ix, m)} : rows' = [rows EXCEPT ![m] = row]
  /\ batch' = [batch EXCEPT ![ix].todo = @ \ {m}, ![ix].err = TRUE]
  /\ UNCHANGED <<chain, reorgs, destination, cursor, queue, worker, orphans, unprofitable>>

\* withRetry: all events of the batch once more
RetryBatch(ix) ==
  /\ batch[ix] # NoBatch /\ batch[ix].todo = {}
  /\ batch[ix].err /\ batch[ix].tries < BackOffMaxRetries
  /\ LET b == batch[ix]
     IN  batch' = [batch EXCEPT ![ix] =
           [b EXCEPT !.todo = SentIn(b.from, b.end), !.err = FALSE, !.tries = @ + 1]]
  /\ UNCHANGED <<chain, reorgs, destination, rows, cursor, queue, worker, orphans, counters>>

\* The indexer moves past the batch, also past events it gave up on
EndBatch(ix) ==
  /\ batch[ix] # NoBatch /\ batch[ix].todo = {}
  /\ batch[ix].err => batch[ix].tries = BackOffMaxRetries
  /\ cursor' = IF ix = "sync" THEN batch[ix].end ELSE cursor
  /\ batch' = [batch EXCEPT ![ix] = NoBatch]
  /\ UNCHANGED <<chain, reorgs, destination, rows, queue, worker, orphans, counters>>

\* Mutant: two blocks below
RestartCursor_Two ==
  LET saved == {m \in Messages : rows[m] # NoRow}
  IN  IF saved = {} THEN 0 ELSE Max({BlockOf(m) : m \in saved}) - 2

\* The sync indexer starts one block below the highest saved one
RestartCursor ==
  LET saved == {m \in Messages : rows[m] # NoRow}
  IN  IF saved = {} THEN 0 ELSE Max({BlockOf(m) : m \in saved}) - 1

IndexerCrashes(ix) ==
  /\ Troubles < MaxTroubles
  /\ faults' = faults + 1
  /\ cursor' = IF ix = "sync" THEN RestartCursor ELSE cursor
  /\ batch' = [batch EXCEPT ![ix] = NoBatch]
  /\ UNCHANGED <<chain, reorgs, destination, rows, queue, worker, orphans, unprofitable>>

-----------------------------------------------------------------------------
(* The queue and the processor *)

\* Mutant: a message is taken whatever its status
CanProcess_Always(m) == TRUE

\* canProcessMessage for a message of somebody else
CanProcess(m) == status[m] = "New" /\ m \notin ZeroGas

\* The worker of t answers with Ack or with Nack(false) and ends. Both drop the
\* delivery: a dead-lettered message is not routed on, or into a queue nobody reads
Answers(t) == worker' = [worker EXCEPT ![t] = Idle]

\* A delivery of a transaction that is being processed is dropped
DropDuplicate(m) ==
  /\ ready[m] > 0
  /\ worker[TxOf[m]] # Idle
  /\ ready' = [ready EXCEPT ![m] = @ - 1]
  /\ UNCHANGED <<chain, reorgs, destination, rows, indexer, unacked, parked, worker, orphans, counters>>

\* processMessage finds the message settled and acknowledges it
AckSettled(m) ==
  /\ ready[m] > 0
  /\ worker[TxOf[m]] = Idle
  /\ ~CanProcess(m)
  /\ ready' = [ready EXCEPT ![m] = @ - 1]
  /\ UNCHANGED <<chain, reorgs, destination, rows, indexer, unacked, parked, worker, orphans, counters>>

StartProcessing(m) ==
  /\ ready[m] > 0
  /\ worker[TxOf[m]] = Idle
  /\ CanProcess(m)
  /\ ready' = [ready EXCEPT ![m] = @ - 1]
  /\ worker' = [worker EXCEPT ![TxOf[m]] =
                  [step |-> "prove", m |-> m, seen |-> "New", held |-> TRUE]]
  /\ UNCHANGED <<chain, reorgs, destination, rows, indexer, unacked, parked, orphans, counters>>

\* waitForConfirmations, waitHeaderSynced and the signal proof
Prove(t) ==
  /\ At(t, "prove")
  /\ Confirmed(worker[t].m) /\ BlockOf(worker[t].m) <= synced
  /\ worker' = [worker EXCEPT ![t].step = "send"]
  /\ UNCHANGED <<chain, reorgs, destination, rows, indexer, queue, orphans, counters>>

\* The bridge is paused, or the transaction's nonce is too low: Nack(true)
Requeue(t) ==
  /\ worker[t].step \in {"prove", "wait"}
  /\ Troubles < MaxTroubles
  /\ faults' = faults + 1
  /\ ready' = IF worker[t].held THEN [ready EXCEPT ![worker[t].m] = @ + 1] ELSE ready
  /\ Answers(t)
  /\ UNCHANGED <<chain, reorgs, destination, rows, indexer, unacked, parked, orphans, unprofitable>>

\* The fee does not pay for the gas now: the message waits in the unprofitable queue
FindUnprofitable(t) ==
  /\ At(t, "send")
  /\ Troubles < MaxTroubles
  /\ unprofitable' = unprofitable + 1
  /\ parked' = [parked EXCEPT ![worker[t].m] = @ + 1]
  /\ Answers(t)
  /\ UNCHANGED <<chain, reorgs, destination, rows, indexer, ready, unacked, orphans, faults>>

\* Mutant: the unprofitable queue has no dead-letter exchange
ExpireParked_Dropped(m) ==
  /\ parked[m] > 0
  /\ parked' = [parked EXCEPT ![m] = @ - 1]
  /\ UNCHANGED <<chain, reorgs, destination, rows, indexer, ready, unacked, worker, orphans, counters>>

\* It expires there and is dead-lettered to the main queue
ExpireParked(m) ==
  /\ parked[m] > 0
  /\ parked' = [parked EXCEPT ![m] = @ - 1]
  /\ ready' = [ready EXCEPT ![m] = @ + 1]
  /\ UNCHANGED <<chain, reorgs, destination, rows, indexer, unacked, worker, orphans, counters>>

\* sendProcessMessageCall reads the status again and sends, or gives up with an Ack
SendTx(t) ==
  /\ At(t, "send")
  /\ IF CanProcess(worker[t].m)
     THEN worker' = [worker EXCEPT ![t].step = "wait"]
     ELSE Answers(t)
  /\ UNCHANGED <<chain, reorgs, destination, rows, indexer, queue, orphans, counters>>

\* The worker's transaction is mined; it reverts when the message is settled already
TxMined(t) ==
  /\ At(t, "wait")
  /\ LET m == worker[t].m
     IN  IF status[m] = "New"
         THEN /\ \E s \in {"Done", "Retriable"} : status' = [status EXCEPT ![m] = s]
              /\ worker' = [worker EXCEPT ![t].step = "mined"]
         ELSE /\ worker' = [worker EXCEPT ![t].step = "reverted"]
              /\ UNCHANGED status
  /\ UNCHANGED <<chain, reorgs, synced, others, rows, indexer, queue, orphans, counters>>

\* Mutant: the status the transaction was expected to leave is saved
StatusRead_Done(m) == "Done"

StatusRead(m) == status[m]

ReadStatus(t) ==
  /\ At(t, "mined")
  /\ worker' = [worker EXCEPT ![t].step = "save", ![t].seen = StatusRead(worker[t].m)]
  /\ UNCHANGED <<chain, reorgs, destination, rows, indexer, queue, orphans, counters>>

SaveStatus(t) ==
  /\ At(t, "save")
  /\ rows' = [rows EXCEPT ![worker[t].m] = worker[t].seen]
  /\ Answers(t)
  /\ UNCHANGED <<chain, reorgs, destination, indexer, queue, orphans, counters>>

\* errTxReverted: Nack(false)
DropReverted(t) ==
  /\ At(t, "reverted")
  /\ Answers(t)
  /\ UNCHANGED <<chain, reorgs, destination, rows, indexer, queue, orphans, counters>>

\* Any other error, a revert for want of quota among them: Nack(false)
ProcessingFails(t) ==
  /\ worker[t] # Idle
  /\ Troubles < MaxTroubles
  /\ faults' = faults + 1
  /\ Answers(t)
  /\ UNCHANGED <<chain, reorgs, destination, rows, indexer, queue, orphans, unprofitable>>

\* The transaction a worker waits for outlives it
Orphaned == [m \in Messages |-> orphans[m] + IF Busy(m) /\ At(TxOf[m], "wait") THEN 1 ELSE 0]

\* A timeout or a lost connection: the worker ends and answers nothing
ProcessingTimesOut(t) ==
  /\ worker[t] # Idle
  /\ Troubles < MaxTroubles
  /\ faults' = faults + 1
  /\ LET m == worker[t].m
     IN  /\ unacked' = [unacked EXCEPT ![m] = @ + IF worker[t].held THEN 1 ELSE 0]
         /\ orphans' = [orphans EXCEPT ![m] = Orphaned[m]]
  /\ Answers(t)
  /\ UNCHANGED <<chain, reorgs, destination, rows, indexer, ready, parked, unprofitable>>

OrphanMined(m) ==
  /\ orphans[m] > 0
  /\ orphans' = [orphans EXCEPT ![m] = @ - 1]
  /\ IF status[m] = "New"
     THEN \E s \in {"Done", "Retriable"} : status' = [status EXCEPT ![m] = s]
     ELSE UNCHANGED status
  /\ UNCHANGED <<chain, reorgs, synced, others, rows, indexer, queue, worker, counters>>

\* The broker takes back every delivery that was not answered
Redelivered ==
  [m \in Messages |-> ready[m] + unacked[m] + IF Busy(m) /\ worker[TxOf[m]].held THEN 1 ELSE 0]

\* The channel to the broker closes; the workers go on and their answers are lost
ChannelCloses ==
  /\ Troubles < MaxTroubles
  /\ faults' = faults + 1
  /\ ready' = Redelivered
  /\ unacked' = [m \in Messages |-> 0]
  /\ worker' = [t \in Txs |-> IF worker[t] = Idle THEN Idle ELSE [worker[t] EXCEPT !.held = FALSE]]
  /\ UNCHANGED <<chain, reorgs, destination, rows, indexer, parked, orphans, unprofitable>>

ProcessorCrashes ==
  /\ Troubles < MaxTroubles
  /\ faults' = faults + 1
  /\ ready' = Redelivered
  /\ unacked' = [m \in Messages |-> 0]
  /\ worker' = [t \in Txs |-> Idle]
  /\ orphans' = Orphaned
  /\ UNCHANGED <<chain, reorgs, destination, rows, indexer, parked, unprofitable>>

-----------------------------------------------------------------------------
Init ==
  /\ chain = <<>> /\ reorgs = 0
  /\ synced = 0
  /\ status = [m \in Messages |-> "New"]
  /\ others = {}
  /\ rows = [m \in Messages |-> NoRow]
  /\ cursor = 0
  /\ batch = [ix \in Indexers |-> NoBatch]
  /\ ready = [m \in Messages |-> 0]
  /\ unacked = [m \in Messages |-> 0]
  /\ parked = [m \in Messages |-> 0]
  /\ worker = [t \in Txs |-> Idle]
  /\ orphans = [m \in Messages |-> 0]
  /\ unprofitable = 0 /\ faults = 0

IndexerStep(ix) ==
  \/ StartScan(ix) \/ RetryBatch(ix) \/ EndBatch(ix)
  \/ \E m \in Messages : HandleEvent(ix, m) \/ HandleTimesOut(ix, m)

Deliver(m) == DropDuplicate(m) \/ AckSettled(m) \/ StartProcessing(m)

WorkerStep(t) ==
  Prove(t) \/ SendTx(t) \/ TxMined(t) \/ ReadStatus(t) \/ SaveStatus(t) \/ DropReverted(t)

WorkerFails(t) == Requeue(t) \/ ProcessingFails(t) \/ ProcessingTimesOut(t)

Next ==
  \/ MineBlock \/ Reorg \/ Sync
  \/ \E m \in Messages : OtherProcesses(m) \/ OwnerRetries(m) \/ OrphanMined(m)
  \/ \E ix \in Indexers :
       IndexerStep(ix) \/ IndexerCrashes(ix) \/ \E m \in Messages : HandleFails(ix, m)
  \/ \E m \in Messages : Deliver(m) \/ ExpireParked(m)
  \/ \E t \in Txs : WorkerStep(t) \/ FindUnprofitable(t) \/ WorkerFails(t)
  \/ ChannelCloses \/ ProcessorCrashes

Spec == Init /\ [][Next]_vars

\* The source grows and is synced, the processes run, the broker delivers
Fairness ==
  /\ WF_vars(MineBlock) /\ WF_vars(Sync)
  /\ \A ix \in Indexers : WF_vars(IndexerStep(ix))
  /\ \A m \in Messages : WF_vars(Deliver(m)) /\ WF_vars(ExpireParked(m))
  /\ \A t \in Txs : WF_vars(WorkerStep(t))

FairSpec == Spec /\ Fairness

-----------------------------------------------------------------------------
(* Properties *)

\* Every variable has its type, a worker works on a message of its own
\* transaction, and a batch holds events of the blocks it reads (or re-mined ones).
TypeOK ==
  /\ chain \in Seq(SUBSET Txs)
  /\ reorgs \in Nat /\ synced \in Nat /\ cursor \in Nat
  /\ status \in [Messages -> Statuses]
  /\ others \subseteq Messages
  /\ rows \in [Messages -> Statuses \cup {NoRow}]
  /\ batch \in [Indexers -> Batch]
  /\ ready \in [Messages -> Nat] /\ unacked \in [Messages -> Nat]
  /\ parked \in [Messages -> Nat] /\ orphans \in [Messages -> Nat]
  /\ worker \in [Txs -> Work \cup {Idle}]
  /\ \A t \in Txs : worker[t] # Idle => TxOf[worker[t].m] = t
  /\ unprofitable \in Nat /\ faults \in Nat

\* A saved status is one the destination has had: a row never runs ahead of the
\* destination, whichever indexer or worker writes it last, with a status read
\* earlier (saveEventToDB, processMessage, eventRepo.UpdateStatus).
RowsFollowDestination ==
  \A m \in Messages :
    /\ rows[m] = "Done" => status[m] = "Done"
    /\ rows[m] = "Retriable" => status[m] # "New"

\* A transaction of the relayer reverts only when somebody else settled the
\* message or something failed before: of the copies that two indexers, retries
\* of a batch and the unprofitable queue deliver, never two lead to a transaction
\* (processingTxHashes, and the status read again before Send).
NoWaste ==
  \A t \in Txs : At(t, "reverted") => worker[t].m \in others \/ faults > 0

\* As long as nothing fails, a saved message that can be processed is in the queue,
\* in the unprofitable queue or with a worker, or the processor dropped it for
\* another message of the same source transaction (errAlreadyProcessing).
InHand(m) == ready[m] + parked[m] > 0 \/ Busy(m)

NothingLost ==
  \A m \in Messages :
    faults = 0 /\ rows[m] # NoRow /\ status[m] = "New" /\ m \notin ZeroGas =>
      \/ InHand(m)
      \/ \E n \in Messages \ {m} : TxOf[n] = TxOf[m] /\ (InHand(n) \/ status[n] # "New")

\* The crawl indexer reads the message in each of its scans.
Crawled(m) ==
  OnChain(m) /\ BlockOf(m) \in ScanFrom("crawl")..ScanEnd("crawl") /\ Confirmed(m)

\* Whatever is lost on the way (events the sync indexer gave up on or that a reorg
\* put below its cursor, dropped deliveries, crashes), a message with a gas limit
\* that the crawl keeps reading is settled in the end.
Relayed ==
  \A m \in Messages \ ZeroGas : <>[]Crawled(m) => <>(status[m] # "New")

\* The row of a message that is done on the destination ends up Done as long as
\* the crawl reads it, also when a worker overwrites it with a status read before.
RowsCatchUp ==
  \A m \in Messages :
    <>[](Crawled(m) /\ rows[m] # NoRow /\ status[m] = "Done") => <>[](rows[m] = "Done")
=============================================================================
