------------------------------- MODULE Driver -------------------------------
(***************************************************************************)
(* The taiko-client driver (src/packages/taiko-client/driver): it follows  *)
(* the L1 chain, reads the BlockProposed events between its cursor         *)
(* L1Current and the L1 head, and derives the L2 chain from them through   *)
(* the engine API of the L2 execution engine, or first lets the engine     *)
(* beacon-sync to the last verified block over P2P (full sync mode).       *)
(*                                                                         *)
(* The environment is an L1 chain that grows, reorganises and verifies L2  *)
(* blocks, and an engine that outlives crashes of the driver.              *)
(*                                                                         *)
(* A hash commits to a history, so headers and L2 blocks are histories:    *)
(*   an L1 header is the sequence of fork labels from L1 height 1 on,      *)
(*   an L2 block is the sequence of the proposals it executes, and a       *)
(*   proposal is its block ID and the header of its L1 block.              *)
(***************************************************************************)
EXTENDS Integers, Sequences, FiniteSets, FiniteSetsExt, SequencesExt

CONSTANTS
  None,                 \* a nil header or block
  MaxL1Height,          \* bound: height of the L1 chain
  ProposalCounts,       \* how many proposals an L1 block carries
  MaxBlocks,            \* bound: proposals of an L1 chain
  MaxReorgs,            \* bound: L1 reorganisations
  MaxFaults,            \* bound: crashes of the driver and failed calls
  BlocksReadPerEpoch,   \* L1 blocks read by one filter call
  MaxRetrieveExponent,  \* how far retrievePastBlock looks back
  P2PSync,              \* the --p2p.sync flag
  NodesKeepUp           \* assumption: only blocks this node derived get verified

ASSUME DriverAssumption ==
  /\ MaxL1Height \in Nat \ {0}
  /\ {MaxBlocks, MaxReorgs, MaxFaults} \subseteq Nat
  /\ IsFiniteSet(ProposalCounts) /\ ProposalCounts \subseteq Nat /\ ProposalCounts # {}
  /\ BlocksReadPerEpoch \in Nat \ {0}
  /\ MaxRetrieveExponent \in Nat
  /\ {P2PSync, NodesKeepUp} \subseteq BOOLEAN
  /\ None \notin Seq([id : Nat, l1 : Seq(Nat)])

VARIABLES
  l1,         \* header of the L1 head, above the genesis height
  derived,    \* the proposals on that chain, in the order of their block IDs
  forks,      \* L1 reorganisations so far, the label of new L1 blocks
  verified,   \* LastVerifiedBlockId of TaikoL1
  dropped,    \* the most block IDs an abandoned L1 chain had
  eeHead,     \* engine: canonical head block
  eeOrigin,   \* engine: L1Origin records by block ID
  headOrigin, \* engine: block ID of the HeadL1Origin record
  eeTarget,   \* engine: block it is beacon syncing to
  l1Head,     \* State.l1Head, from the subscription
  l1Current,  \* State.l1Current
  lastInserted, \* Syncer.lastInsertedBlockID
  tracker,    \* SyncProgressTracker
  pc, iter,   \* where the event loop is, and the block iterator it runs
  syncNotify, \* a sync is requested
  faults      \* crashes and failed calls so far

l1Vars == <<l1, derived, forks, verified, dropped>>
eeVars == <<eeHead, eeOrigin, headOrigin, eeTarget>>
driverVars == <<l1Head, l1Current, lastInserted, tracker, pc, iter, syncNotify>>
vars == <<l1Vars, eeVars, driverVars, faults>>

-----------------------------------------------------------------------------
(* The L1 chain and what it derives *)

Nil == -1                             \* a nil block ID
Genesis == <<>>                       \* the genesis header, on both layers

Header(h) == SubSeq(l1, 1, h)
OnL1(hdr) == IsPrefix(hdr, l1)

\* The n proposals of an L1 block, when its chain has first already
ProposedAt(hdr, first, n) == [k \in 1..n |-> [id |-> first + k, l1 |-> hdr]]

\* How many proposals were made below L1 height h
Before(h) == Max({n \in 0..Len(derived) : n = 0 \/ Len(derived[n].l1) < h})

\* The BlockProposed events of L1 heights lo..hi
EventsIn(lo, hi) == SubSeq(derived, Before(lo) + 1, Before(hi + 1))

BlockIDs == 1..MaxBlocks
ProposedIn(id) == IF id = 0 THEN Genesis ELSE derived[id].l1
L1Of(block) == Last(block).l1         \* L1BlockHash of the block's L1Origin
Canonical(id) == SubSeq(eeHead, 1, id)
DerivedBlock(id) == SubSeq(derived, 1, id)

\* How many proposals an L1 block may carry on a chain that has n
Proposals(n) == {Min({k, MaxBlocks - n}) : k \in ProposalCounts}

\* The L1 height no reorg goes below
Final == Len(ProposedIn(verified))

-----------------------------------------------------------------------------
(* The environment: L1 and the engine's own sync *)

Mine ==
  /\ Len(l1) < MaxL1Height
  /\ l1' = Append(l1, forks)
  /\ \E n \in Proposals(Len(derived)) : 
       derived' = derived \o ProposedAt(l1', Len(derived), n)
  /\ UNCHANGED <<forks, verified, dropped, eeVars, driverVars, faults>>

\* The L1 head moves to a block of another fork, below, at or above the old height
Reorg ==
  /\ forks < MaxReorgs
  /\ \E h \in Final + 1..Len(l1) :
       /\ l1' = Append(Header(h - 1), forks + 1)
       /\ \E n \in Proposals(Before(h)) :
            derived' = DerivedBlock(Before(h)) \o ProposedAt(l1', Before(h), n)
  /\ forks' = forks + 1
  /\ dropped' = Max({dropped, Len(derived)})
  /\ UNCHANGED <<verified, eeVars, driverVars, faults>>

Verify ==
  /\ verified < Len(derived)
  /\ NodesKeepUp => IsPrefix(DerivedBlock(verified + 1), eeHead)
  /\ verified' = verified + 1
  /\ UNCHANGED <<l1, derived, forks, dropped, eeVars, driverVars, faults>>

\* The engine completes a beacon sync: it has the target and no L1Origin of it
EngineSynced ==
  /\ eeTarget # None
  /\ eeHead' = eeTarget
  /\ eeTarget' = None
  /\ UNCHANGED <<l1Vars, eeOrigin, headOrigin, driverVars, faults>>

-----------------------------------------------------------------------------
(* Reorg checks *)

\* CheckL1Reorg walks down from a block to the first one whose L1Origin is on L1:
\* it stops at genesis and at a block with no L1Origin
WalkStops(id) == id = 0 \/ eeOrigin[id] = None \/ OnL1(L1Of(eeOrigin[id]))
StopsAt(id) == Max({k \in 0..id : WalkStops(k)})

\* Mutant: the block the walk started from counts as inserted
CheckL1Reorg_LastKept(id) ==
  LET k == StopsAt(id)
  IN  [reorged |-> k # id,
       cursor  |-> IF k = 0 THEN Genesis
                   ELSE IF eeOrigin[k] = None THEN None ELSE L1Of(eeOrigin[k]),
       last    |-> IF k = 0 \/ eeOrigin[k] = None THEN Nil ELSE id]

CheckL1Reorg(id) ==
  LET k == StopsAt(id)
  IN  [reorged |-> k # id,
       cursor  |-> IF k = 0 THEN Genesis
                   ELSE IF eeOrigin[k] = None THEN None ELSE L1Of(eeOrigin[k]),
       last    |-> IF k = 0 \/ eeOrigin[k] = None THEN Nil ELSE k]

\* retrievePastBlock: the block to compare on each retry, and the first that agrees
PastBlock(id, retries) == IF id > 2 ^ retries THEN id - 2 ^ retries + 1 ELSE 0
Agrees(id) == Canonical(id) = DerivedBlock(id)
Retries == {r \in 0..MaxRetrieveExponent : Agrees(PastBlock(verified, r))}

\* L1's header of a height, or an error
NoHeader == <<Nil>>
HeaderByNumber(height) == IF height <= Len(l1) THEN Header(height) ELSE NoHeader

RetrievePastBlock ==
  IF Retries = {}
  THEN [reorged |-> TRUE, cursor |-> Genesis, last |-> verified]
  ELSE LET k == PastBlock(verified, Min(Retries))
           height == Len(IF k # 0 /\ eeOrigin[k] # None THEN L1Of(eeOrigin[k]) ELSE ProposedIn(k))
       IN  [reorged |-> TRUE, cursor |-> HeaderByNumber(height), last |-> k]

\* checkReorg of the event of block id. An engine behind the last verified block
\* skips both checks
NotReorged == [reorged |-> FALSE, cursor |-> None, last |-> Nil]

\* Mutant: only the last verified block is compared
CheckReorg_VerifiedOnly(id) ==
  IF Len(eeHead) < verified \/ 0 \in Retries THEN NotReorged ELSE RetrievePastBlock

CheckReorg(id) ==
  IF Len(eeHead) < verified THEN NotReorged
  ELSE IF 0 \in Retries THEN CheckL1Reorg(id - 1)
  ELSE RetrievePastBlock

-----------------------------------------------------------------------------
(* Beacon sync *)

\* LastSyncedBlockID, 0 when there is none
LastSynced == IF tracker.last = None THEN 0 ELSE Len(tracker.last)
NewTracker == [triggered |-> FALSE, finished |-> FALSE, outOfSync |-> FALSE, last |-> None]

AheadOfHeadToSync(height) ==
  /\ Len(eeHead) >= (IF height > 0 THEN height - 1 ELSE 0)
  /\ Len(eeHead) >= LastSynced

NeedBeaconSync ==
  /\ P2PSync /\ ~tracker.finished
  /\ verified > 0
  /\ ~AheadOfHeadToSync(verified)
  /\ ~tracker.outOfSync

\* A new L1 head reaches the driver. Beyond the bound on l1 the head may be
\* announced again: an L1 block that carries nothing
NewL1Head ==
  /\ ~syncNotify \/ l1Head # Header(Len(l1))
  /\ l1Head' = Header(Len(l1))
  /\ syncNotify' = TRUE
  /\ UNCHANGED <<l1Vars, eeVars, l1Current, lastInserted, tracker, pc, iter, faults>>

TriggerBeaconSync ==
  /\ pc = "idle" /\ syncNotify /\ NeedBeaconSync
  /\ syncNotify' = FALSE
  /\ \/ /\ tracker.triggered => Len(eeHead) >= LastSynced
        /\ tracker' = [tracker EXCEPT !.triggered = TRUE, !.last = DerivedBlock(verified)]
        /\ eeTarget' = DerivedBlock(verified)
     \/ /\ tracker.triggered
        /\ UNCHANGED <<tracker, eeTarget>>
  /\ UNCHANGED <<l1Vars, eeHead, eeOrigin, headOrigin, l1Head, l1Current, lastInserted, pc, iter,
                 faults>>

\* track(): no progress for longer than the timeout
TrackTimeout ==
  /\ tracker.triggered /\ ~tracker.outOfSync
  /\ Len(eeHead) < LastSynced
  /\ tracker' = [tracker EXCEPT !.outOfSync = TRUE]
  /\ UNCHANGED <<l1Vars, eeVars, l1Head, l1Current, lastInserted, pc, iter, syncNotify,
                 faults>>

-----------------------------------------------------------------------------
(* Block by block *)

\* Sync() when no beacon sync is needed. After one, the cursor is moved to where
\* the engine's head was proposed
StartBlockSync ==
  /\ pc = "idle" /\ syncNotify /\ ~NeedBeaconSync
  /\ IF tracker.triggered
     THEN /\ Len(eeHead) <= Len(derived)
          /\ l1Current' = ProposedIn(Len(eeHead))
          /\ tracker' = [tracker EXCEPT !.finished = TRUE, !.last = eeHead]
     ELSE UNCHANGED <<l1Current, tracker>>
  /\ syncNotify' = FALSE
  /\ pc' = "process"
  /\ UNCHANGED <<l1Vars, eeVars, l1Head, lastInserted, iter, faults>>

\* processL1Blocks up to the first read: the head at or below the cursor and of
\* another history means a reorg
OpenIterator ==
  LET behind == Len(l1Current) >= Len(l1Head) /\ l1Current # l1Head
      start  == IF behind THEN Header(Len(l1Head) - 1) ELSE l1Current
  IN  /\ pc = "process"
      /\ behind => Len(l1Head) - 1 \in 0..Len(l1)
      /\ l1Current' = start
      /\ lastInserted' = IF behind THEN Nil ELSE lastInserted
      /\ IF Len(start) <= Len(l1) /\ Len(l1Head) <= Len(l1)
         THEN /\ pc' = "read"
              /\ iter' = [cur |-> Len(start), end |-> l1Head, batch |-> Len(start), events |-> <<>>]
              /\ UNCHANGED syncNotify
         ELSE /\ pc' = "idle"          \* an error: Sync is retried
              /\ syncNotify' = TRUE
              /\ UNCHANGED iter
      /\ UNCHANGED <<l1Vars, eeVars, l1Head, tracker, faults>>

NoIter == [cur |-> 0, end |-> Genesis, batch |-> 0, events |-> <<>>]

\* iter(): reads the events of the next batch, or ends and moves the cursor
ReadBatch ==
  LET cur   == Min({iter.cur, Len(l1)})     \* ensureCurrentNotReorged
      batch == Min({cur + BlocksReadPerEpoch, Len(iter.end)})
  IN  /\ pc = "read"
      /\ \/ /\ cur < Len(iter.end) /\ batch <= Len(l1)
            /\ IF EventsIn(cur, batch) = <<>>
               THEN iter' = [iter EXCEPT !.cur = batch, !.batch = batch, !.events = <<>>]
                    /\ UNCHANGED pc
               ELSE /\ iter' = [iter EXCEPT !.cur = cur, !.batch = batch,
                                            !.events = EventsIn(cur, batch)]
                    /\ pc' = "iter"
            /\ UNCHANGED l1Current
         \/ /\ cur >= Len(iter.end)
            /\ l1Current' = iter.end
            /\ iter' = NoIter
            /\ pc' = "idle"
      /\ UNCHANGED <<l1Vars, eeVars, l1Head, lastInserted, tracker, syncNotify, faults>>

Event == Head(iter.events)
\* The event is handled: the batch's end is the new current height after the last one
Handled ==
  /\ iter' = IF Len(iter.events) = 1 THEN [iter EXCEPT !.cur = iter.batch, !.events = <<>>]
             ELSE [iter EXCEPT !.cur = Len(Event.l1), !.events = Tail(@)]
  /\ pc' = IF Len(iter.events) = 1 THEN "read" ELSE "iter"
AtEvent == pc = "iter" /\ iter.events # <<>>
ReorgSeen == ~tracker.triggered /\ CheckReorg(Event.id).reorged

\* The process restarts (or dies on a nil cursor): LatestL2KnownL1Header is the L1
\* header of the engine's head L1Origin; an L1 node may still know a header its chain
\* left, or the genesis header is used
RestartCursors ==
  IF headOrigin = Nil THEN {Genesis}
  ELSE LET hdr == L1Of(eeOrigin[headOrigin])
       IN  IF OnL1(hdr) THEN {hdr} ELSE {hdr, Genesis}

Restart ==
  /\ l1Current' \in RestartCursors
  /\ l1Head' = Header(Len(l1))
  /\ lastInserted' = Nil
  /\ tracker' = NewTracker
  /\ pc' = "idle"
  /\ iter' = NoIter
  /\ syncNotify' = TRUE

DetectReorg ==
  LET check == CheckReorg(Event.id)
  IN  /\ AtEvent /\ ReorgSeen
      /\ IF check.cursor = None THEN Restart
         ELSE IF check.cursor = NoHeader          \* an error: the batch is read again
         THEN /\ pc' = "read"
              /\ UNCHANGED <<l1Head, l1Current, lastInserted, tracker, iter, syncNotify>>
         ELSE /\ l1Current' = check.cursor
              /\ lastInserted' = check.last
              /\ pc' = "process"
              /\ iter' = NoIter
              /\ UNCHANGED <<l1Head, tracker, syncNotify>>
      /\ UNCHANGED <<l1Vars, eeVars, faults>>

AlreadyInserted ==
  \/ lastInserted # Nil /\ Event.id <= lastInserted
  \/ tracker.triggered /\ Event.id <= LastSynced

SkipEvent ==
  /\ AtEvent /\ ~ReorgSeen /\ AlreadyInserted
  /\ Handled
  /\ UNCHANGED <<l1Vars, eeVars, l1Head, l1Current, lastInserted, tracker, syncNotify,
                 faults>>

\* Mutant: the engine's head is taken for the parent
Parent_Head(id) == IF tracker.triggered THEN tracker.last ELSE eeHead

\* L2ParentByBlockID: by the parent's L1Origin, else by number
Parent(id) ==
  IF tracker.triggered THEN tracker.last
  ELSE IF id = 1 THEN Genesis
  ELSE IF eeOrigin[id - 1] # None THEN eeOrigin[id - 1]
  ELSE Canonical(id - 1)
HasParent(id) ==
  ~tracker.triggered /\ id > 1 => eeOrigin[id - 1] # None \/ Len(eeHead) >= id - 1

\* createExecutionPayloads: the engine is moved to the parent and builds on it,
\* recording the L1Origin of the block ID
BuildPayload ==
  /\ AtEvent /\ ~ReorgSeen /\ ~AlreadyInserted
  /\ HasParent(Event.id)
  /\ eeHead' = Parent(Event.id)
  /\ eeOrigin' = [eeOrigin EXCEPT ![Event.id] = Append(Parent(Event.id), Event)]
  /\ eeTarget' = None
  /\ pc' = "built"
  /\ UNCHANGED <<l1Vars, headOrigin, l1Head, l1Current, lastInserted, tracker, iter, syncNotify,
                 faults>>

\* insertNewHead ends: the new block is the head of the engine
InsertHead ==
  /\ pc = "built"
  /\ eeHead' = eeOrigin[Event.id]
  /\ headOrigin' = Event.id
  /\ lastInserted' = Event.id
  /\ tracker' = IF tracker.triggered
                THEN [tracker EXCEPT !.triggered = FALSE, !.last = None, !.outOfSync = FALSE]
                ELSE tracker
  /\ Handled
  /\ UNCHANGED <<l1Vars, eeOrigin, eeTarget, l1Head, l1Current, syncNotify, faults>>

\* L2ParentByBlockID finds no parent: the iterator retries, for ever
ParentMissing ==
  /\ AtEvent /\ ~ReorgSeen /\ ~AlreadyInserted
  /\ ~HasParent(Event.id)
  /\ pc' = "read"
  /\ UNCHANGED <<l1Vars, eeVars, l1Head, l1Current, lastInserted, tracker, iter, syncNotify, faults>>

\* Any call of the callback fails: the batch is read again from the last event handled
CallFails ==
  /\ pc \in {"iter", "built"}
  /\ faults < MaxFaults
  /\ faults' = faults + 1
  /\ pc' = "read"
  /\ UNCHANGED <<l1Vars, eeVars, l1Head, l1Current, lastInserted, tracker, iter, syncNotify>>

Crash ==
  /\ faults < MaxFaults
  /\ faults' = faults + 1
  /\ Restart
  /\ UNCHANGED <<l1Vars, eeVars>>

-----------------------------------------------------------------------------

\* The chain the node joins: nothing proposed yet, or a block of proposals, all
\* verified
Joined ==
  \/ l1 = <<>> /\ derived = <<>>
  \/ l1 = <<0>> /\ derived = ProposedAt(<<0>>, 0, Max(Proposals(0)))

Init ==
  /\ Joined
  /\ forks = 0 /\ dropped = 0
  /\ verified = Len(derived)
  /\ eeHead = Genesis
  /\ eeOrigin = [id \in BlockIDs |-> None]
  /\ headOrigin = Nil
  /\ eeTarget = None
  /\ l1Head = Header(Len(l1))
  /\ l1Current = Genesis
  /\ lastInserted = Nil
  /\ tracker = NewTracker
  /\ pc = "idle"
  /\ iter = NoIter
  /\ syncNotify = TRUE
  /\ faults = 0

DriverStep ==
  \/ TriggerBeaconSync \/ StartBlockSync \/ OpenIterator \/ ReadBatch
  \/ DetectReorg \/ SkipEvent \/ ParentMissing \/ BuildPayload \/ InsertHead

Next ==
  \/ Mine \/ Reorg \/ Verify \/ EngineSynced
  \/ NewL1Head \/ TrackTimeout
  \/ DriverStep
  \/ CallFails \/ Crash

\* L1 goes on producing blocks, heads are delivered, the driver's loop and the
\* tracker's ticker run. Nothing is assumed of the engine's own sync
Fairness ==
  /\ WF_vars(Mine) /\ WF_vars(NewL1Head) /\ WF_vars(TrackTimeout) /\ WF_vars(DriverStep)

Spec == Init /\ [][Next]_vars /\ Fairness

-----------------------------------------------------------------------------
(* Properties *)

Headers == {h \in Seq(0..MaxReorgs) : Len(h) <= MaxL1Height}
Proposal == [id : BlockIDs, l1 : Headers]
Blocks == {b \in Seq(Proposal) : Len(b) <= MaxBlocks}

\* Type invariant: cursors are L1 headers, everything the engine holds is an L2 block.
TypeOK ==
  /\ l1 \in Headers /\ derived \in Blocks
  /\ forks \in 0..MaxReorgs /\ dropped \in 0..MaxBlocks
  /\ verified \in 0..Len(derived)
  /\ eeHead \in Blocks /\ eeTarget \in Blocks \cup {None}
  /\ \A id \in BlockIDs : eeOrigin[id] # None =>
       /\ eeOrigin[id] \in Blocks /\ eeOrigin[id] # <<>>
       /\ Last(eeOrigin[id]).id = id /\ Len(eeOrigin[id]) <= id
  /\ headOrigin # Nil => headOrigin \in BlockIDs /\ eeOrigin[headOrigin] # None
  /\ l1Head \in Headers /\ l1Current \in Headers
  /\ lastInserted = Nil \/ lastInserted \in 0..MaxBlocks
  /\ tracker.triggered => tracker.last # None
  /\ pc \in {"idle", "process", "read", "iter", "built"}
  /\ pc = "built" => iter.events # <<>>
  /\ faults \in 0..MaxFaults

\* The engine's chain has every proposal at the height of its block ID. A reorg between
\* the first batches after a beacon sync can skip proposals, and shift the chain
Numbered == \A k \in 1..Len(eeHead) : eeHead[k].id = k

\* No mixed forks: whenever the reorg checks are made, the payload is built on a block
\* of the same L1 history, however the L1 chain was reorganised between the read of the
\* events, the checks and the insertions, and after crashes and failed calls. They are
\* not made behind the last verified block and after a beacon sync (onBlockProposed,
\* checkReorg, L2ParentByBlockID).
OneHistory ==
  [][ (/\ pc = "iter" /\ pc' = "built"
       /\ Len(eeHead) >= verified /\ ~tracker.triggered /\ Numbered) =>
        eeHead' = Genesis \/ IsPrefix(L1Of(eeHead'), Event.l1) ]_vars

\* What insertions without the checks and a beacon sync over old records break: each
\* block with an L1Origin follows its parent on one L1 chain, and no L1Origin is of
\* another fork than the block of the engine's chain that is on L1
OneFork(block) ==
  \A k \in 1..Len(block) :
    block[k].id = k /\ (k > 1 => IsPrefix(block[k - 1].l1, block[k].l1))
OriginsAgree ==
  /\ \A id \in BlockIDs : eeOrigin[id] # None => OneFork(eeOrigin[id])
  /\ \A k \in 1..Len(eeHead) :
       OnL1(eeHead[k].l1) /\ eeOrigin[k] # None => L1Of(eeOrigin[k]) = eeHead[k].l1

\* A reset loses nothing: when the driver finds a reorg and moves its cursor back, the
\* new cursor is on the L1 chain, every block up to the new lastInsertedBlockID is in
\* the engine as L1 derives it, and every later proposal is at or above the cursor
\* (CheckL1Reorg, retrievePastBlock as long as a retry agrees, onBlockProposed).
ResetLosesNothing ==
  [][ (pc = "iter" /\ pc' = "process" /\ OriginsAgree /\ Retries # {}) =>
        /\ OnL1(l1Current')
        /\ lastInserted' \in BlockIDs =>
             \/ eeOrigin[lastInserted'] # None /\ IsPrefix(eeOrigin[lastInserted'], derived)
             \/ Len(eeHead) >= lastInserted' /\ IsPrefix(Canonical(lastInserted'), derived)
        /\ \A id \in 1..Len(derived) :
             id > lastInserted' => Len(derived[id].l1) >= Len(l1Current') ]_vars

\* Catching up: once L1 stops reorganising, has had two proposals above every block ID it
\* had before and then one more L1 block, the engine ends on the chain L1 derives and
\* stays there, as doSync says of itself: it "fetches all `BlockProposed` events emitted
\* from local L1 sync cursor to the L1 head, and then applies all corresponding L2 blocks
\* into node's local blockchain" (driver.go). It does not: a reorg seen as a jump to a
\* longer head leaves the cursor above proposals of the new fork.
Settled == Len(derived) >= dropped + 2 /\ Len(Last(derived).l1) < Len(l1)
CatchesUp == <>[]Settled => <>[](eeHead = derived)

=============================================================================
