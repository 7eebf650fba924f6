------------------------------ MODULE TaikoL1 ------------------------------
(***************************************************************************)
(* The rollup contract TaikoL1 with its libraries LibProposing, LibProving,*)
(* LibVerifying, LibUtils and LibBonds (contracts/layer1/based).  Blocks   *)
(* are proposed into a ring buffer, transitions are proved, contested and  *)
(* re-proved at rising tiers, and blocks are verified in order along a     *)
(* chain of parent hashes.  One action is one L1 transaction.              *)
(*                                                                         *)
(* `now' is block.timestamp in minutes.  A block hash is the pair of the   *)
(* height it claims and one of the Forks, so that hashes of different      *)
(* heights differ (keccak256 has no collisions) while a prover may still   *)
(* submit any of several contents for one height.                          *)
(***************************************************************************)
EXTENDS Integers, FiniteSets, Functions

CONSTANTS
  Users, NoUser,               \* addresses, and address(0)
  Forks, GenesisFork, NoHash,  \* contents of a block, the genesis one, bytes32(0)
  Roots, NoRoot,               \* L2 state roots, and bytes32(0)
  Tier,                        \* ITierProvider.Tier, by tier id 1, 2, ...
  MinTiers,                    \* the minimum tiers getMinTier may draw
  BlockMaxProposals,           \* TaikoData.Config.blockMaxProposals
  BlockRingBufferSize,         \* TaikoData.Config.blockRingBufferSize
  MaxBlocksToVerify,           \* TaikoData.Config.maxBlocksToVerify
  LivenessBond,                \* TaikoData.Config.livenessBond
  StateRootSyncInternal,       \* TaikoData.Config.stateRootSyncInternal
  MaxLivenessDisruptionPeriod, \* TaikoData.Config.maxLivenessDisruptionPeriod
  TimestampSlack,              \* maxAnchorHeightOffset * 12 seconds, in minutes
  GenesisTime,                 \* block.timestamp of the deployment
  ToPause,                     \* the values of init's _toPause
  Amounts                      \* the Ether amounts deposited and withdrawn

CONSTANTS                      \* bounds of the model, not of the code
  MaxBlockId,                  \* ids of proposed blocks
  MaxTransitionId,             \* transitions per block
  MaxBatch,                    \* blocks per proposeBlocksV2
  MaxTime,                     \* the clock stops here
  ActivityHorizon,             \* nothing is proposed or proved after this
  MaxEther                     \* Ether ever held by the contract

TierIds == DOMAIN Tier
BlockIds == 0..MaxBlockId
Slots == 0..(BlockRingBufferSize - 1)
TransitionIds == 1..MaxTransitionId
Hashes == BlockIds \X Forks
Times == 0..MaxTime

ASSUME RingAssumption ==
  /\ BlockMaxProposals \in Nat \ {0}
  /\ BlockRingBufferSize \in Nat
  /\ BlockRingBufferSize > BlockMaxProposals

ASSUME BoundAssumption ==
  /\ MaxBlockId \in Nat /\ MaxTransitionId \in Nat \ {0}
  /\ MaxTime \in Nat /\ GenesisTime \in Times
  /\ LivenessBond \in Nat /\ Amounts \subseteq Nat
  /\ MaxBlocksToVerify \in Nat /\ StateRootSyncInternal \in Nat

(* A batch attempts verification at most once.                              *)
ASSUME BatchAssumption ==
  MaxBatch \in Nat \ {0} /\ (MaxBatch = 1 \/ MaxBatch <= MaxBlocksToVerify \div 2)

ASSUME TierAssumption ==
  /\ TierIds \subseteq Nat \ {0}
  /\ MinTiers \subseteq TierIds
  /\ Tier \in [TierIds -> [validityBond : Nat, contestBond : Nat,
                          cooldownWindow : Nat, provingWindow : Nat]]

ASSUME ValueAssumption ==
  /\ GenesisFork \in Forks /\ NoHash \notin Hashes
  /\ ToPause \subseteq BOOLEAN
  /\ NoRoot \notin Roots /\ NoUser \notin Users /\ IsFiniteSet(Users)

VARIABLES
  now,                         \* block.timestamp
  paused,                      \* EssentialContract.__paused
  numBlocks,                   \* slotB.numBlocks
  lastVerifiedBlockId,         \* slotB.lastVerifiedBlockId
  lastUnpausedAt,              \* slotB.lastUnpausedAt
  lastSyncedBlockId,           \* slotA.lastSyncedBlockId
  blocks,                      \* the ring buffer of BlockV2
  transitions,                 \* the ring buffer of TransitionState, by id
  transitionIds,               \* transition id of a block and a parent hash
  bondBalance,                 \* bond balance of each user
  ether,                       \* address(TaikoL1).balance
  verificationStreakStartedAt, \* Surge: start of the verification streak
  chainData,                   \* the state root SignalService was last given
  verifiedHashes               \* block hashes of the BlockVerifiedV2 events

vars == <<now, paused, numBlocks, lastVerifiedBlockId, lastUnpausedAt,
          lastSyncedBlockId, blocks, transitions, transitionIds, bondBalance,
          ether, verificationStreakStartedAt, chainData, verifiedHashes>>

-----------------------------------------------------------------------------
(* Records *)

Metadata == [proposer : Users \cup {NoUser}, minTier : TierIds \cup {0},
             proposedAt : Times]

Block == [blockId : BlockIds, meta : Metadata, proposedAt : Times,
          nextTransitionId : 0..(MaxTransitionId + 1),
          livenessBondReturned : BOOLEAN,
          verifiedTransitionId : TransitionIds \cup {0}]

TransitionState == [key : Hashes \cup {NoHash}, blockHash : Hashes \cup {NoHash},
                    stateRoot : Roots \cup {NoRoot},
                    prover : Users \cup {NoUser}, validityBond : Nat,
                    contester : Users \cup {NoUser}, contestBond : Nat,
                    timestamp : Times, tier : TierIds \cup {0}]

NoMetadata == [proposer |-> NoUser, minTier |-> 0, proposedAt |-> 0]

EmptyBlock == [blockId |-> 0, meta |-> NoMetadata, proposedAt |-> 0,
               nextTransitionId |-> 0, livenessBondReturned |-> FALSE,
               verifiedTransitionId |-> 0]

EmptyTransition == [key |-> NoHash, blockHash |-> NoHash, stateRoot |-> NoRoot,
                    prover |-> NoUser, validityBond |-> 0, contester |-> NoUser,
                    contestBond |-> 0, timestamp |-> 0, tier |-> 0]

-----------------------------------------------------------------------------
(* LibUtils *)

Slot(id) == id % BlockRingBufferSize

GenesisHash == <<0, GenesisFork>>

(* The deadline is relative to the later of the transition and the unpause. *)
IsPostDeadline(timestamp, window) ==
  /\ now >= timestamp + window
  /\ now >= lastUnpausedAt + window

SegmentSize == MaxBlocksToVerify \div 2

ShouldVerifyBlocks(id, isBlockProposed) ==
  /\ MaxBlocksToVerify # 0
  /\ \/ SegmentSize <= 1
     \/ id % SegmentSize = IF isBlockProposed THEN 0 ELSE SegmentSize \div 2

ShouldSyncStateRoot(id) ==
  \/ StateRootSyncInternal <= 1
  \/ id % StateRootSyncInternal = StateRootSyncInternal - 1

(* The transition of a block on a parent hash, 0 when there is none.  The   *)
(* first transition is found by its key, which the slot's previous block    *)
(* may have left behind; the others are indexed by block id.                *)
TransitionId(t, ids, id, parentHash) ==
  IF t[Slot(id)][1].key = parentHash THEN 1
  ELSE IF <<id, parentHash>> \in DOMAIN ids THEN ids[<<id, parentHash>>] ELSE 0

(* The check that getTransitionId makes of the id it has found.             *)
TransitionIdIsSound(b, t, ids, id, parentHash) ==
  LET tid == TransitionId(t, ids, id, parentHash)
  IN  tid # 0 => tid < b[Slot(id)].nextTransitionId

(* Faulty: the block's first transition is taken for the verifying one.     *)
VerifiedHash_FirstTransition(b, t, id) == t[Slot(id)][1].blockHash

(* LibUtils.getBlockInfo: the hash of the transition that verified a block. *)
VerifiedHash(b, t, id) ==
  t[Slot(id)][b[Slot(id)].verifiedTransitionId].blockHash

-----------------------------------------------------------------------------
(* LibVerifying.  The loop verifies k blocks after lastVerifiedBlockId, the *)
(* i-th by its transition p[i]; p is called their path.                     *)

OnPath(t, p, i) == t[Slot(lastVerifiedBlockId + i)][p[i]]

(* The hash the i-th block has to build on.                                 *)
HashBefore(b, t, p, i) ==
  IF i = 1 THEN VerifiedHash(b, t, lastVerifiedBlockId)
  ELSE OnPath(t, p, i - 1).blockHash

(* Faulty: a contested transition may be verified.                          *)
IsVerifiable_Contested(ts) == IsPostDeadline(ts.timestamp, Tier[ts.tier].cooldownWindow)

IsVerifiable(ts) ==
  /\ ts.contester = NoUser
  /\ IsPostDeadline(ts.timestamp, Tier[ts.tier].cooldownWindow)

(* The loop verifies the blocks of the path ...                             *)
FollowsChain(b, t, ids, n, k, p) ==
  \A i \in 1..k :
    LET id == lastVerifiedBlockId + i
        parentHash == HashBefore(b, t, p, i)
    IN  /\ id < n
        /\ b[Slot(id)].blockId = id
        /\ TransitionIdIsSound(b, t, ids, id, parentHash)
        /\ TransitionId(t, ids, id, parentHash) = p[i]
        /\ IsVerifiable(OnPath(t, p, i))

(* ... and stops after them without reverting.                              *)
StopsAfter(b, t, ids, n, k, p, limit) ==
  LET id == lastVerifiedBlockId + k + 1
      parentHash == HashBefore(b, t, p, k + 1)
      tid == TransitionId(t, ids, id, parentHash)
  IN  (k < limit /\ id < n) =>
        /\ b[Slot(id)].blockId = id
        /\ TransitionIdIsSound(b, t, ids, id, parentHash)
        /\ tid # 0 => ~IsVerifiable(t[Slot(id)][tid])

SyncIndices(t, k, p) ==
  {i \in 1..k : /\ ShouldSyncStateRoot(lastVerifiedBlockId + i)
                /\ OnPath(t, p, i).stateRoot # NoRoot}

CreditProvers(t, bal, k, p) ==
  LET bond == [i \in 1..k |-> OnPath(t, p, i).validityBond]
      by(u) == {i \in 1..k : OnPath(t, p, i).prover = u}
  IN  [u \in Users |-> bal[u] + SumFunctionOnSet(bond, by(u))]

(* Faulty: the id of the verifying transition is not written.               *)
MarkVerified_NotWritten(b, p, i) == b

MarkVerified(b, p, i) ==
  [b EXCEPT ![Slot(lastVerifiedBlockId + i)].verifiedTransitionId = p[i]]

RecordVerified(b, t, bal, k, p) ==
  LET last == lastVerifiedBlockId + k
      synced == SyncIndices(t, k, p)
      verified == MarkVerified(b, p, k)
  IN  /\ lastVerifiedBlockId' = last
      /\ verifiedHashes' =
           [id \in 0..last |-> IF id <= lastVerifiedBlockId THEN verifiedHashes[id]
                               ELSE OnPath(t, p, id - lastVerifiedBlockId).blockHash]
      /\ bondBalance' = CreditProvers(t, bal, k, p)
      /\ verificationStreakStartedAt' =
           IF now - b[Slot(last)].proposedAt > MaxLivenessDisruptionPeriod
           THEN now ELSE verificationStreakStartedAt
      /\ \/ /\ synced = {}
            /\ blocks' = verified
            /\ UNCHANGED <<lastSyncedBlockId, chainData>>
         \/ \E s \in synced :
              /\ \A r \in synced : r <= s
              /\ blocks' = MarkVerified(verified, p, s)
              /\ lastSyncedBlockId' = lastVerifiedBlockId + s
              /\ chainData' = [blockId |-> lastVerifiedBlockId + s,
                               stateRoot |-> OnPath(t, p, s).stateRoot]

RecordNothing(b, bal) ==
  /\ blocks' = b
  /\ bondBalance' = bal
  /\ UNCHANGED <<lastVerifiedBlockId, lastSyncedBlockId, chainData,
                 verificationStreakStartedAt, verifiedHashes>>

(* verifyBlocks on the blocks b, transitions t, transition ids ids, block   *)
(* count n and balances bal that the transaction has computed so far.       *)
Verify(b, t, ids, n, bal, limit) ==
  /\ numBlocks' = n
  /\ transitions' = t
  /\ transitionIds' = ids
  /\ b[Slot(lastVerifiedBlockId)].blockId = lastVerifiedBlockId
  /\ b[Slot(lastVerifiedBlockId)].verifiedTransitionId # 0
  /\ \E k \in 0..limit : \E p \in [1..k -> TransitionIds] :
       /\ FollowsChain(b, t, ids, n, k, p)
       /\ StopsAfter(b, t, ids, n, k, p, limit)
       /\ IF k = 0 THEN RecordNothing(b, bal) ELSE RecordVerified(b, t, bal, k, p)

DoNotVerify(b, t, ids, n, bal) ==
  /\ numBlocks' = n
  /\ transitions' = t
  /\ transitionIds' = ids
  /\ RecordNothing(b, bal)

verifyBlocks(limit) ==
  /\ ~paused
  /\ Verify(blocks, transitions, transitionIds, numBlocks, bondBalance, limit)
  /\ UNCHANGED <<now, paused, lastUnpausedAt, ether>>

-----------------------------------------------------------------------------
(* LibProposing.  A batch gives each of its blocks the L2 timestamp the     *)
(* proposer chose and the minimum tier getMinTier drew.                     *)

BatchParams == [timestamp : Times, minTier : MinTiers]

ParentTimestamp(batch, i) ==
  IF i = 1 THEN blocks[Slot(numBlocks - 1)].proposedAt ELSE batch[i - 1].timestamp

TimestampsAreValid(size, batch) ==
  \A i \in 1..size :
    /\ batch[i].timestamp + TimestampSlack >= now
    /\ batch[i].timestamp <= now
    /\ batch[i].timestamp >= ParentTimestamp(batch, i)

ProposedBlock(proposer, id, param) ==
  [blockId |-> id,
   meta |-> [proposer |-> proposer, minTier |-> param.minTier, proposedAt |-> now],
   proposedAt |-> param.timestamp,
   nextTransitionId |-> 1,
   livenessBondReturned |-> FALSE,
   verifiedTransitionId |-> 0]

(* Faulty: one pending block too many.                                      *)
HasCapacity_OffByOne(n) == n <= lastVerifiedBlockId + BlockMaxProposals + 2

(* The bound on the blocks that await verification, for n blocks in all.    *)
HasCapacity(n) == n <= lastVerifiedBlockId + BlockMaxProposals + 1

(* The ring buffer with a batch stored from id numBlocks on.                *)
StoreBatch(proposer, size, batch) ==
  LET inSlot(s) == {i \in 1..size : Slot(numBlocks + i - 1) = s}
      stored(s) == CHOOSE i \in inSlot(s) : TRUE
  IN  [s \in Slots |->
         IF inSlot(s) = {} THEN blocks[s]
         ELSE ProposedBlock(proposer, numBlocks + stored(s) - 1, batch[stored(s)])]

proposeBlocks(proposer, size, batch) ==
  LET n == numBlocks + size
      b == StoreBatch(proposer, size, batch)
      bond == size * LivenessBond
      bal == [bondBalance EXCEPT ![proposer] = @ - bond]
  IN  /\ ~paused
      /\ now <= ActivityHorizon
      /\ n - 1 <= MaxBlockId
      /\ HasCapacity(n)
      /\ TimestampsAreValid(size, batch)
      /\ bondBalance[proposer] >= bond
      /\ IF \E i \in 1..size : ShouldVerifyBlocks(numBlocks + i - 1, FALSE)
         THEN Verify(b, transitions, transitionIds, n, bal, MaxBlocksToVerify)
         ELSE DoNotVerify(b, transitions, transitionIds, n, bal)
      /\ UNCHANGED <<now, paused, lastUnpausedAt, ether>>

-----------------------------------------------------------------------------
(* LibProving.  A submission is what one proveBlock call carries: who sends *)
(* it, the block, the transition (parent hash, block hash, state root) and  *)
(* the tier of the proof.                                                   *)

(* Faulty: a verified block may be proved again.                            *)
Submissions_Verified ==
  [sender : Users, id : 1..(numBlocks - 1),
   parentFork : Forks, fork : Forks, stateRoot : Roots, tier : TierIds]

Submissions ==
  [sender : Users, id : (lastVerifiedBlockId + 1)..(numBlocks - 1),
   parentFork : Forks, fork : Forks, stateRoot : Roots, tier : TierIds]

ParentHash(x) == <<x.id - 1, x.parentFork>>
BlockHash(x) == <<x.id, x.fork>>
Blk(x) == blocks[Slot(x.id)]
Found(x) == TransitionId(transitions, transitionIds, x.id, ParentHash(x))

(* _fetchOrCreateTransition                                                 *)
Tid(x) == IF Found(x) = 0 THEN Blk(x).nextTransitionId ELSE Found(x)

TierZero(x) ==
  IF Tid(x) = 1
  THEN [EmptyTransition EXCEPT !.timestamp = Blk(x).meta.proposedAt,
                               !.key = ParentHash(x),
                               !.prover = Blk(x).meta.proposer]
  ELSE [EmptyTransition EXCEPT !.timestamp = Blk(x).meta.proposedAt]

Ts(x) == IF Found(x) = 0 THEN TierZero(x) ELSE transitions[Slot(x.id)][Tid(x)]

StateRoot(x) == IF ShouldSyncStateRoot(x.id) THEN x.stateRoot ELSE NoRoot

SameTransition(x, ts) ==
  /\ BlockHash(x) = ts.blockHash
  /\ ShouldSyncStateRoot(x.id) => x.stateRoot = ts.stateRoot

InProvingWindow(x, ts) ==
  ~IsPostDeadline(ts.timestamp, Tier[Blk(x).meta.minTier].provingWindow)

IsTopTier(x) == Tier[x.tier].contestBond = 0

OnlyAssignedProver(x, ts) ==
  /\ ~IsTopTier(x)
  /\ ts.contester = NoUser
  /\ Tid(x) = 1
  /\ ts.tier = 0
  /\ InProvingWindow(x, ts)

(* The checks _proveBlock makes before it changes anything.                 *)
IsAdmissible(x, ts) ==
  /\ ~paused
  /\ now <= ActivityHorizon
  /\ Blk(x).blockId = x.id
  /\ TransitionIdIsSound(blocks, transitions, transitionIds, x.id, ParentHash(x))
  /\ Tid(x) \in TransitionIds
  /\ x.tier >= Blk(x).meta.minTier
  /\ x.tier >= ts.tier
  /\ OnlyAssignedProver(x, ts) => x.sender = Blk(x).meta.proposer

(* Faulty: every submission hands out an id, or none does.                  *)
NextTransitionId_EveryTime(x) == Blk(x).nextTransitionId + 1
NextTransitionId_Never(x) == Blk(x).nextTransitionId

NextTransitionId(x) == Blk(x).nextTransitionId + IF Found(x) = 0 THEN 1 ELSE 0

(* The block, its transition and the id of the transition stored.           *)
StoredBlocks(x, returned) ==
  [blocks EXCEPT ![Slot(x.id)].nextTransitionId = NextTransitionId(x),
                 ![Slot(x.id)].livenessBondReturned = returned]

StoredTransitions(x, new) ==
  [transitions EXCEPT ![Slot(x.id)][Tid(x)] = [new EXCEPT !.timestamp = now]]

StoredIds(x) ==
  LET indexed == IF Found(x) = 0 /\ Tid(x) # 1 THEN {<<x.id, ParentHash(x)>>} ELSE {}
  IN  [k \in DOMAIN transitionIds \cup indexed |->
         IF k \in indexed THEN Tid(x) ELSE transitionIds[k]]

(* The tail of _proveBlock: store the transition, then maybe verify.        *)
StoreTransition(x, new, returned, bal) ==
  LET b == StoredBlocks(x, returned)
      t == StoredTransitions(x, new)
  IN  /\ IF ShouldVerifyBlocks(x.id, TRUE)
         THEN Verify(b, t, StoredIds(x), numBlocks, bal, MaxBlocksToVerify)
         ELSE DoNotVerify(b, t, StoredIds(x), numBlocks, bal)
      /\ UNCHANGED <<now, paused, lastUnpausedAt, ether>>

RewardAfterFriction(amount) == (amount * 7) \div 8

(* The balances after a debit or credit of the sender by the net of what a  *)
(* proof earns and the validity bond it locks.                              *)
Settle(bal, sender, reward, bond) == [bal EXCEPT ![sender] = @ + reward - bond]

Credit(bal, user, amount) == [bal EXCEPT ![user] = @ + amount]

(* Faulty: the contester stays; the tier is the block's minimum.            *)
Overridden_KeepsContester(x, ts) ==
  [ts EXCEPT !.validityBond = Tier[x.tier].validityBond,
             !.prover = x.sender,
             !.tier = x.tier,
             !.blockHash = BlockHash(x),
             !.stateRoot = IF SameTransition(x, ts) THEN @ ELSE StateRoot(x)]
Overridden_MinTier(x, ts) ==
  [ts EXCEPT !.validityBond = Tier[x.tier].validityBond,
             !.contester = NoUser,
             !.prover = x.sender,
             !.tier = Blk(x).meta.minTier,
             !.blockHash = BlockHash(x),
             !.stateRoot = IF SameTransition(x, ts) THEN @ ELSE StateRoot(x)]

(* The transition a higher-tier proof leaves.                               *)
Overridden(x, ts) ==
  [ts EXCEPT !.validityBond = Tier[x.tier].validityBond,
             !.contester = NoUser,
             !.prover = x.sender,
             !.tier = x.tier,
             !.blockHash = BlockHash(x),
             !.stateRoot = IF SameTransition(x, ts) THEN @ ELSE StateRoot(x)]

(* Faulty: the liveness bond is due again for every proof.                  *)
LivenessBondDue_Again(x) == LivenessBond

LivenessBondDue(x) == IF Blk(x).livenessBondReturned THEN 0 ELSE LivenessBond

(* _overrideWithHigherProof, first or uncontested: a different transition   *)
(* earns the bond of the old one and, once per block, the liveness bond.    *)
(* returnBond: the proof data is H_RETURN_LIVENESS_BOND.                    *)
proveUncontested(x, ts, returnBond) ==
  LET due == LivenessBondDue(x)
      returnToAssigned == \/ InProvingWindow(x, ts) /\ Tid(x) = 1
                          \/ IsTopTier(x) /\ returnBond
      assigned == Blk(x).meta.proposer
      toSender == ~returnToAssigned \/ assigned = x.sender
      reward == RewardAfterFriction(ts.validityBond) + IF toSender THEN due ELSE 0
      bal == IF toSender THEN bondBalance ELSE Credit(bondBalance, assigned, due)
      bond == Tier[x.tier].validityBond
  IN  /\ x.tier > ts.tier
      /\ ts.contester = NoUser
      /\ ~SameTransition(x, ts)
      /\ bal[x.sender] + reward >= bond
      /\ StoreTransition(x, Overridden(x, ts), Blk(x).livenessBondReturned \/ due # 0,
                         Settle(bal, x.sender, reward, bond))

(* _overrideWithHigherProof, the contested transition was right: the        *)
(* contester loses its bond to the new prover.                              *)
proveContestLost(x, ts) ==
  LET reward == RewardAfterFriction(ts.contestBond)
      bal == Credit(bondBalance, ts.prover, ts.validityBond)
      bond == Tier[x.tier].validityBond
  IN  /\ x.tier > ts.tier
      /\ ts.contester # NoUser
      /\ SameTransition(x, ts)
      /\ bal[x.sender] + reward >= bond
      /\ StoreTransition(x, Overridden(x, ts), Blk(x).livenessBondReturned,
                         Settle(bal, x.sender, reward, bond))

(* _overrideWithHigherProof, the contested transition was wrong: the        *)
(* contester gets its bond and 3/4 of the reward, the new prover 1/4.       *)
proveContestWon(x, ts) ==
  LET reward == RewardAfterFriction(ts.validityBond) \div 4
      bal == Credit(bondBalance, ts.contester, ts.contestBond + 3 * reward)
      bond == Tier[x.tier].validityBond
  IN  /\ x.tier > ts.tier
      /\ ts.contester # NoUser
      /\ ~SameTransition(x, ts)
      /\ bal[x.sender] + reward >= bond
      /\ StoreTransition(x, Overridden(x, ts), Blk(x).livenessBondReturned,
                         Settle(bal, x.sender, reward, bond))

(* The top tier prover re-proves; the two assertions of the code.           *)
TopTierAssertion(x, ts) ==
  Tier[x.tier].validityBond = 0 /\ ts.validityBond = 0 /\ ts.contester = NoUser

reproveTopTier(x, ts) ==
  /\ x.tier = ts.tier
  /\ ~SameTransition(x, ts)
  /\ IsTopTier(x)
  /\ TopTierAssertion(x, ts)
  /\ StoreTransition(x, [ts EXCEPT !.prover = x.sender,
                                   !.blockHash = BlockHash(x),
                                   !.stateRoot = StateRoot(x)],
                     Blk(x).livenessBondReturned, bondBalance)

contest(x, ts) ==
  LET bond == Tier[x.tier].contestBond
  IN  /\ x.tier = ts.tier
      /\ ~SameTransition(x, ts)
      /\ ~IsTopTier(x)
      /\ ts.contester = NoUser
      /\ ~IsPostDeadline(ts.timestamp, Tier[x.tier].cooldownWindow)
      /\ bondBalance[x.sender] >= bond
      /\ StoreTransition(x, [ts EXCEPT !.contestBond = bond, !.contester = x.sender],
                         Blk(x).livenessBondReturned,
                         [bondBalance EXCEPT ![x.sender] = @ - bond])

-----------------------------------------------------------------------------
(* LibBonds, the owner and the clock                                        *)

depositBond(user, amount) ==
  /\ ~paused
  /\ ether + amount <= MaxEther
  /\ bondBalance' = [bondBalance EXCEPT ![user] = @ + amount]
  /\ ether' = ether + amount
  /\ UNCHANGED <<now, paused, numBlocks, lastVerifiedBlockId, lastUnpausedAt,
                 lastSyncedBlockId, blocks, transitions, transitionIds,
                 verificationStreakStartedAt, chainData, verifiedHashes>>

(* The Ether transfer fails, and the call reverts, without enough Ether.    *)
withdrawBond(user, amount) ==
  /\ ~paused
  /\ bondBalance[user] >= amount
  /\ ether >= amount
  /\ bondBalance' = [bondBalance EXCEPT ![user] = @ - amount]
  /\ ether' = ether - amount
  /\ UNCHANGED <<now, paused, numBlocks, lastVerifiedBlockId, lastUnpausedAt,
                 lastSyncedBlockId, blocks, transitions, transitionIds,
                 verificationStreakStartedAt, chainData, verifiedHashes>>

(* Surge disables pause(); a contract deployed paused is unpaused once.     *)
unpause ==
  /\ paused
  /\ paused' = FALSE
  /\ lastUnpausedAt' = now
  /\ UNCHANGED <<now, numBlocks, lastVerifiedBlockId, lastSyncedBlockId, blocks,
                 transitions, transitionIds, bondBalance, ether,
                 verificationStreakStartedAt, chainData, verifiedHashes>>

Tick ==
  /\ now < MaxTime
  /\ now' = now + 1
  /\ UNCHANGED <<paused, numBlocks, lastVerifiedBlockId, lastUnpausedAt,
                 lastSyncedBlockId, blocks, transitions, transitionIds,
                 bondBalance, ether, verificationStreakStartedAt, chainData,
                 verifiedHashes>>

-----------------------------------------------------------------------------
GenesisBlock ==
  [EmptyBlock EXCEPT !.nextTransitionId = 2, !.proposedAt = GenesisTime,
                     !.verifiedTransitionId = 1]

GenesisTransition ==
  [EmptyTransition EXCEPT !.blockHash = GenesisHash, !.timestamp = GenesisTime]

(* LibUtils.init; the deployer chooses whether to start paused.             *)
Init ==
  /\ now = GenesisTime
  /\ paused \in ToPause
  /\ numBlocks = 1
  /\ lastVerifiedBlockId = 0
  /\ lastUnpausedAt = 0
  /\ lastSyncedBlockId = 0
  /\ blocks = [s \in Slots |-> IF s = 0 THEN GenesisBlock ELSE EmptyBlock]
  /\ transitions = [s \in Slots |-> [tid \in TransitionIds |->
                      IF s = 0 /\ tid = 1 THEN GenesisTransition ELSE EmptyTransition]]
  /\ transitionIds = [k \in {} |-> 0]
  /\ bondBalance = [u \in Users |-> 0]
  /\ ether = 0
  /\ verificationStreakStartedAt = 0
  /\ chainData = [blockId |-> 0, stateRoot |-> NoRoot]
  /\ verifiedHashes = [id \in {0} |-> GenesisHash]

proveBlock(x) ==
  LET ts == Ts(x)
  IN  /\ IsAdmissible(x, ts)
      /\ \/ \E returnBond \in BOOLEAN : proveUncontested(x, ts, returnBond)
         \/ proveContestLost(x, ts)
         \/ proveContestWon(x, ts)
         \/ reproveTopTier(x, ts)
         \/ contest(x, ts)

Next ==
  \/ \E user \in Users, size \in 1..MaxBatch : \E batch \in [1..size -> BatchParams] :
       proposeBlocks(user, size, batch)
  \/ \E x \in Submissions : proveBlock(x)
  \/ \E limit \in 1..MaxBlocksToVerify : verifyBlocks(limit)
  \/ \E user \in Users, amount \in Amounts : depositBond(user, amount)
  \/ \E user \in Users, amount \in Amounts : withdrawBond(user, amount)
  \/ unpause
  \/ Tick

Spec == Init /\ [][Next]_vars

(* Anyone may call verifyBlocks, and the proposers' and provers' own calls  *)
(* verify too; time passes; the owner of a contract deployed paused opens   *)
(* it.  Nobody has to propose, prove or contest.                            *)
Fairness ==
  /\ WF_vars(Tick)
  /\ WF_vars(unpause)
  /\ WF_vars(\E limit \in 1..MaxBlocksToVerify : verifyBlocks(limit))

FairSpec == Spec /\ Fairness

-----------------------------------------------------------------------------
(* Properties *)

(* The contract's storage keeps its types.                                  *)
TypeOK ==
  /\ now \in Times
  /\ paused \in BOOLEAN
  /\ numBlocks \in 1..(MaxBlockId + 1)
  /\ lastVerifiedBlockId \in BlockIds
  /\ lastUnpausedAt \in Times
  /\ lastSyncedBlockId \in BlockIds
  /\ blocks \in [Slots -> Block]
  /\ transitions \in [Slots -> [TransitionIds -> TransitionState]]
  /\ DOMAIN transitionIds \subseteq BlockIds \X Hashes
  /\ transitionIds \in [DOMAIN transitionIds -> TransitionIds]
  /\ verifiedHashes \in [0..lastVerifiedBlockId -> Hashes \cup {NoHash}]

Unverified == (lastVerifiedBlockId + 1)..(numBlocks - 1)

(* LibVerifying and LibProving look blocks up by id modulo the ring size: a *)
(* proposal never overwrites an unverified block or the last verified one,  *)
(* so that L1_BLOCK_MISMATCH cannot be reached.                             *)
RingIntact ==
  /\ lastVerifiedBlockId < numBlocks
  /\ \A id \in lastVerifiedBlockId..(numBlocks - 1) : blocks[Slot(id)].blockId = id

(* Every verified block still in the ring was verified by the transition    *)
(* that builds on the hash verified before it, and that transition has not  *)
(* changed since: the chain LibVerifying reports has no gap and no fork.    *)
VerifiedChain ==
  /\ blocks[Slot(lastVerifiedBlockId)].verifiedTransitionId # 0
  /\ VerifiedHash(blocks, transitions, lastVerifiedBlockId) = verifiedHashes[lastVerifiedBlockId]
  /\ \A id \in 1..lastVerifiedBlockId :
       blocks[Slot(id)].blockId = id =>
         LET tid == TransitionId(transitions, transitionIds, id, verifiedHashes[id - 1])
         IN  /\ tid # 0
             /\ transitions[Slot(id)][tid].blockHash = verifiedHashes[id]

(* getTransitionId never finds an id the block has not handed out, whatever *)
(* the previous block left in the slot: L1_UNEXPECTED_TRANSITION_ID cannot  *)
(* be reached from proving or verifying.                                    *)
NoUnexpectedTransition ==
  \A id \in Unverified, fork \in Forks :
    TransitionIdIsSound(blocks, transitions, transitionIds, id, <<id - 1, fork>>)

(* The assertions _proveBlock makes when the top tier re-proves hold.       *)
TopTierHoldsNoBond ==
  \A id \in Unverified : \A tid \in 1..(blocks[Slot(id)].nextTransitionId - 1) :
    LET ts == transitions[Slot(id)][tid]
    IN  Tier[ts.tier].contestBond = 0 => ts.validityBond = 0 /\ ts.contester = NoUser

(* What the contract still has to pay, in blocks b, transitions t and n     *)
(* blocks: the bonds of a transition; those of a block's transitions, with  *)
(* its liveness bond until the first proof; and those of all blocks that    *)
(* are not verified.                                                        *)
BondsOf(ts) == ts.validityBond + IF ts.contester = NoUser THEN 0 ELSE ts.contestBond

LivenessBondHeld(returned) == IF returned THEN 0 ELSE LivenessBond

LockedBy(b, t, id) ==
  LET blk == b[Slot(id)]
  IN  SumFunction([tid \in 1..(blk.nextTransitionId - 1) |-> BondsOf(t[Slot(id)][tid])])
        + LivenessBondHeld(blk.livenessBondReturned)

Locked(b, t, n) ==
  SumFunction([id \in (lastVerifiedBlockId + 1)..(n - 1) |-> LockedBy(b, t, id)])

(* The Ether of the contract covers every balance and every bond that may   *)
(* still be paid out, so that withdrawBond never fails for want of Ether:   *)
(* no sequence of proofs and contests pays a bond twice.                    *)
Solvent ==
  /\ \A u \in Users : bondBalance[u] >= 0
  /\ SumFunction(bondBalance) + Locked(blocks, transitions, numBlocks) <= ether

(* getLastSyncedBlock finds the synced block, although later proposals      *)
(* reuse the ring, and it holds the state root given to the SignalService.  *)
SyncedBlockIsReadable ==
  /\ lastSyncedBlockId <= lastVerifiedBlockId
  /\ chainData.blockId = lastSyncedBlockId
  /\ lastSyncedBlockId > 0 =>
       LET blk == blocks[Slot(lastSyncedBlockId)]
           ts == transitions[Slot(lastSyncedBlockId)][blk.verifiedTransitionId]
       IN  /\ blk.blockId = lastSyncedBlockId
           /\ blk.verifiedTransitionId # 0
           /\ ts.blockHash = verifiedHashes[lastSyncedBlockId]
           /\ ts.stateRoot = chainData.stateRoot

(* A block is verified only by a transition no one contests and that has    *)
(* been open to contest for its tier's whole cooldown; one that was         *)
(* contested has first been settled by a proof of a higher tier.            *)
NewlyVerified == (lastVerifiedBlockId + 1)..lastVerifiedBlockId'

TidOf(id) == TransitionId(transitions', transitionIds', id, verifiedHashes'[id - 1])

VerifiedWhenDue ==
  \A id \in NewlyVerified :
    LET tid == TidOf(id)
        ts == transitions'[Slot(id)][tid]
        before == transitions[Slot(id)][tid]
        known == id < numBlocks /\ tid < blocks[Slot(id)].nextTransitionId
    IN  /\ ts.contester = NoUser
        /\ now >= ts.timestamp + Tier[ts.tier].cooldownWindow
        /\ (known /\ before.contester # NoUser) => ts.tier > before.tier

VerificationIsEarned == [][VerifiedWhenDue]_vars

(* What a recorded transition says changes only by a proof of a higher tier *)
(* or, at a top tier, by a re-proof; and its tier never falls.              *)
ProofsOnlyGetStronger ==
  [][\A id \in Unverified : \A tid \in 1..(blocks[Slot(id)].nextTransitionId - 1) :
       LET old == transitions[Slot(id)][tid]
           new == transitions'[Slot(id)][tid]
       IN  /\ new.tier >= old.tier
           /\ new.blockHash # old.blockHash =>
                \/ new.tier > old.tier
                \/ Tier[new.tier].contestBond = 0]_vars

(* Verification never gets stuck: once proving has stopped, no block is left*)
(* whose transition on the last verified hash stands uncontested.           *)
NextIsProved ==
  LET id == lastVerifiedBlockId + 1
      tid == TransitionId(transitions, transitionIds, id, verifiedHashes[id - 1])
  IN  /\ id < numBlocks
      /\ tid # 0
      /\ transitions[Slot(id)][tid].contester = NoUser

VerificationProgresses == <>[]~NextIsProved

(* The third result of getLastVerifiedBlock.                                *)
VerifiedAt == transitions[Slot(lastVerifiedBlockId)]
                [blocks[Slot(lastVerifiedBlockId)].verifiedTransitionId].timestamp

(* The documentation of getLastVerifiedBlock calls that result the timestamp*)
(* the block is verified at: it is the present when a block gets verified.  *)
VerifiedAtIsVerification ==
  [][lastVerifiedBlockId' > lastVerifiedBlockId => VerifiedAt' = now]_vars
=============================================================================
