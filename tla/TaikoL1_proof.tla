--------------------------- MODULE TaikoL1_proof ---------------------------
(***************************************************************************)
(* TLAPS proofs about TaikoL1: its type invariant and the integrity of the *)
(* ring buffer and of the verified chain, for every value of the constants.*)
(***************************************************************************)
EXTENDS TaikoL1, TLAPS

-----------------------------------------------------------------------------
(* The ring buffer's arithmetic                                             *)

(* A positive multiple of R is not below R.                                 *)
LEMMA NoSmallMultiple ==
  ASSUME NEW R \in Nat \ {0}, NEW d \in Int, 0 < R * d, R * d < R
  PROVE  FALSE
<1>1. d > 0
  OBVIOUS
<1>2. R * d >= R
  BY <1>1
<1> QED
  BY <1>2

(* Division with remainder.                                                 *)
LEMMA DivisionWithRemainder ==
  ASSUME NEW R \in Nat \ {0}, NEW a \in Nat
  PROVE  /\ a \div R \in Nat
         /\ a % R \in 0..(R - 1)
         /\ a = R * (a \div R) + (a % R)
  OBVIOUS

(* Every id has a slot.                                                     *)
LEMMA SlotType ==
  ASSUME NEW id \in Nat
  PROVE  Slot(id) \in Slots
  BY RingAssumption DEF Slot, Slots

(* Two ids less than a ring apart have different slots: the ring holds the  *)
(* last verified block and every block that awaits verification.            *)
LEMMA SlotsDiffer ==
  ASSUME NEW a \in Nat, NEW b \in Nat, a < b, b - a < BlockRingBufferSize
  PROVE  Slot(a) # Slot(b)
<1> DEFINE R == BlockRingBufferSize
           p == a \div R
           q == b \div R
<1>0. R \in Nat \ {0}
  BY RingAssumption
<1>1. p \in Nat /\ a % R \in Nat /\ a = R * p + (a % R)
  BY <1>0, DivisionWithRemainder
<1>2. q \in Nat /\ b % R \in Nat /\ b = R * q + (b % R)
  BY <1>0, DivisionWithRemainder
<1> SUFFICES ASSUME a % R = b % R PROVE FALSE
  BY DEF Slot
<1>3. b - a = R * q - R * p
  <2> HIDE DEF p, q, R
  <2> QED BY <1>0, <1>1, <1>2
<1>4. R * q - R * p = R * (q - p)
  <2> HIDE DEF p, q, R
  <2> QED BY <1>0, <1>1, <1>2
<1>5. q - p \in Int
  BY <1>1, <1>2
<1>6. b - a < R
  OBVIOUS
<1> QED
  <2> HIDE DEF p, q, R
  <2>1. 0 < R * (q - p) /\ R * (q - p) < R
    BY <1>3, <1>4, <1>6
  <2> QED BY <1>0, <1>5, <2>1, NoSmallMultiple

-----------------------------------------------------------------------------
(* The inductive invariant.  Consistent says of blocks b, transitions t,    *)
(* transition ids ids and block count n -- the contract's own, or those a   *)
(* transaction has computed before it verifies -- that they have their      *)
(* types, that the ring is intact and that the verified chain stands.       *)

Typed(b, t, ids, n) ==
  /\ b \in [Slots -> Block]
  /\ t \in [Slots -> [TransitionIds -> TransitionState]]
  /\ DOMAIN ids \subseteq BlockIds \X Hashes
  /\ ids \in [DOMAIN ids -> TransitionIds]
  /\ n \in 1..(MaxBlockId + 1)

Ring(b, n) ==
  /\ lastVerifiedBlockId < n
  /\ \A id \in lastVerifiedBlockId..(n - 1) : b[Slot(id)].blockId = id

Chain(b, t, ids) ==
  /\ b[Slot(lastVerifiedBlockId)].verifiedTransitionId # 0
  /\ VerifiedHash(b, t, lastVerifiedBlockId) = verifiedHashes[lastVerifiedBlockId]
  /\ \A id \in 1..lastVerifiedBlockId :
       b[Slot(id)].blockId = id =>
         LET tid == TransitionId(t, ids, id, verifiedHashes[id - 1])
         IN  /\ tid # 0
             /\ t[Slot(id)][tid].blockHash = verifiedHashes[id]

(* What a transition recorded for a block is: it claims the height of the   *)
(* block and was proved at a tier; where the state root is to be synced it  *)
(* has one; and where a tier without contests takes no validity bond, it    *)
(* holds no bond at such a tier.                                            *)
TopTiersTakeNoBond == \A i \in TierIds : Tier[i].contestBond = 0 => Tier[i].validityBond = 0

HoldsNoBond(ts) ==
  Tier[ts.tier].contestBond = 0 => ts.validityBond = 0 /\ ts.contester = NoUser

IsRecord(id, ts) ==
  /\ ts.blockHash \in {id} \X Forks
  /\ ts.tier \in TierIds
  /\ ShouldSyncStateRoot(id) => ts.stateRoot \in Roots
  /\ TopTiersTakeNoBond => HoldsNoBond(ts)

Records(b, t, n) ==
  \A id \in (lastVerifiedBlockId + 1)..(n - 1) :
    \A tid \in 1..(b[Slot(id)].nextTransitionId - 1) : IsRecord(id, t[Slot(id)][tid])

(* The first key a slot holds is of the slot's own block only once the block*)
(* has handed out id 1; an indexed id of a block in the ring is one it has  *)
(* handed out; and neither is of a block still to be proposed.              *)
KeyFits(blk, key) ==
  key # NoHash => /\ key[1] < blk.blockId
                  /\ key[1] = blk.blockId - 1 => blk.nextTransitionId > 1

Keys(b, t, n) == \A s \in Slots : b[s].blockId < n /\ KeyFits(b[s], t[s][1].key)

Indexed(b, ids, n) ==
  \A k \in DOMAIN ids :
    /\ k[1] < n
    /\ b[Slot(k[1])].blockId = k[1] => ids[k] < b[Slot(k[1])].nextTransitionId

Consistent(b, t, ids, n) ==
  /\ Typed(b, t, ids, n) /\ Ring(b, n) /\ Chain(b, t, ids)
  /\ Records(b, t, n) /\ Keys(b, t, n) /\ Indexed(b, ids, n)

(* The variables that only verification changes.                            *)
CursorsTyped ==
  /\ lastVerifiedBlockId \in BlockIds
  /\ lastSyncedBlockId \in BlockIds
  /\ verifiedHashes \in [0..lastVerifiedBlockId -> Hashes \cup {NoHash}]

ClockTyped == now \in Times /\ paused \in BOOLEAN /\ lastUnpausedAt \in Times

IInv ==
  /\ ClockTyped
  /\ CursorsTyped
  /\ Consistent(blocks, transitions, transitionIds, numBlocks)

(* What a transaction may make of a recorded transition: only a proof of a  *)
(* higher tier, or a top tier's re-proof, changes what it says, and only a  *)
(* proof of a higher tier settles a contest.                                *)
Succeeds(old, new) ==
  /\ new.tier >= old.tier
  /\ new.blockHash # old.blockHash => new.tier > old.tier \/ Tier[new.tier].contestBond = 0
  /\ (old.contester # NoUser /\ new.contester = NoUser) => new.tier > old.tier

Strengthens(t) ==
  \A s \in Slots : \A tid \in 1..(blocks[s].nextTransitionId - 1) :
    Succeeds(transitions[s][tid], t[s][tid])

(* Verified blocks less than a ring behind the last block keep their slots. *)
Keeps(b, t, n) ==
  \A id \in 0..lastVerifiedBlockId :
    (blocks[Slot(id)].blockId = id /\ n - 1 - id < BlockRingBufferSize) =>
      b[Slot(id)] = blocks[Slot(id)] /\ t[Slot(id)] = transitions[Slot(id)]

(* A transaction leaves n blocks and verifies some, or none, of them from   *)
(* the consistent state it has computed.                                    *)
VerifiesFrom(n) ==
  \E b, t, ids, bal : \E limit \in Nat :
    /\ Consistent(b, t, ids, n) /\ Strengthens(t) /\ Keeps(b, t, n)
    /\ Verify(b, t, ids, n, bal, limit) \/ DoNotVerify(b, t, ids, n, bal)

ClockUnchanged == UNCHANGED <<now, paused, lastUnpausedAt>>

LedgerUnchanged ==
  UNCHANGED <<numBlocks, lastVerifiedBlockId, lastSyncedBlockId, blocks,
              transitions, transitionIds, chainData, verifiedHashes>>

(* The two kinds of steps: one leaves the ledger alone, the other may       *)
(* append blocks within the capacity, record transitions and verify.        *)
LedgerStep ==
  \/ ClockTyped' /\ LedgerUnchanged
  \/ \E n \in Nat :
       /\ n >= numBlocks
       /\ n > numBlocks => n <= lastVerifiedBlockId + BlockMaxProposals + 1
       /\ ClockUnchanged /\ VerifiesFrom(n)

(* The invariant contains the properties the theorems state.                *)
LEMMA InvImplies == IInv => TypeOK /\ RingIntact /\ VerifiedChain
  BY DEF IInv, ClockTyped, CursorsTyped, Consistent, Typed, Ring, Chain,
         TypeOK, RingIntact, VerifiedChain

(* The contract is deployed consistent, with its genesis block verified.    *)
LEMMA InitInv == Init => IInv
<1> SUFFICES ASSUME Init PROVE IInv
  OBVIOUS
<1>1. 0 \in Slots /\ Slot(0) = 0 /\ 1 \in TransitionIds
  <2>1. 0 \in Slots /\ 1 \in TransitionIds
    BY RingAssumption, BoundAssumption DEF Slots, TransitionIds
  <2>2. 0 % BlockRingBufferSize = 0
    BY RingAssumption
  <2> QED BY <2>1, <2>2 DEF Slot
<1>2. ClockTyped
  BY BoundAssumption, ValueAssumption DEF Init, ClockTyped, Times
<1>3. GenesisHash \in Hashes
  BY BoundAssumption, ValueAssumption DEF GenesisHash, Hashes, BlockIds
<1>4. CursorsTyped
  BY <1>3, BoundAssumption DEF Init, CursorsTyped, BlockIds
<1>5. EmptyBlock \in Block /\ GenesisBlock \in Block
  <2>1. /\ 0 \in BlockIds /\ 0 \in Times /\ GenesisTime \in Times
        /\ 0 \in 0..(MaxTransitionId + 1) /\ 2 \in 0..(MaxTransitionId + 1)
    BY BoundAssumption DEF BlockIds, Times
  <2>2. NoMetadata \in Metadata
    BY <2>1 DEF NoMetadata, Metadata
  <2>3. EmptyBlock \in Block
    BY <2>1, <2>2 DEF EmptyBlock, Block
  <2> QED BY <1>1, <2>1, <2>3 DEF GenesisBlock, Block
<1>6. EmptyTransition \in TransitionState /\ GenesisTransition \in TransitionState
  <2>1. 0 \in Times /\ GenesisTime \in Times
    BY BoundAssumption DEF Times
  <2>2. EmptyTransition \in TransitionState
    BY <2>1 DEF EmptyTransition, TransitionState
  <2> QED BY <1>3, <2>1, <2>2 DEF GenesisTransition, TransitionState
<1>7. Typed(blocks, transitions, transitionIds, numBlocks)
  <2>1. blocks \in [Slots -> Block]
    BY <1>5 DEF Init
  <2>2. transitions \in [Slots -> [TransitionIds -> TransitionState]]
    BY <1>6 DEF Init
  <2> QED BY <2>1, <2>2, BoundAssumption DEF Init, Typed
<1>8. Ring(blocks, numBlocks)
  BY <1>1 DEF Init, Ring, GenesisBlock, EmptyBlock
<1>9. Chain(blocks, transitions, transitionIds)
  BY <1>1 DEF Init, Chain, VerifiedHash, GenesisBlock, EmptyBlock,
              GenesisTransition, EmptyTransition
<1>10. Records(blocks, transitions, numBlocks)
  BY DEF Init, Records
<1>11. Keys(blocks, transitions, numBlocks) /\ Indexed(blocks, transitionIds, numBlocks)
  BY <1>1 DEF Init, Keys, KeyFits, Indexed, GenesisBlock, EmptyBlock,
              GenesisTransition, EmptyTransition
<1> QED
  BY <1>2, <1>4, <1>7, <1>8, <1>9, <1>10, <1>11 DEF IInv, Consistent

-----------------------------------------------------------------------------
(* Verification *)

(* Recording a verified path changes nothing of the blocks but the ids of   *)
(* the transitions that verified them.                                      *)
LEMMA RecordBlocks ==
  ASSUME NEW b, NEW t, NEW ids, NEW n, NEW bal, NEW k \in Nat \ {0},
         NEW p \in [1..k -> TransitionIds],
         CursorsTyped, Typed(b, t, ids, n),
         FollowsChain(b, t, ids, n, k, p), RecordVerified(b, t, bal, k, p)
  PROVE  /\ blocks' \in [Slots -> Block]
         /\ \A s \in Slots : /\ blocks'[s].blockId = b[s].blockId
                             /\ blocks'[s].nextTransitionId = b[s].nextTransitionId
                             /\ blocks'[s].livenessBondReturned = b[s].livenessBondReturned
         /\ blocks'[Slot(lastVerifiedBlockId + k)].verifiedTransitionId = p[k]
<1> DEFINE last == lastVerifiedBlockId + k
           verified == MarkVerified(b, p, k)
           synced == SyncIndices(t, k, p)
<1>1. lastVerifiedBlockId \in Nat /\ last \in Nat /\ p[k] \in TransitionIds
  BY BoundAssumption DEF CursorsTyped, BlockIds
<1>2. Slot(last) \in Slots
  BY <1>1, SlotType
<1>3. b \in [Slots -> Block]
  BY DEF Typed
<1>4. /\ verified \in [Slots -> Block]
      /\ \A s \in Slots : /\ verified[s].blockId = b[s].blockId
                          /\ verified[s].nextTransitionId = b[s].nextTransitionId
                          /\ verified[s].livenessBondReturned = b[s].livenessBondReturned
      /\ verified[Slot(last)].verifiedTransitionId = p[k]
  BY <1>1, <1>2, <1>3 DEF Block, MarkVerified
<1>5. CASE synced = {} /\ blocks' = verified
  BY <1>4, <1>5
<1>6. CASE \E s \in synced : blocks' = MarkVerified(verified, p, s)
  <2>1. PICK s \in 1..k : blocks' =
             [verified EXCEPT ![Slot(lastVerifiedBlockId + s)].verifiedTransitionId = p[s]]
    BY <1>6 DEF SyncIndices, MarkVerified
  <2>2. lastVerifiedBlockId + s \in Nat /\ p[s] \in TransitionIds
    BY <1>1
  <2>3. Slot(lastVerifiedBlockId + s) \in Slots
    BY <2>2, SlotType
  <2>4. Slot(lastVerifiedBlockId + s) = Slot(last) => s = k
    <3>0. s \in 1..k /\ k \in 1..k
      OBVIOUS
    <3>1. \A i \in 1..k :
            b[Slot(lastVerifiedBlockId + i)].blockId = lastVerifiedBlockId + i
      BY DEF FollowsChain
    <3>2. /\ b[Slot(lastVerifiedBlockId + s)].blockId = lastVerifiedBlockId + s
          /\ b[Slot(last)].blockId = last
      BY <3>0, <3>1
    <3> QED BY <1>1, <3>2
  <2> HIDE DEF verified
  <2> QED BY ZenonT(30), <1>2, <1>4, <2>1, <2>2, <2>3, <2>4 DEF Block
<1> QED
  BY <1>5, <1>6 DEF RecordVerified

(* The hash a block of the path has to build on is the one recorded as      *)
(* verified before it.                                                      *)
LEMMA PathHashes ==
  ASSUME NEW b, NEW t, NEW ids, NEW n, NEW bal, NEW k \in Nat \ {0},
         NEW p \in [1..k -> TransitionIds],
         CursorsTyped, Chain(b, t, ids), RecordVerified(b, t, bal, k, p)
  PROVE  /\ \A id \in 0..lastVerifiedBlockId : verifiedHashes'[id] = verifiedHashes[id]
         /\ \A i \in 1..k :
              /\ verifiedHashes'[lastVerifiedBlockId + i] = OnPath(t, p, i).blockHash
              /\ verifiedHashes'[lastVerifiedBlockId + i - 1] = HashBefore(b, t, p, i)
<1>1. lastVerifiedBlockId \in Nat
  BY BoundAssumption DEF CursorsTyped, BlockIds
<1>2. verifiedHashes' =
        [id \in 0..(lastVerifiedBlockId + k) |->
           IF id <= lastVerifiedBlockId THEN verifiedHashes[id]
           ELSE OnPath(t, p, id - lastVerifiedBlockId).blockHash]
  BY DEF RecordVerified
<1>3. \A id \in 0..lastVerifiedBlockId : verifiedHashes'[id] = verifiedHashes[id]
  BY <1>1, <1>2
<1>4. ASSUME NEW i \in 1..k
      PROVE  verifiedHashes'[lastVerifiedBlockId + i] = OnPath(t, p, i).blockHash
  <2>1. /\ lastVerifiedBlockId + i \in 0..(lastVerifiedBlockId + k)
        /\ ~(lastVerifiedBlockId + i <= lastVerifiedBlockId)
        /\ (lastVerifiedBlockId + i) - lastVerifiedBlockId = i
    BY <1>1
  <2> QED BY <1>2, <2>1
<1>5. ASSUME NEW i \in 1..k
      PROVE  verifiedHashes'[lastVerifiedBlockId + i - 1] = HashBefore(b, t, p, i)
  <2>1. CASE i = 1
    BY <1>1, <1>3, <2>1 DEF HashBefore, Chain
  <2>2. CASE i # 1
    <3>1. /\ i - 1 \in 1..k
          /\ lastVerifiedBlockId + (i - 1) = lastVerifiedBlockId + i - 1
      BY <1>1, <2>2
    <3> QED BY <1>4, <2>2, <3>1 DEF HashBefore
  <2> QED BY <2>1, <2>2
<1> QED
  BY <1>3, <1>4, <1>5

(* Verifying blocks from a consistent state leaves a consistent one.        *)
LEMMA RecordConsistent ==
  ASSUME NEW b, NEW t, NEW ids, NEW n, NEW bal, NEW k \in Nat \ {0},
         NEW p \in [1..k -> TransitionIds],
         CursorsTyped, Consistent(b, t, ids, n),
         numBlocks' = n, transitions' = t, transitionIds' = ids,
         FollowsChain(b, t, ids, n, k, p), RecordVerified(b, t, bal, k, p)
  PROVE  CursorsTyped' /\ Consistent(blocks, transitions, transitionIds, numBlocks)'
<1> DEFINE L == lastVerifiedBlockId
<1>1. L \in Nat /\ n \in Nat /\ n <= MaxBlockId + 1 /\ lastVerifiedBlockId' = L + k
  BY BoundAssumption DEF CursorsTyped, BlockIds, Consistent, Typed, RecordVerified
<1>2. /\ blocks' \in [Slots -> Block]
      /\ \A s \in Slots : /\ blocks'[s].blockId = b[s].blockId
                          /\ blocks'[s].nextTransitionId = b[s].nextTransitionId
      /\ blocks'[Slot(L + k)].verifiedTransitionId = p[k]
  BY RecordBlocks DEF Consistent
<1>3. /\ \A id \in 0..L : verifiedHashes'[id] = verifiedHashes[id]
      /\ \A i \in 1..k : /\ verifiedHashes'[L + i] = OnPath(t, p, i).blockHash
                         /\ verifiedHashes'[L + i - 1] = HashBefore(b, t, p, i)
  BY PathHashes DEF Consistent
<1>4. ASSUME NEW i \in 1..k
      PROVE  /\ L + i < n
             /\ b[Slot(L + i)].blockId = L + i
             /\ TransitionId(t, ids, L + i, verifiedHashes'[L + i - 1]) = p[i]
  BY <1>3 DEF FollowsChain
<1>5. k \in 1..k /\ L + k < n
  BY <1>4
<1>6. \A id \in Nat : Slot(id) \in Slots
  BY SlotType
<1>7. ASSUME NEW id \in 0..(L + k), id > L
      PROVE  id - L \in 1..k /\ L + (id - L) = id
  <2>1. id \in Nat /\ id <= L + k
    BY <1>1
  <2> QED BY <1>1, <1>7, <2>1
<1>8. CursorsTyped'
  <2>1. (L + k) \in BlockIds
    BY <1>1, <1>5, BoundAssumption DEF BlockIds
  <2>2. lastSyncedBlockId' \in BlockIds
    <3>1. \A s \in SyncIndices(t, k, p) : s \in 1..k
      BY DEF SyncIndices
    <3>2. \/ lastSyncedBlockId' = lastSyncedBlockId
          \/ \E s \in 1..k : lastSyncedBlockId' = L + s
      BY <3>1 DEF RecordVerified
    <3>3. \A s \in 1..k : L + s \in BlockIds
      BY <1>1, <2>1, BoundAssumption DEF BlockIds
    <3> QED BY <3>2, <3>3 DEF CursorsTyped
  <2>3. ASSUME NEW id \in 0..(L + k)
        PROVE  verifiedHashes'[id] \in Hashes \cup {NoHash}
    <3>1. CASE id <= L
      BY <1>1, <1>3, <3>1 DEF CursorsTyped
    <3>2. CASE id > L
      <4>1. verifiedHashes'[id] = t[Slot(id)][p[id - L]].blockHash
        BY <1>3, <1>7, <3>2 DEF OnPath
      <4>2. Slot(id) \in Slots /\ p[id - L] \in TransitionIds
        BY <1>1, <1>6, <1>7, <3>2
      <4> QED BY <4>1, <4>2 DEF Consistent, Typed, TransitionState
    <3> QED BY <1>1, <3>1, <3>2
  <2>4. verifiedHashes' = [id \in 0..(L + k) |-> verifiedHashes'[id]]
    BY DEF RecordVerified
  <2> QED BY <1>1, <2>1, <2>2, <2>3, <2>4 DEF CursorsTyped
<1>9. Typed(blocks', t, ids, n)
  BY <1>2 DEF Consistent, Typed
<1>10. Ring(blocks, numBlocks)'
  <2>1. ASSUME NEW id \in (L + k)..(n - 1)
        PROVE  blocks'[Slot(id)].blockId = id
    <3>1. id \in L..(n - 1) /\ id \in Nat
      BY <1>1
    <3> QED BY <1>2, <1>6, <3>1 DEF Consistent, Ring
  <2> QED BY <1>1, <1>5, <2>1 DEF Ring
<1>11. Chain(blocks, transitions, transitionIds)'
  <2>1. blocks'[Slot(L + k)].verifiedTransitionId # 0
    BY <1>2, <1>5 DEF TransitionIds
  <2>2. VerifiedHash(blocks', t, L + k) = verifiedHashes'[L + k]
    BY <1>2, <1>3, <1>5 DEF VerifiedHash, OnPath
  <2>3. ASSUME NEW id \in 1..(L + k), blocks'[Slot(id)].blockId = id
        PROVE  LET tid == TransitionId(t, ids, id, verifiedHashes'[id - 1])
               IN  tid # 0 /\ t[Slot(id)][tid].blockHash = verifiedHashes'[id]
    <3>0. id \in Nat /\ id \in 0..(L + k)
      BY <1>1
    <3>1. CASE id <= L
      <4>1. id \in 1..L /\ id \in 0..L /\ id - 1 \in 0..L
        BY <1>1, <3>1
      <4>2. b[Slot(id)].blockId = id
        BY <1>2, <1>6, <2>3, <3>0
      <4> QED BY <1>3, <4>1, <4>2 DEF Consistent, Chain
    <3>2. CASE id > L
      <4>1. PICK i \in 1..k : L + i = id
        BY <1>7, <3>0, <3>2
      <4>2. TransitionId(t, ids, id, verifiedHashes'[id - 1]) = p[i]
        <5>1. TransitionId(t, ids, L + i, verifiedHashes'[L + i - 1]) = p[i]
          BY <1>4
        <5>2. L + i - 1 = id - 1
          BY <1>1, <3>0, <4>1
        <5> QED BY <4>1, <5>1, <5>2
      <4>3. t[Slot(id)][p[i]].blockHash = verifiedHashes'[id]
        BY <1>3, <4>1 DEF OnPath
      <4>4. p[i] # 0
        BY DEF TransitionIds
      <4> QED BY <4>2, <4>3, <4>4
    <3> QED BY <1>1, <3>0, <3>1, <3>2
  <2> QED BY <1>1, <2>1, <2>2, <2>3 DEF Chain
<1>12. Records(blocks, transitions, numBlocks)'
  <2>1. ASSUME NEW id \in (L + k + 1)..(n - 1),
               NEW tid \in 1..(blocks'[Slot(id)].nextTransitionId - 1)
        PROVE  IsRecord(id, t[Slot(id)][tid])
    <3>1. id \in (L + 1)..(n - 1) /\ id \in Nat
      BY <1>1
    <3> QED BY <1>2, <1>6, <3>1 DEF Consistent, Records
  <2> QED BY <1>1, <2>1 DEF Records
<1>13. Keys(blocks, transitions, numBlocks)'
  BY <1>2 DEF Consistent, Keys, KeyFits
<1>14. Indexed(blocks, transitionIds, numBlocks)'
  <2>1. \A key \in DOMAIN ids : key[1] \in Nat
    BY BoundAssumption DEF Consistent, Typed, BlockIds
  <2> QED BY <1>2, <1>6, <2>1 DEF Consistent, Indexed
<1> QED
  BY <1>8, <1>9, <1>10, <1>11, <1>12, <1>13, <1>14 DEF Consistent, Typed

(* Whether or not a transaction verifies blocks, it leaves consistent state *)
(* if what it computed before was consistent.                               *)
LEMMA VerifyConsistent ==
  ASSUME NEW b, NEW t, NEW ids, NEW n, NEW bal, NEW limit \in Nat,
         CursorsTyped, Consistent(b, t, ids, n),
         Verify(b, t, ids, n, bal, limit) \/ DoNotVerify(b, t, ids, n, bal)
  PROVE  CursorsTyped' /\ Consistent(blocks, transitions, transitionIds, numBlocks)'
<1>1. numBlocks' = n /\ transitions' = t /\ transitionIds' = ids
  BY DEF Verify, DoNotVerify
<1>2. CASE RecordNothing(b, bal)
  BY <1>1, <1>2 DEF RecordNothing, CursorsTyped, Consistent, Typed, Ring, Chain,
                    Records, Keys, Indexed, VerifiedHash, TransitionId
<1>3. CASE \E k \in Nat \ {0} : \E p \in [1..k -> TransitionIds] :
             FollowsChain(b, t, ids, n, k, p) /\ RecordVerified(b, t, bal, k, p)
  BY <1>1, <1>3, RecordConsistent
<1> QED
  BY <1>2, <1>3 DEF Verify, DoNotVerify

-----------------------------------------------------------------------------
(* Proposing *)

(* A block a proposal stores is a block.                                    *)
LEMMA ProposedBlockType ==
  ASSUME NEW proposer \in Users, NEW id \in BlockIds, NEW param \in BatchParams, now \in Times
  PROVE  /\ ProposedBlock(proposer, id, param) \in Block
         /\ ProposedBlock(proposer, id, param).blockId = id
         /\ ProposedBlock(proposer, id, param).nextTransitionId = 1
         /\ ProposedBlock(proposer, id, param).livenessBondReturned = FALSE
<1>1. param.minTier \in TierIds /\ param.timestamp \in Times
  BY TierAssumption DEF BatchParams
<1>2. 1 \in 0..(MaxTransitionId + 1)
  BY BoundAssumption
<1>3. [proposer |-> proposer, minTier |-> param.minTier, proposedAt |-> now] \in Metadata
  BY <1>1 DEF Metadata
<1> QED
  BY <1>1, <1>2, <1>3 DEF ProposedBlock, Block

(* What storing a batch changes: its own slots.  The last verified and the  *)
(* pending blocks stay.                                                     *)
BatchStored(b, size) ==
  /\ b \in [Slots -> Block]
  /\ \A s \in Slots : \/ b[s] = blocks[s]
                      \/ b[s].blockId \in numBlocks..(numBlocks + size - 1)
  /\ \A id \in 0..(numBlocks - 1) :
       numBlocks + size - 1 - id < BlockRingBufferSize => b[Slot(id)] = blocks[Slot(id)]
  /\ \A id \in lastVerifiedBlockId..(numBlocks - 1) : b[Slot(id)] = blocks[Slot(id)]
  /\ \A id \in numBlocks..(numBlocks + size - 1) :
       /\ b[Slot(id)].blockId = id /\ b[Slot(id)].nextTransitionId = 1
       /\ b[Slot(id)].livenessBondReturned = FALSE

(* A batch that the capacity check of proposeBlocksV2 lets through fills    *)
(* its own slots and leaves the last verified and the pending blocks alone. *)
LEMMA StoreBatchFacts ==
  ASSUME ClockTyped, CursorsTyped, Typed(blocks, transitions, transitionIds, numBlocks),
         lastVerifiedBlockId < numBlocks,
         NEW proposer \in Users, NEW size \in 1..MaxBatch, NEW batch \in [1..size -> BatchParams],
         numBlocks + size - 1 <= MaxBlockId,
         numBlocks + size <= lastVerifiedBlockId + BlockMaxProposals + 1,
         NEW b, b = StoreBatch(proposer, size, batch)
  PROVE  BatchStored(b, size)
<1> DEFINE L == lastVerifiedBlockId
           inSlot(s) == {i \in 1..size : Slot(numBlocks + i - 1) = s}
           stored(s) == CHOOSE i \in inSlot(s) : TRUE
           new(i) == ProposedBlock(proposer, numBlocks + i - 1, batch[i])
<1>1. L \in Nat /\ numBlocks \in Nat \ {0} /\ size \in Nat \ {0}
  BY SMTT(20), BoundAssumption, BatchAssumption DEF CursorsTyped, BlockIds, Typed
<1>2. b = [s \in Slots |-> IF inSlot(s) = {} THEN blocks[s] ELSE new(stored(s))]
  BY DEF StoreBatch
<1>3. ASSUME NEW i \in 1..size
      PROVE  /\ new(i) \in Block
             /\ new(i).blockId = numBlocks + i - 1
             /\ new(i).nextTransitionId = 1 /\ new(i).livenessBondReturned = FALSE
             /\ numBlocks + i - 1 \in BlockIds
             /\ numBlocks + i - 1 \in numBlocks..(numBlocks + size - 1)
  <2>1. /\ numBlocks + i - 1 \in BlockIds
        /\ numBlocks + i - 1 \in numBlocks..(numBlocks + size - 1)
    BY <1>1, BoundAssumption DEF BlockIds
  <2>2. batch[i] \in BatchParams /\ now \in Times
    BY DEF ClockTyped
  <2> QED BY <2>1, <2>2, ProposedBlockType
<1>4. ASSUME NEW s \in Slots, inSlot(s) # {}
      PROVE  stored(s) \in 1..size /\ Slot(numBlocks + stored(s) - 1) = s
  <2> stored(s) \in inSlot(s)
    BY <1>4
  <2> QED OBVIOUS
<1> HIDE DEF new, stored
<1>5. ASSUME NEW s \in Slots
      PROVE  /\ b[s] \in Block
             /\ b[s] = blocks[s] \/ b[s].blockId \in numBlocks..(numBlocks + size - 1)
  <2>1. CASE inSlot(s) = {}
    BY <1>2, <2>1 DEF Typed
  <2>2. CASE inSlot(s) # {}
    <3>1. stored(s) \in 1..size
      BY <1>4, <2>2
    <3>2. /\ new(stored(s)) \in Block
          /\ new(stored(s)).blockId \in numBlocks..(numBlocks + size - 1)
      BY <1>3, <3>1
    <3> QED BY <1>2, <2>2, <3>2
  <2> QED BY <2>1, <2>2
<1>6. b \in [Slots -> Block]
  BY <1>2, <1>5
<1>7. ASSUME NEW id \in 0..(numBlocks - 1), numBlocks + size - 1 - id < BlockRingBufferSize
      PROVE  b[Slot(id)] = blocks[Slot(id)]
  <2>1. ASSUME NEW i \in 1..size PROVE Slot(numBlocks + i - 1) # Slot(id)
    <3>1. /\ id \in Nat /\ numBlocks + i - 1 \in Nat /\ id < numBlocks + i - 1
          /\ (numBlocks + i - 1) - id < BlockRingBufferSize
      BY <1>1, <1>7, RingAssumption
    <3> QED BY <3>1, SlotsDiffer
  <2>2. inSlot(Slot(id)) = {}
    BY <2>1
  <2>3. Slot(id) \in Slots
    BY <1>1, SlotType
  <2> QED BY <1>2, <2>2, <2>3
<1>8. ASSUME NEW id \in numBlocks..(numBlocks + size - 1)
      PROVE  /\ b[Slot(id)].blockId = id /\ b[Slot(id)].nextTransitionId = 1
             /\ b[Slot(id)].livenessBondReturned = FALSE
  <2> DEFINE i == id - numBlocks + 1
             j == stored(Slot(id))
  <2>1. i \in 1..size /\ numBlocks + i - 1 = id /\ id \in Nat
    BY <1>1
  <2>2. i \in inSlot(Slot(id)) /\ Slot(id) \in Slots
    BY <2>1, SlotType
  <2>3. j \in 1..size /\ Slot(numBlocks + j - 1) = Slot(id)
    BY <1>4, <2>2
  <2>4. numBlocks + j - 1 = id
    <3> SUFFICES ASSUME numBlocks + j - 1 # id PROVE FALSE
      OBVIOUS
    <3> HIDE DEF i, j
    <3>1. numBlocks + j - 1 \in Nat
      BY <1>1, <2>3
    <3>2. CASE numBlocks + j - 1 < id
      <4>1. id - (numBlocks + j - 1) < BlockRingBufferSize
        BY <1>1, <2>1, <2>3, RingAssumption
      <4> QED BY <2>1, <2>3, <3>1, <3>2, <4>1, SlotsDiffer
    <3>3. CASE id < numBlocks + j - 1
      <4>1. (numBlocks + j - 1) - id < BlockRingBufferSize
        BY <1>1, <2>1, <2>3, RingAssumption
      <4> QED BY <2>1, <2>3, <3>1, <3>3, <4>1, SlotsDiffer
    <3> QED BY <2>1, <3>1, <3>2, <3>3
  <2>5. b[Slot(id)] = new(j)
    BY <1>2, <2>2
  <2> HIDE DEF i, j
  <2> QED BY <1>3, <2>3, <2>4, <2>5
<1>9. \A id \in L..(numBlocks - 1) :
        id \in 0..(numBlocks - 1) /\ numBlocks + size - 1 - id < BlockRingBufferSize
  BY <1>1, RingAssumption
<1> QED
  BY <1>5, <1>6, <1>7, <1>8, <1>9 DEF BatchStored

(* What a proposal computes before it verifies is consistent.               *)
LEMMA ProposalConsistent ==
  ASSUME IInv,
         NEW proposer \in Users, NEW size \in 1..MaxBatch, NEW batch \in [1..size -> BatchParams],
         numBlocks + size - 1 <= MaxBlockId,
         numBlocks + size <= lastVerifiedBlockId + BlockMaxProposals + 1
  PROVE  LET b == StoreBatch(proposer, size, batch)
         IN  /\ Consistent(b, transitions, transitionIds, numBlocks + size)
             /\ Keeps(b, transitions, numBlocks + size)
<1> DEFINE b == StoreBatch(proposer, size, batch)
           L == lastVerifiedBlockId
           n == numBlocks + size
<1>1. L \in Nat /\ numBlocks \in Nat \ {0} /\ size \in Nat \ {0} /\ L < numBlocks
  BY SMTT(20), BoundAssumption, BatchAssumption DEF IInv, CursorsTyped, BlockIds, Consistent, Typed, Ring
<1>2. \A id \in Nat : Slot(id) \in Slots
  BY SlotType
<1>3. /\ b \in [Slots -> Block]
      /\ \A s \in Slots : b[s] = blocks[s] \/ b[s].blockId \in numBlocks..(n - 1)
      /\ \A id \in 0..(numBlocks - 1) :
           n - 1 - id < BlockRingBufferSize => b[Slot(id)] = blocks[Slot(id)]
      /\ \A id \in L..(numBlocks - 1) : b[Slot(id)] = blocks[Slot(id)]
      /\ \A id \in numBlocks..(n - 1) :
           /\ b[Slot(id)].blockId = id /\ b[Slot(id)].nextTransitionId = 1
           /\ b[Slot(id)].livenessBondReturned = FALSE
  <2>1. BatchStored(b, size)
    BY SMTT(20), <1>1, StoreBatchFacts DEF IInv, Consistent
  <2> HIDE DEF b
  <2> QED BY <1>1, <2>1 DEF BatchStored
<1> HIDE DEF b
<1>4. Typed(b, transitions, transitionIds, n)
  <2>1. n \in 1..(MaxBlockId + 1)
    BY <1>1, BoundAssumption
  <2> QED BY <1>3, <2>1 DEF IInv, Consistent, Typed
<1>5. Ring(b, n)
  <2>1. ASSUME NEW id \in L..(n - 1) PROVE b[Slot(id)].blockId = id
    <3>1. CASE id \in L..(numBlocks - 1)
      BY <1>3, <3>1 DEF IInv, Consistent, Ring
    <3>2. CASE id \in numBlocks..(n - 1)
      BY <1>3, <3>2
    <3> QED BY <1>1, <3>1, <3>2
  <2> QED BY <1>1, <2>1 DEF Ring
<1>6. Chain(b, transitions, transitionIds)
  <2>1. b[Slot(L)] = blocks[Slot(L)]
    BY <1>1, <1>3
  <2>2. ASSUME NEW id \in 1..L, b[Slot(id)].blockId = id
        PROVE  blocks[Slot(id)].blockId = id
    <3>1. id \in Nat /\ ~(id \in numBlocks..(n - 1))
      BY <1>1
    <3> QED BY <1>2, <1>3, <2>2, <3>1
  <2> QED BY <2>1, <2>2 DEF IInv, Consistent, Chain, VerifiedHash
<1>7. Records(b, transitions, n)
  <2>1. ASSUME NEW id \in (L + 1)..(n - 1), NEW tid \in 1..(b[Slot(id)].nextTransitionId - 1)
        PROVE  IsRecord(id, transitions[Slot(id)][tid])
    <3>1. CASE id \in (L + 1)..(numBlocks - 1)
      <4>1. b[Slot(id)] = blocks[Slot(id)]
        BY <1>1, <1>3, <3>1
      <4> QED BY <3>1, <4>1 DEF IInv, Consistent, Records
    <3>2. CASE id \in numBlocks..(n - 1)
      <4>1. b[Slot(id)].nextTransitionId = 1
        BY <1>3, <3>2
      <4> QED BY <4>1
    <3> QED BY <1>1, <3>1, <3>2
  <2> QED BY <2>1 DEF Records
<1>8. Keys(b, transitions, n)
  <2>1. ASSUME NEW s \in Slots
        PROVE  b[s].blockId < n /\ KeyFits(b[s], transitions[s][1].key)
    <3>1. blocks[s].blockId < numBlocks /\ KeyFits(blocks[s], transitions[s][1].key)
      BY DEF IInv, Consistent, Keys
    <3>2. blocks[s].blockId \in Nat /\ blocks[s].nextTransitionId \in Nat
      BY BoundAssumption DEF IInv, Consistent, Typed, Block, BlockIds
    <3>3. CASE b[s] = blocks[s]
      BY <1>1, <3>1, <3>2, <3>3
    <3>4. CASE b[s].blockId \in numBlocks..(n - 1)
      <4>1. b[s].blockId < n /\ blocks[s].blockId < b[s].blockId
        BY <1>1, <3>1, <3>2, <3>4
      <4>2. ASSUME transitions[s][1].key # NoHash
            PROVE  transitions[s][1].key[1] \in Nat
        BY SMTT(20), <4>2, BoundAssumption
           DEF IInv, Consistent, Typed, TransitionState, TransitionIds, Hashes, BlockIds
      <4>3. KeyFits(b[s], transitions[s][1].key)
        BY SMTT(20), <1>1, <3>1, <3>2, <3>4, <4>1, <4>2 DEF KeyFits
      <4> QED BY <4>1, <4>3
    <3> QED BY <1>3, <3>3, <3>4
  <2> QED BY <2>1 DEF Keys
<1>9. Indexed(b, transitionIds, n)
  <2>1. ASSUME NEW k \in DOMAIN transitionIds
        PROVE  /\ k[1] < n
               /\ b[Slot(k[1])].blockId = k[1] =>
                    transitionIds[k] < b[Slot(k[1])].nextTransitionId
    <3>1. k[1] \in Nat
      BY BoundAssumption DEF IInv, Consistent, Typed, BlockIds
    <3>2. /\ k[1] < numBlocks /\ Slot(k[1]) \in Slots
          /\ blocks[Slot(k[1])].blockId = k[1] =>
               transitionIds[k] < blocks[Slot(k[1])].nextTransitionId
      BY <1>2, <3>1 DEF IInv, Consistent, Indexed
    <3>3. b[Slot(k[1])].blockId = k[1] => b[Slot(k[1])] = blocks[Slot(k[1])]
      BY <1>1, <1>3, <3>1, <3>2
    <3> QED BY <1>1, <3>1, <3>2, <3>3
  <2> QED BY <2>1 DEF Indexed
<1>10. Keeps(b, transitions, n)
  BY <1>1, <1>3 DEF Keeps
<1> QED
  BY <1>4, <1>5, <1>6, <1>7, <1>8, <1>9, <1>10 DEF Consistent, b

-----------------------------------------------------------------------------
(* Proving *)

(* The facts about a submission that every branch of _proveBlock relies on. *)
LEMMA SubmissionFacts ==
  ASSUME IInv, NEW x \in Submissions, IsAdmissible(x, Ts(x))
  PROVE  /\ x.id \in (lastVerifiedBlockId + 1)..(numBlocks - 1) /\ x.id \in Nat
         /\ Slot(x.id) \in Slots /\ Blk(x).blockId = x.id
         /\ ParentHash(x) \in Hashes /\ BlockHash(x) \in Hashes
         /\ BlockHash(x) \in {x.id} \X Forks
         /\ Tid(x) \in TransitionIds
         /\ Found(x) = 0 => Tid(x) = Blk(x).nextTransitionId
         /\ Found(x) # 0 => Tid(x) \in 1..(Blk(x).nextTransitionId - 1)
         /\ Ts(x) \in TransitionState
<1>1. /\ x \in [sender : Users, id : (lastVerifiedBlockId + 1)..(numBlocks - 1),
                 parentFork : Forks, fork : Forks, stateRoot : Roots, tier : TierIds]
      /\ lastVerifiedBlockId \in Nat /\ numBlocks \in 1..(MaxBlockId + 1)
  BY BoundAssumption DEF Submissions, IInv, CursorsTyped, BlockIds, Consistent, Typed
<1>2. x.id \in (lastVerifiedBlockId + 1)..(numBlocks - 1) /\ x.id \in Nat
  BY <1>1
<1>3. x.id \in BlockIds /\ x.id - 1 \in BlockIds
  BY <1>1, <1>2, BoundAssumption DEF BlockIds
<1>4. Slot(x.id) \in Slots
  BY <1>2, SlotType
<1>5. /\ ParentHash(x) \in Hashes /\ BlockHash(x) \in Hashes
      /\ BlockHash(x) \in {x.id} \X Forks
  BY <1>1, <1>3 DEF ParentHash, BlockHash, Hashes
<1>6. Blk(x).blockId = x.id /\ Tid(x) \in TransitionIds /\ Blk(x) \in Block
  BY <1>4 DEF IsAdmissible, Blk, IInv, Consistent, Typed
<1>7. Found(x) # 0 => Tid(x) \in 1..(Blk(x).nextTransitionId - 1)
  <2> SUFFICES ASSUME Found(x) # 0 PROVE Tid(x) \in 1..(Blk(x).nextTransitionId - 1)
    OBVIOUS
  <2>1. Tid(x) = Found(x)
    BY DEF Tid
  <2>2. Found(x) < Blk(x).nextTransitionId
    BY DEF IsAdmissible, TransitionIdIsSound, Found, Blk
  <2>3. Blk(x).nextTransitionId \in Nat /\ Tid(x) \in Nat \ {0}
    BY <1>6, BoundAssumption DEF Block, TransitionIds
  <2> QED BY <2>1, <2>2, <2>3
<1>8. Ts(x) \in TransitionState
  <2>1. TierZero(x) \in TransitionState
    <3>1. 0 \in Times
      BY BoundAssumption DEF Times
    <3>2. EmptyTransition \in TransitionState
      BY <3>1 DEF EmptyTransition, TransitionState
    <3>3. /\ Blk(x).meta.proposedAt \in Times
          /\ Blk(x).meta.proposer \in Users \cup {NoUser}
      BY <1>6 DEF Block, Metadata
    <3> QED BY <1>5, <3>2, <3>3 DEF TierZero, TransitionState
  <2>2. transitions[Slot(x.id)][Tid(x)] \in TransitionState
    BY <1>4, <1>6 DEF IInv, Consistent, Typed
  <2> QED BY <2>1, <2>2 DEF Ts
<1> QED
  BY <1>2, <1>4, <1>5, <1>6, <1>7, <1>8 DEF Tid

(* What a proof or a contest computes before it verifies is consistent,     *)
(* provided that the transition it stores may be recorded for the block and *)
(* succeed the one it replaces.                                             *)
MayStore(x, new) ==
  /\ new \in TransitionState
  /\ IsRecord(x.id, new)
  /\ new.key = Ts(x).key
  /\ Found(x) # 0 => Succeeds(Ts(x), new)

(* What storing a transition changes: its own block and that transition.    *)
StoredAs(x, stored, returned, b, t) ==
  /\ b \in [Slots -> Block]
  /\ \A s \in Slots : /\ b[s].blockId = blocks[s].blockId
                      /\ b[s].verifiedTransitionId = blocks[s].verifiedTransitionId
                      /\ s # Slot(x.id) => b[s] = blocks[s]
  /\ b[Slot(x.id)].livenessBondReturned = returned
  /\ b[Slot(x.id)].nextTransitionId =
       IF Found(x) = 0 THEN blocks[Slot(x.id)].nextTransitionId + 1
       ELSE blocks[Slot(x.id)].nextTransitionId
  /\ t \in [Slots -> [TransitionIds -> TransitionState]]
  /\ \A s \in Slots : s # Slot(x.id) => t[s] = transitions[s]
  /\ \A tid \in TransitionIds :
       t[Slot(x.id)][tid] = IF tid = Tid(x) THEN stored ELSE transitions[Slot(x.id)][tid]

LEMMA StoreFacts ==
  ASSUME IInv, NEW x \in Submissions, IsAdmissible(x, Ts(x)),
         NEW new, MayStore(x, new), NEW returned \in BOOLEAN
  PROVE  \E stored \in TransitionState :
           /\ MayStore(x, stored) /\ BondsOf(stored) = BondsOf(new)
           /\ StoredAs(x, stored, returned, StoredBlocks(x, returned), StoredTransitions(x, new))
<1> DEFINE slot == Slot(x.id)
           stored == [new EXCEPT !.timestamp = now]
           b == StoredBlocks(x, returned)
           t == StoredTransitions(x, new)
<1>1. /\ slot \in Slots
      /\ Tid(x) \in TransitionIds
      /\ Found(x) = 0 => Tid(x) = blocks[slot].nextTransitionId
  BY SubmissionFacts DEF Blk
<1>2. /\ blocks \in [Slots -> Block]
      /\ transitions \in [Slots -> [TransitionIds -> TransitionState]]
      /\ now \in Times
  BY DEF IInv, ClockTyped, Consistent, Typed
<1>4. stored \in TransitionState /\ MayStore(x, stored) /\ BondsOf(stored) = BondsOf(new)
  <2>1. new \in TransitionState
    BY DEF MayStore
  <2>2. /\ stored \in TransitionState
        /\ stored.blockHash = new.blockHash /\ stored.tier = new.tier
        /\ stored.stateRoot = new.stateRoot /\ stored.validityBond = new.validityBond
        /\ stored.contester = new.contester /\ stored.key = new.key
        /\ stored.contestBond = new.contestBond
    BY <1>2, <2>1 DEF TransitionState
  <2> HIDE DEF stored
  <2> QED BY <2>2 DEF MayStore, IsRecord, HoldsNoBond, Succeeds, BondsOf
<1>5. /\ b \in [Slots -> Block]
      /\ \A s \in Slots : /\ b[s].blockId = blocks[s].blockId
                          /\ b[s].verifiedTransitionId = blocks[s].verifiedTransitionId
                          /\ s # slot => b[s] = blocks[s]
      /\ b[slot].livenessBondReturned = returned
      /\ b[slot].nextTransitionId =
           IF Found(x) = 0 THEN blocks[slot].nextTransitionId + 1
           ELSE blocks[slot].nextTransitionId
  <2>1. blocks[slot] \in Block
    BY <1>1, <1>2
  <2>2. (IF Found(x) = 0 THEN blocks[slot].nextTransitionId + 1
         ELSE blocks[slot].nextTransitionId) \in 0..(MaxTransitionId + 1)
    BY <1>1, <2>1, BoundAssumption DEF Block, TransitionIds
  <2>3. NextTransitionId(x) = IF Found(x) = 0 THEN blocks[slot].nextTransitionId + 1
                              ELSE blocks[slot].nextTransitionId
    BY <2>1, BoundAssumption DEF NextTransitionId, Blk, Block
  <2> QED BY <1>1, <1>2, <2>1, <2>2, <2>3 DEF Block, StoredBlocks
<1>6. /\ t \in [Slots -> [TransitionIds -> TransitionState]]
      /\ \A s \in Slots : s # slot => t[s] = transitions[s]
      /\ \A tid \in TransitionIds :
           t[slot][tid] = IF tid = Tid(x) THEN stored ELSE transitions[slot][tid]
  <2>1. t = [transitions EXCEPT ![slot][Tid(x)] = stored]
    BY DEF StoredTransitions
  <2> HIDE DEF stored, t
  <2> QED BY <1>1, <1>2, <1>4, <2>1
<1> HIDE DEF stored, b, t
<1>7. StoredAs(x, stored, returned, b, t)
  BY <1>5, <1>6 DEF StoredAs
<1> QED
  BY <1>4, <1>7 DEF b, t

LEMMA StoreConsistent ==
  ASSUME IInv, NEW x \in Submissions, IsAdmissible(x, Ts(x)),
         NEW new, MayStore(x, new), NEW returned \in BOOLEAN
  PROVE  LET b == StoredBlocks(x, returned)
             t == StoredTransitions(x, new)
         IN  /\ Consistent(b, t, StoredIds(x), numBlocks)
             /\ Strengthens(t)
             /\ Keeps(b, t, numBlocks)
<1> DEFINE L == lastVerifiedBlockId
           slot == Slot(x.id)
           b == StoredBlocks(x, returned)
           t == StoredTransitions(x, new)
           indexed == IF Found(x) = 0 /\ Tid(x) # 1 THEN {<<x.id, ParentHash(x)>>} ELSE {}
           ids == StoredIds(x)
<1>1. /\ x.id \in (L + 1)..(numBlocks - 1) /\ x.id \in Nat
      /\ slot \in Slots /\ blocks[slot].blockId = x.id
      /\ ParentHash(x) \in Hashes
      /\ Tid(x) \in TransitionIds
      /\ Found(x) = 0 => Tid(x) = blocks[slot].nextTransitionId
      /\ Found(x) # 0 => Tid(x) \in 1..(blocks[slot].nextTransitionId - 1)
  BY SubmissionFacts DEF Blk
<1>2. /\ blocks \in [Slots -> Block]
      /\ transitions \in [Slots -> [TransitionIds -> TransitionState]]
      /\ DOMAIN transitionIds \subseteq BlockIds \X Hashes
      /\ transitionIds \in [DOMAIN transitionIds -> TransitionIds]
      /\ numBlocks \in 1..(MaxBlockId + 1) /\ L \in Nat /\ L < numBlocks
      /\ now \in Times
  BY BoundAssumption DEF IInv, ClockTyped, CursorsTyped, BlockIds, Consistent, Typed, Ring
<1>3. \A id \in Nat : Slot(id) \in Slots
  BY SlotType
<1>4. PICK stored \in TransitionState :
        MayStore(x, stored) /\ StoredAs(x, stored, returned, b, t)
  BY StoreFacts
<1> HIDE DEF b, t
<1>5. /\ b \in [Slots -> Block]
      /\ \A s \in Slots : /\ b[s].blockId = blocks[s].blockId
                          /\ b[s].verifiedTransitionId = blocks[s].verifiedTransitionId
                          /\ s # slot => b[s] = blocks[s]
      /\ b[slot].nextTransitionId =
           IF Found(x) = 0 THEN blocks[slot].nextTransitionId + 1
           ELSE blocks[slot].nextTransitionId
  BY <1>4 DEF StoredAs
<1>6. /\ t \in [Slots -> [TransitionIds -> TransitionState]]
      /\ \A s \in Slots : s # slot => t[s] = transitions[s]
      /\ \A tid \in TransitionIds :
           t[slot][tid] = IF tid = Tid(x) THEN stored ELSE transitions[slot][tid]
  BY <1>4 DEF StoredAs
<1>7. /\ DOMAIN ids \subseteq BlockIds \X Hashes
      /\ ids \in [DOMAIN ids -> TransitionIds]
      /\ \A id \in Nat : \A h : id # x.id =>
           /\ <<id, h>> \in DOMAIN ids <=> <<id, h>> \in DOMAIN transitionIds
           /\ <<id, h>> \in DOMAIN ids => ids[<<id, h>>] = transitionIds[<<id, h>>]
      /\ \A k \in DOMAIN ids :
           \/ k \in DOMAIN transitionIds /\ ids[k] = transitionIds[k]
           \/ Found(x) = 0 /\ k[1] = x.id /\ ids[k] = Tid(x)
  <2>1. x.id \in BlockIds
    BY <1>1, <1>2, BoundAssumption DEF BlockIds
  <2>2. /\ indexed \subseteq {<<x.id, ParentHash(x)>>} /\ indexed \subseteq BlockIds \X Hashes
        /\ indexed # {} => Found(x) = 0
    BY <1>1, <2>1
  <2>3. ids = [k \in DOMAIN transitionIds \cup indexed |->
                 IF k \in indexed THEN Tid(x) ELSE transitionIds[k]]
    BY DEF StoredIds
  <2> HIDE DEF indexed, ids
  <2> QED BY <1>1, <1>2, <2>2, <2>3
<1> HIDE DEF indexed, ids
<1>8. ASSUME NEW id \in 0..(numBlocks - 1), b[Slot(id)].blockId = id, id # x.id
      PROVE  Slot(id) # slot /\ Slot(id) \in Slots /\ id \in Nat
  BY <1>1, <1>2, <1>3, <1>5, <1>8
<1>9. Typed(b, t, ids, numBlocks)
  BY <1>2, <1>5, <1>6, <1>7 DEF Typed
<1>10. Ring(b, numBlocks)
  <2>1. ASSUME NEW id \in L..(numBlocks - 1) PROVE b[Slot(id)].blockId = id
    BY <1>2, <1>3, <1>5 DEF IInv, Consistent, Ring
  <2> QED BY <1>2, <2>1 DEF Ring
<1>11. Chain(b, t, ids)
  <2>1. Slot(L) # slot /\ Slot(L) \in Slots
    BY <1>1, <1>2, <1>8, <1>10 DEF Ring
  <2>2. ASSUME NEW id \in 1..L, b[Slot(id)].blockId = id
        PROVE  LET tid == TransitionId(t, ids, id, verifiedHashes[id - 1])
               IN  tid # 0 /\ t[Slot(id)][tid].blockHash = verifiedHashes[id]
    <3>1. Slot(id) # slot /\ Slot(id) \in Slots /\ id \in Nat /\ id # x.id
      BY <1>1, <1>2, <1>8, <2>2
    <3>2. blocks[Slot(id)].blockId = id /\ t[Slot(id)] = transitions[Slot(id)]
      BY <1>5, <1>6, <2>2, <3>1
    <3>3. TransitionId(t, ids, id, verifiedHashes[id - 1])
            = TransitionId(transitions, transitionIds, id, verifiedHashes[id - 1])
      BY <1>7, <3>1, <3>2 DEF TransitionId
    <3> QED BY <3>2, <3>3 DEF IInv, Consistent, Chain
  <2>3. b[Slot(L)] = blocks[Slot(L)] /\ t[Slot(L)] = transitions[Slot(L)]
    BY <1>5, <1>6, <2>1
  <2> QED BY <2>2, <2>3 DEF IInv, Consistent, Chain, VerifiedHash
<1>12. Records(b, t, numBlocks)
  <2>1. ASSUME NEW id \in (L + 1)..(numBlocks - 1),
               NEW tid \in 1..(b[Slot(id)].nextTransitionId - 1)
        PROVE  IsRecord(id, t[Slot(id)][tid])
    <3>0. b[Slot(id)].blockId = id /\ id \in 0..(numBlocks - 1) /\ id \in Nat
      BY <1>2, <1>10 DEF Ring
    <3>1. CASE id # x.id
      <4>1. b[Slot(id)] = blocks[Slot(id)] /\ t[Slot(id)] = transitions[Slot(id)]
        BY <1>5, <1>6, <1>8, <3>0, <3>1
      <4> QED BY <4>1 DEF IInv, Consistent, Records
    <3>2. CASE id = x.id /\ tid = Tid(x)
      BY <1>1, <1>4, <1>6, <3>2 DEF MayStore
    <3>3. CASE id = x.id /\ tid # Tid(x)
      <4>1. blocks[slot].nextTransitionId \in 0..(MaxTransitionId + 1)
        BY <1>1, <1>2 DEF Block
      <4>2. tid \in 1..(blocks[slot].nextTransitionId - 1)
        BY <1>1, <1>5, <3>3, <4>1
      <4>3. tid \in TransitionIds
        BY <4>1, <4>2, BoundAssumption DEF TransitionIds
      <4>4. t[slot][tid] = transitions[slot][tid]
        BY <1>6, <3>3, <4>3
      <4> QED BY <3>3, <4>2, <4>4 DEF IInv, Consistent, Records
    <3> QED BY <3>1, <3>2, <3>3
  <2> QED BY <2>1 DEF Records
<1>13. Keys(b, t, numBlocks)
  <2>0. 1 \in TransitionIds
    BY BoundAssumption DEF TransitionIds
  <2>1. ASSUME NEW s \in Slots
        PROVE  b[s].blockId < numBlocks /\ KeyFits(b[s], t[s][1].key)
    <3>1. blocks[s].blockId < numBlocks /\ KeyFits(blocks[s], transitions[s][1].key)
      BY DEF IInv, Consistent, Keys
    <3>2. CASE s # slot
      BY <1>5, <1>6, <3>1, <3>2
    <3>3. CASE s = slot /\ Found(x) = 0 /\ Tid(x) = 1
      <4>1. t[s][1].key = ParentHash(x)
        BY <1>4, <1>6, <2>0, <3>3 DEF MayStore, Ts, TierZero
      <4>2. b[s].blockId = x.id /\ b[s].nextTransitionId = 2
        BY <1>1, <1>5, <3>3
      <4> QED BY <1>1, <3>1, <3>3, <4>1, <4>2 DEF KeyFits, ParentHash
    <3>4. CASE s = slot /\ ~(Found(x) = 0 /\ Tid(x) = 1)
      <4>1. t[s][1].key = transitions[s][1].key
        BY <1>4, <1>6, <2>0, <3>4 DEF MayStore, Ts
      <4>2. /\ b[s].blockId = blocks[s].blockId
            /\ blocks[s].nextTransitionId > 1 => b[s].nextTransitionId > 1
        <5>1. blocks[s].nextTransitionId \in Nat
          BY <1>2, BoundAssumption DEF Block
        <5> QED BY <1>1, <1>5, <3>4, <5>1
      <4> QED BY <3>1, <4>1, <4>2 DEF KeyFits
    <3> QED BY <3>2, <3>3, <3>4
  <2> QED BY <2>1 DEF Keys
<1>14. Indexed(b, ids, numBlocks)
  <2>1. ASSUME NEW k \in DOMAIN ids
        PROVE  /\ k[1] < numBlocks
               /\ b[Slot(k[1])].blockId = k[1] => ids[k] < b[Slot(k[1])].nextTransitionId
    <3>1. k[1] \in Nat /\ Slot(k[1]) \in Slots
      BY <1>3, <1>7, BoundAssumption DEF BlockIds
    <3>2. /\ blocks[Slot(k[1])].nextTransitionId \in Nat
          /\ b[Slot(k[1])].blockId = blocks[Slot(k[1])].blockId
          /\ \/ b[Slot(k[1])].nextTransitionId = blocks[Slot(k[1])].nextTransitionId
             \/ b[Slot(k[1])].nextTransitionId = blocks[Slot(k[1])].nextTransitionId + 1
      <4>1. blocks[Slot(k[1])].nextTransitionId \in Nat
        BY <1>2, <3>1, BoundAssumption DEF Block
      <4> QED BY <1>5, <3>1, <4>1
    <3>3. CASE k \in DOMAIN transitionIds /\ ids[k] = transitionIds[k]
      <4>1. /\ k[1] < numBlocks
            /\ blocks[Slot(k[1])].blockId = k[1] =>
                 transitionIds[k] < blocks[Slot(k[1])].nextTransitionId
        BY <3>3 DEF IInv, Consistent, Indexed
      <4>2. transitionIds[k] \in Nat
        BY <1>2, <3>3 DEF TransitionIds
      <4> QED BY <3>2, <3>3, <4>1, <4>2
    <3>4. CASE Found(x) = 0 /\ k[1] = x.id /\ ids[k] = Tid(x)
      <4>1. b[slot].nextTransitionId = Tid(x) + 1 /\ Tid(x) \in Nat
        BY <1>1, <1>5, <3>4 DEF TransitionIds
      <4> QED BY <1>1, <1>2, <3>4, <4>1
    <3> QED BY <1>7, <3>3, <3>4
  <2> QED BY <2>1 DEF Indexed
<1>15. Consistent(b, t, ids, numBlocks)
  BY <1>9, <1>10, <1>11, <1>12, <1>13, <1>14 DEF Consistent
<1>16. Strengthens(t)
  <2>1. ASSUME NEW s \in Slots, NEW tid \in 1..(blocks[s].nextTransitionId - 1)
        PROVE  Succeeds(transitions[s][tid], t[s][tid])
    <3>1. tid \in TransitionIds
      <4>1. blocks[s].nextTransitionId \in 0..(MaxTransitionId + 1)
        BY <1>2 DEF Block
      <4> QED BY <4>1, BoundAssumption DEF TransitionIds
    <3>2. transitions[s][tid].tier \in Nat
      BY <1>2, <3>1, TierAssumption DEF TransitionState
    <3>3. CASE s = slot /\ tid = Tid(x)
      <4>1. Found(x) # 0
        BY <1>1, <3>3
      <4>2. transitions[s][tid] = Ts(x) /\ t[s][tid] = stored
        BY <1>6, <3>1, <3>3, <4>1 DEF Ts
      <4> QED BY <1>4, <4>1, <4>2 DEF MayStore
    <3>4. CASE ~(s = slot /\ tid = Tid(x))
      <4>1. t[s][tid] = transitions[s][tid]
        BY <1>6, <3>1, <3>4
      <4> QED BY <3>2, <4>1 DEF Succeeds
    <3> QED BY <3>3, <3>4
  <2> QED BY <2>1 DEF Strengthens
<1>17. Keeps(b, t, numBlocks)
  <2>1. ASSUME NEW id \in 0..L, blocks[Slot(id)].blockId = id
        PROVE  b[Slot(id)] = blocks[Slot(id)] /\ t[Slot(id)] = transitions[Slot(id)]
    <3>1. id \in Nat /\ Slot(id) \in Slots /\ id # x.id
      BY <1>1, <1>2, <1>3
    <3> QED BY <1>1, <1>5, <1>6, <2>1, <3>1
  <2> QED BY <2>1 DEF Keeps
<1> QED
  BY <1>15, <1>16, <1>17 DEF b, t, ids

(* The types of what a submission carries and finds.                        *)
LEMMA SubmissionTypes ==
  ASSUME IInv, NEW x \in Submissions, IsAdmissible(x, Ts(x))
  PROVE  /\ x.sender \in Users /\ x.stateRoot \in Roots /\ x.tier \in TierIds
         /\ x.tier # 0 /\ x.tier \in Nat /\ Ts(x).tier \in Nat
         /\ Tier[x.tier].validityBond \in Nat /\ Tier[x.tier].contestBond \in Nat
         /\ Blk(x).livenessBondReturned \in BOOLEAN
         /\ Found(x) # 0 => IsRecord(x.id, Ts(x))
         /\ x.tier = Ts(x).tier => Found(x) # 0
<1>1. /\ Slot(x.id) \in Slots /\ x.id \in (lastVerifiedBlockId + 1)..(numBlocks - 1)
      /\ Ts(x) \in TransitionState
      /\ Found(x) # 0 => Tid(x) \in 1..(Blk(x).nextTransitionId - 1)
  BY SubmissionFacts
<1>2. x.sender \in Users /\ x.stateRoot \in Roots /\ x.tier \in TierIds
  BY DEF Submissions
<1>3. TierIds \subseteq Nat \ {0}
  BY TierAssumption
<1>4. Ts(x).tier \in Nat
  <2>1. Ts(x).tier \in TierIds \cup {0}
    BY <1>1 DEF TransitionState
  <2>2. \A i \in TierIds \cup {0} : i \in Nat
    BY <1>3
  <2> QED BY <2>1, <2>2
<1>5. Tier[x.tier].validityBond \in Nat /\ Tier[x.tier].contestBond \in Nat
  BY <1>2, TierAssumption
<1>6. Blk(x).livenessBondReturned \in BOOLEAN
  BY <1>1 DEF Blk, IInv, Consistent, Typed, Block
<1>7. Found(x) # 0 => IsRecord(x.id, Ts(x))
  BY <1>1 DEF Ts, Blk, IInv, Consistent, Records
<1>8. x.tier = Ts(x).tier => Found(x) # 0
  BY <1>2, <1>3 DEF Ts, TierZero, EmptyTransition
<1> QED
  BY <1>2, <1>3, <1>4, <1>5, <1>6, <1>7, <1>8

(* The transitions that _proveBlock stores may be stored: the one a proof of*)
(* a higher tier leaves, ...                                                *)
LEMMA OverrideMayStore ==
  ASSUME IInv, NEW x \in Submissions, IsAdmissible(x, Ts(x)), x.tier > Ts(x).tier
  PROVE  MayStore(x, Overridden(x, Ts(x)))
<1> DEFINE ts == Ts(x)
           new == Overridden(x, ts)
<1>1. /\ BlockHash(x) \in Hashes /\ BlockHash(x) \in {x.id} \X Forks
      /\ ts \in TransitionState
  BY SubmissionFacts
<1>2. /\ x.sender \in Users /\ x.stateRoot \in Roots /\ x.tier \in TierIds
      /\ x.tier \in Nat /\ ts.tier \in Nat /\ Tier[x.tier].validityBond \in Nat
  BY SubmissionTypes
<1>3. /\ new \in TransitionState
      /\ new.blockHash = BlockHash(x) /\ new.tier = x.tier /\ new.key = ts.key
      /\ new.validityBond = Tier[x.tier].validityBond /\ new.contester = NoUser
      /\ new.stateRoot = IF SameTransition(x, ts) THEN ts.stateRoot ELSE StateRoot(x)
  BY ZenonT(30), <1>1, <1>2 DEF Overridden, StateRoot, TransitionState
<1> HIDE DEF new
<1>4. ShouldSyncStateRoot(x.id) => new.stateRoot \in Roots
  BY <1>2, <1>3 DEF SameTransition, StateRoot
<1>5. TopTiersTakeNoBond => HoldsNoBond(new)
  BY <1>2, <1>3 DEF TopTiersTakeNoBond, HoldsNoBond
<1>6. Succeeds(ts, new)
  BY <1>2, <1>3 DEF Succeeds
<1>7. MayStore(x, new)
  BY <1>1, <1>2, <1>3, <1>4, <1>5, <1>6 DEF MayStore, IsRecord
<1> QED
  BY <1>7 DEF new

(* ... the one a re-proof of a top tier leaves, ...                         *)
Reproved(x, ts) == [ts EXCEPT !.prover = x.sender, !.blockHash = BlockHash(x),
                              !.stateRoot = StateRoot(x)]

LEMMA ReproveMayStore ==
  ASSUME IInv, NEW x \in Submissions, IsAdmissible(x, Ts(x)), reproveTopTier(x, Ts(x))
  PROVE  MayStore(x, Reproved(x, Ts(x)))
<1> DEFINE ts == Ts(x)
           new == Reproved(x, ts)
<1>1. /\ BlockHash(x) \in Hashes /\ BlockHash(x) \in {x.id} \X Forks
      /\ ts \in TransitionState
  BY SubmissionFacts
<1>2. /\ x.sender \in Users /\ x.stateRoot \in Roots /\ x.tier \in TierIds
      /\ ts.tier \in Nat
  BY SubmissionTypes
<1>3. x.tier = ts.tier /\ IsTopTier(x) /\ TopTierAssertion(x, ts)
  BY DEF reproveTopTier
<1>4. /\ new \in TransitionState
      /\ new.blockHash = BlockHash(x) /\ new.tier = ts.tier /\ new.key = ts.key
      /\ new.validityBond = ts.validityBond /\ new.contester = ts.contester
      /\ new.stateRoot = StateRoot(x)
  BY ZenonT(30), <1>1, <1>2 DEF Reproved, StateRoot, TransitionState
<1> HIDE DEF new
<1>5. IsRecord(x.id, new)
  BY <1>1, <1>2, <1>3, <1>4 DEF IsRecord, StateRoot, HoldsNoBond, TopTierAssertion
<1>6. Succeeds(ts, new)
  BY <1>2, <1>3, <1>4 DEF Succeeds, IsTopTier, TopTierAssertion
<1>7. MayStore(x, new)
  BY <1>4, <1>5, <1>6 DEF MayStore
<1> QED
  BY <1>7 DEF new

(* ... and the one a contest leaves.                                        *)
Contested(x, ts) == [ts EXCEPT !.contestBond = Tier[x.tier].contestBond,
                               !.contester = x.sender]

LEMMA ContestMayStore ==
  ASSUME IInv, NEW x \in Submissions, IsAdmissible(x, Ts(x)), contest(x, Ts(x))
  PROVE  MayStore(x, Contested(x, Ts(x)))
<1> DEFINE ts == Ts(x)
           new == Contested(x, ts)
<1>1. ts \in TransitionState
  BY SubmissionFacts
<1>2. /\ x.sender \in Users /\ x.tier \in TierIds /\ ts.tier \in Nat
      /\ Tier[x.tier].contestBond \in Nat
      /\ Found(x) # 0 => IsRecord(x.id, ts)
      /\ x.tier = ts.tier => Found(x) # 0
  BY SubmissionTypes
<1>3. x.tier = ts.tier /\ ~IsTopTier(x) /\ ts.contester = NoUser
  BY DEF contest
<1>4. /\ new \in TransitionState
      /\ new.blockHash = ts.blockHash /\ new.tier = ts.tier /\ new.key = ts.key
      /\ new.stateRoot = ts.stateRoot
  BY ZenonT(30), <1>1, <1>2 DEF Contested, TransitionState
<1> HIDE DEF new
<1>5. IsRecord(x.id, new)
  BY <1>2, <1>3, <1>4 DEF IsRecord, HoldsNoBond, IsTopTier
<1>6. Succeeds(ts, new)
  BY <1>2, <1>3, <1>4 DEF Succeeds
<1>7. MayStore(x, new)
  BY <1>4, <1>5, <1>6 DEF MayStore
<1> QED
  BY <1>7 DEF new

(* Every branch of _proveBlock stores a transition it may store.            *)
LEMMA ProveStep ==
  ASSUME IInv, NEW x \in Submissions, proveBlock(x)
  PROVE  ClockUnchanged /\ VerifiesFrom(numBlocks)
<1> DEFINE ts == Ts(x)
<1>1. IsAdmissible(x, ts)
  BY DEF proveBlock
<1>2. Blk(x).livenessBondReturned \in BOOLEAN
  BY <1>1, SubmissionTypes
<1>3. \E new, bal : \E returned \in BOOLEAN :
        MayStore(x, new) /\ StoreTransition(x, new, returned, bal)
  <2>1. ASSUME NEW returnBond \in BOOLEAN, proveUncontested(x, ts, returnBond)
        PROVE  \E new, bal : \E returned \in BOOLEAN :
                 MayStore(x, new) /\ StoreTransition(x, new, returned, bal)
    <3>1. PICK returned \in BOOLEAN :
            \E bal : StoreTransition(x, Overridden(x, ts), returned, bal)
      BY <1>2, <2>1 DEF proveUncontested
    <3>2. MayStore(x, Overridden(x, ts))
      BY <1>1, <2>1, OverrideMayStore DEF proveUncontested
    <3> QED BY <3>1, <3>2
  <2>2. CASE proveContestLost(x, ts) \/ proveContestWon(x, ts)
    <3>1. MayStore(x, Overridden(x, ts))
      BY <1>1, <2>2, OverrideMayStore DEF proveContestLost, proveContestWon
    <3> QED BY <1>2, <2>2, <3>1 DEF proveContestLost, proveContestWon
  <2>3. CASE reproveTopTier(x, ts)
    <3>1. MayStore(x, Reproved(x, ts))
      BY <1>1, <2>3, ReproveMayStore
    <3> QED BY <1>2, <2>3, <3>1 DEF reproveTopTier, Reproved
  <2>4. CASE contest(x, ts)
    <3>1. MayStore(x, Contested(x, ts))
      BY <1>1, <2>4, ContestMayStore
    <3> QED BY <1>2, <2>4, <3>1 DEF contest, Contested
  <2> QED BY <2>1, <2>2, <2>3, <2>4 DEF proveBlock
<1>4. PICK new, bal : \E returned \in BOOLEAN :
        MayStore(x, new) /\ StoreTransition(x, new, returned, bal)
  BY <1>3
<1>5. PICK returned \in BOOLEAN : MayStore(x, new) /\ StoreTransition(x, new, returned, bal)
  BY <1>4
<1> DEFINE b == StoredBlocks(x, returned)
           t == StoredTransitions(x, new)
           ids == StoredIds(x)
<1>6. Consistent(b, t, ids, numBlocks) /\ Strengthens(t) /\ Keeps(b, t, numBlocks)
  BY <1>1, <1>5, StoreConsistent
<1>7. /\ \/ Verify(b, t, ids, numBlocks, bal, MaxBlocksToVerify)
         \/ DoNotVerify(b, t, ids, numBlocks, bal)
      /\ ClockUnchanged
  BY <1>5 DEF StoreTransition, ClockUnchanged
<1> HIDE DEF b, t, ids
<1> QED
  BY <1>6, <1>7, BoundAssumption DEF VerifiesFrom

-----------------------------------------------------------------------------
(* The steps of the contract *)

(* Transitions left as they are succeed themselves.                         *)
LEMMA StaysStrong == IInv => Strengthens(transitions)
<1> SUFFICES ASSUME IInv, NEW s \in Slots, NEW tid \in 1..(blocks[s].nextTransitionId - 1)
             PROVE  Succeeds(transitions[s][tid], transitions[s][tid])
  BY DEF Strengthens
<1>1. tid \in TransitionIds
  <2>1. blocks[s].nextTransitionId \in 0..(MaxTransitionId + 1)
    BY DEF IInv, Consistent, Typed, Block
  <2> QED BY <2>1, BoundAssumption DEF TransitionIds
<1>2. transitions[s][tid].tier \in Nat
  BY <1>1, TierAssumption DEF IInv, Consistent, Typed, TransitionState
<1> QED
  BY <1>2 DEF Succeeds

(* A proposal that is let through appends consistent blocks.                *)
LEMMA ProposeStep ==
  ASSUME IInv, NEW user \in Users, NEW size \in 1..MaxBatch,
         NEW batch \in [1..size -> BatchParams], proposeBlocks(user, size, batch)
  PROVE  LedgerStep
<1> DEFINE n == numBlocks + size
           b == StoreBatch(user, size, batch)
<1>1. numBlocks \in Nat /\ size \in Nat /\ n \in Nat /\ n >= numBlocks
  BY BatchAssumption DEF IInv, Consistent, Typed
<1>2. /\ n - 1 <= MaxBlockId
      /\ n <= lastVerifiedBlockId + BlockMaxProposals + 1
      /\ ClockUnchanged
  BY DEF proposeBlocks, HasCapacity, ClockUnchanged
<1>3. Consistent(b, transitions, transitionIds, n) /\ Keeps(b, transitions, n)
  <2>1. numBlocks + size - 1 <= MaxBlockId
    BY <1>1, <1>2
  <2> QED BY <1>2, <2>1, ProposalConsistent
<1>4. \E bal : \/ Verify(b, transitions, transitionIds, n, bal, MaxBlocksToVerify)
               \/ DoNotVerify(b, transitions, transitionIds, n, bal)
  BY DEF proposeBlocks
<1>5. VerifiesFrom(n)
  <2> HIDE DEF b, n
  <2> QED BY <1>3, <1>4, StaysStrong, BoundAssumption DEF VerifiesFrom
<1> QED
  BY <1>1, <1>2, <1>5 DEF LedgerStep

(* Every step is of one of the two kinds.                                   *)
LEMMA StepKinds == IInv /\ [Next]_vars => LedgerStep
<1> SUFFICES ASSUME IInv, [Next]_vars PROVE LedgerStep
  OBVIOUS
<1>0. numBlocks \in Nat
  BY DEF IInv, Consistent, Typed
<1>1. CASE \E user \in Users, size \in 1..MaxBatch : \E batch \in [1..size -> BatchParams] :
             proposeBlocks(user, size, batch)
  BY <1>1, ProposeStep
<1>2. CASE \E x \in Submissions : proveBlock(x)
  BY <1>0, <1>2, ProveStep DEF LedgerStep
<1>3. ASSUME NEW limit \in 1..MaxBlocksToVerify, verifyBlocks(limit)
      PROVE  LedgerStep
  <2>1. limit \in Nat
    BY BoundAssumption
  <2>2. VerifiesFrom(numBlocks)
    BY <1>3, <2>1, StaysStrong DEF verifyBlocks, VerifiesFrom, Keeps, IInv
  <2> QED BY <1>0, <1>3, <2>2 DEF verifyBlocks, ClockUnchanged, LedgerStep
<1>4. ASSUME NEW user \in Users, NEW amount \in Amounts,
             depositBond(user, amount) \/ withdrawBond(user, amount)
      PROVE  LedgerStep
  BY <1>4 DEF depositBond, withdrawBond, LedgerUnchanged, LedgerStep, IInv, ClockTyped
<1>5. CASE unpause
  BY <1>5 DEF unpause, LedgerUnchanged, LedgerStep, IInv, ClockTyped
<1>6. CASE Tick
  <2>1. now' \in Times
    BY <1>6, BoundAssumption DEF Tick, IInv, ClockTyped, Times
  <2> QED BY <1>6, <2>1 DEF Tick, LedgerUnchanged, LedgerStep, IInv, ClockTyped
<1>7. CASE UNCHANGED vars
  BY <1>7 DEF vars, LedgerUnchanged, LedgerStep, IInv, ClockTyped
<1> QED
  BY <1>1, <1>2, <1>3, <1>4, <1>5, <1>6, <1>7 DEF Next

(* Every step keeps the invariant.                                          *)
LEMMA NextInv == IInv /\ [Next]_vars => IInv'
<1> SUFFICES ASSUME IInv, [Next]_vars PROVE IInv'
  OBVIOUS
<1>1. CASE ClockTyped' /\ LedgerUnchanged
  BY <1>1 DEF LedgerUnchanged, IInv, CursorsTyped, Consistent, Typed, Ring, Chain,
              Records, Keys, Indexed, VerifiedHash, TransitionId
<1>2. CASE ClockUnchanged /\ \E n \in Nat : VerifiesFrom(n)
  <2>1. ClockTyped'
    BY <1>2 DEF ClockUnchanged, ClockTyped, IInv
  <2>2. CursorsTyped' /\ Consistent(blocks, transitions, transitionIds, numBlocks)'
    BY <1>2, VerifyConsistent DEF VerifiesFrom, IInv
  <2> QED BY <2>1, <2>2 DEF IInv
<1> QED
  BY <1>1, <1>2, StepKinds DEF LedgerStep

-----------------------------------------------------------------------------
(* The theorems                                                             *)

(* The inductive invariant holds for every ring, tier set and batch size.   *)
LEMMA Inductive == Spec => []IInv
  BY InitInv, NextInv, PTL DEF Spec

(* The contract's storage keeps its types.                                  *)
THEOREM TypeCorrect == Spec => []TypeOK
<1>1. IInv => TypeOK
  BY InvImplies
<1> QED
  BY <1>1, Inductive, PTL

(* No proposal overwrites a block that is still needed: L1_BLOCK_MISMATCH   *)
(* cannot be reached in a ring larger than blockMaxProposals.               *)
THEOREM RingSafe == Spec => []RingIntact
<1>1. IInv => RingIntact
  BY InvImplies
<1> QED
  BY <1>1, Inductive, PTL

(* The verified blocks form one chain of parent hashes, and the transitions *)
(* that verified them stay what they were.                                  *)
THEOREM ChainSafe == Spec => []VerifiedChain
<1>1. IInv => VerifiedChain
  BY InvImplies
<1> QED
  BY <1>1, Inductive, PTL
=============================================================================
