------------------------ MODULE TaikoL1Ledger_proof ------------------------
(***************************************************************************)
(* TLAPS proof that TaikoL1 implements RollupLedger under the mapping of   *)
(* TaikoL1Ledger, for every value of the constants.                        *)
(***************************************************************************)
EXTENDS TaikoL1Ledger, TaikoL1_proof

(* What verification does to the cursors and to the events.                 *)
Advance ==
  /\ lastVerifiedBlockId' >= lastVerifiedBlockId
  /\ lastVerifiedBlockId' = lastVerifiedBlockId =>
       UNCHANGED <<lastSyncedBlockId, verifiedHashes>>
  /\ lastVerifiedBlockId' > lastVerifiedBlockId =>
       verifiedHashes'[lastVerifiedBlockId'] \in {lastVerifiedBlockId'} \X Forks
  /\ \/ lastSyncedBlockId' = lastSyncedBlockId
     \/ lastVerifiedBlockId < lastSyncedBlockId' /\ lastSyncedBlockId' <= lastVerifiedBlockId'

(* The last block of a verified path has a transition of its own height.    *)
LEMMA RecordAdvances ==
  ASSUME NEW b, NEW t, NEW ids, NEW n, NEW bal, NEW k \in Nat \ {0},
         NEW p \in [1..k -> TransitionIds],
         CursorsTyped, Consistent(b, t, ids, n),
         FollowsChain(b, t, ids, n, k, p), RecordVerified(b, t, bal, k, p)
  PROVE  Advance
<1> DEFINE L == lastVerifiedBlockId
           id == L + k
<1>1. L \in Nat /\ n \in Nat /\ id \in Nat /\ k \in 1..k /\ lastVerifiedBlockId' = id
  BY BoundAssumption DEF CursorsTyped, BlockIds, Consistent, Typed, RecordVerified
<1>2. verifiedHashes'[id] = t[Slot(id)][p[k]].blockHash
  <2>1. verifiedHashes'[lastVerifiedBlockId + k] = OnPath(t, p, k).blockHash
    BY ZenonT(30), <1>1, PathHashes DEF Consistent
  <2> QED BY <2>1 DEF OnPath
<1>3. /\ id < n /\ TransitionId(t, ids, id, HashBefore(b, t, p, k)) = p[k]
      /\ TransitionIdIsSound(b, t, ids, id, HashBefore(b, t, p, k))
  BY <1>1 DEF FollowsChain
<1>4. p[k] \in 1..(b[Slot(id)].nextTransitionId - 1)
  <2>1. Slot(id) \in Slots
    BY <1>1, SlotType
  <2>2. p[k] \in Nat \ {0} /\ b[Slot(id)].nextTransitionId \in Nat
    BY <1>1, <2>1, BoundAssumption DEF Consistent, Typed, Block, TransitionIds
  <2>3. p[k] < b[Slot(id)].nextTransitionId
    BY <1>3, <2>2 DEF TransitionIdIsSound
  <2> QED BY <2>2, <2>3
<1>5. verifiedHashes'[id] \in {id} \X Forks
  <2>1. id \in (L + 1)..(n - 1)
    BY <1>1, <1>3
  <2> HIDE DEF id
  <2> QED BY <1>2, <1>4, <2>1 DEF Consistent, Records, IsRecord
<1>6. \/ lastSyncedBlockId' = lastSyncedBlockId
      \/ L < lastSyncedBlockId' /\ lastSyncedBlockId' <= id
  <2>1. \A s \in SyncIndices(t, k, p) : s \in 1..k
    BY DEF SyncIndices
  <2>2. \/ lastSyncedBlockId' = lastSyncedBlockId
        \/ \E s \in 1..k : lastSyncedBlockId' = L + s
    BY <2>1 DEF RecordVerified
  <2> QED BY <1>1, <2>2
<1> QED
  BY <1>1, <1>5, <1>6 DEF Advance

(* A transaction that verifies, or does not, advances the cursors.          *)
LEMMA VerifyAdvances ==
  ASSUME CursorsTyped, NEW n \in Nat, VerifiesFrom(n)
  PROVE  Advance /\ numBlocks' = n
<1>0. lastVerifiedBlockId \in Nat
  BY BoundAssumption DEF CursorsTyped, BlockIds
<1>1. PICK b, t, ids, bal : \E limit \in Nat :
        /\ Consistent(b, t, ids, n)
        /\ Verify(b, t, ids, n, bal, limit) \/ DoNotVerify(b, t, ids, n, bal)
  BY DEF VerifiesFrom
<1>2. numBlocks' = n
  BY <1>1 DEF Verify, DoNotVerify
<1>3. CASE RecordNothing(b, bal)
  <2>1. UNCHANGED <<lastVerifiedBlockId, lastSyncedBlockId, verifiedHashes>>
    BY <1>3 DEF RecordNothing
  <2> QED BY <1>0, <1>2, <2>1 DEF Advance
<1>4. CASE \E k \in Nat \ {0} : \E p \in [1..k -> TransitionIds] :
             FollowsChain(b, t, ids, n, k, p) /\ RecordVerified(b, t, bal, k, p)
  <2>1. PICK k \in Nat \ {0} : \E p \in [1..k -> TransitionIds] :
               FollowsChain(b, t, ids, n, k, p) /\ RecordVerified(b, t, bal, k, p)
    BY <1>4
  <2>2. PICK p \in [1..k -> TransitionIds] :
               FollowsChain(b, t, ids, n, k, p) /\ RecordVerified(b, t, bal, k, p)
    BY <2>1
  <2>3. Consistent(b, t, ids, n)
    BY <1>1
  <2> QED BY <1>2, <2>2, <2>3, RecordAdvances
<1> QED
  BY <1>1, <1>2, <1>3, <1>4 DEF Verify, DoNotVerify

(* TaikoL1 implements RollupLedger: what getLastVerifiedBlock reports is    *)
(* the head of an append-only chain, whatever later blocks reuse the ring.  *)
THEOREM Implementation == Spec => ImplementsLedger
<1> DEFINE head == VerifiedHash(blocks, transitions, lastVerifiedBlockId)
<1>1. Init => Ledger!Init
  <2>1. 0 \in Slots /\ Slot(0) = 0 /\ 1 \in TransitionIds
    <3>1. 0 \in Slots /\ 1 \in TransitionIds
      BY RingAssumption, BoundAssumption DEF Slots, TransitionIds
    <3>2. 0 % BlockRingBufferSize = 0
      BY RingAssumption
    <3> QED BY <3>1, <3>2 DEF Slot
  <2> QED BY <2>1 DEF Init, Ledger!Init, VerifiedHash, GenesisBlock, EmptyBlock,
                      GenesisTransition, EmptyTransition
<1>2. IInv /\ IInv' /\ [Next]_vars =>
        [Ledger!Next]_<<numBlocks, lastVerifiedBlockId, head, lastSyncedBlockId>>
  <2> SUFFICES ASSUME IInv, IInv', [Next]_vars
               PROVE  [Ledger!Next]_<<numBlocks, lastVerifiedBlockId, head, lastSyncedBlockId>>
    OBVIOUS
  <2>1. /\ head = verifiedHashes[lastVerifiedBlockId]
        /\ head' = verifiedHashes'[lastVerifiedBlockId']
    BY DEF IInv, Consistent, Chain
  <2>2. /\ lastVerifiedBlockId \in Nat /\ numBlocks \in Nat
        /\ lastVerifiedBlockId' \in Nat /\ numBlocks' \in Nat
        /\ lastVerifiedBlockId' < numBlocks'
    BY BoundAssumption DEF IInv, CursorsTyped, BlockIds, Consistent, Typed, Ring
  <2>3. CASE LedgerUnchanged
    BY <2>3 DEF LedgerUnchanged, VerifiedHash
  <2>4. ASSUME NEW n \in Nat, n >= numBlocks,
               n > numBlocks => n <= lastVerifiedBlockId + BlockMaxProposals + 1,
               VerifiesFrom(n)
        PROVE  Ledger!Next
    <3>1. Advance /\ numBlocks' = n
      BY <2>4, VerifyAdvances DEF IInv
    <3>2. Ledger!Propose
      BY <2>2, <2>4, <3>1, RingAssumption DEF Ledger!Propose
    <3>3. lastVerifiedBlockId' = lastVerifiedBlockId => head' = head
      BY <2>1, <3>1 DEF Advance
    <3>4. lastVerifiedBlockId' > lastVerifiedBlockId =>
            head' \in {lastVerifiedBlockId'} \X Forks
      BY <2>1, <3>1 DEF Advance
    <3> HIDE DEF head
    <3>5. Ledger!Finalize
      BY <2>2, <3>1, <3>3, <3>4 DEF Advance, Ledger!Finalize, head
    <3> QED BY <3>2, <3>5 DEF Ledger!Next
  <2> QED BY <2>3, <2>4, StepKinds DEF LedgerStep
<1> QED
  BY <1>1, <1>2, Inductive, PTL DEF Spec, ImplementsLedger, Ledger!Spec
=============================================================================
