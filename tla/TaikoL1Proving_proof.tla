------------------------ MODULE TaikoL1Proving_proof ------------------------
(***************************************************************************)
(* TLAPS proofs about TaikoL1: what its transitions say and hold, what     *)
(* verification asks of them, the last synced block, and the Ether that    *)
(* covers every bond, for every value of the constants.  They rest on the  *)
(* inductive invariant of TaikoL1_proof.                                   *)
(***************************************************************************)
EXTENDS TaikoL1_proof, Sums_proof

-----------------------------------------------------------------------------
(* Recorded transitions *)

(* getTransitionId finds only ids the block has handed out: the key left in *)
(* a slot by an older block is never the parent hash of the new block.      *)
LEMMA InvKnowsTransitions == IInv => NoUnexpectedTransition
<1> SUFFICES ASSUME IInv, NEW id \in Unverified, NEW fork \in Forks
             PROVE  TransitionIdIsSound(blocks, transitions, transitionIds, id, <<id - 1, fork>>)
  BY DEF NoUnexpectedTransition
<1> DEFINE blk == blocks[Slot(id)]
           parentHash == <<id - 1, fork>>
<1>1. /\ lastVerifiedBlockId \in Nat /\ numBlocks \in Nat /\ numBlocks <= MaxBlockId + 1
      /\ id \in Nat /\ id \in lastVerifiedBlockId..(numBlocks - 1)
  BY BoundAssumption DEF Unverified, IInv, CursorsTyped, BlockIds, Consistent, Typed
<1>2. Slot(id) \in Slots /\ blk.blockId = id
  BY <1>1, SlotType DEF IInv, Consistent, Ring
<1>3. parentHash # NoHash
  <2>1. id - 1 \in BlockIds
    BY <1>1, BoundAssumption DEF BlockIds, Unverified
  <2> QED BY <2>1, ValueAssumption DEF Hashes
<1>4. CASE transitions[Slot(id)][1].key = parentHash
  <2>1. blk.nextTransitionId > 1
    <3>1. KeyFits(blk, parentHash)
      BY <1>2, <1>4 DEF IInv, Consistent, Keys
    <3>2. parentHash[1] = id - 1
      OBVIOUS
    <3> HIDE DEF parentHash, blk
    <3> QED BY <1>2, <1>3, <3>1, <3>2 DEF KeyFits
  <2>2. TransitionId(transitions, transitionIds, id, parentHash) = 1
    BY <1>4 DEF TransitionId
  <2>3. 1 < blk.nextTransitionId
    <3>1. blk.nextTransitionId \in Nat
      BY <1>2, BoundAssumption DEF IInv, Consistent, Typed, Block
    <3> QED BY <2>1, <3>1
  <2> QED BY <2>2, <2>3 DEF TransitionIdIsSound
<1>5. CASE transitions[Slot(id)][1].key # parentHash /\ <<id, parentHash>> \in DOMAIN transitionIds
  <2>1. transitionIds[<<id, parentHash>>] < blk.nextTransitionId
    BY <1>2, <1>5 DEF IInv, Consistent, Indexed
  <2> QED BY <1>5, <2>1 DEF TransitionId, TransitionIdIsSound
<1>6. CASE transitions[Slot(id)][1].key # parentHash /\ <<id, parentHash>> \notin DOMAIN transitionIds
  BY <1>6 DEF TransitionId, TransitionIdIsSound
<1> QED
  BY <1>4, <1>5, <1>6

(* L1_UNEXPECTED_TRANSITION_ID cannot be reached from proving or verifying, *)
(* whatever the previous block left in the slot of a block.                 *)
THEOREM TransitionsKnown == Spec => []NoUnexpectedTransition
<1> QED
  BY InvKnowsTransitions, Inductive, PTL

(* Where a tier without contests takes no validity bond, as in the tier     *)
(* providers of the repository, the assertions _proveBlock makes when the   *)
(* top tier re-proves hold.                                                 *)
THEOREM TopTierSafe ==
  ASSUME TopTiersTakeNoBond
  PROVE  Spec => []TopTierHoldsNoBond
<1>1. IInv => TopTierHoldsNoBond
  BY DEF IInv, Consistent, Records, IsRecord, HoldsNoBond, TopTierHoldsNoBond, Unverified
<1> QED
  BY <1>1, Inductive, PTL

-----------------------------------------------------------------------------
(* Steps that verify *)

(* A step that is not idle verifies nothing, or a path of recorded          *)
(* transitions, from the consistent state it has computed.                  *)
RecordsPath(b, t, ids, n, bal) ==
  \E k \in Nat \ {0} : \E p \in [1..k -> TransitionIds] :
    FollowsChain(b, t, ids, n, k, p) /\ RecordVerified(b, t, bal, k, p)

LEMMA VerifyCases ==
  ASSUME NEW n \in Nat, VerifiesFrom(n)
  PROVE  \E b, t, ids, bal :
           /\ Consistent(b, t, ids, n) /\ Strengthens(t) /\ Keeps(b, t, n)
           /\ numBlocks' = n /\ transitions' = t /\ transitionIds' = ids
           /\ RecordNothing(b, bal) \/ RecordsPath(b, t, ids, n, bal)
<1>1. PICK b, t, ids, bal : \E limit \in Nat :
        /\ Consistent(b, t, ids, n) /\ Strengthens(t) /\ Keeps(b, t, n)
        /\ Verify(b, t, ids, n, bal, limit) \/ DoNotVerify(b, t, ids, n, bal)
  BY DEF VerifiesFrom
<1>2. numBlocks' = n /\ transitions' = t /\ transitionIds' = ids
  BY <1>1 DEF Verify, DoNotVerify
<1>3. RecordNothing(b, bal) \/ RecordsPath(b, t, ids, n, bal)
  BY <1>1 DEF Verify, DoNotVerify, RecordsPath
<1> QED
  BY <1>1, <1>2, <1>3

(* Each transition of a verified path is one its block has recorded.        *)
LEMMA PathIsRecorded ==
  ASSUME NEW b, NEW t, NEW ids, NEW n, NEW k \in Nat \ {0},
         NEW p \in [1..k -> TransitionIds], NEW i \in 1..k,
         CursorsTyped, Consistent(b, t, ids, n), FollowsChain(b, t, ids, n, k, p)
  PROVE  LET id == lastVerifiedBlockId + i
         IN  /\ id \in (lastVerifiedBlockId + 1)..(n - 1)
             /\ b[Slot(id)].blockId = id
             /\ p[i] \in 1..(b[Slot(id)].nextTransitionId - 1)
             /\ IsRecord(id, OnPath(t, p, i))
             /\ IsVerifiable(OnPath(t, p, i))
             /\ TransitionId(t, ids, id, HashBefore(b, t, p, i)) = p[i]
<1> DEFINE id == lastVerifiedBlockId + i
<1>1. lastVerifiedBlockId \in Nat /\ n \in Nat /\ id \in Nat
  BY BoundAssumption DEF CursorsTyped, BlockIds, Consistent, Typed
<1>2. /\ id < n /\ b[Slot(id)].blockId = id
      /\ TransitionId(t, ids, id, HashBefore(b, t, p, i)) = p[i]
      /\ TransitionIdIsSound(b, t, ids, id, HashBefore(b, t, p, i))
      /\ IsVerifiable(OnPath(t, p, i))
  BY DEF FollowsChain
<1>3. p[i] \in 1..(b[Slot(id)].nextTransitionId - 1)
  <2>1. Slot(id) \in Slots
    BY <1>1, SlotType
  <2>2. p[i] \in Nat \ {0} /\ b[Slot(id)].nextTransitionId \in Nat
    BY <2>1, BoundAssumption DEF Consistent, Typed, Block, TransitionIds
  <2>3. p[i] < b[Slot(id)].nextTransitionId
    BY <1>2, <2>2 DEF TransitionIdIsSound
  <2> QED BY <2>2, <2>3
<1>4. id \in (lastVerifiedBlockId + 1)..(n - 1)
  BY <1>1, <1>2
<1>5. IsRecord(id, OnPath(t, p, i))
  BY <1>3, <1>4 DEF Consistent, Records, OnPath
<1> QED
  BY <1>2, <1>3, <1>4, <1>5

-----------------------------------------------------------------------------
(* The action properties *)

(* A step changes recorded transitions only the way Strengthens says.       *)
LEMMA StepStrengthens == IInv /\ [Next]_vars => Strengthens(transitions')
<1> SUFFICES ASSUME IInv, [Next]_vars PROVE Strengthens(transitions')
  OBVIOUS
<1>1. CASE LedgerUnchanged
  <2>1. transitions' = transitions
    BY <1>1 DEF LedgerUnchanged
  <2> QED BY <2>1, StaysStrong
<1>2. ASSUME NEW n \in Nat, VerifiesFrom(n) PROVE Strengthens(transitions')
  <2>1. PICK t : Strengthens(t) /\ transitions' = t
    BY <1>2, VerifyCases
  <2> QED BY <2>1
<1> QED
  BY <1>1, <1>2, StepKinds DEF LedgerStep

(* What a recorded transition says changes only by a proof of a higher tier *)
(* or, at a top tier, by a re-proof; and its tier never falls.              *)
THEOREM ProofsStrengthen == Spec => ProofsOnlyGetStronger
<1> DEFINE Stronger ==
      \A id \in Unverified : \A tid \in 1..(blocks[Slot(id)].nextTransitionId - 1) :
        LET old == transitions[Slot(id)][tid]
            new == transitions'[Slot(id)][tid]
        IN  /\ new.tier >= old.tier
            /\ new.blockHash # old.blockHash =>
                 \/ new.tier > old.tier
                 \/ Tier[new.tier].contestBond = 0
<1>1. IInv /\ [Next]_vars => Stronger
  <2> SUFFICES ASSUME IInv, [Next]_vars, NEW id \in Unverified PROVE Slot(id) \in Slots
    BY StepStrengthens DEF Strengthens, Succeeds
  <2>1. id \in Nat
    BY BoundAssumption DEF Unverified, IInv, CursorsTyped, BlockIds, Consistent, Typed
  <2> QED BY <2>1, SlotType
<1>2. IInv /\ [Next]_vars => [Stronger]_vars
  BY <1>1
<1> QED
  BY <1>2, Inductive, PTL DEF Spec, ProofsOnlyGetStronger

(* Every block of a verified path is verified when it is due.               *)
LEMMA PathIsDue ==
  ASSUME IInv, NEW b, NEW t, NEW ids, NEW n, NEW bal,
         Consistent(b, t, ids, n), Strengthens(t),
         transitions' = t, transitionIds' = ids,
         RecordsPath(b, t, ids, n, bal)
  PROVE  VerifiedWhenDue
<1> DEFINE L == lastVerifiedBlockId
<1>1. PICK k \in Nat \ {0} : \E p \in [1..k -> TransitionIds] :
             FollowsChain(b, t, ids, n, k, p) /\ RecordVerified(b, t, bal, k, p)
  BY DEF RecordsPath
<1>2. PICK p \in [1..k -> TransitionIds] :
             FollowsChain(b, t, ids, n, k, p) /\ RecordVerified(b, t, bal, k, p)
  BY <1>1
<1>3. CursorsTyped /\ Chain(b, t, ids) /\ L \in Nat /\ lastVerifiedBlockId' = L + k
  BY <1>2, BoundAssumption DEF IInv, CursorsTyped, BlockIds, Consistent, RecordVerified
<1>4. \A i \in 1..k : verifiedHashes'[L + i - 1] = HashBefore(b, t, p, i)
  BY <1>2, <1>3, PathHashes
<1>5. ASSUME NEW id \in (L + 1)..(L + k)
      PROVE  LET tid == TidOf(id)
                 ts == transitions'[Slot(id)][tid]
                 before == transitions[Slot(id)][tid]
                 known == id < numBlocks /\ tid < blocks[Slot(id)].nextTransitionId
             IN  /\ ts.contester = NoUser
                 /\ now >= ts.timestamp + Tier[ts.tier].cooldownWindow
                 /\ (known /\ before.contester # NoUser) => ts.tier > before.tier
  <2>1. PICK i \in 1..k : L + i = id
    <3>1. id - L \in 1..k /\ L + (id - L) = id
      BY <1>3
    <3> QED BY <3>1
  <2>2. /\ TransitionId(t, ids, id, HashBefore(b, t, p, i)) = p[i]
        /\ IsVerifiable(OnPath(t, p, i))
    <3>1. /\ TransitionId(t, ids, L + i, HashBefore(b, t, p, i)) = p[i]
          /\ IsVerifiable(OnPath(t, p, i))
      BY <1>2, <1>3, PathIsRecorded
    <3> QED BY <2>1, <3>1
  <2>3. TidOf(id) = p[i] /\ t[Slot(id)][p[i]] = OnPath(t, p, i)
    <3>1. L + i - 1 = id - 1
      BY <1>3, <2>1
    <3> QED BY <1>4, <2>1, <2>2, <3>1 DEF TidOf, OnPath
  <2>4. ASSUME p[i] < blocks[Slot(id)].nextTransitionId
        PROVE  Succeeds(transitions[Slot(id)][p[i]], t[Slot(id)][p[i]])
    <3>1. id \in Nat /\ Slot(id) \in Slots
      BY <1>3, SlotType
    <3>2. blocks[Slot(id)].nextTransitionId \in Nat /\ p[i] \in Nat \ {0}
      BY SMTT(20), <3>1, BoundAssumption DEF IInv, Consistent, Typed, Block, TransitionIds
    <3>3. p[i] \in 1..(blocks[Slot(id)].nextTransitionId - 1)
      BY <2>4, <3>2
    <3> QED BY <3>1, <3>3 DEF Strengthens
  <2> QED BY <2>2, <2>3, <2>4 DEF IsVerifiable, IsPostDeadline, Succeeds
<1> QED
  BY <1>3, <1>5 DEF VerifiedWhenDue, NewlyVerified

(* A block is verified only by a transition no one contests and that has    *)
(* been open to contest for its tier's whole cooldown; one that was         *)
(* contested has first been settled by a proof of a higher tier.            *)
THEOREM VerifiedEarned == Spec => VerificationIsEarned
<1>1. IInv /\ [Next]_vars => VerifiedWhenDue
  <2> SUFFICES ASSUME IInv, [Next]_vars PROVE VerifiedWhenDue
    OBVIOUS
  <2>0. lastVerifiedBlockId \in Nat
    BY BoundAssumption DEF IInv, CursorsTyped, BlockIds
  <2>1. ASSUME lastVerifiedBlockId' = lastVerifiedBlockId PROVE VerifiedWhenDue
    BY <2>0, <2>1 DEF VerifiedWhenDue, NewlyVerified
  <2>2. CASE LedgerUnchanged
    BY <2>1, <2>2 DEF LedgerUnchanged
  <2>3. ASSUME NEW n \in Nat, VerifiesFrom(n) PROVE VerifiedWhenDue
    <3>1. PICK b, t, ids, bal :
             /\ Consistent(b, t, ids, n) /\ Strengthens(t)
             /\ transitions' = t /\ transitionIds' = ids
             /\ RecordNothing(b, bal) \/ RecordsPath(b, t, ids, n, bal)
      BY <2>3, VerifyCases
    <3>2. CASE RecordNothing(b, bal)
      BY <2>1, <3>2 DEF RecordNothing
    <3>3. CASE RecordsPath(b, t, ids, n, bal)
      BY <3>1, <3>3, PathIsDue
    <3> QED BY <3>1, <3>2, <3>3
  <2> QED BY <2>2, <2>3, StepKinds DEF LedgerStep
<1>2. IInv /\ [Next]_vars => [VerifiedWhenDue]_vars
  BY <1>1
<1> QED
  BY <1>2, Inductive, PTL DEF Spec, VerificationIsEarned

-----------------------------------------------------------------------------
(* The last synced block *)

(* Of any StateRootSyncInternal consecutive blocks one is synced.           *)
LEMMA SyncGap ==
  ASSUME NEW a \in Nat, NEW c \in Nat, a < c,
         \A id \in (a + 1)..c : ~ShouldSyncStateRoot(id)
  PROVE  c - a < StateRootSyncInternal
<1> DEFINE S == StateRootSyncInternal
           q == (a + 1) \div S
           r == (a + 1) % S
           id == S * q + (S - 1)
<1>1. S \in Nat /\ S > 1
  <2>1. c \in (a + 1)..c
    OBVIOUS
  <2>2. ~ShouldSyncStateRoot(c)
    BY <2>1
  <2>3. ~(S <= 1)
    BY <2>2 DEF ShouldSyncStateRoot
  <2> QED BY <2>3, BoundAssumption
<1> SUFFICES ASSUME c - a >= S PROVE FALSE
  BY <1>1
<1>2. q \in Nat /\ r \in 0..(S - 1) /\ a + 1 = S * q + r
  <2>1. S \in Nat \ {0} /\ a + 1 \in Nat
    BY <1>1
  <2> QED BY <2>1, DivisionWithRemainder
<1>3. S * q \in Nat
  <2> HIDE DEF q, S
  <2> QED BY <1>1, <1>2
<1>4. id \in Nat /\ id \in (a + 1)..c
  <2>1. ASSUME NEW m \in Nat, m = S * q
        PROVE  m + (S - 1) \in Nat /\ m + (S - 1) \in (a + 1)..c
    <3> HIDE DEF q, r, S
    <3> QED BY <1>1, <1>2, <2>1
  <2> QED BY <1>3, <2>1
<1>5. id % S = S - 1
  <2> DEFINE u == id \div S
             v == id % S
  <2>1. u \in Nat /\ v \in 0..(S - 1) /\ id = S * u + v
    <3>1. S \in Nat \ {0} /\ id \in Nat
      BY <1>1, <1>4
    <3> HIDE DEF id
    <3> QED BY <3>1, DivisionWithRemainder
  <2> SUFFICES ASSUME v # S - 1 PROVE FALSE
    OBVIOUS
  <2>2. S * u + v = S * q + (S - 1)
    BY <2>1
  <2> HIDE DEF u, v, q, S
  <2>3. S * (u - q) = (S - 1) - v
    <3>1. S * (u - q) = S * u - S * q
      BY <1>1, <1>2, <2>1
    <3>2. S * u \in Nat
      BY <1>1, <2>1
    <3> QED BY <1>1, <1>3, <2>1, <2>2, <3>1, <3>2
  <2>4. 0 < S * (u - q) /\ S * (u - q) < S
    BY <1>1, <2>1, <2>3
  <2> QED BY <1>1, <1>2, <2>1, <2>4, NoSmallMultiple
<1> QED
  BY <1>4, <1>5 DEF ShouldSyncStateRoot

(* What the slot of the last synced block holds, in blocks b and transitions*)
(* t; no block verified after it is one to be synced.                       *)
Synced(b, t) ==
  /\ lastSyncedBlockId <= lastVerifiedBlockId
  /\ chainData.blockId = lastSyncedBlockId
  /\ \A id \in (lastSyncedBlockId + 1)..lastVerifiedBlockId : ~ShouldSyncStateRoot(id)
  /\ lastSyncedBlockId > 0 =>
       LET blk == b[Slot(lastSyncedBlockId)]
           ts == t[Slot(lastSyncedBlockId)][blk.verifiedTransitionId]
       IN  /\ blk.blockId = lastSyncedBlockId
           /\ blk.verifiedTransitionId # 0
           /\ ts.blockHash = verifiedHashes[lastSyncedBlockId]
           /\ ts.stateRoot = chainData.stateRoot

SInv ==
  /\ numBlocks <= lastVerifiedBlockId + BlockMaxProposals + 1
  /\ Synced(blocks, transitions)

(* The ring holds, besides the pending blocks, those between two syncs.     *)
RingHoldsSynced == BlockMaxProposals + StateRootSyncInternal <= BlockRingBufferSize

(* The genesis contract has announced block 0 and nothing else.             *)
LEMMA InitSynced == Init => SInv
<1> SUFFICES ASSUME Init PROVE SInv
  OBVIOUS
<1>1. numBlocks = 1 /\ lastVerifiedBlockId = 0 /\ lastSyncedBlockId = 0 /\ chainData.blockId = 0
  BY DEF Init
<1> QED
  BY <1>1, RingAssumption DEF SInv, Synced

(* The synced block is within a ring of the last one and keeps its slot.    *)
LEMMA SyncedKept ==
  ASSUME RingHoldsSynced, IInv, SInv, NEW b, NEW t, NEW n \in Nat, Keeps(b, t, n),
         n <= lastVerifiedBlockId + BlockMaxProposals + 1
  PROVE  Synced(b, t)
<1>1. lastVerifiedBlockId \in Nat /\ lastSyncedBlockId \in Nat
  BY BoundAssumption DEF IInv, CursorsTyped, BlockIds
<1>2. \/ lastSyncedBlockId = lastVerifiedBlockId
      \/ lastVerifiedBlockId - lastSyncedBlockId < StateRootSyncInternal
  <2>1. /\ lastSyncedBlockId <= lastVerifiedBlockId
        /\ \A id \in (lastSyncedBlockId + 1)..lastVerifiedBlockId : ~ShouldSyncStateRoot(id)
    BY DEF SInv, Synced
  <2>2. lastSyncedBlockId < lastVerifiedBlockId =>
          lastVerifiedBlockId - lastSyncedBlockId < StateRootSyncInternal
    BY <1>1, <2>1, SyncGap
  <2> QED BY <1>1, <2>1, <2>2
<1>3. n - 1 - lastSyncedBlockId < BlockRingBufferSize
  BY <1>1, <1>2, RingAssumption, BoundAssumption DEF RingHoldsSynced
<1>4. lastSyncedBlockId \in 0..lastVerifiedBlockId
  BY <1>1 DEF SInv, Synced
<1>5. lastSyncedBlockId > 0 =>
        /\ b[Slot(lastSyncedBlockId)] = blocks[Slot(lastSyncedBlockId)]
        /\ t[Slot(lastSyncedBlockId)] = transitions[Slot(lastSyncedBlockId)]
  <2>1. lastSyncedBlockId > 0 => blocks[Slot(lastSyncedBlockId)].blockId = lastSyncedBlockId
    BY DEF SInv, Synced
  <2> QED BY <1>3, <1>4, <2>1 DEF Keeps
<1> QED
  BY <1>5 DEF SInv, Synced

(* Recording a verified path marks and syncs the last block of the path to  *)
(* be synced, or none is to be synced and the synced block stays.           *)
LEMMA RecordSynced ==
  ASSUME CursorsTyped, NEW b, NEW t, NEW ids, NEW n, NEW bal, NEW k \in Nat \ {0},
         NEW p \in [1..k -> TransitionIds],
         Consistent(b, t, ids, n), Synced(b, t), transitions' = t,
         FollowsChain(b, t, ids, n, k, p), RecordVerified(b, t, bal, k, p)
  PROVE  Synced(blocks, transitions)'
<1> DEFINE L == lastVerifiedBlockId
           old == lastSyncedBlockId
           synced == SyncIndices(t, k, p)
           verified == MarkVerified(b, p, k)
<1>1. /\ L \in Nat /\ old \in Nat /\ lastVerifiedBlockId' = L + k /\ k \in 1..k
      /\ b \in [Slots -> Block]
  BY BoundAssumption DEF CursorsTyped, BlockIds, Consistent, Typed, RecordVerified
<1>2. ASSUME NEW i \in 1..k
      PROVE  /\ L + i \in Nat /\ Slot(L + i) \in Slots /\ p[i] \in TransitionIds
             /\ b[Slot(L + i)].blockId = L + i
             /\ ShouldSyncStateRoot(L + i) => i \in synced
             /\ verifiedHashes'[L + i] = t[Slot(L + i)][p[i]].blockHash
  <2>1. L + i \in Nat /\ Slot(L + i) \in Slots /\ p[i] \in TransitionIds
    BY <1>1, SlotType
  <2>2. b[Slot(L + i)].blockId = L + i /\ IsRecord(L + i, OnPath(t, p, i))
    BY PathIsRecorded
  <2>3. verifiedHashes'[L + i] = OnPath(t, p, i).blockHash
    BY ZenonT(30), PathHashes DEF Consistent
  <2>4. ShouldSyncStateRoot(L + i) => i \in synced
    BY <2>2, ValueAssumption DEF IsRecord, SyncIndices
  <2> QED BY <2>1, <2>2, <2>3, <2>4 DEF OnPath
<1>3. \A id \in 0..L : verifiedHashes'[id] = verifiedHashes[id]
  BY PathHashes DEF Consistent
<1>4. /\ verified \in [Slots -> Block]
      /\ \A s \in Slots : /\ verified[s].blockId = b[s].blockId
                          /\ s # Slot(L + k) => verified[s] = b[s]
  BY ZenonT(30), <1>1, <1>2 DEF Block, MarkVerified
<1>5. \A i \in 1..k : i \in synced => ShouldSyncStateRoot(L + i)
  BY DEF SyncIndices
<1>6. CASE synced = {} /\ blocks' = verified /\ UNCHANGED <<lastSyncedBlockId, chainData>>
  <2>1. old <= L + k /\ chainData'.blockId = old
    BY <1>1, <1>6 DEF Synced
  <2>2. ASSUME NEW id \in (old + 1)..(L + k) PROVE ~ShouldSyncStateRoot(id)
    <3>1. CASE id <= L
      BY <1>1, <3>1 DEF Synced
    <3>2. CASE id > L
      <4>1. id - L \in 1..k /\ L + (id - L) = id
        BY <1>1, <3>2
      <4> QED BY <1>2, <1>6, <4>1
    <3> QED BY <1>1, <3>1, <3>2
  <2>3. ASSUME old > 0
        PROVE  /\ blocks'[Slot(old)] = b[Slot(old)]
               /\ verifiedHashes'[old] = verifiedHashes[old]
    <3>1. b[Slot(old)].blockId = old /\ old \in 0..L /\ old # L + k
      BY <1>1, <2>3 DEF Synced
    <3>2. Slot(old) \in Slots /\ Slot(old) # Slot(L + k)
      BY <1>1, <1>2, <3>1, SlotType
    <3> QED BY <1>3, <1>4, <1>6, <3>1, <3>2
  <2> QED BY <1>1, <1>6, <2>1, <2>2, <2>3 DEF Synced
<1>7. ASSUME NEW s \in synced, \A r \in synced : r <= s,
             blocks' = MarkVerified(verified, p, s),
             lastSyncedBlockId' = L + s,
             chainData' = [blockId |-> L + s, stateRoot |-> OnPath(t, p, s).stateRoot]
      PROVE  Synced(blocks, transitions)'
  <2>1. s \in 1..k
    BY DEF SyncIndices
  <2>2. L + s <= L + k /\ chainData'.blockId = L + s
    BY <1>1, <1>7, <2>1
  <2>3. ASSUME NEW id \in (L + s + 1)..(L + k) PROVE ~ShouldSyncStateRoot(id)
    <3>1. id - L \in 1..k /\ L + (id - L) = id /\ id - L > s
      BY <1>1, <2>1
    <3>2. id - L \notin synced
      BY <1>7, <2>1, <3>1
    <3> QED BY <1>2, <3>1, <3>2
  <2>4. /\ blocks'[Slot(L + s)].blockId = L + s
        /\ blocks'[Slot(L + s)].verifiedTransitionId = p[s]
    <3>1. verified[Slot(L + s)] \in Block /\ verified[Slot(L + s)].blockId = L + s
      BY <1>2, <1>4, <2>1
    <3>2. blocks' = [verified EXCEPT ![Slot(L + s)].verifiedTransitionId = p[s]]
      BY <1>7 DEF MarkVerified
    <3> HIDE DEF verified
    <3> QED BY <1>2, <1>4, <2>1, <3>1, <3>2 DEF Block
  <2>5. p[s] # 0
    BY <1>2, <2>1 DEF TransitionIds
  <2> QED BY <1>1, <1>2, <1>7, <2>1, <2>2, <2>3, <2>4, <2>5 DEF Synced, OnPath
<1> QED
  BY <1>6, <1>7 DEF RecordVerified

(* Every step keeps the synced block readable.                              *)
LEMMA NextSynced ==
  ASSUME RingHoldsSynced
  PROVE  IInv /\ SInv /\ [Next]_vars => SInv'
<1> SUFFICES ASSUME IInv, SInv, [Next]_vars PROVE SInv'
  OBVIOUS
<1>1. CASE LedgerUnchanged
  BY <1>1 DEF LedgerUnchanged, SInv, Synced
<1>2. ASSUME NEW n \in Nat, n >= numBlocks,
             n > numBlocks => n <= lastVerifiedBlockId + BlockMaxProposals + 1,
             VerifiesFrom(n)
      PROVE  SInv'
  <2>0. lastVerifiedBlockId \in Nat /\ numBlocks \in Nat
    BY BoundAssumption DEF IInv, CursorsTyped, BlockIds, Consistent, Typed
  <2>1. PICK b, t, ids, bal :
           /\ Consistent(b, t, ids, n) /\ Keeps(b, t, n)
           /\ numBlocks' = n /\ transitions' = t
           /\ RecordNothing(b, bal) \/ RecordsPath(b, t, ids, n, bal)
    BY <1>2, VerifyCases
  <2>2. n <= lastVerifiedBlockId + BlockMaxProposals + 1
    BY <1>2, <2>0 DEF SInv
  <2>3. Synced(b, t)
    BY <2>1, <2>2, SyncedKept
  <2>4. CASE RecordNothing(b, bal)
    BY <2>1, <2>2, <2>3, <2>4 DEF RecordNothing, SInv, Synced
  <2>5. CASE RecordsPath(b, t, ids, n, bal)
    <3>1. PICK k \in Nat \ {0} : \E p \in [1..k -> TransitionIds] :
                 FollowsChain(b, t, ids, n, k, p) /\ RecordVerified(b, t, bal, k, p)
      BY <2>5 DEF RecordsPath
    <3>2. PICK p \in [1..k -> TransitionIds] :
                 FollowsChain(b, t, ids, n, k, p) /\ RecordVerified(b, t, bal, k, p)
      BY <3>1
    <3>3. Synced(blocks, transitions)'
      BY <2>1, <2>3, <3>2, RecordSynced DEF IInv
    <3>4. numBlocks' <= lastVerifiedBlockId' + BlockMaxProposals + 1
      BY <2>0, <2>1, <2>2, <3>2, RingAssumption DEF RecordVerified
    <3> QED BY <3>3, <3>4 DEF SInv
  <2> QED BY <2>1, <2>4, <2>5
<1> QED
  BY <1>1, <1>2, StepKinds DEF LedgerStep

(* getLastSyncedBlock finds the synced block and the root given to the      *)
(* SignalService, however far later proposals reuse the ring, if it has room*)
(* for the blocks between two syncs (360000 >= 324000 + 16 on mainnet).     *)
THEOREM SyncedReadable ==
  ASSUME RingHoldsSynced
  PROVE  Spec => []SyncedBlockIsReadable
<1>1. SInv => SyncedBlockIsReadable
  BY DEF SInv, Synced, SyncedBlockIsReadable
<1> QED
  BY <1>1, InitSynced, NextSynced, Inductive, PTL DEF Spec

-----------------------------------------------------------------------------
(* The bonds the contract holds *)

(* The bonds of a transition are amounts.                                   *)
LEMMA BondsNat ==
  ASSUME NEW ts \in TransitionState
  PROVE  BondsOf(ts) \in Nat /\ ts.validityBond \in Nat /\ ts.contestBond \in Nat
  BY DEF TransitionState, BondsOf

(* The types a block and its transitions have for their bonds to add up.    *)
Holds(b, t) ==
  b \in [Slots -> Block] /\ t \in [Slots -> [TransitionIds -> TransitionState]]

TransitionBonds(b, t, id) ==
  [tid \in 1..(b[Slot(id)].nextTransitionId - 1) |-> BondsOf(t[Slot(id)][tid])]

(* What one block holds: the bonds of the transitions its id has handed     *)
(* out, and its liveness bond while it is due.                              *)
LEMMA LockedByNat ==
  ASSUME NEW b, NEW t, Holds(b, t), NEW id \in Nat
  PROVE  /\ LockedBy(b, t, id) =
              SumFunctionOnSet(TransitionBonds(b, t, id), 1..(b[Slot(id)].nextTransitionId - 1))
                + LivenessBondHeld(b[Slot(id)].livenessBondReturned)
         /\ IsFiniteSet(1..(b[Slot(id)].nextTransitionId - 1))
         /\ \A tid \in 1..(b[Slot(id)].nextTransitionId - 1) :
              TransitionBonds(b, t, id)[tid] \in Nat
         /\ SumFunctionOnSet(TransitionBonds(b, t, id), 1..(b[Slot(id)].nextTransitionId - 1)) \in Nat
         /\ LivenessBondHeld(b[Slot(id)].livenessBondReturned) \in Nat
         /\ LockedBy(b, t, id) \in Nat
<1> DEFINE blk == b[Slot(id)]
           T == 1..(blk.nextTransitionId - 1)
           f == TransitionBonds(b, t, id)
<1>1. Slot(id) \in Slots /\ blk \in Block
  BY SlotType DEF Holds
<1>2. blk.nextTransitionId \in 0..(MaxTransitionId + 1) /\ MaxTransitionId \in Nat
  BY <1>1, BoundAssumption DEF Block
<1>3. IsFiniteSet(T)
  BY <1>2, FS_Interval
<1>4. \A tid \in T : tid \in TransitionIds
  BY <1>2 DEF TransitionIds
<1>5. \A tid \in T : f[tid] \in Nat
  BY <1>1, <1>4, BondsNat DEF Holds, TransitionBonds
<1>6. SumFunctionOnSet(f, T) \in Nat
  <2> HIDE DEF f, T
  <2> QED BY <1>3, <1>5, SumNat
<1>7. LivenessBondHeld(blk.livenessBondReturned) \in Nat
  BY BoundAssumption DEF LivenessBondHeld
<1>8. DOMAIN f = T
  BY DEF TransitionBonds
<1>9. LockedBy(b, t, id) = SumFunctionOnSet(f, T) + LivenessBondHeld(blk.livenessBondReturned)
  BY <1>8 DEF LockedBy, SumFunction, TransitionBonds
<1> QED
  BY <1>3, <1>5, <1>6, <1>7, <1>9

(* What is locked by id, as one function to add up over sets of ids.        *)
Held(b, t) == [id \in Nat |-> LockedBy(b, t, id)]

(* What the unverified blocks hold, as a sum over the function Held,        *)
(* which does not depend on the range it is summed over.                    *)
LEMMA LockedSum ==
  ASSUME NEW l \in Nat, NEW n \in Nat, NEW b, NEW t, Holds(b, t)
  PROVE  /\ SumFunction([id \in (l + 1)..(n - 1) |-> LockedBy(b, t, id)])
              = SumFunctionOnSet(Held(b, t), (l + 1)..(n - 1))
         /\ \A id \in Nat : Held(b, t)[id] = LockedBy(b, t, id) /\ Held(b, t)[id] \in Nat
         /\ IsFiniteSet((l + 1)..(n - 1)) /\ (l + 1)..(n - 1) \subseteq Nat
         /\ SumFunctionOnSet(Held(b, t), (l + 1)..(n - 1)) \in Nat
<1> DEFINE I == (l + 1)..(n - 1)
           f == [id \in I |-> LockedBy(b, t, id)]
<1>1. \A id \in Nat : Held(b, t)[id] = LockedBy(b, t, id) /\ Held(b, t)[id] \in Nat
  BY LockedByNat DEF Held
<1>2. IsFiniteSet(I) /\ I \subseteq Nat
  BY FS_Interval
<1>3. \A id \in I : f[id] \in Int /\ Held(b, t)[id] = f[id]
  BY <1>1, <1>2
<1>4. SumFunction(f) = SumFunctionOnSet(f, I)
  BY DEF SumFunction
<1> HIDE DEF f, I
<1>5. SumFunctionOnSet(Held(b, t), I) = SumFunctionOnSet(f, I)
  BY <1>2, <1>3, SumCongruent
<1>6. SumFunctionOnSet(Held(b, t), I) \in Nat
  BY <1>1, <1>2, SumNat
<1> QED
  BY <1>1, <1>2, <1>4, <1>5, <1>6 DEF I, f

(* The balances are natural numbers and, with what is locked, within the    *)
(* Ether the contract has: of balances bal, blocks b, transitions t and n   *)
(* blocks with those up to l verified.                                      *)
LockedAfter(l, b, t, n) == SumFunctionOnSet(Held(b, t), (l + 1)..(n - 1))

Funded(l, b, t, n, bal) ==
  /\ bal \in [Users -> Nat] /\ ether \in Int
  /\ SumFunctionOnSet(bal, Users) + LockedAfter(l, b, t, n) <= ether

(* The balances of a finite set of users add up to an amount.               *)
LEMMA BalancesSum ==
  ASSUME NEW bal \in [Users -> Nat]
  PROVE  SumFunctionOnSet(bal, Users) \in Nat /\ SumFunction(bal) = SumFunctionOnSet(bal, Users)
<1>1. SumFunctionOnSet(bal, Users) \in Nat
  BY ValueAssumption, SumNat
<1> QED
  BY <1>1 DEF SumFunction

(* Verifying a path pays its provers no more than the verified blocks held. *)
LEMMA PathFunded ==
  ASSUME CursorsTyped, NEW b, NEW t, NEW ids, NEW n, NEW k \in Nat \ {0},
         NEW p \in [1..k -> TransitionIds], NEW bal,
         Consistent(b, t, ids, n), FollowsChain(b, t, ids, n, k, p),
         Funded(lastVerifiedBlockId, b, t, n, bal)
  PROVE  Funded(lastVerifiedBlockId + k, b, t, n, CreditProvers(t, bal, k, p))
<1> DEFINE L == lastVerifiedBlockId
           H == Held(b, t)
           worth == [i \in 1..k |-> OnPath(t, p, i).validityBond]
           owner == [i \in 1..k |-> OnPath(t, p, i).prover]
           held == [i \in 1..k |-> H[L + i]]
           paid == CreditProvers(t, bal, k, p)
<1>1. L \in Nat /\ n \in Nat /\ Holds(b, t) /\ bal \in [Users -> Nat]
  BY BoundAssumption DEF CursorsTyped, BlockIds, Consistent, Typed, Holds, Funded
<1>2. IsFiniteSet(1..k) /\ L + k < n
  <2>1. k \in 1..k
    OBVIOUS
  <2> QED BY <2>1, FS_Interval DEF FollowsChain
<1>3. /\ \A id \in Nat : H[id] = LockedBy(b, t, id) /\ H[id] \in Nat
      /\ SumFunctionOnSet(H, (L + 1)..(n - 1)) \in Nat
      /\ SumFunctionOnSet(H, (L + k + 1)..(n - 1)) \in Nat
  <2>1. L + k \in Nat
    BY <1>1
  <2> DEFINE M == L + k
  <2> HIDE DEF L, M
  <2>2. SumFunctionOnSet(H, (M + 1)..(n - 1)) \in Nat
    BY <1>1, <2>1, LockedSum DEF M
  <2> QED BY <1>1, <2>2, LockedSum DEF M
<1>4. ASSUME NEW i \in 1..k
      PROVE  worth[i] \in Nat /\ held[i] \in Nat /\ worth[i] <= held[i]
  <2> DEFINE T == 1..(b[Slot(L + i)].nextTransitionId - 1)
             f == TransitionBonds(b, t, L + i)
  <2>1. p[i] \in T
    BY PathIsRecorded
  <2>2. /\ IsFiniteSet(T) /\ \A tid \in T : f[tid] \in Nat
        /\ SumFunctionOnSet(f, T) \in Nat
        /\ SumFunctionOnSet(f, T) <= LockedBy(b, t, L + i)
    <3>1. L + i \in Nat
      BY <1>1
    <3>2. /\ LockedBy(b, t, L + i) = SumFunctionOnSet(f, T)
                + LivenessBondHeld(b[Slot(L + i)].livenessBondReturned)
          /\ IsFiniteSet(T)
          /\ \A tid \in T : f[tid] \in Nat
          /\ SumFunctionOnSet(f, T) \in Nat
          /\ LivenessBondHeld(b[Slot(L + i)].livenessBondReturned) \in Nat
      BY <1>1, <3>1, LockedByNat
    <3> QED BY <3>2
  <2>3. f[p[i]] = BondsOf(OnPath(t, p, i)) /\ OnPath(t, p, i) \in TransitionState
    <3>1. f[p[i]] = BondsOf(OnPath(t, p, i))
      BY <2>1 DEF TransitionBonds, OnPath
    <3>2. Slot(L + i) \in Slots
      BY <1>1, SlotType
    <3> QED BY <1>1, <3>1, <3>2 DEF OnPath, Holds
  <2>4. worth[i] <= f[p[i]] /\ worth[i] \in Nat
    BY <2>3, BondsNat, ValueAssumption DEF BondsOf
  <2>5. f[p[i]] <= SumFunctionOnSet(f, T)
    <3>0. f[p[i]] \in Int
      BY <2>1, <2>2
    <3> HIDE DEF f, T
    <3>1. SumFunctionOnSet(f, {p[i]}) = f[p[i]]
      BY <3>0, SumSingleton
    <3>2. SumFunctionOnSet(f, {p[i]}) <= SumFunctionOnSet(f, T)
      BY <2>1, <2>2, SumSubset
    <3> QED BY <3>1, <3>2
  <2>6. held[i] = LockedBy(b, t, L + i) /\ held[i] \in Nat
    BY <1>1, <1>3
  <2> HIDE DEF f, T, worth, held
  <2> QED BY <2>1, <2>2, <2>4, <2>5, <2>6
<1>5. SumFunctionOnSet(worth, 1..k) <= SumFunctionOnSet(held, 1..k)
  <2> HIDE DEF worth, held
  <2> QED BY <1>2, <1>4, SumMonotonic
<1>6. SumFunctionOnSet(H, (L + 1)..(L + k)) = SumFunctionOnSet(held, 1..k)
  <2>1. \A i \in 1..k : held[i] \in Int /\ H[L + i] = held[i]
    BY <1>4
  <2>2. L \in Int /\ k \in Nat
    BY <1>1
  <2> HIDE DEF H, held, L
  <2> QED BY <2>1, <2>2, SumShift, Zenon
<1>7. SumFunctionOnSet(H, (L + 1)..(n - 1))
        = SumFunctionOnSet(H, (L + 1)..(L + k)) + SumFunctionOnSet(H, (L + k + 1)..(n - 1))
  <2> DEFINE a == L + 1
             m == L + k + 1
             e == n - 1
  <2>1. /\ a \in Int /\ m \in Int /\ e \in Int /\ a <= m /\ m <= e + 1
        /\ m - 1 = L + k /\ \A id \in a..e : H[id] \in Int
    BY <1>1, <1>2, <1>3
  <2> HIDE DEF L, H, a, m, e
  <2>2. SumFunctionOnSet(H, a..e) = SumFunctionOnSet(H, a..(m - 1)) + SumFunctionOnSet(H, m..e)
    BY <2>1, SumSplit
  <2>3. SumFunctionOnSet(H, a..e) = SumFunctionOnSet(H, a..(L + k)) + SumFunctionOnSet(H, m..e)
    BY <2>1, <2>2, Zenon
  <2> QED BY <2>3 DEF a, m, e
<1>8. ASSUME NEW u \in Users
      PROVE  paid[u] = bal[u] + SumFunctionOnSet(worth, {i \in 1..k : owner[i] = u})
  <2>1. {i \in 1..k : owner[i] = u} = {i \in 1..k : OnPath(t, p, i).prover = u}
    OBVIOUS
  <2>2. paid[u] = bal[u] + SumFunctionOnSet(worth, {i \in 1..k : OnPath(t, p, i).prover = u})
    BY DEF CreditProvers
  <2> HIDE DEF worth, owner, paid
  <2> QED BY <2>1, <2>2, Zenon
<1>9. SumFunctionOnSet(paid, Users)
        <= SumFunctionOnSet(bal, Users) + SumFunctionOnSet(worth, 1..k)
  <2>1. \A u \in Users : bal[u] \in Int
    BY <1>1
  <2>2. \A i \in 1..k : worth[i] \in Nat
    BY <1>4
  <2>3. IsFiniteSet(Users)
    BY ValueAssumption
  <2>4. PaidFor(Users, bal, paid, 1..k, worth, owner)
    <3> HIDE DEF worth, owner, paid
    <3> QED BY <1>8, <2>1, Zenon DEF PaidFor
  <2> HIDE DEF worth, owner, paid
  <2> QED BY <1>2, <2>2, <2>3, <2>4, SumPaid, Zenon
<1>10. paid \in [Users -> Nat]
  <2>1. ASSUME NEW u \in Users PROVE paid[u] \in Nat
    <3> DEFINE mine == {i \in 1..k : owner[i] = u}
    <3>1. mine \subseteq 1..k
      OBVIOUS
    <3>0. paid[u] = bal[u] + SumFunctionOnSet(worth, mine)
      BY <1>8
    <3> HIDE DEF mine, worth, paid
    <3>2. IsFiniteSet(mine) /\ \A i \in mine : worth[i] \in Nat
      BY <1>2, <1>4, <3>1, FS_Subset
    <3>3. SumFunctionOnSet(worth, mine) \in Nat
      BY <3>2, SumNat
    <3> QED BY <1>1, <3>0, <3>3
  <2> QED BY <2>1 DEF CreditProvers
<1>11. /\ SumFunctionOnSet(paid, Users) \in Nat /\ SumFunctionOnSet(bal, Users) \in Nat
       /\ SumFunctionOnSet(worth, 1..k) \in Nat /\ SumFunctionOnSet(held, 1..k) \in Nat
  <2>1. SumFunctionOnSet(paid, Users) \in Nat /\ SumFunctionOnSet(bal, Users) \in Nat
    BY <1>1, <1>10, BalancesSum
  <2> HIDE DEF worth, held
  <2> QED BY <1>2, <1>4, <2>1, SumNat
<1>12. SumFunctionOnSet(bal, Users) + SumFunctionOnSet(H, (L + 1)..(n - 1)) <= ether
  BY DEF Funded, LockedAfter
<1>13. SumFunctionOnSet(paid, Users) + SumFunctionOnSet(H, (L + k + 1)..(n - 1)) <= ether
  <2> HIDE DEF paid, H, worth, held, L
  <2> QED BY <1>3, <1>5, <1>6, <1>7, <1>9, <1>11, <1>12 DEF Funded
<1> QED
  BY <1>10, <1>13 DEF Funded, LockedAfter

(* A transaction verifies from funded blocks, or does not verify.           *)
BInv == Funded(lastVerifiedBlockId, blocks, transitions, numBlocks, bondBalance)

(* From a funded state the verification of any path, or none, leaves the    *)
(* contract funded.                                                         *)
LEMMA VerifyFunded ==
  ASSUME CursorsTyped, NEW b, NEW t, NEW ids, NEW n, NEW bal, NEW limit \in Nat,
         Consistent(b, t, ids, n), Funded(lastVerifiedBlockId, b, t, n, bal),
         Verify(b, t, ids, n, bal, limit) \/ DoNotVerify(b, t, ids, n, bal),
         ether' = ether
  PROVE  BInv'
<1>0. numBlocks' = n /\ transitions' = t
  BY DEF Verify, DoNotVerify
<1>1. CASE RecordNothing(b, bal)
  BY <1>0, <1>1 DEF RecordNothing, BInv, Funded, LockedAfter
<1>2. ASSUME NEW k \in Nat \ {0}, NEW p \in [1..k -> TransitionIds],
             FollowsChain(b, t, ids, n, k, p), RecordVerified(b, t, bal, k, p)
      PROVE  BInv'
  <2>1. Funded(lastVerifiedBlockId + k, b, t, n, CreditProvers(t, bal, k, p))
    BY <1>2, PathFunded
  <2>2. /\ lastVerifiedBlockId' = lastVerifiedBlockId + k
        /\ bondBalance' = CreditProvers(t, bal, k, p)
    BY <1>2 DEF RecordVerified
  <2>3. Held(blocks', t) = Held(b, t)
    <3>1. \A s \in Slots : /\ blocks'[s].nextTransitionId = b[s].nextTransitionId
                           /\ blocks'[s].livenessBondReturned = b[s].livenessBondReturned
      BY <1>2, RecordBlocks DEF Consistent
    <3>2. ASSUME NEW id \in Nat PROVE LockedBy(blocks', t, id) = LockedBy(b, t, id)
      BY <3>1, SlotType DEF LockedBy
    <3> QED BY <3>2 DEF Held
  <2> QED BY <1>0, <2>1, <2>2, <2>3 DEF BInv, Funded, LockedAfter
<1> QED
  BY <1>1, <1>2 DEF Verify, DoNotVerify

-----------------------------------------------------------------------------
(* Proposals *)

(* A batch locks the liveness bonds that its proposer pays.                 *)
LEMMA ProposalFunded ==
  ASSUME IInv, BInv,
         NEW proposer \in Users, NEW size \in 1..MaxBatch, NEW batch \in [1..size -> BatchParams],
         numBlocks + size - 1 <= MaxBlockId,
         numBlocks + size <= lastVerifiedBlockId + BlockMaxProposals + 1,
         bondBalance[proposer] >= size * LivenessBond
  PROVE  Funded(lastVerifiedBlockId, StoreBatch(proposer, size, batch), transitions, numBlocks + size,
                [bondBalance EXCEPT ![proposer] = @ - size * LivenessBond])
<1> DEFINE b == StoreBatch(proposer, size, batch)
           L == lastVerifiedBlockId
           n == numBlocks + size
           paid == [bondBalance EXCEPT ![proposer] = @ - size * LivenessBond]
           old == Held(blocks, transitions)
           new == Held(b, transitions)
<1>1. L \in Nat /\ numBlocks \in Nat \ {0} /\ size \in Nat \ {0} /\ n \in Nat /\ L < numBlocks
  BY SMTT(40), BoundAssumption, BatchAssumption DEF IInv, CursorsTyped, BlockIds, Consistent, Typed, Ring
<1>2. BatchStored(b, size)
  BY SMTT(20), <1>1, StoreBatchFacts DEF IInv, Consistent
<1>3. Holds(blocks, transitions) /\ Holds(b, transitions)
  BY <1>2 DEF IInv, Consistent, Typed, Holds, BatchStored
<1>4. /\ \A id \in Nat : old[id] = LockedBy(blocks, transitions, id) /\ old[id] \in Nat
      /\ SumFunctionOnSet(old, (L + 1)..(numBlocks - 1)) \in Nat
  BY <1>1, <1>3, LockedSum
<1>5. /\ \A id \in Nat : new[id] = LockedBy(b, transitions, id) /\ new[id] \in Nat
  BY <1>1, <1>3, LockedSum
<1>6. SumFunctionOnSet(new, (L + 1)..(numBlocks - 1)) = SumFunctionOnSet(old, (L + 1)..(numBlocks - 1))
  <2>1. ASSUME NEW id \in (L + 1)..(numBlocks - 1) PROVE old[id] \in Int /\ new[id] = old[id]
    <3>1. b[Slot(id)] = blocks[Slot(id)] /\ id \in Nat
      BY <1>1, <1>2 DEF BatchStored
    <3> HIDE DEF b
    <3>2. LockedBy(b, transitions, id) = LockedBy(blocks, transitions, id)
      BY <3>1, Zenon DEF LockedBy
    <3> QED BY <1>4, <1>5, <3>1, <3>2
  <2>2. IsFiniteSet((L + 1)..(numBlocks - 1))
    BY <1>1, FS_Interval
  <2> HIDE DEF old, new, L
  <2> QED BY <2>1, <2>2, SumCongruent
<1>7. SumFunctionOnSet(new, numBlocks..(numBlocks + size - 1)) = size * LivenessBond
  <2>1. ASSUME NEW id \in numBlocks..(numBlocks + size - 1) PROVE new[id] = LivenessBond
    <3>1. b[Slot(id)].nextTransitionId = 1 /\ ~b[Slot(id)].livenessBondReturned /\ id \in Nat
      BY <1>1, <1>2 DEF BatchStored
    <3> DEFINE f == TransitionBonds(b, transitions, id)
    <3>2. LockedBy(b, transitions, id) =
            SumFunctionOnSet(f, 1..(b[Slot(id)].nextTransitionId - 1))
              + LivenessBondHeld(b[Slot(id)].livenessBondReturned)
      BY <1>3, <3>1, LockedByNat
    <3>3. 1..(b[Slot(id)].nextTransitionId - 1) = {}
      BY <3>1
    <3> HIDE DEF f, b
    <3>4. LockedBy(b, transitions, id) = 0 + LivenessBond
      BY <3>1, <3>2, <3>3, SumEmpty, Zenon DEF LivenessBondHeld
    <3> QED BY <1>5, <3>1, <3>4, BoundAssumption
  <2>2. numBlocks \in Int /\ size \in Nat /\ LivenessBond \in Int
    BY <1>1, BoundAssumption
  <2> DEFINE e == numBlocks + size - 1
  <2> HIDE DEF new
  <2>3. /\ numBlocks <= e + 1 /\ e \in Int /\ e + 1 - numBlocks = size
        /\ \A id \in numBlocks..e : new[id] = LivenessBond
    BY <1>1, <2>1
  <2> HIDE DEF e
  <2>4. SumFunctionOnSet(new, numBlocks..e) = (e + 1 - numBlocks) * LivenessBond
    BY <2>2, <2>3, SumConstant, BoundAssumption
  <2> QED BY <2>3, <2>4, Zenon DEF e
<1>8. SumFunctionOnSet(new, (L + 1)..(n - 1))
        = SumFunctionOnSet(new, (L + 1)..(numBlocks - 1))
            + SumFunctionOnSet(new, numBlocks..(numBlocks + size - 1))
  <2> DEFINE a == L + 1
             e == n - 1
  <2> HIDE DEF new
  <2>1. /\ a \in Int /\ numBlocks \in Int /\ e \in Int /\ a <= numBlocks /\ numBlocks <= e + 1
        /\ \A id \in a..e : new[id] \in Int
    BY <1>1, <1>5
  <2>2. e = numBlocks + size - 1
    BY <1>1
  <2> HIDE DEF L, n, a, e
  <2>3. SumFunctionOnSet(new, a..e)
          = SumFunctionOnSet(new, a..(numBlocks - 1)) + SumFunctionOnSet(new, numBlocks..e)
    BY <2>1, SumSplit
  <2>4. SumFunctionOnSet(new, numBlocks..e)
          = SumFunctionOnSet(new, numBlocks..(numBlocks + size - 1))
    BY <2>2, Zenon
  <2> QED BY <2>3, <2>4 DEF a, e
<1>9. /\ paid \in [Users -> Nat]
      /\ SumFunctionOnSet(paid, Users) = SumFunctionOnSet(bondBalance, Users) - size * LivenessBond
  <2> DEFINE bond == size * LivenessBond
  <2>1. bond \in Nat /\ bondBalance \in [Users -> Nat] /\ IsFiniteSet(Users)
    BY <1>1, BoundAssumption, ValueAssumption DEF BInv, Funded
  <2>2. bondBalance[proposer] >= bond
    OBVIOUS
  <2>3. paid = [bondBalance EXCEPT ![proposer] = @ - bond]
    OBVIOUS
  <2> HIDE DEF bond, paid
  <2>4. /\ paid \in [Users -> Nat] /\ paid[proposer] = bondBalance[proposer] - bond
        /\ \A u \in Users \ {proposer} : paid[u] = bondBalance[u]
    BY <2>1, <2>2, <2>3
  <2>5. SumFunctionOnSet(paid, Users)
          = SumFunctionOnSet(bondBalance, Users) + paid[proposer] - bondBalance[proposer]
    <3>1. \A u \in Users : bondBalance[u] \in Int /\ paid[u] \in Int
      BY <2>1, <2>4
    <3>2. Updates(bondBalance, paid, Users, proposer)
      BY <2>1, <2>4, <3>1 DEF Updates
    <3> QED BY <3>2, SumUpdate
  <2>6. SumFunctionOnSet(bondBalance, Users) \in Nat /\ bondBalance[proposer] \in Nat
    BY <2>1, BalancesSum
  <2> QED BY <2>1, <2>4, <2>5, <2>6 DEF bond
<1>10. SumFunctionOnSet(bondBalance, Users) + SumFunctionOnSet(old, (L + 1)..(numBlocks - 1)) <= ether
  BY DEF BInv, Funded, LockedAfter
<1>11. SumFunctionOnSet(paid, Users) + SumFunctionOnSet(new, (L + 1)..(n - 1)) <= ether
  <2>1. SumFunctionOnSet(bondBalance, Users) \in Nat /\ ether \in Int /\ size * LivenessBond \in Nat
    BY <1>1, BoundAssumption, BalancesSum DEF BInv, Funded
  <2> HIDE DEF paid, new, old, L, n
  <2> QED BY <1>4, <1>6, <1>7, <1>8, <1>9, <1>10, <2>1
<1> QED
  BY <1>9, <1>11 DEF Funded, LockedAfter, BInv

-----------------------------------------------------------------------------
(* Proofs and contests *)

(* A proof or contest is affordable that takes, of the balances and of what *)
(* the block and its transition hold, no more than it leaves.               *)
Affordable(x, new, returned, bal) ==
  /\ bal \in [Users -> Nat]
  /\ SumFunctionOnSet(bal, Users) + BondsOf(new) + LivenessBondHeld(returned)
       <= SumFunctionOnSet(bondBalance, Users) + BondsOf(Ts(x))
            + LivenessBondHeld(Blk(x).livenessBondReturned)

(* What storing a transition does to the bonds its block holds.             *)
LEMMA StoreLocks ==
  ASSUME IInv, NEW x \in Submissions, IsAdmissible(x, Ts(x)),
         NEW stored \in TransitionState, NEW returned \in BOOLEAN,
         NEW b, NEW t, Holds(b, t), StoredAs(x, stored, returned, b, t)
  PROVE  LockedBy(b, t, x.id)
           = LockedBy(blocks, transitions, x.id) + BondsOf(stored) - BondsOf(Ts(x))
               + LivenessBondHeld(returned) - LivenessBondHeld(Blk(x).livenessBondReturned)
<1> DEFINE slot == Slot(x.id)
           N == blocks[slot].nextTransitionId
           M == b[slot].nextTransitionId
           T == 1..(N - 1)
           f == TransitionBonds(blocks, transitions, x.id)
           g == TransitionBonds(b, t, x.id)
<1>1. /\ x.id \in Nat /\ slot \in Slots /\ Tid(x) \in TransitionIds
      /\ Found(x) = 0 => Tid(x) = N
      /\ Found(x) # 0 => Tid(x) \in T
      /\ Ts(x) \in TransitionState
  BY SubmissionFacts DEF Blk
<1>2. Holds(blocks, transitions) /\ N \in 0..(MaxTransitionId + 1)
  BY <1>1 DEF IInv, Consistent, Typed, Holds, Block
<1>3. /\ LockedBy(blocks, transitions, x.id)
           = SumFunctionOnSet(f, T) + LivenessBondHeld(blocks[slot].livenessBondReturned)
      /\ IsFiniteSet(T) /\ \A tid \in T : f[tid] \in Nat
      /\ SumFunctionOnSet(f, T) \in Nat
      /\ LivenessBondHeld(blocks[slot].livenessBondReturned) \in Nat
  BY <1>1, <1>2, LockedByNat
<1>4. /\ LockedBy(b, t, x.id)
           = SumFunctionOnSet(g, 1..(M - 1)) + LivenessBondHeld(b[slot].livenessBondReturned)
      /\ \A tid \in 1..(M - 1) : g[tid] \in Nat
      /\ LivenessBondHeld(b[slot].livenessBondReturned) \in Nat
  BY <1>1, LockedByNat
<1>5. /\ b[slot].livenessBondReturned = returned
      /\ M = IF Found(x) = 0 THEN N + 1 ELSE N
      /\ \A tid \in TransitionIds :
           t[slot][tid] = IF tid = Tid(x) THEN stored ELSE transitions[slot][tid]
  BY DEF StoredAs
<1>6. /\ \A tid \in T : tid \in TransitionIds /\ f[tid] = BondsOf(transitions[slot][tid])
      /\ \A tid \in 1..(M - 1) : g[tid] = BondsOf(t[slot][tid])
  BY SMTT(30), <1>2, BoundAssumption DEF TransitionBonds, TransitionIds
<1>7. BondsOf(stored) \in Nat /\ BondsOf(Ts(x)) \in Nat
  BY <1>1, BondsNat
<1> HIDE DEF f, g, slot
<1>8. SumFunctionOnSet(g, 1..(M - 1)) = SumFunctionOnSet(f, T) + BondsOf(stored) - BondsOf(Ts(x))
  <2>1. CASE Found(x) # 0
    <3>1. M = N /\ Tid(x) \in T
      BY <1>1, <1>5, <2>1
    <3>2. f[Tid(x)] = BondsOf(Ts(x)) /\ g[Tid(x)] = BondsOf(stored)
      <4>1. Ts(x) = transitions[slot][Tid(x)]
        BY <2>1 DEF Ts, slot
      <4> QED BY <1>1, <1>5, <1>6, <3>1, <4>1
    <3>3. \A tid \in T : f[tid] \in Int /\ g[tid] \in Int
      BY <1>3, <1>4, <3>1
    <3>4. \A tid \in T \ {Tid(x)} : g[tid] = f[tid]
      BY <1>5, <1>6, <3>1
    <3>5. 1..(M - 1) = T
      BY <3>1
    <3> HIDE DEF T, M, N
    <3>6. SumFunctionOnSet(g, T) = SumFunctionOnSet(f, T) + g[Tid(x)] - f[Tid(x)]
      <4>1. Updates(f, g, T, Tid(x))
        BY <1>3, <3>1, <3>3, <3>4 DEF Updates
      <4> QED BY <4>1, SumUpdate
    <3>7. SumFunctionOnSet(g, 1..(M - 1)) = SumFunctionOnSet(g, T)
      BY <3>5, Zenon
    <3> QED BY <3>2, <3>6, <3>7
  <2>2. CASE Found(x) = 0
    <3>1. Tid(x) = N /\ N \in Nat \ {0} /\ M = N + 1
      BY <1>1, <1>2, <1>5, <2>2, BoundAssumption DEF TransitionIds
    <3>2. /\ 1..(M - 1) = T \cup {Tid(x)} /\ Tid(x) \notin T
      BY <3>1
    <3>3. g[Tid(x)] = BondsOf(stored)
      BY <1>1, <1>5, <1>6, <3>1
    <3>4. \A tid \in T : f[tid] \in Int /\ g[tid] = f[tid]
      BY SMTT(30), <1>3, <1>5, <1>6, <3>1
    <3>5. BondsOf(Ts(x)) = 0
      BY <2>2 DEF Ts, TierZero, EmptyTransition, BondsOf
    <3>6. \A tid \in T \cup {Tid(x)} : g[tid] \in Int
      BY <1>4, <3>2
    <3> HIDE DEF T, M, N
    <3>7. SumFunctionOnSet(g, T) = SumFunctionOnSet(f, T)
      BY <1>3, <3>4, SumCongruent
    <3>8. SumFunctionOnSet(g, T \cup {Tid(x)}) = g[Tid(x)] + SumFunctionOnSet(g, T)
      BY <1>3, <3>2, <3>6, SumInsert
    <3>9. SumFunctionOnSet(g, 1..(M - 1)) = g[Tid(x)] + SumFunctionOnSet(g, T)
      BY <3>2, <3>8, Zenon
    <3> QED BY <1>3, <1>7, <3>3, <3>5, <3>7, <3>9
  <2> QED BY <2>1, <2>2
<1>9. Blk(x) = blocks[slot]
  BY DEF Blk, slot
<1> HIDE DEF T, M, N
<1> QED
  BY <1>3, <1>4, <1>5, <1>7, <1>8, <1>9

(* Storing a transition that is affordable leaves the contract funded.      *)
LEMMA StoreFunded ==
  ASSUME IInv, BInv, NEW x \in Submissions, IsAdmissible(x, Ts(x)),
         NEW new, MayStore(x, new), NEW returned \in BOOLEAN, NEW bal,
         Affordable(x, new, returned, bal)
  PROVE  Funded(lastVerifiedBlockId, StoredBlocks(x, returned), StoredTransitions(x, new),
                numBlocks, bal)
<1> DEFINE b == StoredBlocks(x, returned)
           t == StoredTransitions(x, new)
           Ids == (lastVerifiedBlockId + 1)..(numBlocks - 1)
           before == Held(blocks, transitions)
           after == Held(b, t)
<1>1. PICK stored \in TransitionState :
        BondsOf(stored) = BondsOf(new) /\ StoredAs(x, stored, returned, b, t)
  BY StoreFacts
<1> HIDE DEF b, t
<1>2. Holds(blocks, transitions) /\ Holds(b, t) /\ lastVerifiedBlockId \in Nat /\ numBlocks \in Nat
  BY <1>1, BoundAssumption
     DEF IInv, CursorsTyped, BlockIds, Consistent, Typed, Holds, StoredAs
<1>3. /\ \A id \in Nat : before[id] = LockedBy(blocks, transitions, id) /\ before[id] \in Nat
      /\ IsFiniteSet(Ids) /\ Ids \subseteq Nat
      /\ SumFunctionOnSet(before, Ids) \in Nat
  BY <1>2, LockedSum
<1>4. \A id \in Nat : after[id] = LockedBy(b, t, id) /\ after[id] \in Nat
  BY <1>2, LockedSum
<1>5. x.id \in Ids /\ Blk(x).blockId = x.id /\ Slot(x.id) \in Slots /\ Ts(x) \in TransitionState
  BY SubmissionFacts
<1>6. ASSUME NEW id \in Ids \ {x.id} PROVE after[id] = before[id]
  <2>1. blocks[Slot(id)].blockId = id
    BY <1>2 DEF IInv, Consistent, Ring
  <2>2. Slot(id) \in Slots /\ Slot(id) # Slot(x.id) /\ id \in Nat
    BY <1>3, <1>5, <2>1, SlotType DEF Blk
  <2>3. b[Slot(id)] = blocks[Slot(id)] /\ t[Slot(id)] = transitions[Slot(id)]
    BY <1>1, <2>2 DEF StoredAs
  <2>4. LockedBy(b, t, id) = LockedBy(blocks, transitions, id)
    BY <2>3, Zenon DEF LockedBy
  <2> QED BY <1>3, <1>4, <2>2, <2>4
<1>7. after[x.id] = before[x.id] + BondsOf(new) - BondsOf(Ts(x))
         + LivenessBondHeld(returned) - LivenessBondHeld(Blk(x).livenessBondReturned)
  <2>1. LockedBy(b, t, x.id)
           = LockedBy(blocks, transitions, x.id) + BondsOf(stored) - BondsOf(Ts(x))
               + LivenessBondHeld(returned) - LivenessBondHeld(Blk(x).livenessBondReturned)
    BY <1>1, <1>2, StoreLocks
  <2>2. x.id \in Nat
    BY <1>3, <1>5
  <2> HIDE DEF before, after
  <2> QED BY <1>1, <1>3, <1>4, <2>1, <2>2
<1> HIDE DEF before, after, Ids
<1>8. SumFunctionOnSet(after, Ids) = SumFunctionOnSet(before, Ids) + after[x.id] - before[x.id]
  <2>1. \A id \in Ids : before[id] \in Int /\ after[id] \in Int
    BY <1>3, <1>4
  <2>2. IsFiniteSet(Ids) /\ x.id \in Ids
    BY <1>3, <1>5
  <2>3. \A id \in Ids \ {x.id} : after[id] = before[id]
    BY <1>6
  <2>4. Updates(before, after, Ids, x.id)
    BY <2>1, <2>2, <2>3, Zenon DEF Updates
  <2> QED BY <2>4, SumUpdate
<1>9. /\ before[x.id] \in Nat /\ BondsOf(new) \in Nat /\ BondsOf(Ts(x)) \in Nat
      /\ LivenessBondHeld(returned) \in Nat
      /\ LivenessBondHeld(Blk(x).livenessBondReturned) \in Nat
  BY <1>1, <1>3, <1>5, BondsNat, BoundAssumption DEF LivenessBondHeld
<1>10. /\ SumFunctionOnSet(bal, Users) \in Nat /\ SumFunctionOnSet(bondBalance, Users) \in Nat
       /\ ether \in Int
  BY BalancesSum DEF Affordable, BInv, Funded
<1>11. /\ SumFunctionOnSet(bondBalance, Users) + SumFunctionOnSet(before, Ids) <= ether
       /\ SumFunctionOnSet(bal, Users) + BondsOf(new) + LivenessBondHeld(returned)
            <= SumFunctionOnSet(bondBalance, Users) + BondsOf(Ts(x))
                 + LivenessBondHeld(Blk(x).livenessBondReturned)
  BY DEF BInv, Funded, LockedAfter, Affordable, before, Ids
<1>12. SumFunctionOnSet(bal, Users) + SumFunctionOnSet(after, Ids) <= ether
  BY <1>3, <1>7, <1>8, <1>9, <1>10, <1>11
<1> QED
  BY <1>12 DEF Funded, LockedAfter, after, Ids, b, t, BInv, Affordable

(* Crediting one balance, or settling a proof with the sender's, adds to the*)
(* sum of the balances what it says; a reward after friction is no greater. *)
LEMMA CreditSum ==
  ASSUME NEW bal \in [Users -> Nat], NEW user, NEW amount \in Nat
  PROVE  /\ Credit(bal, user, amount) \in [Users -> Nat]
         /\ SumFunctionOnSet(Credit(bal, user, amount), Users)
              <= SumFunctionOnSet(bal, Users) + amount
<1> DEFINE new == Credit(bal, user, amount)
<1>0. new = [u \in Users |-> IF u = user THEN bal[u] + amount ELSE bal[u]]
  BY DEF Credit
<1>1. /\ new \in [Users -> Nat]
      /\ \A u \in Users : new[u] = IF u = user THEN bal[u] + amount ELSE bal[u]
  <2> HIDE DEF new
  <2> QED BY <1>0
<1>2. SumFunctionOnSet(bal, Users) \in Nat /\ IsFiniteSet(Users)
  BY BalancesSum, ValueAssumption
<1> HIDE DEF new
<1>3. CASE user \in Users
  <2>1. Updates(bal, new, Users, user)
    BY <1>1, <1>2, <1>3 DEF Updates
  <2>2. SumFunctionOnSet(new, Users) = SumFunctionOnSet(bal, Users) + new[user] - bal[user]
    BY <2>1, SumUpdate
  <2>3. new[user] = bal[user] + amount /\ bal[user] \in Nat
    BY <1>1, <1>3
  <2> QED BY <1>1, <1>2, <2>2, <2>3 DEF new
<1>4. CASE user \notin Users
  <2>1. new = bal
    BY <1>1, <1>4
  <2> QED BY <1>1, <1>2, <2>1 DEF new
<1> QED
  BY <1>3, <1>4

(* Crediting a reward and taking a bond from the sender of a proof          *)
(* changes the balances by their difference.                                *)
LEMMA SettleSum ==
  ASSUME NEW bal \in [Users -> Nat], NEW sender \in Users, NEW reward \in Nat, NEW bond \in Nat,
         bal[sender] + reward >= bond
  PROVE  /\ Settle(bal, sender, reward, bond) \in [Users -> Nat]
         /\ SumFunctionOnSet(Settle(bal, sender, reward, bond), Users)
              = SumFunctionOnSet(bal, Users) + reward - bond
<1> DEFINE new == Settle(bal, sender, reward, bond)
<1>1. /\ new \in [Users -> Nat] /\ bal[sender] \in Nat
      /\ \A u \in Users : new[u] = IF u = sender THEN bal[u] + reward - bond ELSE bal[u]
  BY DEF Settle
<1>2. SumFunctionOnSet(bal, Users) \in Nat /\ IsFiniteSet(Users)
  BY BalancesSum, ValueAssumption
<1> HIDE DEF new
<1>3. Updates(bal, new, Users, sender)
  BY <1>1, <1>2 DEF Updates
<1>4. SumFunctionOnSet(new, Users) = SumFunctionOnSet(bal, Users) + new[sender] - bal[sender]
  BY <1>3, SumUpdate
<1> QED
  BY <1>1, <1>2, <1>4 DEF new

(* A reward after friction is no more than the amount it is cut from.       *)
LEMMA RewardBound ==
  ASSUME NEW amount \in Nat
  PROVE  RewardAfterFriction(amount) \in Nat /\ RewardAfterFriction(amount) <= amount
  BY DEF RewardAfterFriction

(* Four quarters, each rounded down, are no more than the whole.            *)
LEMMA QuarterBound ==
  ASSUME NEW a \in Nat
  PROVE  a \div 4 \in Nat /\ 4 * (a \div 4) <= a
  OBVIOUS

(* What a branch of _proveBlock finds.                                      *)
LEMMA BranchFacts ==
  ASSUME IInv, BInv, NEW x \in Submissions, IsAdmissible(x, Ts(x))
  PROVE  /\ x.sender \in Users
         /\ Tier[x.tier].validityBond \in Nat /\ Tier[x.tier].contestBond \in Nat
         /\ Ts(x).validityBond \in Nat /\ Ts(x).contestBond \in Nat
         /\ LivenessBondDue(x) \in Nat
         /\ LivenessBondDue(x) = LivenessBondHeld(Blk(x).livenessBondReturned)
         /\ bondBalance \in [Users -> Nat]
         /\ SumFunctionOnSet(bondBalance, Users) \in Nat
         /\ BondsOf(Overridden(x, Ts(x))) = Tier[x.tier].validityBond
<1>1. Ts(x) \in TransitionState
  BY SubmissionFacts
<1>2. bondBalance \in [Users -> Nat]
  BY DEF BInv, Funded
<1>3. /\ x.sender \in Users
      /\ Tier[x.tier].validityBond \in Nat /\ Tier[x.tier].contestBond \in Nat
  BY SubmissionTypes
<1>4. /\ LivenessBondDue(x) \in Nat
      /\ LivenessBondDue(x) = LivenessBondHeld(Blk(x).livenessBondReturned)
  BY BoundAssumption DEF LivenessBondDue, LivenessBondHeld
<1>5. BondsOf(Overridden(x, Ts(x))) = Tier[x.tier].validityBond
  <2>1. /\ Overridden(x, Ts(x)).validityBond = Tier[x.tier].validityBond
        /\ Overridden(x, Ts(x)).contester = NoUser
    BY <1>1 DEF Overridden, TransitionState
  <2> QED BY <1>3, <2>1 DEF BondsOf
<1> QED
  BY <1>1, <1>2, <1>3, <1>4, <1>5, BondsNat, BalancesSum

(* A higher proof of an uncontested transition pays its old prover, and     *)
(* the liveness bond where it is due, from what the block held.             *)
LEMMA UncontestedAffordable ==
  ASSUME IInv, BInv, NEW x \in Submissions, IsAdmissible(x, Ts(x)),
         NEW returnBond \in BOOLEAN, proveUncontested(x, Ts(x), returnBond)
  PROVE  \E bal : \E returned \in BOOLEAN :
           /\ Affordable(x, Overridden(x, Ts(x)), returned, bal)
           /\ StoreTransition(x, Overridden(x, Ts(x)), returned, bal)
<1> DEFINE ts == Ts(x)
           due == LivenessBondDue(x)
           returnToAssigned == \/ InProvingWindow(x, ts) /\ Tid(x) = 1
                               \/ IsTopTier(x) /\ returnBond
           assigned == Blk(x).meta.proposer
           toSender == ~returnToAssigned \/ assigned = x.sender
           reward == RewardAfterFriction(ts.validityBond) + IF toSender THEN due ELSE 0
           bal == IF toSender THEN bondBalance ELSE Credit(bondBalance, assigned, due)
           bond == Tier[x.tier].validityBond
           returned == Blk(x).livenessBondReturned \/ due # 0
           settled == Settle(bal, x.sender, reward, bond)
           sum == SumFunctionOnSet(bondBalance, Users)
<1>1. /\ ts.contester = NoUser
      /\ bal[x.sender] + reward >= bond
      /\ StoreTransition(x, Overridden(x, ts), returned, settled)
  BY DEF proveUncontested
<1>2. /\ x.sender \in Users /\ bond \in Nat /\ ts.validityBond \in Nat /\ due \in Nat
      /\ due = LivenessBondHeld(Blk(x).livenessBondReturned)
      /\ bondBalance \in [Users -> Nat] /\ sum \in Nat
      /\ BondsOf(Overridden(x, ts)) = bond
  BY BranchFacts
<1>3. RewardAfterFriction(ts.validityBond) \in Nat /\ RewardAfterFriction(ts.validityBond) <= ts.validityBond
  BY <1>2, RewardBound
<1>4. Blk(x).livenessBondReturned \in BOOLEAN
  BY SubmissionTypes
<1>5. returned \in BOOLEAN /\ LivenessBondHeld(returned) = 0
  <2>1. CASE due # 0
    BY <1>4, <2>1 DEF LivenessBondHeld
  <2>2. CASE due = 0
    <3>1. returned = Blk(x).livenessBondReturned
      BY <1>4, <2>2
    <3> QED BY <1>2, <1>4, <2>2, <3>1
  <2> QED BY <2>1, <2>2
<1>6. BondsOf(ts) = ts.validityBond
  BY <1>1, <1>2 DEF BondsOf
<1> HIDE DEF toSender, returned
<1>7. /\ bal \in [Users -> Nat] /\ reward \in Nat /\ SumFunctionOnSet(bal, Users) \in Nat
      /\ SumFunctionOnSet(bal, Users) + reward <= sum + ts.validityBond + due
  <2>1. CASE toSender
    BY <1>2, <1>3, <2>1
  <2>2. CASE ~toSender
    <3> HIDE DEF sum, due
    <3>1. /\ bal \in [Users -> Nat] /\ SumFunctionOnSet(bal, Users) <= sum + due
      BY <1>2, <2>2, CreditSum DEF sum
    <3>2. SumFunctionOnSet(bal, Users) \in Nat
      BY <3>1, BalancesSum
    <3>3. reward = RewardAfterFriction(ts.validityBond)
      BY <1>3, <2>2
    <3> HIDE DEF bal, reward
    <3> QED BY <1>2, <1>3, <3>1, <3>2, <3>3
  <2> QED BY <2>1, <2>2
<1> HIDE DEF bal, reward, sum, due
<1>8. /\ settled \in [Users -> Nat]
      /\ SumFunctionOnSet(settled, Users) = SumFunctionOnSet(bal, Users) + reward - bond
  BY <1>1, <1>2, <1>7, SettleSum
<1> HIDE DEF settled, bond, ts
<1>9. SumFunctionOnSet(settled, Users) + bond + 0 <= sum + ts.validityBond + due
  BY <1>2, <1>7, <1>8
<1>10. SumFunctionOnSet(settled, Users) + BondsOf(Overridden(x, ts)) + LivenessBondHeld(returned)
         <= sum + BondsOf(ts) + LivenessBondHeld(Blk(x).livenessBondReturned)
  BY <1>2, <1>5, <1>6, <1>9
<1>11. Affordable(x, Overridden(x, ts), returned, settled)
  BY <1>8, <1>10 DEF Affordable, sum, ts
<1> QED
  BY <1>1, <1>5, <1>11 DEF ts

(* A proof that refutes the contester gives the prover its bond back and    *)
(* the new prover its reward, out of the two bonds.                         *)
LEMMA ContestLostAffordable ==
  ASSUME IInv, BInv, NEW x \in Submissions, IsAdmissible(x, Ts(x)), proveContestLost(x, Ts(x))
  PROVE  \E bal : /\ Affordable(x, Overridden(x, Ts(x)), Blk(x).livenessBondReturned, bal)
                  /\ StoreTransition(x, Overridden(x, Ts(x)), Blk(x).livenessBondReturned, bal)
<1> DEFINE ts == Ts(x)
           reward == RewardAfterFriction(ts.contestBond)
           bal == Credit(bondBalance, ts.prover, ts.validityBond)
           bond == Tier[x.tier].validityBond
           settled == Settle(bal, x.sender, reward, bond)
           sum == SumFunctionOnSet(bondBalance, Users)
           liveness == LivenessBondHeld(Blk(x).livenessBondReturned)
<1>1. /\ ts.contester # NoUser
      /\ bal[x.sender] + reward >= bond
      /\ StoreTransition(x, Overridden(x, ts), Blk(x).livenessBondReturned, settled)
  BY DEF proveContestLost
<1>2. /\ x.sender \in Users /\ bond \in Nat /\ ts.validityBond \in Nat /\ ts.contestBond \in Nat
      /\ liveness \in Nat
      /\ bondBalance \in [Users -> Nat] /\ sum \in Nat
      /\ BondsOf(Overridden(x, ts)) = bond
  BY BranchFacts
<1>3. reward \in Nat /\ reward <= ts.contestBond
  BY <1>2, RewardBound
<1>4. BondsOf(ts) = ts.validityBond + ts.contestBond
  BY <1>1 DEF BondsOf
<1> HIDE DEF reward, liveness
<1>5. /\ bal \in [Users -> Nat] /\ SumFunctionOnSet(bal, Users) <= sum + ts.validityBond
  BY <1>2, CreditSum
<1>6. SumFunctionOnSet(bal, Users) \in Nat
  BY <1>5, BalancesSum
<1> HIDE DEF bal, sum, bond, ts
<1>7. /\ settled \in [Users -> Nat]
      /\ SumFunctionOnSet(settled, Users) = SumFunctionOnSet(bal, Users) + reward - bond
  BY <1>1, <1>2, <1>3, <1>5, SettleSum
<1> HIDE DEF settled
<1>8. SumFunctionOnSet(settled, Users) + BondsOf(Overridden(x, ts)) + liveness
        <= sum + BondsOf(ts) + liveness
  BY <1>2, <1>3, <1>4, <1>5, <1>6, <1>7
<1>9. Affordable(x, Overridden(x, ts), Blk(x).livenessBondReturned, settled)
  BY <1>7, <1>8 DEF Affordable, sum, ts, liveness
<1> QED
  BY <1>1, <1>9 DEF ts

(* A proof that confirms the contester gives it its bond and three          *)
(* quarters of the reward, and the new prover the fourth, out of the two    *)
(* bonds.                                                                   *)
LEMMA ContestWonAffordable ==
  ASSUME IInv, BInv, NEW x \in Submissions, IsAdmissible(x, Ts(x)), proveContestWon(x, Ts(x))
  PROVE  \E bal : /\ Affordable(x, Overridden(x, Ts(x)), Blk(x).livenessBondReturned, bal)
                  /\ StoreTransition(x, Overridden(x, Ts(x)), Blk(x).livenessBondReturned, bal)
<1> DEFINE ts == Ts(x)
           reward == RewardAfterFriction(ts.validityBond) \div 4
           bal == Credit(bondBalance, ts.contester, ts.contestBond + 3 * reward)
           bond == Tier[x.tier].validityBond
           settled == Settle(bal, x.sender, reward, bond)
           sum == SumFunctionOnSet(bondBalance, Users)
           liveness == LivenessBondHeld(Blk(x).livenessBondReturned)
<1>1. /\ ts.contester # NoUser
      /\ bal[x.sender] + reward >= bond
      /\ StoreTransition(x, Overridden(x, ts), Blk(x).livenessBondReturned, settled)
  BY DEF proveContestWon
<1>2. /\ x.sender \in Users /\ bond \in Nat /\ ts.validityBond \in Nat /\ ts.contestBond \in Nat
      /\ liveness \in Nat
      /\ bondBalance \in [Users -> Nat] /\ sum \in Nat
      /\ BondsOf(Overridden(x, ts)) = bond
  BY BranchFacts
<1>3. reward \in Nat /\ 4 * reward <= ts.validityBond
  <2>1. /\ RewardAfterFriction(ts.validityBond) \in Nat
        /\ RewardAfterFriction(ts.validityBond) <= ts.validityBond
    BY <1>2, RewardBound
  <2>2. reward \in Nat /\ 4 * reward <= RewardAfterFriction(ts.validityBond)
    BY <2>1, QuarterBound
  <2> HIDE DEF reward
  <2> QED BY <1>2, <2>1, <2>2
<1>4. BondsOf(ts) = ts.validityBond + ts.contestBond
  BY <1>1 DEF BondsOf
<1> HIDE DEF reward, liveness
<1>5. /\ bal \in [Users -> Nat]
      /\ SumFunctionOnSet(bal, Users) <= sum + (ts.contestBond + 3 * reward)
  <2>1. ts.contestBond + 3 * reward \in Nat
    BY <1>2, <1>3
  <2> QED BY <1>2, <2>1, CreditSum
<1>6. SumFunctionOnSet(bal, Users) \in Nat
  BY <1>5, BalancesSum
<1> HIDE DEF bal, sum, bond, ts
<1>7. /\ settled \in [Users -> Nat]
      /\ SumFunctionOnSet(settled, Users) = SumFunctionOnSet(bal, Users) + reward - bond
  BY <1>1, <1>2, <1>3, <1>5, SettleSum
<1> HIDE DEF settled
<1>8. SumFunctionOnSet(settled, Users) + BondsOf(Overridden(x, ts)) + liveness
        <= sum + BondsOf(ts) + liveness
  BY <1>2, <1>3, <1>4, <1>5, <1>6, <1>7
<1>9. Affordable(x, Overridden(x, ts), Blk(x).livenessBondReturned, settled)
  BY <1>7, <1>8 DEF Affordable, sum, ts, liveness
<1> QED
  BY <1>1, <1>9 DEF ts

(* A top-tier re-proof moves no money.                                      *)
LEMMA ReproveAffordable ==
  ASSUME IInv, BInv, NEW x \in Submissions, IsAdmissible(x, Ts(x)), reproveTopTier(x, Ts(x))
  PROVE  /\ Affordable(x, Reproved(x, Ts(x)), Blk(x).livenessBondReturned, bondBalance)
         /\ StoreTransition(x, Reproved(x, Ts(x)), Blk(x).livenessBondReturned, bondBalance)
<1> DEFINE ts == Ts(x)
<1>1. StoreTransition(x, Reproved(x, ts), Blk(x).livenessBondReturned, bondBalance)
  BY DEF reproveTopTier, Reproved
<1>2. /\ ts \in TransitionState /\ bondBalance \in [Users -> Nat]
      /\ SumFunctionOnSet(bondBalance, Users) \in Nat
  BY SubmissionFacts, BranchFacts
<1>3. BondsOf(Reproved(x, ts)) = BondsOf(ts)
  <2>1. /\ Reproved(x, ts).validityBond = ts.validityBond
        /\ Reproved(x, ts).contester = ts.contester
        /\ Reproved(x, ts).contestBond = ts.contestBond
    BY <1>2 DEF Reproved, TransitionState
  <2> QED BY <2>1 DEF BondsOf
<1>4. BondsOf(ts) \in Nat /\ LivenessBondHeld(Blk(x).livenessBondReturned) \in Nat
  BY <1>2, BondsNat, BoundAssumption DEF LivenessBondHeld
<1> QED
  BY <1>1, <1>2, <1>3, <1>4 DEF Affordable

(* A contest locks what its sender pays.                                    *)
LEMMA ContestAffordable ==
  ASSUME IInv, BInv, NEW x \in Submissions, IsAdmissible(x, Ts(x)), contest(x, Ts(x))
  PROVE  \E bal : /\ Affordable(x, Contested(x, Ts(x)), Blk(x).livenessBondReturned, bal)
                  /\ StoreTransition(x, Contested(x, Ts(x)), Blk(x).livenessBondReturned, bal)
<1> DEFINE ts == Ts(x)
           bond == Tier[x.tier].contestBond
           bal == [bondBalance EXCEPT ![x.sender] = @ - bond]
           sum == SumFunctionOnSet(bondBalance, Users)
           liveness == LivenessBondHeld(Blk(x).livenessBondReturned)
<1>1. /\ ts.contester = NoUser /\ bondBalance[x.sender] >= bond
      /\ StoreTransition(x, Contested(x, ts), Blk(x).livenessBondReturned, bal)
  BY DEF contest, Contested
<1>2. /\ x.sender \in Users /\ bond \in Nat /\ ts.validityBond \in Nat
      /\ liveness \in Nat /\ bondBalance \in [Users -> Nat] /\ sum \in Nat
      /\ ts \in TransitionState
  BY SubmissionFacts, BranchFacts
<1>3. BondsOf(ts) = ts.validityBond /\ BondsOf(Contested(x, ts)) = ts.validityBond + bond
  <2>1. /\ Contested(x, ts).validityBond = ts.validityBond
        /\ Contested(x, ts).contester = x.sender
        /\ Contested(x, ts).contestBond = bond
    BY <1>2 DEF Contested, TransitionState
  <2> QED BY <1>1, <1>2, <2>1, ValueAssumption DEF BondsOf
<1> HIDE DEF bond, liveness
<1>4. /\ bal \in [Users -> Nat] /\ SumFunctionOnSet(bal, Users) = sum - bond
  <2>0. bal = [u \in Users |-> IF u = x.sender THEN bondBalance[u] - bond ELSE bondBalance[u]]
    BY <1>2
  <2> HIDE DEF bal
  <2>1. /\ bal \in [Users -> Nat] /\ bondBalance[x.sender] \in Nat
        /\ \A u \in Users : bal[u] = IF u = x.sender THEN bondBalance[u] - bond ELSE bondBalance[u]
    BY <1>1, <1>2, <2>0
  <2>2. Updates(bondBalance, bal, Users, x.sender)
    BY <1>2, <2>1, ValueAssumption DEF Updates
  <2>3. SumFunctionOnSet(bal, Users) = sum + bal[x.sender] - bondBalance[x.sender]
    BY <2>2, SumUpdate
  <2> QED BY <1>2, <2>1, <2>3
<1> HIDE DEF bal, ts
<1>5. SumFunctionOnSet(bal, Users) + BondsOf(Contested(x, ts)) + liveness
        <= sum + BondsOf(ts) + liveness
  <2> HIDE DEF sum
  <2> QED BY <1>2, <1>3, <1>4
<1>6. Affordable(x, Contested(x, ts), Blk(x).livenessBondReturned, bal)
  BY <1>4, <1>5 DEF Affordable, ts, liveness
<1> QED
  BY <1>1, <1>6 DEF ts

(* A proof or a contest, and the verification it may bring, stay funded.    *)
LEMMA ProveFunded ==
  ASSUME IInv, BInv, NEW x \in Submissions, proveBlock(x)
  PROVE  BInv'
<1> DEFINE ts == Ts(x)
<1>1. IsAdmissible(x, ts)
  BY DEF proveBlock
<1>2. Blk(x).livenessBondReturned \in BOOLEAN
  BY <1>1, SubmissionTypes
<1>3. \E new, bal : \E returned \in BOOLEAN :
        MayStore(x, new) /\ Affordable(x, new, returned, bal) /\ StoreTransition(x, new, returned, bal)
  <2>1. ASSUME NEW returnBond \in BOOLEAN, proveUncontested(x, ts, returnBond)
        PROVE  \E new, bal : \E returned \in BOOLEAN :
                 MayStore(x, new) /\ Affordable(x, new, returned, bal) /\ StoreTransition(x, new, returned, bal)
    <3>1. MayStore(x, Overridden(x, ts))
      BY <1>1, <2>1, OverrideMayStore DEF proveUncontested
    <3> QED BY <1>1, <2>1, <3>1, UncontestedAffordable
  <2>2. CASE proveContestLost(x, ts)
    <3>1. MayStore(x, Overridden(x, ts))
      BY <1>1, <2>2, OverrideMayStore DEF proveContestLost
    <3> QED BY <1>1, <1>2, <2>2, <3>1, ContestLostAffordable
  <2>3. CASE proveContestWon(x, ts)
    <3>1. MayStore(x, Overridden(x, ts))
      BY <1>1, <2>3, OverrideMayStore DEF proveContestWon
    <3> QED BY <1>1, <1>2, <2>3, <3>1, ContestWonAffordable
  <2>4. CASE reproveTopTier(x, ts)
    BY <1>1, <1>2, <2>4, ReproveMayStore, ReproveAffordable
  <2>5. CASE contest(x, ts)
    BY <1>1, <1>2, <2>5, ContestMayStore, ContestAffordable
  <2> QED BY <2>1, <2>2, <2>3, <2>4, <2>5 DEF proveBlock
<1>4. PICK new, bal : \E returned \in BOOLEAN :
        MayStore(x, new) /\ Affordable(x, new, returned, bal) /\ StoreTransition(x, new, returned, bal)
  BY <1>3
<1>5. PICK returned \in BOOLEAN :
        MayStore(x, new) /\ Affordable(x, new, returned, bal) /\ StoreTransition(x, new, returned, bal)
  BY <1>4
<1> DEFINE b == StoredBlocks(x, returned)
           t == StoredTransitions(x, new)
           ids == StoredIds(x)
<1>6. Consistent(b, t, ids, numBlocks)
  BY <1>1, <1>5, StoreConsistent
<1>7. Funded(lastVerifiedBlockId, b, t, numBlocks, bal)
  BY <1>1, <1>5, StoreFunded
<1>8. /\ \/ Verify(b, t, ids, numBlocks, bal, MaxBlocksToVerify)
         \/ DoNotVerify(b, t, ids, numBlocks, bal)
      /\ ether' = ether
  BY <1>5 DEF StoreTransition
<1> HIDE DEF b, t, ids
<1>9. CursorsTyped /\ MaxBlocksToVerify \in Nat
  BY BoundAssumption DEF IInv
<1> QED
  BY <1>6, <1>7, <1>8, <1>9, VerifyFunded

-----------------------------------------------------------------------------
(* Solvency *)

(* The contract starts with nothing and owes nothing.                       *)
LEMMA InitFunded == Init => BInv
<1> SUFFICES ASSUME Init PROVE BInv
  OBVIOUS
<1>1. /\ numBlocks = 1 /\ lastVerifiedBlockId = 0 /\ ether = 0
      /\ bondBalance = [u \in Users |-> 0]
  BY DEF Init
<1>2. (lastVerifiedBlockId + 1)..(numBlocks - 1) = {}
  BY <1>1
<1>3. LockedAfter(lastVerifiedBlockId, blocks, transitions, numBlocks) = 0
  BY <1>2, SumEmpty, Zenon DEF LockedAfter
<1>4. SumFunctionOnSet(bondBalance, Users) = 0
  <2>1. \A u \in Users : bondBalance[u] = 0
    BY <1>1
  <2>2. SumFunctionOnSet(bondBalance, Users) = 0
    BY <2>1, ValueAssumption, SumZero
  <2> QED BY <2>2
<1> QED
  BY <1>1, <1>3, <1>4 DEF BInv, Funded

(* Every step keeps the contract funded.                                    *)
LEMMA NextFunded == IInv /\ BInv /\ [Next]_vars => BInv'
<1> SUFFICES ASSUME IInv, BInv, [Next]_vars PROVE BInv'
  OBVIOUS
<1>0. /\ CursorsTyped /\ MaxBlocksToVerify \in Nat
      /\ bondBalance \in [Users -> Nat] /\ ether \in Int
      /\ SumFunctionOnSet(bondBalance, Users) \in Nat
      /\ IsFiniteSet(Users) /\ Amounts \subseteq Nat
  BY BoundAssumption, ValueAssumption, BalancesSum DEF IInv, BInv, Funded
<1>1. ASSUME NEW user \in Users, NEW size \in 1..MaxBatch, NEW batch \in [1..size -> BatchParams],
             proposeBlocks(user, size, batch)
      PROVE  BInv'
  <2> DEFINE n == numBlocks + size
             b == StoreBatch(user, size, batch)
             bal == [bondBalance EXCEPT ![user] = @ - size * LivenessBond]
  <2> HIDE DEF b, bal
  <2>1. /\ n - 1 <= MaxBlockId /\ n <= lastVerifiedBlockId + BlockMaxProposals + 1
        /\ bondBalance[user] >= size * LivenessBond
        /\ \/ Verify(b, transitions, transitionIds, n, bal, MaxBlocksToVerify)
           \/ DoNotVerify(b, transitions, transitionIds, n, bal)
        /\ ether' = ether
    BY <1>1 DEF proposeBlocks, HasCapacity, b, bal
  <2>2. numBlocks + size - 1 <= MaxBlockId
    <3>1. numBlocks \in Nat /\ size \in Nat /\ MaxBlockId \in Nat
      BY BatchAssumption, BoundAssumption DEF IInv, Consistent, Typed
    <3>2. n - 1 <= MaxBlockId
      BY <2>1
    <3> QED BY <3>1, <3>2
  <2>3. Consistent(b, transitions, transitionIds, n)
    BY <2>1, <2>2, ProposalConsistent DEF b
  <2>4. Funded(lastVerifiedBlockId, b, transitions, n, bal)
    BY <2>1, <2>2, ProposalFunded DEF b, bal
  <2> HIDE DEF n
  <2> QED BY <1>0, <2>1, <2>3, <2>4, VerifyFunded
<1>2. CASE \E x \in Submissions : proveBlock(x)
  BY <1>2, ProveFunded
<1>3. ASSUME NEW limit \in 1..MaxBlocksToVerify, verifyBlocks(limit)
      PROVE  BInv'
  <2>1. limit \in Nat /\ Consistent(blocks, transitions, transitionIds, numBlocks)
    BY <1>0 DEF IInv
  <2>2. /\ Verify(blocks, transitions, transitionIds, numBlocks, bondBalance, limit)
        /\ ether' = ether
    BY <1>3 DEF verifyBlocks
  <2>3. Funded(lastVerifiedBlockId, blocks, transitions, numBlocks, bondBalance)
    BY DEF BInv
  <2> QED BY <1>0, <2>1, <2>2, <2>3, VerifyFunded
<1>4. ASSUME NEW user \in Users, NEW amount \in Amounts,
             depositBond(user, amount) \/ withdrawBond(user, amount)
      PROVE  BInv'
  <2>1. amount \in Nat
    BY <1>0
  <2>2. /\ UNCHANGED <<numBlocks, lastVerifiedBlockId, blocks, transitions>>
        /\ \/ /\ bondBalance' = [bondBalance EXCEPT ![user] = @ + amount]
              /\ ether' = ether + amount
           \/ /\ bondBalance[user] >= amount
              /\ bondBalance' = [bondBalance EXCEPT ![user] = @ - amount]
              /\ ether' = ether - amount
    BY <1>4 DEF depositBond, withdrawBond
  <2>3. /\ bondBalance' \in [Users -> Nat] /\ bondBalance[user] \in Nat
        /\ \A u \in Users \ {user} : bondBalance'[u] = bondBalance[u]
        /\ bondBalance'[user] - bondBalance[user] = ether' - ether /\ ether' \in Int
    <3>1. PICK paid \in Int : /\ bondBalance' = [bondBalance EXCEPT ![user] = @ + paid]
                             /\ bondBalance[user] + paid >= 0 /\ ether' = ether + paid
      <4>1. bondBalance[user] \in Nat
        BY <1>0
      <4>2. CASE bondBalance' = [bondBalance EXCEPT ![user] = @ + amount] /\ ether' = ether + amount
        <5>1. amount \in Int /\ bondBalance[user] + amount >= 0
          BY <2>1, <4>1
        <5> QED BY <4>2, <5>1
      <4>3. CASE /\ bondBalance[user] >= amount /\ ether' = ether - amount
                 /\ bondBalance' = [bondBalance EXCEPT ![user] = @ - amount]
        <5>1. /\ -amount \in Int /\ bondBalance[user] + (-amount) = bondBalance[user] - amount
              /\ bondBalance[user] + (-amount) >= 0 /\ ether + (-amount) = ether - amount
          BY <1>0, <2>1, <4>1, <4>3
        <5> QED BY <4>3, <5>1
      <4> QED BY <2>2, <4>2, <4>3
    <3> QED BY <1>0, <3>1
  <2>4. Updates(bondBalance, bondBalance', Users, user)
    BY <1>0, <2>3 DEF Updates
  <2>5. SumFunctionOnSet(bondBalance', Users)
          = SumFunctionOnSet(bondBalance, Users) + bondBalance'[user] - bondBalance[user]
    BY <2>4, SumUpdate
  <2> DEFINE locked == LockedAfter(lastVerifiedBlockId, blocks, transitions, numBlocks)
  <2>6. locked \in Nat
    <3>1. lastVerifiedBlockId \in Nat /\ numBlocks \in Nat /\ Holds(blocks, transitions)
      BY BoundAssumption DEF IInv, CursorsTyped, BlockIds, Consistent, Typed, Holds
    <3> QED BY <3>1, LockedSum DEF LockedAfter
  <2>7. LockedAfter(lastVerifiedBlockId, blocks, transitions, numBlocks)' = locked
    BY <2>2 DEF LockedAfter, Held, LockedBy
  <2>8. SumFunctionOnSet(bondBalance, Users) + locked <= ether
    BY DEF BInv, Funded
  <2> HIDE DEF locked
  <2>9. bondBalance'[user] \in Nat
    BY <2>3
  <2>10. SumFunctionOnSet(bondBalance', Users) + locked <= ether'
    BY <1>0, <2>3, <2>5, <2>6, <2>8, <2>9
  <2> QED BY <2>3, <2>7, <2>10 DEF BInv, Funded
<1>5. CASE unpause \/ Tick \/ UNCHANGED vars
  <2>1. UNCHANGED <<numBlocks, lastVerifiedBlockId, blocks, transitions, bondBalance, ether>>
    BY <1>5 DEF unpause, Tick, vars
  <2> QED BY <2>1 DEF BInv, Funded, LockedAfter, Held, LockedBy
<1> QED
  BY <1>1, <1>2, <1>3, <1>4, <1>5 DEF Next

(* The Ether of the contract covers every balance and every bond it may     *)
(* still have to pay, whatever the bonds, tiers and order of proofs and     *)
(* contests: no sequence of calls pays a bond twice.                        *)
THEOREM BondsCovered == Spec => []Solvent
<1>1. IInv /\ BInv => Solvent
  <2> SUFFICES ASSUME IInv, BInv PROVE Solvent
    OBVIOUS
  <2>1. /\ lastVerifiedBlockId \in Nat /\ numBlocks \in Nat /\ Holds(blocks, transitions)
        /\ bondBalance \in [Users -> Nat]
    BY BoundAssumption DEF IInv, CursorsTyped, BlockIds, Consistent, Typed, Holds, BInv, Funded
  <2>2. Locked(blocks, transitions, numBlocks)
          = LockedAfter(lastVerifiedBlockId, blocks, transitions, numBlocks)
    BY <2>1, LockedSum DEF Locked, LockedAfter
  <2>3. SumFunction(bondBalance) = SumFunctionOnSet(bondBalance, Users)
    BY <2>1, BalancesSum
  <2>4. \A u \in Users : bondBalance[u] >= 0
    BY <2>1
  <2> QED BY <2>2, <2>3, <2>4 DEF Solvent, BInv, Funded
<1> QED
  BY <1>1, InitFunded, NextFunded, Inductive, PTL DEF Spec
=============================================================================
