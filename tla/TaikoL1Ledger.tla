--------------------------- MODULE TaikoL1Ledger ---------------------------
(* TaikoL1 implements RollupLedger.  The head is read from storage the way *)
(* getLastVerifiedBlock reads it, not from the events.                     *)
EXTENDS TaikoL1

Ledger == INSTANCE RollupLedger WITH
            proposed <- numBlocks,
            finalized <- lastVerifiedBlockId,
            head <- VerifiedHash(blocks, transitions, lastVerifiedBlockId),
            synced <- lastSyncedBlockId,
            MaxPending <- BlockMaxProposals

(* What getLastVerifiedBlock and getLastSyncedBlock report follows the      *)
(* abstract ledger: final blocks never change, whoever reuses the ring.     *)
ImplementsLedger == Ledger!Spec
=============================================================================
