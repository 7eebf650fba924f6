---------------------------- MODULE RollupLedger ----------------------------
(***************************************************************************)
(* What the rollup contract promises the bridge and the users of L2: blocks*)
(* are proposed, a prefix of them becomes final in order, and the hash the *)
(* contract reports as the last final one changes only when the final      *)
(* prefix grows.  Proposals stop when too many blocks await finality.      *)
(***************************************************************************)
EXTENDS Integers

CONSTANTS Forks, GenesisHash, MaxPending

VARIABLES proposed,   \* number of blocks, the genesis block included
          finalized,  \* height of the last final block
          head,       \* hash of the last final block
          synced      \* height of the last state root published

Init == proposed = 1 /\ finalized = 0 /\ head = GenesisHash /\ synced = 0

(* New blocks are appended; the pending ones, old and new, are bounded.     *)
Propose ==
  /\ proposed' >= proposed
  /\ proposed' > proposed => proposed' - 1 - finalized <= MaxPending

(* A longer prefix becomes final, and one of its state roots is published.  *)
Finalize ==
  /\ finalized' >= finalized
  /\ finalized' < proposed'
  /\ finalized' = finalized => head' = head /\ synced' = synced
  /\ finalized' > finalized => head' \in {finalized'} \X Forks
  /\ synced' = synced \/ (finalized < synced' /\ synced' <= finalized')

Next == Propose /\ Finalize

Spec == Init /\ [][Next]_<<proposed, finalized, head, synced>>
=============================================================================
