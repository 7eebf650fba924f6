--------------------------- MODULE SurgeTimelock ---------------------------
(***************************************************************************)
(* SurgeTimelockedController: a governance operation is executed only when *)
(* the rollup has been live for minLivenessStreak, as TaikoL1 reports it.  *)
(* OpenZeppelin's TimelockController is external; one operation of it is   *)
(* kept, with the time it becomes ready (0 before it is scheduled, 1 once  *)
(* it is done, the way its timestamps are stored).                         *)
(***************************************************************************)
EXTENDS TaikoL1

CONSTANTS
  MinDelay,          \* TimelockController.getMinDelay
  LivenessStreaks    \* the values given to minLivenessStreak

VARIABLES
  minLivenessStreak,
  readyAt,           \* TimelockController._timestamps of the operation
  gapAt              \* history: the last instant of a liveness gap, or 0

timelockVars == <<vars, minLivenessStreak, readyAt, gapAt>>

(* TaikoL1.getVerificationStreakStartAt.  The block is looked up under its  *)
(* id, not its slot: beyond the ring there is only empty storage.           *)
BlockAt(id) == IF id \in Slots THEN blocks[id] ELSE EmptyBlock

getVerificationStreakStartAt ==
  IF BlockAt(lastVerifiedBlockId).proposedAt > MaxLivenessDisruptionPeriod
  THEN now ELSE verificationStreakStartedAt

IsLivenessDisrupted == now - getVerificationStreakStartAt < minLivenessStreak

schedule ==
  /\ readyAt = 0
  /\ readyAt' = now + MinDelay
  /\ UNCHANGED <<vars, minLivenessStreak>>

execute ==
  /\ ~IsLivenessDisrupted
  /\ readyAt > 1 /\ readyAt <= now
  /\ readyAt' = 1
  /\ UNCHANGED <<vars, minLivenessStreak>>

updateMinLivenessStreak(streak) ==
  /\ minLivenessStreak' = streak
  /\ UNCHANGED <<vars, readyAt>>

(* An instant belongs to a gap when the last verified block was proposed    *)
(* more than the disruption period before it.                               *)
InGap == now - blocks[Slot(lastVerifiedBlockId)].proposedAt > MaxLivenessDisruptionPeriod

TimelockInit ==
  /\ Init
  /\ minLivenessStreak \in LivenessStreaks
  /\ readyAt = 0
  /\ gapAt = 0

TimelockNext ==
  /\ \/ Next /\ UNCHANGED <<minLivenessStreak, readyAt>>
     \/ schedule
     \/ execute
     \/ \E streak \in LivenessStreaks : updateMinLivenessStreak(streak)
  /\ gapAt' = IF InGap' THEN now' ELSE gapAt

TimelockSpec == TimelockInit /\ [][TimelockNext]_timelockVars

-----------------------------------------------------------------------------
(* The comment on _isLivenessDisrupted reads: returns true if an L2 block   *)
(* has not been proposed and verified in a gap greater than                 *)
(* maxLivenessDisruptionPeriod within the last minLivenessStreak.  The two  *)
(* directions of that sentence follow.                                      *)

(* Governance is blocked only on account of a gap, or of a deployment, that *)
(* is less than minLivenessStreak old.                                      *)
BlockedOnlyByGap ==
  IsLivenessDisrupted =>
    \/ now - GenesisTime < minLivenessStreak
    \/ now - gapAt < minLivenessStreak

(* A gap less than minLivenessStreak old blocks governance.                 *)
GapBlocks ==
  (gapAt > 0 /\ now - gapAt < minLivenessStreak) => IsLivenessDisrupted
=============================================================================
