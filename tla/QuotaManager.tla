---------------------------- MODULE QuotaManager ----------------------------
(***************************************************************************)
(* QuotaManager: the Ether that the bridge of a chain may release is drawn *)
(* from a bucket that refills in proportion to the time since its last use.*)
(* Only Ether is modelled: the other tokens have buckets of their own.     *)
(***************************************************************************)
EXTENDS Integers

CONSTANTS
  Chains,
  QuotaChains,   \* the chains with a quota manager, by design the L1
  Quotas,        \* the quotas the owner may set; 0 means unlimited
  QuotaPeriods,  \* the periods the owner may set
  MaxTime        \* bound of the model: the clock stops here

ASSUME QuotaAssumption ==
  /\ QuotaChains \subseteq Chains
  /\ Quotas \subseteq Nat
  /\ QuotaPeriods \subseteq Nat \ {0}
  /\ MaxTime \in Nat \ {0}

VARIABLES
  now,           \* block.timestamp, the same on every chain
  tokenQuota,    \* tokenQuota[address(0)] of each chain's manager
  quotaPeriod    \* quotaPeriod of each chain's manager

quotaVars == <<now, tokenQuota, quotaPeriod>>

Quota == [updatedAt : 0..MaxTime, quota : Nat, available : Nat]

(* A chain without a quota, or without a quota manager, is not limited.     *)
IsUnlimited(c) == tokenQuota[c].quota = 0

(* Faulty: the bucket refills beyond the quota.                             *)
availableQuota_Unbounded(c) ==
  LET q == tokenQuota[c]
  IN  IF q.updatedAt = 0 THEN q.quota
      ELSE q.available + (q.quota * (now - q.updatedAt)) \div quotaPeriod[c]

availableQuota(c) ==
  LET q == tokenQuota[c]
      refilled == q.available + (q.quota * (now - q.updatedAt)) \div quotaPeriod[c]
  IN  IF q.updatedAt = 0 \/ refilled > q.quota THEN q.quota ELSE refilled

(* Faulty: what is left in the bucket is not compared with the amount.      *)
consumeQuota_Unchecked(c, amount) ==
  \/ IsUnlimited(c) /\ UNCHANGED tokenQuota
  \/ /\ ~IsUnlimited(c)
     /\ tokenQuota' = [tokenQuota EXCEPT ![c].available = availableQuota(c) - amount,
                                         ![c].updatedAt = now]

(* A call that finds too little in the bucket reverts.                      *)
consumeQuota(c, amount) ==
  \/ IsUnlimited(c) /\ UNCHANGED tokenQuota
  \/ /\ ~IsUnlimited(c)
     /\ availableQuota(c) >= amount
     /\ tokenQuota' = [tokenQuota EXCEPT ![c].available = availableQuota(c) - amount,
                                         ![c].updatedAt = now]

updateQuota(c, quota) ==
  /\ c \in QuotaChains
  /\ tokenQuota' = [tokenQuota EXCEPT ![c] = [updatedAt |-> 0, quota |-> quota,
                                              available |-> quota]]
  /\ UNCHANGED <<now, quotaPeriod>>

setQuotaPeriod(c, period) ==
  /\ c \in QuotaChains
  /\ quotaPeriod' = [quotaPeriod EXCEPT ![c] = period]
  /\ UNCHANGED <<now, tokenQuota>>

QuotaInit ==
  /\ now = 1
  /\ tokenQuota = [c \in Chains |-> [updatedAt |-> 0, quota |-> 0, available |-> 0]]
  /\ quotaPeriod \in {[c \in Chains |-> p] : p \in QuotaPeriods}
=============================================================================
