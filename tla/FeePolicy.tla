------------------------------ MODULE FeePolicy ------------------------------
(***************************************************************************)
(* relay/src/core/fee.ts: what a sponsor bids for a swap of a given tier.  *)
(* No estimator: a tier opens at the operator's bid and replace-by-fee     *)
(* climbs from there, never above the tier the user repays.                *)
(***************************************************************************)
EXTENDS Integers

CONSTANTS
  TierName,     \* names of the tiers, "low" "mid" "high" in the code
  TIERS,        \* TIERS[t]: micro-STX the user of tier t repays the sponsor
  OpeningBid,   \* POLICY.openingBid[t], an operator setting
  MinFeePerByte,\* POLICY.minFeePerByte, the network's admission rate
  RbfBumpBips   \* POLICY.rbfBumpBips

(* The tiers differ in value (TIER_NAMES lists them in ascending order).   *)
(* The opening bids come from the environment unchecked: they may be zero  *)
(* or above their tier.                                                    *)
ASSUME FeeAssumption ==
  /\ TIERS \in [TierName -> Nat \ {0}]
  /\ \A s, t \in TierName : TIERS[s] = TIERS[t] => s = t
  /\ OpeningBid \in [TierName -> Nat]
  /\ MinFeePerByte \in Nat
  /\ RbfBumpBips \in Nat

admissionFloor(byteLength) == byteLength * MinFeePerByte

tierCoversFloor(t, byteLength) == admissionFloor(byteLength) <= TIERS[t]

(* TIER_NAMES.slice(indexOf(minTier)): the tiers at or above the minimum.  *)
acceptedTiers(minTier) == {t \in TierName : TIERS[t] >= TIERS[minTier]}

(* The first tier, in ascending order, that covers the floor; as a set, to *)
(* have a value when no tier does.                                         *)
lowestAdmissibleTier(byteLength) ==
  {t \in TierName :
     /\ tierCoversFloor(t, byteLength)
     /\ \A s \in TierName : tierCoversFloor(s, byteLength) => TIERS[t] <= TIERS[s]}

AtLeast(a, b) == IF a < b THEN b ELSE a
AtMost(a, b)  == IF a > b THEN b ELSE a

(* Mutant: the floor is not applied to the opening bid.                    *)
computeFee_NoFloor(t, byteLength) == AtMost(OpeningBid[t], TIERS[t])

computeFee(t, byteLength) ==
  AtMost(AtLeast(OpeningBid[t], admissionFloor(byteLength)), TIERS[t])

(* bumpFee returns null, and the record is reported as stuck, exactly when *)
(* the bid has reached the tier.                                           *)
Exhausted(t, current) == current >= TIERS[t]

(* Mutant: a bump may pass the tier.                                       *)
bumpFee_Uncapped(t, current) == current + ((current * RbfBumpBips) \div 10000) + 1

(* At least +1, because the mempool requires a strictly higher total fee.  *)
bumpFee(t, current) ==
  AtMost(AtLeast(current + ((current * RbfBumpBips) \div 10000), current + 1), TIERS[t])
=============================================================================
