------------------------------- MODULE Verify -------------------------------
(***************************************************************************)
(* relay/src/core/verify.ts: what the relay demands of a user-signed       *)
(* transaction before it reads the chain, in the order of the code.        *)
(*                                                                         *)
(* A signed transaction is [defects, user, nonce, amount, tier, minOut,    *)
(* pool, integrator, bips, mode, conditions].  `defects` are the ways its  *)
(* envelope (encoding, auth, chain, signature, contract, function, number  *)
(* and types of arguments) can be wrong, in the order they are checked.    *)
(* Post-conditions form a set: a transaction that repeats one is refused   *)
(* by its length and is not represented.                                   *)
(***************************************************************************)
EXTENDS FeePolicy, Checks

RelayFeeBips           == 50
RelayBipsDenom         == 10000
RelayMaxIntegratorBips == 100

RelayPools == << [stxSender |-> "xyk-pool",   sbtcCondition |-> "eq"],
                 [stxSender |-> "velar-pool", sbtcCondition |-> "eq"],
                 [stxSender |-> "dlmm-pool",  sbtcCondition |-> "lte"] >>

Defects == <<"MALFORMED", "NOT_SPONSORED_AUTH", "WRONG_NETWORK", "MULTISIG", "BAD_SIGNATURE",
             "WRONG_CONTRACT", "WRONG_FUNCTION", "BAD_ARGS">>

CodeOf(defect) == IF defect = "MULTISIG" THEN "MALFORMED" ELSE defect

Condition(p, asset, condition, amount) ==
  [principal |-> p, asset |-> asset, condition |-> condition, amount |-> amount]

(* Mutant: the user must send all the sBTC in every pool.                  *)
expectedPostConditions_AlwaysEq(t) ==
  { Condition(t.user, "sbtc", "eq", t.amount),
    Condition(t.user, "stx", "eq", t.tier),
    Condition(RelayPools[t.pool].stxSender, "stx", "gte", t.minOut) }

expectedPostConditions(t) ==
  { Condition(t.user, "sbtc", RelayPools[t.pool].sbtcCondition, t.amount),
    Condition(t.user, "stx", "eq", t.tier),
    Condition(RelayPools[t.pool].stxSender, "stx", "gte", t.minOut) }

(* Mutant: the quote is asked for the whole amount.                        *)
swapInput_Whole(t) == t.amount

(* What the relay takes to be the pool's input, for the quote.             *)
swapInput(t) ==
  LET effectiveBips == IF t.integrator = None THEN 0 ELSE t.bips
  IN  t.amount - (t.amount * RelayFeeBips) \div RelayBipsDenom
               - (t.amount * effectiveBips) \div RelayBipsDenom

EnvelopeChecks(t) ==
  [i \in DOMAIN Defects |-> Check(Defects[i] \notin t.defects, CodeOf(Defects[i]))]

CallChecks(t) ==
  << Check(t.pool <= 1000,                        "UNKNOWN_POOL"),
     Check(\E n \in TierName : TIERS[n] = t.tier, "BAD_TIER"),
     Check(t.minOut >= t.tier,                    "MIN_OUT_BELOW_TIER"),
     Check(t.pool \in DOMAIN RelayPools,          "UNKNOWN_POOL"),
     Check(t.bips <= RelayMaxIntegratorBips,      "BAD_BIPS"),
     Check(t.amount # 0,                          "BAD_ARGS"),
     Check(t.integrator # t.user,                 "INTEGRATOR_IS_ORIGIN"),
     Check(t.mode = "deny",                       "BAD_POST_CONDITIONS"),
     Check(t.pool \in DOMAIN RelayPools /\ t.conditions = expectedPostConditions(t),
                                                  "BAD_POST_CONDITIONS") >>

verifySponsoredSwap(t) ==
  IF Passes(EnvelopeChecks(t)) THEN Verdict(CallChecks(t)) ELSE Verdict(EnvelopeChecks(t))

(* tierNameOf: the tier's key sponsors the transaction.                    *)
tierNameOf(t) == CHOOSE n \in TierName : TIERS[n] = t.tier
=============================================================================
