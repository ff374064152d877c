------------------------------ MODULE SwapBuild ------------------------------
(***************************************************************************)
(* sdk/src/build.ts, postconditions.ts, quote/fees.ts and defaults.ts: the *)
(* transaction the SDK asks the wallet to sign.  The SDK pins its own      *)
(* copies of the fee rates, the tiers and the pools, and has its own       *)
(* arithmetic and checks; the relay refuses whatever differs from its own. *)
(*                                                                         *)
(* An input is [user, amount, tier (a name), pool, slippage, integrator,   *)
(* bips].  The quote is read by the caller, before.                        *)
(***************************************************************************)
EXTENDS Checks

SdkFeeBips           == 50
SdkBipsDenom         == 10000
SdkMaxIntegratorBips == 100
SdkTiers             == [low |-> 10000, mid |-> 100000, high |-> 1000000]

SdkPools == << [stxSender |-> "xyk-pool",   sbtcCondition |-> "eq"],
               [stxSender |-> "velar-pool", sbtcCondition |-> "eq"],
               [stxSender |-> "dlmm-pool",  sbtcCondition |-> "lte"] >>

splitFees(amount, bips) ==
  LET serviceFee    == (amount * SdkFeeBips) \div SdkBipsDenom
      integratorFee == (amount * bips) \div SdkBipsDenom
  IN  [serviceFee |-> serviceFee, integratorFee |-> integratorFee,
       net |-> amount - serviceFee - integratorFee]

(* The input a quote is asked for.                                         *)
quoteInput(i) == splitFees(i.amount, IF i.integrator = None THEN 0 ELSE i.bips).net

(* minOutFor throws on any other.                                          *)
validSlippage(slippage) == slippage < 10000

minOutFor(quoteOut, slippage) == (quoteOut * (10000 - slippage)) \div 10000

BuildChecks(i, quoteOut) ==
  << Check(i.amount > 0,                                        "BAD_AMOUNT"),
     Check(i.bips <= SdkMaxIntegratorBips,                      "BAD_BIPS"),
     Check(i.integrator # i.user,                               "INTEGRATOR_IS_ORIGIN"),
     Check(i.pool \in DOMAIN SdkPools,                          "UNKNOWN_POOL"),
     Check(validSlippage(i.slippage),                           "BAD_SLIPPAGE"),
     Check(minOutFor(quoteOut, i.slippage) >= SdkTiers[i.tier], "MIN_OUT_BELOW_TIER") >>

SdkCondition(p, asset, condition, amount) ==
  [principal |-> p, asset |-> asset, condition |-> condition, amount |-> amount]

(* Mutant: the user must send all the sBTC in every pool.                  *)
sdkPostConditions_AlwaysEq(i, minOut) ==
  { SdkCondition(i.user, "sbtc", "eq", i.amount),
    SdkCondition(i.user, "stx", "eq", SdkTiers[i.tier]),
    SdkCondition(SdkPools[i.pool].stxSender, "stx", "gte", minOut) }

sdkPostConditions(i, minOut) ==
  { SdkCondition(i.user, "sbtc", SdkPools[i.pool].sbtcCondition, i.amount),
    SdkCondition(i.user, "stx", "eq", SdkTiers[i.tier]),
    SdkCondition(SdkPools[i.pool].stxSender, "stx", "gte", minOut) }

(* The call a wallet then signs, sponsored, at the user's next nonce.      *)
buildSwapCall(i, quoteOut, nonce) ==
  LET minOut == minOutFor(quoteOut, i.slippage)
  IN  [defects |-> {}, user |-> i.user, nonce |-> nonce, amount |-> i.amount,
       tier |-> SdkTiers[i.tier], minOut |-> minOut, pool |-> i.pool,
       integrator |-> i.integrator, bips |-> i.bips, mode |-> "deny",
       conditions |-> sdkPostConditions(i, minOut)]
=============================================================================
