---------------------------- MODULE Integrations ----------------------------
(***************************************************************************)
(* sdk/src/defaults.ts, relays.ts (rank), leather/index.ts and             *)
(* bitflow/index.ts: the tier and the slippage a swap gets by default, and *)
(* the two ready-made callers of the SDK.  Each finds the lowest minimum   *)
(* of the relays in its own way, and so does the page (SwapForm).          *)
(*                                                                         *)
(* states is what a read of the pools brought, pool id -> state, for the   *)
(* pools that answered; up is the set of relays whose /v1/info answered.   *)
(***************************************************************************)
EXTENDS SwapBuild, Quotes

CONSTANTS
  Relays,        \* the relays of sponsors.json
  MinTier,       \* what /v1/info of each says
  SmallSwapMax,  \* SMALL_SWAP_MAX_SATS
  LargeSwapMin   \* LARGE_SWAP_MIN_SATS

TierNames == DOMAIN SdkTiers
TierRank  == [low |-> 1, mid |-> 2, high |-> 3]

ASSUME IntegrationsAssumption ==
  /\ MinTier \in [Relays -> TierNames]
  /\ SmallSwapMax \in Nat /\ LargeSwapMin \in Nat

lowest(tiers) == CHOOSE t \in tiers : \A other \in tiers : TierRank[t] <= TierRank[other]

byAmount(sats) == IF sats <= SmallSwapMax THEN "low"
                  ELSE IF sats >= LargeSwapMin THEN "high" ELSE "mid"

defaultTier(sats, least) ==
  IF TierRank[byAmount(sats)] >= TierRank[least] THEN byAmount(sats) ELSE least

defaultSlippageBips(sats) == IF sats <= SmallSwapMax THEN 1000 ELSE 100

(* The relays that take the tier; their order matters to submit only.      *)
rank(up, tier) == {r \in up : TierRank[MinTier[r]] <= TierRank[tier]}

(* A pool that did not answer is left out, never taken for empty.          *)
quoteFromStates(states, inSats) ==
  {quotePool(p, states[p], inSats) : p \in DOMAIN states}

(* Who takes the integrator's fee, None for nobody.                        *)
Provider(integrator, bips) == [integrator |-> integrator, bips |-> bips]

(* Without an integrator no bips are taken.                                *)
bipsOf(provider) == IF provider.integrator = None THEN 0 ELSE provider.bips

quoteAllPools(provider, amount, states) ==
  quoteFromStates(states, splitFees(amount, bipsOf(provider)).net)

inputFor(provider, user, amount, tier, pool, slippage) ==
  [user |-> user, amount |-> amount, tier |-> tier, pool |-> pool, slippage |-> slippage,
   integrator |-> provider.integrator, bips |-> bipsOf(provider)]

(* What buildSwapCall gives the wallet, if it builds: all that the wallet  *)
(* signs but the nonce, which it picks.                                    *)
AnyNonce == 0
Built(input, quoteOut) ==
  [builds |-> Passes(BuildChecks(input, quoteOut)),
   call   |-> buildSwapCall(input, quoteOut, AnyNonce)]

-----------------------------------------------------------------------------
(* Leather: a quote at the default tier, then the data to execute it.      *)

(* Mutant: the comparison the wrong way round.                             *)
lowestMinTier_Highest(up) == IF up = {} THEN "low" ELSE "high"

(* The search starts from the highest.                                     *)
lowestMinTier(up) ==
  IF up = {} THEN "low" ELSE lowest({"high"} \union {MinTier[r] : r \in up})

getSwapQuotes(provider, amount, states, up) ==
  LET best   == selectPool(quoteAllPools(provider, amount, states))
      tier   == defaultTier(amount, lowestMinTier(up))
      relays == rank(up, tier)
      constraints == {c \in {"no-sponsor", "amount-too-small"} :
                        \/ c = "no-sponsor" /\ relays = {}
                        \/ c = "amount-too-small" /\ best.out <= SdkTiers[tier]}
  IN  {q \in {[amount |-> amount, pool |-> best.poolId, tier |-> tier, out |-> best.out,
               relays |-> relays, isExecutable |-> constraints = {}]} : amount > 0}

(* percent, in hundredths, is 0 where the user leaves it to the provider.  *)
getSwapExecutionData(provider, quote, user, percent) ==
  LET slippage == IF percent > 0 THEN percent ELSE defaultSlippageBips(quote.amount)
  IN  Built(inputFor(provider, user, quote.amount, quote.tier, quote.pool, slippage), quote.out)

-----------------------------------------------------------------------------
(* Bitflow: the route for a tier and a slippage, None for the defaults.    *)

getSponsoredRoute(provider, user, amount, tierGiven, slippageGiven, states, up) ==
  LET best     == selectPool(quoteAllPools(provider, amount, states))
      minTier  == IF up = {} THEN "low" ELSE lowest({MinTier[r] : r \in up})
      tier     == IF tierGiven # None THEN tierGiven ELSE defaultTier(amount, minTier)
      slippage == IF slippageGiven # None THEN slippageGiven ELSE defaultSlippageBips(amount)
  IN  [route  |-> Built(inputFor(provider, user, amount, tier, best.poolId, slippage), best.out),
       relays |-> rank(up, tier)]
=============================================================================
