----------------------------- MODULE Settlement -----------------------------
(***************************************************************************)
(* A swap from the wallet to the block: the SDK builds the call or someone *)
(* signs one by hand, the relay verifies it and reads the chain before it  *)
(* sponsors it, and a block runs the contract, by which time balances,     *)
(* prices and the contract's owner settings may have changed.  Composes    *)
(* SwapBuild, Verify, FeePolicy and SwapContract; sponsor nonces, records  *)
(* and sweeps are Relay.tla's subject.                                     *)
(***************************************************************************)
EXTENDS FeePolicy, SwapContract, Verify, SwapBuild

CONSTANTS
  Requests,       \* the swaps
  Users,          \* accounts that sign swaps
  Others,         \* integrators, the deployer, recipients of other payments
  Deployer,       \* first owner and fee recipient
  BuildInputs,    \* what the SDK may be asked to build
  HandMade,       \* transactions that may be signed without the SDK
  OtherSponsors,  \* accounts that sponsor without asking anything
  InitialSbtc, InitialStx,
  Rates, Depths,  \* bound: the prices and depths the pools may have
  InitialMarket,
  PlainLength,    \* bytes of a sponsored swap transaction without integrator,
  IntegratorLength, \* and how many more an integrator takes
  MaxMoves        \* bound: how often the rest of the world moves

Accounts == Users \union Others \union TierName \union OtherSponsors
Pool     == [rate : Rates, depth : Depths]

ASSUME SettlementAssumption ==
  /\ TierName = {"low", "mid", "high"} /\ TIERS = SdkTiers
  /\ Deployer \in Users \union Others
  /\ None \notin Accounts /\ OtherSponsors \intersect TierName = {}
  /\ Accounts \intersect {"xyk-pool", "velar-pool", "dlmm-pool"} = {}
  /\ InitialSbtc \in [Accounts -> Nat] /\ InitialStx \in [Accounts -> Nat]
  /\ Rates \subseteq Nat /\ Depths \subseteq Nat
  /\ InitialMarket \in [PoolIds -> Pool]
  /\ BuildInputs \subseteq [user : Users, amount : Nat, tier : TierName, pool : Nat,
                            slippage : Nat, integrator : Accounts \union {None},
                            bips : Nat]
  /\ \A t \in HandMade :
       /\ t.user \in Accounts /\ t.integrator \in Accounts \union {None}
       /\ \A n \in {t.nonce, t.amount, t.tier, t.minOut, t.pool, t.bips} : n \in Nat
  /\ PlainLength \in Nat /\ IntegratorLength \in Nat /\ MaxUint \in Nat /\ MaxMoves \in Nat

VARIABLES
  owner, feeRecipient,  \* the contract's data vars
  sbtc, stx,            \* balances
  originNonce,          \* the nonce an account must use next
  market,               \* the pools
  tx,                   \* tx[r]: the signed transaction of r
  maker,                \* "sdk", "hand", or "mixed": built by the SDK for another account
  pc,
  seen,                 \* seen[r]: balance and quote as the relay read them
  sponsor, fee,         \* who pays for r, and how much
  outcome,              \* what the relay or the contract made of r
  moves

contractVars == <<owner, feeRecipient>>
chainVars    == <<contractVars, sbtc, stx, originNonce, market>>
requestVars  == <<tx, maker, pc, seen, sponsor, fee, outcome>>
vars == <<chainVars, requestVars, moves>>

World  == [feeRecipient |-> feeRecipient, sbtc |-> sbtc, stx |-> stx, market |-> market]
NoTx   == [user |-> None]
Unread == [balance |-> -1, quote |-> -1]

Init ==
  /\ owner = Deployer /\ feeRecipient = Deployer
  /\ sbtc = InitialSbtc /\ stx = InitialStx
  /\ originNonce = [a \in Accounts |-> 0]
  /\ market = InitialMarket
  /\ tx = [r \in Requests |-> NoTx]
  /\ maker = [r \in Requests |-> "none"]
  /\ pc = [r \in Requests |-> "new"]
  /\ seen = [r \in Requests |-> Unread]
  /\ sponsor = [r \in Requests |-> None]
  /\ fee = [r \in Requests |-> 0]
  /\ outcome = [r \in Requests |-> "none"]
  /\ moves = 0

-----------------------------------------------------------------------------
(* The wallet *)

(* quoteXyk, quoteVelar and quoteDlmm promise what the pool would pay now; *)
(* Velar's refuses an input below its minimum.                             *)
Quote(p, net) ==
  IF p = VELAR /\ ~VelarTakes(net) THEN 0 ELSE Received(p, net, market)

Signs(r, t, who) ==
  /\ tx' = [tx EXCEPT ![r] = t]
  /\ maker' = [maker EXCEPT ![r] = who]
  /\ pc' = [pc EXCEPT ![r] = "signed"]

Build(r) ==
  /\ pc[r] = "new"
  /\ \E i \in BuildInputs :
       LET q == IF i.pool \in PoolIds THEN Quote(i.pool, quoteInput(i)) ELSE 0
       IN  /\ Passes(BuildChecks(i, q))
           /\ Signs(r, buildSwapCall(i, q, originNonce[i.user]), "sdk")
  /\ UNCHANGED <<chainVars, seen, sponsor, fee, outcome, moves>>

(* The page keeps the call it committed when another account connects, and *)
(* asks that one to sign it: the wallet signs what was built, conditions   *)
(* on the first account included, as the second.                           *)
BuildForAnother(r) ==
  /\ pc[r] = "new"
  /\ \E i \in BuildInputs :
       LET q == IF i.pool \in PoolIds THEN Quote(i.pool, quoteInput(i)) ELSE 0
       IN  /\ Passes(BuildChecks(i, q))
           /\ \E u \in Users \ {i.user} :
                Signs(r, [buildSwapCall(i, q, originNonce[u]) EXCEPT !.user = u], "mixed")
  /\ UNCHANGED <<chainVars, seen, sponsor, fee, outcome, moves>>

SignByHand(r) ==
  /\ pc[r] = "new"
  /\ \E t \in HandMade : Signs(r, t, "hand")
  /\ UNCHANGED <<chainVars, seen, sponsor, fee, outcome, moves>>

-----------------------------------------------------------------------------
(* The relay *)

Goto(r, label) == pc' = [pc EXCEPT ![r] = label]

Refuses(r, code) ==
  /\ Goto(r, "refused")
  /\ outcome' = [outcome EXCEPT ![r] = code]

VerifyTx(r) ==
  /\ pc[r] = "signed"
  /\ \/ /\ verifySponsoredSwap(tx[r]) = "ok"
        /\ Goto(r, "balance")
        /\ UNCHANGED outcome
     \/ /\ verifySponsoredSwap(tx[r]) # "ok"
        /\ Refuses(r, verifySponsoredSwap(tx[r]))
  /\ UNCHANGED <<chainVars, tx, maker, seen, sponsor, fee, moves>>

CheckBalance(r) ==
  /\ pc[r] = "balance"
  /\ seen' = [seen EXCEPT ![r].balance = sbtc[tx[r].user]]
  /\ \/ /\ sbtc[tx[r].user] >= tx[r].amount
        /\ Goto(r, "nonce")
        /\ UNCHANGED outcome
     \/ /\ sbtc[tx[r].user] < tx[r].amount
        /\ Refuses(r, "INSUFFICIENT_SBTC")
  /\ UNCHANGED <<chainVars, tx, maker, sponsor, fee, moves>>

(* possibleNext counts the origin's transactions in the mempool, other     *)
(* swaps and payments of its own alike: it may be any nonce from the next  *)
(* one on.                                                                 *)
CheckNonce(r) ==
  /\ pc[r] = "nonce"
  /\ \/ /\ tx[r].nonce >= originNonce[tx[r].user]
        /\ Goto(r, "quote")
        /\ UNCHANGED outcome
     \/ /\ tx[r].nonce # originNonce[tx[r].user]
        /\ Refuses(r, "BAD_NONCE")
  /\ UNCHANGED <<chainVars, tx, maker, seen, sponsor, fee, moves>>

byteLength(t) == PlainLength + (IF t.integrator = None THEN 0 ELSE IntegratorLength)

(* The quote, the fee, and the broadcast.                                  *)
CheckQuote(r) ==
  LET t == tx[r]
      q == Quote(t.pool, swapInput(t))
  IN  /\ pc[r] = "quote"
      /\ seen' = [seen EXCEPT ![r].quote = q]
      /\ \/ /\ q < t.minOut
            /\ Refuses(r, "QUOTE_BELOW_MIN_OUT")
            /\ UNCHANGED <<sponsor, fee>>
         \/ /\ q >= t.minOut
            /\ ~tierCoversFloor(tierNameOf(t), byteLength(t))
            /\ Refuses(r, "TIER_TOO_SMALL")
            /\ UNCHANGED <<sponsor, fee>>
         \/ /\ q >= t.minOut
            /\ tierCoversFloor(tierNameOf(t), byteLength(t))
            /\ sponsor' = [sponsor EXCEPT ![r] = tierNameOf(t)]
            /\ fee' = [fee EXCEPT ![r] = computeFee(tierNameOf(t), byteLength(t))]
            /\ Goto(r, "mempool")
            /\ UNCHANGED outcome
      /\ UNCHANGED <<chainVars, tx, maker, moves>>

(* The sweep re-sponsors with a higher fee.                                *)
Bump(r) ==
  /\ pc[r] = "mempool"
  /\ sponsor[r] \in TierName
  /\ ~Exhausted(sponsor[r], fee[r])
  /\ fee' = [fee EXCEPT ![r] = bumpFee(sponsor[r], @)]
  /\ UNCHANGED <<chainVars, tx, maker, pc, seen, sponsor, outcome, moves>>

(* Anyone may sponsor a well-formed transaction; nothing else is checked.  *)
SponsorElsewhere(r) ==
  /\ pc[r] = "signed"
  /\ tx[r].defects = {}
  /\ \E s \in OtherSponsors : sponsor' = [sponsor EXCEPT ![r] = s]
  /\ fee' = [fee EXCEPT ![r] = 1]
  /\ Goto(r, "mempool")
  /\ UNCHANGED <<chainVars, tx, maker, seen, outcome, moves>>

-----------------------------------------------------------------------------
(* The chain *)

Charged(r) == [stx EXCEPT ![sponsor[r]] = @ - fee[r]]

(* The books after a committed swap (the pools' own are not kept).         *)
If(condition, n) == IF condition THEN n ELSE 0

SbtcAfter(t) ==
  [a \in Accounts |-> sbtc[a] - If(a = t.user, Spent(t, World))
                              + If(a = feeRecipient, ServiceFee(t))
                              + If(a = t.integrator, IntegratorFee(t))]

StxAfter(r, t) ==
  [a \in Accounts |-> Charged(r)[a] + If(a = t.user, Out(t, World) - t.tier)
                                    + If(a = sponsor[r], t.tier)]

(* A swap moves its own pool: the price falls, the depth shrinks.          *)
MarketAfter(t) ==
  \E p \in Pool :
    /\ p.rate <= market[t.pool].rate
    /\ p.depth <= market[t.pool].depth
    /\ t.pool # DLMM => p.depth = market[t.pool].depth
    /\ market' = [market EXCEPT ![t.pool] = p]

(* Mutant: an abort leaves the transfers made before it.                   *)
Mine_KeepsFees(r) ==
  LET t == tx[r]
      result == swapSbtcForGas(t, sponsor[r], World)
  IN  /\ pc[r] = "mempool"
      /\ t.nonce = originNonce[t.user]
      /\ stx[sponsor[r]] >= fee[r]
      /\ Goto(r, "mined")
      /\ outcome' = [outcome EXCEPT ![r] = result]
      /\ originNonce' = [originNonce EXCEPT ![t.user] = @ + 1]
      /\ IF result = "ok"
         THEN sbtc' = SbtcAfter(t) /\ stx' = StxAfter(r, t) /\ MarketAfter(t)
         ELSE stx' = Charged(r) /\ sbtc' = SbtcAfter(t) /\ UNCHANGED market
      /\ UNCHANGED <<contractVars, tx, maker, seen, sponsor, fee, moves>>

(* A block takes the transaction: the sponsor pays the fee and the origin  *)
(* nonce is used up whatever the contract says; the rest moves only if it  *)
(* says ok.                                                                *)
Mine(r) ==
  LET t == tx[r]
      result == swapSbtcForGas(t, sponsor[r], World)
  IN  /\ pc[r] = "mempool"
      /\ t.nonce = originNonce[t.user]
      /\ stx[sponsor[r]] >= fee[r]
      /\ Goto(r, "mined")
      /\ outcome' = [outcome EXCEPT ![r] = result]
      /\ originNonce' = [originNonce EXCEPT ![t.user] = @ + 1]
      /\ IF result = "ok"
         THEN sbtc' = SbtcAfter(t) /\ stx' = StxAfter(r, t) /\ MarketAfter(t)
         ELSE stx' = Charged(r) /\ UNCHANGED <<sbtc, market>>
      /\ UNCHANGED <<contractVars, tx, maker, seen, sponsor, fee, moves>>

Moves == moves < MaxMoves /\ moves' = moves + 1

PriceMoves ==
  /\ Moves
  /\ \E p \in PoolIds, s \in Pool : s # market[p] /\ market' = [market EXCEPT ![p] = s]
  /\ UNCHANGED <<contractVars, sbtc, stx, originNonce, requestVars>>

(* A user's own transaction: it pays all its sBTC to someone.              *)
Spend(u) ==
  /\ Moves
  /\ sbtc[u] > 0
  /\ \E a \in Others :
       /\ a # u
       /\ sbtc' = [sbtc EXCEPT ![u] = 0, ![a] = @ + sbtc[u]]
  /\ originNonce' = [originNonce EXCEPT ![u] = @ + 1]
  /\ UNCHANGED <<contractVars, stx, market, requestVars>>

(* The owner functions; a call by anyone else is u100 and does nothing.    *)
setFeeRecipient(caller) ==
  /\ Moves
  /\ caller = owner
  /\ \E a \in Users \union Others : a # feeRecipient /\ feeRecipient' = a
  /\ UNCHANGED <<owner, sbtc, stx, originNonce, market, requestVars>>

transferOwnership(caller) ==
  /\ Moves
  /\ caller = owner
  /\ \E a \in Users \union Others : a # owner /\ owner' = a
  /\ UNCHANGED <<feeRecipient, sbtc, stx, originNonce, market, requestVars>>

RelayStep(r) == VerifyTx(r) \/ CheckBalance(r) \/ CheckNonce(r) \/ CheckQuote(r) \/ Bump(r)

Next ==
  \/ \E r \in Requests : Build(r) \/ BuildForAnother(r) \/ SignByHand(r)
  \/ \E r \in Requests : RelayStep(r) \/ SponsorElsewhere(r) \/ Mine(r)
  \/ PriceMoves
  \/ \E u \in Users : Spend(u)
  \/ \E a \in Accounts : setFeeRecipient(a) \/ transferOwnership(a)

Spec == Init /\ [][Next]_vars

-----------------------------------------------------------------------------
(* The Done page: what it lists of a committed swap, from the tuple the    *)
(* contract returned and the amount of the call.                           *)

ledgerLines(result, amount) ==
  LET fees == result.serviceFee + result.integratorFee
  IN  [sbtc |-> [fees |-> fees, intoPool |-> amount - fees],
       stx  |-> [keep |-> result.received - result.rebate]]

-----------------------------------------------------------------------------
(* Properties *)

Sponsored(r) == pc[r] \in {"mempool", "mined"} /\ sponsor[r] \in TierName

(* Balances never go below zero: the checks of the call cover every        *)
(* transfer it makes, and the network every fee.                           *)
TypeOK ==
  /\ sbtc \in [Accounts -> Nat] /\ stx \in [Accounts -> Nat]
  /\ owner \in Users \union Others /\ feeRecipient \in Users \union Others
  /\ originNonce \in [Accounts -> Nat]
  /\ market \in [PoolIds -> Pool]
  /\ pc \in [Requests -> {"new", "signed", "balance", "nonce", "quote", "mempool",
                          "refused", "mined"}]
  /\ fee \in [Requests -> Nat]
  /\ moves \in Nat

(* Two validators written apart agree: what the SDK builds, the relay's    *)
(* verification accepts, whatever moved between quote and submission.      *)
BuiltIsVerified ==
  \A r \in Requests :
    pc[r] = "refused" /\ maker[r] = "sdk" =>
      outcome[r] \in {"INSUFFICIENT_SBTC", "BAD_NONCE", "QUOTE_BELOW_MIN_OUT", "TIER_TOO_SMALL"}

(* A transaction this relay sponsored can abort for the reasons preflight  *)
(* cannot rule out and for no other: a short balance, a pool's minimum, a  *)
(* transfer to oneself, the sponsor's own swap.  No argument check of the  *)
(* contract fails, the rebate is always covered, and the post-conditions   *)
(* never undo what the contract accepts, partial fills included.           *)
WorldlyAborts == {"sbtc u1", "sbtc u2", "pool", "u109"}
OnlyTheWorldAborts ==
  \A r \in Requests :
    pc[r] = "mined" /\ Sponsored(r) =>
      \/ outcome[r] \in WorldlyAborts \union {"ok"}
      \/ outcome[r] = "runtime" /\ Overflows(tx[r])

(* Preflight is honoured: a sponsored swap aborts only if the balance or   *)
(* the price fell after the relay read it, or the user is the contract's   *)
(* fee recipient or the sponsor itself.                                    *)
Fell(r) ==
  \/ sbtc[tx[r].user] < seen[r].balance
  \/ Quote(tx[r].pool, swapInput(tx[r])) < seen[r].quote

Aborts(r) == pc[r] = "mempool" /\ sponsor[r] \in TierName /\ outcome'[r] \notin {"none", "ok"}

AbortsAreExplained ==
  [][\A r \in Requests :
       Aborts(r) => Fell(r) \/ tx[r].user \in {feeRecipient, sponsor[r]}]_vars

(* A committed swap leaves the sponsor no poorer, however often it was     *)
(* bumped; an aborted one costs it at most the tier.                       *)
SponsorBreaksEven ==
  [][\A r \in Requests :
       pc[r] = "mempool" /\ pc'[r] = "mined" /\ sponsor[r] \in TierName =>
         LET s == sponsor[r]
         IN  IF outcome'[r] = "ok" THEN stx'[s] >= stx[s]
             ELSE stx'[s] >= stx[s] - TIERS[s]]_vars

(* Whoever sponsors and whoever is the fee recipient by then, the user     *)
(* gets at least min-out less the tier, never loses STX, and sends the     *)
(* amount it signed: exactly, or at most where the pool fills partially.   *)
(* What the Done page says the user keeps is what it got, and the fees and *)
(* the pool's share it lists are what left it, save for a partial fill     *)
(* (app/src/amounts.js:110).  A call built for one account and signed by   *)
(* another never commits (app/src/app.jsx:137).  On an abort the user      *)
(* keeps everything.                                                       *)
UserKeepsTheBargain ==
  [][\A r \in Requests :
       pc[r] = "mempool" /\ pc'[r] = "mined" /\ tx[r].user # sponsor[r] =>
         LET t == tx[r]
             lines == ledgerLines(OkTuple(t, World), t.amount)
         IN  IF outcome'[r] = "ok"
             THEN /\ maker[r] # "mixed"
                  /\ stx'[t.user] = stx[t.user] + lines.stx.keep
                  /\ lines.stx.keep >= t.minOut - t.tier /\ lines.stx.keep >= 0
                  /\ sbtc'[t.user] >= sbtc[t.user] - t.amount
                  /\ t.pool # DLMM =>
                       sbtc'[t.user] = sbtc[t.user] - lines.sbtc.fees - lines.sbtc.intoPool
             ELSE stx'[t.user] = stx[t.user] /\ sbtc'[t.user] = sbtc[t.user]]_vars
=============================================================================
