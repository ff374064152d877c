------------------------------ MODULE SwapForm ------------------------------
(***************************************************************************)
(* The first three steps of the page (app/src/app.jsx, steps.jsx,          *)
(* chain.js): accounts that connect and leave, refreshes that overlap and  *)
(* whose reads end in any order, the call committed on the amount step,    *)
(* and the fresh quote before the wallet opens.  What follows once the     *)
(* wallet has signed is in SwapPage.                                       *)
(***************************************************************************)
EXTENDS Integrations, Amounts

CONSTANTS
  Accounts,      \* the user's accounts in the wallet
  BalanceOf,     \* sBTC of each
  Integrator,    \* INTEGRATOR, of stx.fan
  IntegratorBips,
  Worlds,        \* the states the pools may be in together, pool id -> state
  Entries,       \* what the user enters: [amount, unit, tier, slippage], the amount and
                 \* the slippage as texts, None for the default
  MaxRefreshes,  \* bound: refreshes of one page
  MaxLinked,     \* bound: refreshes of a page that was opened from a txid
  MaxTrades,     \* bound: changes of the pools
  MaxMishaps     \* bound: failed reads and silent relays

AllPools   == DOMAIN SdkPools
RefreshIds == 1 .. MaxRefreshes

(* What a read of the pools brings: those that answered, and their world.  *)
States == [read : SUBSET AllPools, at : DOMAIN Worlds]

(* A refresh that still reads, and what the form keeps of one.             *)
Reading   == [account : Accounts \union {None}, states : States \union {None}]
Snapshots == [states : States, balance : Nat \union {None}]

ASSUME FormAssumption ==
  /\ None \notin Accounts \union Relays \union TierNames \union {Integrator}
  /\ None \notin Reading \union Snapshots \union States
  /\ BalanceOf \in [Accounts -> Nat]
  /\ IntegratorBips \in 0 .. SdkMaxIntegratorBips
  /\ None \notin Nat
  /\ 1 \in DOMAIN Worlds
  /\ \A w \in DOMAIN Worlds :
       /\ DOMAIN Worlds[w] = AllPools
       /\ XykState(Worlds[w][1]) /\ VelarState(Worlds[w][2]) /\ DlmmState(Worlds[w][3])
  /\ Entries \subseteq [amount : Texts, unit : {"sats", "btc"}, tier : TierNames \union {None},
                        slippage : Texts \union {None}]
  /\ MaxRefreshes \in Nat \ {0} /\ MaxLinked \in Nat
  /\ MaxTrades \in Nat /\ MaxMishaps \in Nat

VARIABLES
  account,    \* the connected account, or None
  fromUrl,    \* whether the page was opened from a txid (urlTxid)
  following,  \* whether a swap is followed (result)
  refreshSeq, \* the number of refreshes started
  refreshes,  \* those that still read
  refreshing, form, \* what is shown: verified, relays, snapshot
  committed,  \* the call of the amount step, or None
  press,      \* the run of signAndSponsor before it has a signature
  world,      \* which of Worlds the pools are in
  trades, mishaps

formVars  == <<refreshSeq, refreshes, refreshing, form>>
flowVars  == <<following, committed>>
worldVars == <<world, trades>>
vars == <<account, fromUrl, flowVars, formVars, press, worldVars, mishaps>>

Mishap == mishaps < MaxMishaps /\ mishaps' = mishaps + 1

NoForm  == [verified |-> FALSE, relays |-> None, snapshot |-> None]
NoPress == [pc |-> "idle", call |-> None, fresh |-> None]

(* A refresh reads the balance of the account it finds (accountRef).       *)
Reads(a) == [account |-> a, states |-> None]

(* The page load starts the first refresh.                                 *)
Init ==
  /\ account = None /\ fromUrl \in BOOLEAN
  /\ following = fromUrl
  /\ refreshSeq = 1
  /\ refreshes = [k \in RefreshIds |-> IF k = 1 THEN Reads(None) ELSE None]
  /\ refreshing = TRUE /\ form = NoForm
  /\ committed = None /\ press = NoPress
  /\ world = 1 /\ trades = 0 /\ mishaps = 0

-----------------------------------------------------------------------------
(* refreshAll.                                                             *)

refreshAll(a) ==
  /\ refreshSeq < MaxRefreshes /\ (fromUrl => refreshSeq < MaxLinked)
  /\ refreshSeq' = refreshSeq + 1
  /\ refreshes' = [refreshes EXCEPT ![refreshSeq + 1] = Reads(a)]
  /\ refreshing' = TRUE
  /\ UNCHANGED form

(* The pools among up answered, and are as they are now.                   *)
statesRead(up) == [read |-> up, at |-> world]

netOf(amount) == splitFees(amount, IntegratorBips).net

(* What was read of each pool that answered.                               *)
statesOf(states) == [p \in states.read |-> Worlds[states.at][p]]

(* The pools are read at some moment before the refresh ends.              *)
PoolsEnd(k) ==
  /\ refreshes[k] # None /\ refreshes[k].states = None
  /\ \/ /\ refreshes' = [refreshes EXCEPT ![k].states = statesRead(AllPools)]
        /\ UNCHANGED mishaps
     \/ /\ \E up \in SUBSET AllPools \ {AllPools} :
             refreshes' = [refreshes EXCEPT ![k].states = statesRead(up)]
        /\ Mishap
  /\ UNCHANGED <<account, fromUrl, flowVars, refreshSeq, refreshing, form, press, worldVars>>

(* What the other reads brought by the end: the contract, which is the     *)
(* reviewed one, the relays that answered, and the balance.  Nothing these *)
(* read changes meanwhile, so they are taken when the refresh ends; no     *)
(* account, no balance to read.                                            *)
Balance(a) == IF a = None THEN None ELSE BalanceOf[a]
Answer(verified, up, balance, states) ==
  [verified |-> verified, relays |-> up, snapshot |-> [states |-> states, balance |-> balance]]

ReadInFull(r) == Answer(TRUE, Relays, Balance(r.account), r.states)

(* One of these reads failed: the contract's source, the balance, the      *)
(* relays' list or some of their answers.                                  *)
Unverified(r) == {Answer(FALSE, Relays, Balance(r.account), r.states)}
NoBalance(r)  == {Answer(TRUE, Relays, None, r.states)}
SomeRelays(r) == {Answer(TRUE, up, Balance(r.account), r.states) : up \in SUBSET Relays \ {Relays}}

ReadInPart(r) == Unverified(r) \union NoBalance(r) \union SomeRelays(r)

(* Mutant: any refresh that ends writes what it read.                      *)
Writes_Any(k, answer) == form' = answer /\ refreshing' = FALSE

(* Only the newest refresh may write.                                      *)
Writes(k, answer) ==
  IF k = refreshSeq THEN form' = answer /\ refreshing' = FALSE
  ELSE UNCHANGED <<form, refreshing>>

(* What an older one missed shows nowhere, and is not counted.             *)
RefreshEnds(k) ==
  /\ refreshes[k] # None /\ refreshes[k].states # None
  /\ refreshes' = [refreshes EXCEPT ![k] = None]
  /\ \/ Writes(k, ReadInFull(refreshes[k])) /\ UNCHANGED mishaps
     \/ k = refreshSeq /\ \E answer \in ReadInPart(refreshes[k]) : Writes(k, answer) /\ Mishap
  /\ UNCHANGED <<account, fromUrl, flowVars, refreshSeq, press, worldVars>>

-----------------------------------------------------------------------------
(* The wallet's account.                                                   *)

(* A connection may come back while another account is connected: nothing  *)
(* keeps the user from asking twice.  The effect on [account] re-reads the *)
(* balance, but not on a page that was opened from a txid.                 *)
Connect(a) ==
  /\ a # account
  /\ account' = a
  /\ IF fromUrl THEN UNCHANGED formVars ELSE refreshAll(a)
  /\ UNCHANGED <<fromUrl, flowVars, press, worldVars, mishaps>>

Disconnect ==
  /\ account # None
  /\ account' = None
  /\ UNCHANGED <<fromUrl, flowVars, formVars, press, worldVars, mishaps>>

-----------------------------------------------------------------------------
(* The amount step.                                                        *)

(* The rail opens every step that was reached, so the step shown is left   *)
(* out.  The form is read-only while the call it committed is followed.    *)
FormShown == ~(following /\ committed # None)

Refresh ==
  /\ FormShown /\ ~refreshing
  /\ refreshAll(account)
  /\ UNCHANGED <<account, fromUrl, flowVars, press, worldVars, mishaps>>

(* The lowest minimum of the relays that answered.                         *)
minTier(up) == CHOOSE t \in TierNames :
  /\ \E r \in up : MinTier[r] = t
  /\ \A r \in up : TierRank[t] <= TierRank[MinTier[r]]

(* With no relay there is no minimum to go by, whatever the amount.        *)
autoTier(sats, up) == IF up = {} THEN "low" ELSE defaultTier(sats, minTier(up))

satsOf(e) == parseAmount(e.amount, e.unit)
tierOf(e) == IF e.tier # None THEN e.tier ELSE autoTier(satsOf(e), form.relays)
slippageOf(e) ==
  IF e.slippage # None THEN parseSlippagePct(e.slippage) ELSE defaultSlippageBips(satsOf(e))

quoteFromSnapshot(amount) == quoteFromStates(statesOf(form.snapshot.states), netOf(amount))

(* What buildSwapCall is given for an entry.                               *)
inputOf(e, pool) ==
  [user |-> account, amount |-> satsOf(e), tier |-> tierOf(e), pool |-> pool,
   slippage |-> slippageOf(e), integrator |-> Integrator, bips |-> IntegratorBips]

(* Whatever blocks the button: a text that is refused, no account,         *)
(* contract, snapshot or balance, no live quote, no relay for the tier, a  *)
(* call that does not build.                                               *)
Continue(e) ==
  /\ FormShown /\ account # None
  /\ form.verified /\ form.snapshot # None
  /\ satsOf(e) # None /\ slippageOf(e) # None
  /\ form.snapshot.balance # None /\ satsOf(e) <= form.snapshot.balance
  /\ rank(form.relays, tierOf(e)) # {}
  /\ LET quotes == quoteFromSnapshot(satsOf(e))
         best   == selectPool(quotes)
         input  == inputOf(e, best.poolId)
         built  == Built(input, best.out)
     IN  /\ eligible(quotes) # {}
         /\ built.builds
         /\ committed' = [amount |-> input.amount, tier |-> input.tier, slippage |-> input.slippage,
                          pool |-> best.poolId, call |-> built.call]
  /\ UNCHANGED <<account, fromUrl, following, formVars, press, worldVars, mishaps>>

(* Of a committed call the form then shows, beside the pool and the STX:   *)
(* the amount in both units and the slippage; and for an amount it         *)
(* proposes a slippage.                                                    *)
Shown(c) == [sats |-> fmtSats(c.amount), btc |-> fmtBtc(c.amount), slippage |-> fmtBips(c.slippage)]
proposedSlippage(sats) == bipsToPct(defaultSlippageBips(sats))

-----------------------------------------------------------------------------
(* signAndSponsor, up to the wallet.                                       *)

Press ==
  /\ committed # None /\ ~following /\ account # None
  /\ press.pc = "idle"
  /\ form.relays # None /\ rank(form.relays, committed.tier) # {}
  /\ press' = [pc |-> "requoting", call |-> committed, fresh |-> None]
  /\ UNCHANGED <<account, fromUrl, flowVars, formVars, worldVars, mishaps>>

(* Mutant: the best of the pools is asked again, not the one of the call.  *)
freshQuoteFor_Best(up, amount, pool) ==
  LET quotes == quoteFromStates(statesOf(statesRead(up)), netOf(amount))
  IN  IF eligible(quotes) = {} THEN 0 ELSE selectPool(quotes).out

(* The output of the call's pool; 0 if it did not answer or cannot quote.  *)
freshQuoteFor(up, amount, pool) ==
  IF pool \in up THEN quotePool(pool, Worlds[world][pool], netOf(amount)).out ELSE 0

(* The fresh read: the wallet opens if the pool still pays the minimum.    *)
(* fresh is the world that was read.                                       *)
Requotes(up) ==
  LET c   == press.call
      out == freshQuoteFor(up, c.amount, c.pool)
  IN  /\ press.pc = "requoting"
      /\ press' = (IF out = 0 \/ out < c.call.minOut THEN NoPress
                   ELSE [pc |-> "signing", call |-> c, fresh |-> world])
      /\ UNCHANGED <<account, fromUrl, flowVars, formVars, worldVars>>

FreshQuote ==
  \/ Requotes(AllPools) /\ UNCHANGED mishaps
  \/ \E up \in SUBSET AllPools \ {AllPools} : Requotes(up) /\ Mishap

(* The user refuses, or no relay takes it.                                 *)
Refused ==
  /\ press.pc = "signing"
  /\ press' = NoPress
  /\ UNCHANGED <<account, fromUrl, flowVars, formVars, worldVars, mishaps>>

onSponsored ==
  /\ press.pc = "signing"
  /\ press' = NoPress
  /\ following' = TRUE
  /\ UNCHANGED <<account, fromUrl, committed, formVars, worldVars, mishaps>>

(* Retry or Swap Again on the Done page.                                   *)
onRetry ==
  /\ following
  /\ following' = FALSE /\ committed' = None
  /\ refreshAll(account)
  /\ UNCHANGED <<account, fromUrl, press, worldVars, mishaps>>

Trade ==
  /\ trades < MaxTrades /\ trades' = trades + 1
  /\ world' \in DOMAIN Worlds \ {world}
  /\ UNCHANGED <<account, fromUrl, flowVars, formVars, press, mishaps>>

-----------------------------------------------------------------------------
Next ==
  \/ \E k \in RefreshIds :
       PoolsEnd(k) \/ RefreshEnds(k)
  \/ \E a \in Accounts : Connect(a)
  \/ Disconnect
  \/ Refresh
  \/ \E e \in Entries : Continue(e)
  \/ Press \/ FreshQuote \/ Refused \/ onSponsored \/ onRetry
  \/ Trade

Spec == Init /\ [][Next]_vars
-----------------------------------------------------------------------------
(* Properties.                                                             *)

(* Types; and the page says that it refreshes exactly while the newest     *)
(* refresh reads (app.jsx:94).                                             *)
TypeOK ==
  /\ account \in Accounts \union {None} /\ fromUrl \in BOOLEAN
  /\ following \in BOOLEAN
  /\ refreshSeq \in RefreshIds /\ refreshing = (refreshes[refreshSeq] # None)
  /\ \A k \in RefreshIds : refreshes[k] # None =>
       k <= refreshSeq /\ refreshes[k] \in Reading
  /\ form.verified \in BOOLEAN
  /\ form.relays \in (SUBSET Relays) \union {None}
  /\ form.snapshot \in Snapshots \union {None}
  /\ committed # None => committed.call.user \in Accounts /\ committed.pool \in DOMAIN SdkPools
  /\ press.pc \in {"idle", "requoting", "signing"}
  /\ world \in DOMAIN Worlds

(* Once nothing is refreshing, the balance shown is that of the account    *)
(* connected, in whatever order accounts came and reads ended              *)
(* (app.jsx:94, app.jsx:112); a page opened from a txid does not re-read.  *)
BalanceIsOfAccount ==
  (~refreshing /\ account # None /\ ~fromUrl)
    => /\ form.snapshot # None
       /\ form.snapshot.balance \in {None, BalanceOf[account]}

(* The call the page commits is the one that the integrations build from   *)
(* the same reads: Bitflow's route for its tier and slippage, and, where   *)
(* the tier is the one by default, Leather's quote, which can be executed. *)
(* Each finds its default and the relays in its own way                    *)
(* (app/src/chain.js:57, leather/index.ts:138, bitflow/index.ts:31).       *)
SurfacesAgree ==
  [][(committed' # committed /\ committed' # None) =>
       LET c       == committed'
           states  == statesOf(form.snapshot.states)
           me      == Provider(Integrator, IntegratorBips)
           auto    == autoTier(c.amount, form.relays)
           bitflow == getSponsoredRoute(me, account, c.amount, IF c.tier = auto THEN None ELSE c.tier,
                                        c.slippage, states, form.relays)
           leather == getSwapQuotes(me, c.amount, states, form.relays)
       IN  /\ bitflow.route = [builds |-> TRUE, call |-> c.call] /\ bitflow.relays # {}
           /\ leather # {}
           /\ c.tier = auto => \A q \in leather :
                /\ q.isExecutable
                /\ getSwapExecutionData(me, q, account, c.slippage)
                     = [builds |-> TRUE, call |-> c.call]]_vars

(* What the page shows of the call it committed reads back as that call,   *)
(* in either unit, and so does the slippage it proposes (steps.jsx:64,     *)
(* steps.jsx:84).                                                          *)
ShownReadsBack ==
  [][(committed' # committed /\ committed' # None) =>
       LET c == committed'
       IN  /\ parseAmount(Shown(c).sats, "sats") = c.amount
           /\ parseAmount(Shown(c).btc, "btc") = c.amount
           /\ parseSlippagePct(Shown(c).slippage) = c.slippage
           /\ parseSlippagePct(proposedSlippage(c.amount)) = defaultSlippageBips(c.amount)]_vars

(* The call the wallet is asked to sign is one that its pool, as the fresh *)
(* read found it, can pay the minimum of, and the minimum covers the       *)
(* sponsor's fee, however long ago the call was committed (steps.jsx:237). *)
AskedIsPayable ==
  press.pc = "signing" =>
    LET c == press.call
    IN  /\ CanPay(c.pool, Worlds[press.fresh][c.pool], netOf(c.amount), c.call.minOut)
        /\ c.call.minOut >= SdkTiers[c.tier]

(* What each pool that answered is quoted to pay, when a call is committed *)
(* on it, is what it pays: the most a constant product allows, or the      *)
(* bins' prices to two sats for each bin (sdk/src/quote/types.ts:4).       *)
QuotesAreFair ==
  [][(committed' # committed /\ committed' # None) =>
       LET at == form.snapshot.states.at
       IN  \A q \in quoteFromSnapshot(committed'.amount) :
             Fair(q.poolId, Worlds[at][q.poolId], netOf(committed'.amount), q)]_vars

(* The pool committed to pays the most of those that answered; only the    *)
(* DLMM is passed over, when the others pay little but something           *)
(* (sdk/src/quote/select.ts:6).                                            *)
BestIsCommitted ==
  [][(committed' # committed /\ committed' # None) =>
       LET quotes == quoteFromSnapshot(committed'.amount)
           mine   == CHOOSE q \in quotes : q.poolId = committed'.pool
           others == {q \in quotes : q.poolId # 3}
           small  == /\ \A q \in others : q.out < DlmmMinOutput
                     /\ \E q \in others : q.out > 0
       IN  /\ mine.out > 0
           /\ \A q \in quotes : q.out > mine.out => q.poolId = 3 /\ small
           /\ mine.poolId = 3 => ~small]_vars
=============================================================================
