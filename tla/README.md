# Verification of sBTC Gas Swap

TLA+ modules, TLC configurations and TLAPS proofs kept beside the code of
sBTC Gas Swap. A user who holds sBTC and no STX signs a swap with a fee of
zero; a *relay* verifies it, adds its signature and pays the miner fee; the
*contract* sells the sBTC in a pool and repays the relay out of the proceeds.
Paths below are relative to the repository.

## 1. Inventory

| Component | State it keeps | Operations | What makes it correct |
| --- | --- | --- | --- |
| Swap contract, `contracts/contracts/sbtc-gas-swap-v1.clar` | `owner`, `fee-recipient` | `swap-sbtc-for-gas`, `set-fee-recipient`, `transfer-ownership` | the user gets at least min-out less the tier for at most the amount; the sponsor is repaid exactly the tier; an abort moves nothing; every error is the documented one |
| SDK builder, `sdk/src/build.ts`, `postconditions.ts`, `defaults.ts`, `quote/fees.ts` | none | `buildSwapCall` | what it builds the relay accepts and the contract executes |
| SDK quotes and selection, `sdk/src/quote/*.ts` | none | `quoteFromStates`, `select` | the quote is what the pool pays; a pool that cannot serve is never chosen |
| Wallet and pool integrations, `sdk/src/leather/index.ts`, `sdk/src/bitflow/index.ts` | none | `getSwapQuotes`, `getSwapExecutionData`, `getSponsoredRoute` | from the same reads they build the call the page builds |
| SDK relay client, `sdk/src/relays.ts` | none between calls | `discover`, `rank`, `submit` | one sponsor per swap; a final verdict ends the search |
| Chain client, `sdk/src/client/chain.ts` | none | reads with retry, `getNonces`, `broadcast` | a thrown call is not taken for one that had no effect; a call ends within its caller's timeout |
| Relay requests, `relay/src/core/relay.ts`, `http.ts` | through the store | `POST /v1/sponsor` | one sponsored transaction per origin nonce; distinct sponsor nonces; every request answered and every reservation given back |
| Relay sweep, `relay/src/core/relay.ts` | through the store | `planRbf`, `executeRbf` on a timer | bids climb in time and within the tier; records follow the transaction that is alive |
| Store and nonce ledger, `store.ts`, `nonce.ts`, `adapters/worker.ts`, `adapters/node.ts` | `next` and `pending` nonces per key, pending records, origin reservations, rate windows | allocate, release, settle, reserve, confirm, add, replace, remove | the counter stays ahead of the nonces in use, the pending nonces below the chaining limit; the windows let through no more than their limit |
| Fee policy, `fee.ts`, `config.ts` | none | `computeFee`, `bumpFee`, ... | floor <= bid <= tier, every bump strictly higher |
| Verification, `verify.ts` | none | `verifySponsoredSwap` | nothing the relay sponsors fails an argument check or its own post-conditions on chain |
| Web app, form: `app/src/app.jsx`, `steps.jsx`, `chain.js` | account, step, snapshot, committed call | `refreshAll`, `connect`, `commit`, the fresh quote | only the newest answer is shown; what the wallet is asked to sign can be paid; what is shown reads back as what was meant |
| Web app, result: `app/src/steps.jsx`, `amounts.js` | followed transaction, the last reads | `signAndSponsor`, `poll`, `swapTxs`, `txOutcome` | the outcome shown is the chain's; a pending swap is not lost from view |

Interactions. The app calls the SDK, has the wallet sign, and posts the hex to
relays in turn. A request of the relay reads the chain several times and
touches the store between those reads; each `await` lets other requests and
sweeps run. The sweep reads records and nonces, then works for as long as its
chain calls take; nothing keeps the next one from starting. Everything the
relay reads may have changed when a block takes the transaction.

Hard behaviours. Interleaving of requests and sweeps; an indexing API that
trails the mempool; a broadcast whose answer is lost; a crash between the
broadcast and its record; reservations with two clocks; gaps in a key's nonces
that block everything behind them; prices, balances and settings that move
between preflight and block; two validators and a contract that state the same
limits three times; refreshes, polls and presses of the page that overlap and
end in any order. `PROJECT.json` lists them as hazards with their lines.

## 2. Modules

| Module | Models | State and actions |
| --- | --- | --- |
| `FeePolicy` | `fee.ts` | operators with the code's names |
| `NonceLedger` | `nonce.ts`, the nonce operations of `store.ts` | operators on a ledger `[next, pending]` |
| `StacksNode` | external: mempool, account nonces, API; `ChainClient.getNonces` | `mempool`, `indexed`, `executed`, `accepted`; the node accepts, replaces, mines, drops; the API catches up |
| `Sponsoring` | abstract: what the relay promises of the bids it pays for | `waiting`, `taken`; a bid opens, climbs, leaves |
| `Relay` | `relay.ts`, `store.ts`, the adapters; implements `Sponsoring` | the store, one process per request, one per overlapping sweep, faults |
| `SponsorAttempt` | abstract: what one sponsor call may answer, and when its transaction may be out | `stage`, `taken`, `answer` |
| `SponsorCall` | `http.ts`, `rateLimit` of both stores, `ChainClient.request` against the clock; implements `SponsorAttempt` | windows and what a stale read may still return of them, one process per request with its chain calls, attempts and sleeps |
| `RbfClock` | `planRbf` / `executeRbf` against the clock, with sweeps that fail and restarts | one bid, timer phase, age of the bid, failures and restarts since it was made |
| `SwapLife` | one swap in the Worker's objects (`worker.ts`), from reservation to removal; implements `RbfClock` | the records of each object, the reservation, the calls a sweep still has to make |
| `Checks` | the pattern "first failing check decides" | operators |
| `SwapContract` | the contract's swap function; pools, token and post-conditions external | operators on a call and a world |
| `Verify` | `verify.ts` | operators, the refusals in order |
| `SwapBuild` | the SDK's builder with its own constants | operators |
| `Settlement` | one swap from wallet to block, and the owner's functions; composes the four above and `FeePolicy` | balances, pools, contract variables, one process per swap |
| `Quotes` | the SDK's quotes of the three pools, `selectPool` | operators, and the references they are compared with |
| `Integrations` | `defaults.ts`, `rank`, `leather/index.ts`, `bitflow/index.ts` | operators on what pools and relays answered; extends `SwapBuild` and `Quotes` |
| `Amounts` | how `amounts.js` reads and writes amounts and slippages | operators on texts `[whole, mark, frac, scale]` |
| `SwapForm` | the page up to the wallet | account, refreshes, snapshot, committed call, the press that asks for a fresh quote; extends `Integrations` and `Amounts` |
| `SwapPage` | the page from the wallet on, `RelayClient.submit` | presses, polls, reads; relays, mempool and chain as the page sees them |
| `MCRelay`, `MCSponsorCall`, `MCSwapLife`, `MCSettlement`, `MCSwapForm`, `MCSwapPage` | instances for TLC | constants only |
| `RelayProofs`, `LedgerProofs`, `SponsorCallProofs`, `RbfClockProofs`, `SettlementProofs`, `SwapPageProofs`, `SwapFormProofs` | proofs | lemmas and theorems |
| `NatFacts` | naturals: least and greatest elements, induction and recursion up to a bound | lemmas the other proofs cite |

`Relay` extends `FeePolicy`, `NonceLedger` and `StacksNode`. It knows a swap
only by origin, origin nonce, tier and length; amounts, prices and balances
are in `Settlement`, which in turn leaves nonces of sponsors, records and
sweeps to `Relay`. A refusal that depends on data the other module has is the
fault `refuse` in `Relay`. Time is in `SponsorCall` (half seconds, one call)
and `SwapLife` (minutes, one swap); what they implement is what `Relay`, which
has no clock, takes for granted of a call and of the ladder.

### Relay and the code

A step is what runs between two awaits. `pc` names where `handleSponsor` /
`sponsorReserved` is:

| `pc` | next action | code |
| --- | --- | --- |
| `new` | `Reserve`, `Refuse` | tier minimum, rate limits, `reserveOriginNonce` (relay.ts:31-54) |
| `preflight` | `Preflight` | balance, origin nonce, quote, floor (63-77) |
| `reading` | `ReadSponsor` | `getNonces(key.address)` (82) |
| `allocating` | `Allocate` | `allocateNonce` with the view read before (83-84) |
| `broadcasting` | `Broadcast` | sign and POST (85-94) |
| `recording`, `confirming` | `AddPending`, `ConfirmOriginNonce` | 89, 90 |
| `releasing` | `ReleaseNonce` | give the nonce back, retry once (93-98) |
| `failing` | `ReleaseOrigin` | the catch of `handleSponsor` (57-60) |

`answer` is what the request answers. A sweep goes `idle`, `reading`,
`working` (`PlanRbf` done), `settling`, `freeing` for a record that executed,
`replacing`, `adding` for one that was bumped. `replacePending` is two steps,
as it is on the Worker. The store's other operations are one step: Durable
Objects and the single Node process both serialise them.

A record is the transaction it tracks, and a transaction is
`[swap, nonce, fee]`: signatures are deterministic, so these decide the txid.
An entry of `pending` carries the request that took it, which keeps a list
that may hold a nonce twice as a set of the same size.

Faults, each a step of the model the code reacts to, at most `MaxFaults` of
them and only the kinds in `FaultKinds`: `refuse` (rate limit, balance, quote),
`throw` (a chain call fails before it did anything), `reject` (the node refuses
for another reason than a nonce), `lostReply` and `lostBump` (the node took the
transaction, the answer is lost), `store` (a store call throws: the state file
cannot be written, an object cannot be reached), `death` (of a request or a
sweep), `slow` (a running reservation expires under its request), `expire` (a
reservation with a txid), `drop` (the mempool loses a transaction), `outside`
(the user spends the origin nonce elsewhere).

### SponsorCall, SwapLife and the code

*SponsorCall.* `pc` follows `route`: `origin` and `global` are the two windows
(with `put` while a KV write is out), `reserving`, then `calling` and `asleep`
for the chain calls, which `call` names and `left` counts. `Days` says which
requests come and whether the window is counted at once, as in `MemoryStore`,
or by `get` and `put`, as on the Worker. KV is eventually consistent: a `get`
returns the window of the last `put` or one that a `put` replaced at most a
minute ago (`older`, `Readable`). Each attempt gets a usable reply
(`GoodRead`, `BroadcastReply`), one that `json` throws on (`Unusable`) or one
worth a retry (`BadReply`); the sleep follows the last attempt too. The clock
moves only while everybody sleeps, so that a result is about sleeping, not
about how long a healthy network takes.

*SwapLife.* `objects[t]` are the records in the object of tier `t`; what the
code does to every object (`all()`) is one call after the other, in `calls`. A
`Twin` is the wallet's transaction sent once more. A sweep fails in two places:
reading the nonces throws (`PlanThrows`, relay.ts:156), or the bump is refused or
throws (`BroadcastFails`, 169-170); the record stays as it was until the timer
fires again. A throw at another record before this one in the list is the same
to this one. A restart loses the calls of a sweep, and with them a record that
was removed and not yet added. `Dies` is the end of a request whose transaction
was taken, before its record (relay.ts:88: there never is one) or between the
record and the reservation's txid (89): the process dies and the reservation
lapses after two minutes, or the store call throws and the catch gives it back.
A request that was answered or died is over before the timer next fires; how requests and sweeps overlap is `Relay`'s.

### Settlement and the code

`Build` is `buildSwapCall` after a quote; `BuildForAnother` a call the page
committed for one account and another account is asked to sign; `SignByHand` any
sponsored call a wallet signs without the SDK. `VerifyTx`, `CheckBalance`,
`CheckNonce`, `CheckQuote` are the relay's preflight, one step per chain read,
with what it saw in `seen`. `Bump` is the sweep's next bid. `SponsorElsewhere`
is another relay or a self-made sponsor that checks nothing. `Mine` runs
`swapSbtcForGas`: the sponsor pays the fee and the nonce is used whatever the
outcome, the rest moves only when the call commits; `OkTuple` is what the call
returns and `ledgerLines` what the Done page makes of it. A pool is a price and,
for the one that fills partially, a depth; after a swap its price and depth may
fall to any lower value of the instance.

### SwapForm, SwapPage and the code

The page runs on one thread; a step is again what runs between two awaits, and
what overlaps is what the page has started and not awaited from one place.

*Form.* `refreshes[k]` is the k-th call of `refreshAll`, with the account it
found in `accountRef` and what it has read; `refreshSeq` is the reference of
that name, and only the call whose number it holds writes (`Writes`). The pools
move, so their read is a step of its own (`PoolsEnd`); the other reads bring
what does not change and are taken when the refresh ends. `Continue` is `commit`
of the amount step with everything that blocks its button, from the texts the
user enters. `Press`, `FreshQuote` and `Refused` / `onSponsored` are
`signAndSponsor` up to and after the wallet. `Worlds` are the states of all
pools together, by index, `Trade` a change from one to another. The quotes are
the SDK's formulas on the state that was read; bins are sequences walked with
recursive functions, as the loop does.

*Page.* `presses[s]` is one run of `signAndSponsor`, with the nonce the wallet
chose and the relays it has not asked; `mounted` is the one whose progress is
shown. Leaving the step unmounts it and the run goes on, so its `onSponsored`
may come at any step. `Post`, `TimesOut`, `Answered`, `RelayRefuses` are one
turn of the loop in `submit`. `polls[p]` is one run of `poll`, with the reads it
found when it started (`base`) and the three reads as they end; `PollEnds`
writes. A relay is two sets, requests in service and origin reservations that
have a txid: its inside is `Relay`'s. A transaction is its nonce, relay and bid,
which decide its txid.

## 3. Runs

A pass run takes three to four minutes at most on two cores. What is named after
the last semicolon of a run of `MCRelay` is its `FaultKinds`, with one fault per
behaviour (two in `Chaos`): the code's handlers react to one failure at a time,
and one already reaches every error path.

| Run | Instance | Checks |
| --- | --- | --- |
| `Twin` | alice submits one swap twice and, at the same origin nonce, another on another tier; two overlapping sweeps; lag, both endpoints; lost bump, drop | `LiveIsTracked`, `OneRequestPerOriginNonce`, `SponsorsOnce` |
| `Crowd` | three users of one key with a cap of two, one climbing, two at the tier's limit and interchangeable (symmetry); lag, only the account endpoint; throw, reject, drop | `NoTwins`, `PendingIsCapped`, `LedgerCoversMempool`, `CounterIsAhead`, `HeldUntilOriginExecuted`, `RefinesSponsoring` |
| `Chaos` | three tiers, the middle one the minimum, opening bids below the floor and above the tier; any two faults | `TypeOK`, `FeeWithinBracket`, `EveryBidIsARung` |
| `Live` | fairness; a swap submitted twice, another too long for its tier; throw, reject | `EveryRequestIsAnswered`, `RecordsClimbOrLeave` |
| `Climb` | one swap of the high tier in the Worker's three objects, minutes as ticks; for each bid two sweeps that fail and a restart; the request may end before or after its record | `ClimbsInTime`, `OneRecord`, `RefusedWhileClimbing`, `RefinesClock` |
| `Call` | fairness; one request with all its chain calls and four bad replies; or three requests of two users at limits of one and two, within an hour and after it, counted at once or by get and put with stale reads | `AnsweredInTime`, `LimitHolds`, `RefinesAttempt`, `EveryCallEnds` |
| `Settle` | two swaps, built by the SDK, built for another account, hand-made, or defective in each way the relay looks for; one move of the world, two prices, two depths | `TypeOK`, `BuiltIsVerified`, `OnlyTheWorldAborts`, `AbortsAreExplained`, `SponsorBreaksEven`, `UserKeepsTheBargain` |
| `Form` | two accounts, three refreshes, two worlds, one failed read or silent relay; amounts entered as sats, as BTC, and one that is refused | `TypeOK`, `BalanceIsOfAccount`, `AskedIsPayable`, `SurfacesAgree`, `ShownReadsBack`, `BestIsCommitted`, `QuotesAreFair` |
| `Page` | two presses, two relays, one poll, two bids, an earlier swap or a link to it; one timeout, lost answer, failed read, reload or reset | `TypeOK`, `ShownIsExecuted`, `PendingIsFollowed`, `FreshPollSettles` |
| `Shown` | fairness; one press, two overlapping polls | `ExecutedIsShown` |

Three of the properties are refinements. `RefinesSponsoring`: while the account
endpoint answers and no request dies, loses its broadcast's answer or outlasts
its reservation, users and the network see bids that open only while none waits
for the same origin nonce, take no sponsor nonce another user's bid waits at,
and climb rung by rung. `Crowd` has what this needs to fail: three users, a
transaction the mempool lost, and the sweep that sends it again one rung higher.
The theorem is for any number of users. It is not claimed for the extended endpoint, where it is false: when the
mempool has lost alice's transaction and holds a later one, the API reports her
nonce as missing, it is granted to another user (nonce.ts:22), and the bump of
her record takes the nonce from that user's transaction. `RefinesClock`: calls to
several objects, failing sweeps, restarts, a dying request and an executed swap
make of the ladder what `RbfClock` says. `RefinesAttempt`: through every retry,
sleep and lost reply a call refuses without having sent anything, sends, and then
answers one of the codes that leave open whether the transaction is out.

Bounds. Three requests are the smallest crowd in which one can take a nonce, one
hold it and one arrive between them, and in which a cap of two is met. The fee
policies of `MCRelay` keep the code's shape (opening bid, floor, tier, bump in
hundredths of a percent) with ladders of two or three bids: the first, one in
the middle and the one that stops at the tier are the cases `bumpFee` tells
apart. Two sweeps are the fewest that overlap. In `Crowd` one user climbs and two
open at the limit, because what a climbing bid may displace is any other user's,
whatever rung it stands on. In `Climb` the default policy is
in thousands of micro-STX, with a minute for the chain calls of a sweep; two
failing sweeps and a restart for each of the three bids are the fewest that show
what several failures of one kind and one of each cost, and the ladder they make
still ends after 153 of the 360 minutes. In `Call` the gaps between requests are
half an hour, a tick less than an hour and an hour; without a gap a put is always
less than a minute old. Retries, backoff and the caller's eight seconds are the
code's; four bad replies are one call that fails for good and one more trouble.
In `Settle`
balances are such that one swap fits and two do not, and prices such that one
move makes a quote fall below min-out. `MaxUint` is scaled and one hand-made
call (`MCHuge`) is above it, so that the overflow case is within the instance.
In `Form` three refreshes are the page load, one that overlaps with it and a
later one (`MaxLinked`, two, for a page opened from a txid, which re-reads only
on request); amounts lie on either side of the two limits that decide tier and
slippage, also scaled, and the two worlds make the selection choose the bins,
pass them over and meet a pool that is off. In `Page` two presses are the fewest
of which one was left behind; the page may start from a link to the earlier
swap, under the txid of either relay, and the twenty transactions one read of an
address returns are scaled to one, so that the next transaction of the user
pushes that swap out of it. `Shown` has two polls, the fewest of which one is
overtaken, and pays for them with one press and one bid.

`CHECK_DEADLOCK FALSE` everywhere: a system in which every request is answered
and nothing is pending has nothing left to do.

### What the code does not keep

Two runs each show a statement of the repository to be stronger than the code; the
findings in `PROJECT.json` quote it.

| Run | The documentation | The code |
| --- | --- | --- |
| `Twins` | atomic allocation "is what prevents twins" (docs/relay.md:119) | a gap reported by the API is given again while the request that took it has not broadcast |
| `Dropped` | "Whichever transaction mines at this nonce is the result" (app/src/steps.jsx:379) | a status such as `dropped_replace_by_fee` of the transaction the relay returned counts as an abort while its successor is pending (amounts.js:107). The run has one press and one bump, nothing has executed, and its poll has read the successor as pending. It assumes an API that reports such a status (`ReportsDropped`); the other page runs one that answers 404 |

Smaller differences of the same kind, met while modelling, without a run of
their own; the models have what the code does. In the relay:

- a lost answer of the node frees the reservation (relay.ts:87, against "One
  sponsored transaction per origin nonce", docs/relay.md:121); the retry of such
  a broadcast may also be refused as in conflict with itself, which signs a
  second one;
- a bump is stamped after the plan it came from, so that with a wait of one
  timer interval the next sweep finds it too young and every second sweep bumps
  (relay.ts:171, against "over 30 minutes", docs/relay.md:127);
- the six hours of a reservation (store.ts:32) outlast the ladder of the high
  tier, not the thirteen bumps of the low one or the thirty of the mid one: so
  `RefusedWhileClimbing` is checked for high;
- a reported gap is filled before the cap is compared (nonce.ts:22, against
  "Pending is capped", docs/relay.md:117), and also where the ledger still counts
  the nonce: what is granted there may be displaced by the bump of another user's
  record (above, `RefinesSponsoring`);
- a request that dies between its record and its confirmation leaves a
  reservation of two minutes, as docs/relay.md:121 says of one without a txid,
  while its transaction climbs for half an hour: `RefusedWhileClimbing` excepts it;
- a sweep that throws, and a bump that is refused, are made up for a turn of the
  timer later (relay.ts:156, 170), which docs/relay.md:127 does not mention;
- the sweep releases a reservation when the *sponsor's* nonce executed, by
  whatever transaction (relay.ts:144, against docs/relay.md:121);
- `UPSTREAM_RATE_LIMITED` also answers a broadcast whose first attempt went
  through and whose retry was refused (http.ts:22, against "nothing was
  signed", docs/relay.md:61);
- a call sleeps after its last attempt as well, seven seconds in all
  (chain.ts:61, against "1 s then 2 s", relay/src/chain/client.ts:6,
  docs/relay.md:141), and the spacing of calls does not serialise concurrent
  ones, which wait for the same moment (against docs/sdk.md:76);
- on the Worker a put of a window that was read while others were counted, or
  read up to a minute stale, can undo several requests' counts, not "one request"
  (worker.ts:101); `LimitHolds` allows one for each request that read so;
- pending records have no expiry (store.ts:109, against "3 day TTL",
  docs/relay.md:131);
- after a key was rotated (docs/operator-guide.md:120) the records of the old
  key are bumped with the new one (relay.ts:166).

In the contract: a swap by the fee recipient aborts on the service fee, which
is not among the known aborts (docs/contract.md:201); `integrator-bips` from
9951 on underflow before the check that is documented to refuse them
(sbtc-gas-swap-v1.clar:125, docs/contract.md:58).

In the page and the SDK:

- the late answer to a press whose step was left takes the page to its own
  transaction, also when a newer swap is followed (app.jsx:150), so
  `PendingIsFollowed` is claimed until the first block;
- a second press is told that the page follows the first
  (`ORIGIN_NONCE_IN_FLIGHT`), which is not so once the first has mined and the
  relay has released it;
- a slow poll puts the reads it started from back over newer ones
  (steps.jsx:346), and the mempool's list overrides the confirmed one
  (amounts.js:164): the page may show an outcome and then "pending" again, until
  the next poll;
- a swap executed under another txid and more than twenty transactions ago is
  not found (steps.jsx:343, `Reachable`);
- a page opened from a txid never re-reads the balance when an account connects
  (app.jsx:113), which `BalanceIsOfAccount` excepts, and Continue works from the
  previous snapshot while a refresh runs;
- a committed call stays when another account connects (app.jsx:137): that account
  is asked to sign post-conditions that name the first, and the relay refuses with
  `BAD_POST_CONDITIONS` (`BuildForAnother`);
- the name of an account that was connected before may arrive late and be shown
  beside the next one (app.jsx:119);
- "Into the pool" on the Done page is the amount less the fees (amounts.js:110),
  more than what entered when the pool filled a part;
- commas are taken out wherever they stand (amounts.js:12), so that "0,5" is five;
- with no relay answering the page proposes the low tier whatever the amount,
  the integrations the tier of the amount.

So `NoTwins`, `PendingIsCapped`, `CounterIsAhead` and `LedgerCoversMempool` are
checked where no gap is ever reported (the account endpoint), and
`SponsorsOnce` where no answer is lost. The chain executes at most one of two
twins; what is lost is the other swap and the order of the key's queue, not the
user's funds.

### Fairness

`Live`, `Call` and `Shown` use it (each module's `FairSpec`). In `Live` a
request that has arrived goes on, since the runtime resumes what it awaits; a
sweep that can move does, and the timer starts the next one; blocks come, the
API catches up and time passes. Weak fairness is enough for each: none of these
is disabled and re-enabled for ever without being taken. Nothing makes a request
arrive, a fault happen, or a reservation expire. In `Call` a request that has
arrived takes its steps, and the clock moves while one sleeps; how often its
calls fail is not restricted by it. In `Shown` the interval fires while the page
shows "pending", each read it starts comes back, and a poll whose reads are back
ends; weak fairness is enough because a poll that waits stays enabled until it
is taken or the page leaves. Nothing makes the user press, a relay answer or a
block come: the property speaks of a swap that has executed.

## 4. Proofs

| Theorem | Establishes |
| --- | --- |
| `RelayProofs!TypeCorrect` | `TypeOK` |
| `RelayProofs!BidsStayInBracket` | `FeeWithinBracket` |
| `RelayProofs!BidsClimbTheLadder` | `EveryBidIsARung` |
| `LedgerProofs!BooksAreKept` | the invariant `LInv` the next nine rest on |
| `LedgerProofs!NoncesAreGivenOnce` | `NoTwins` |
| `LedgerProofs!CounterStaysAhead` | `CounterIsAhead` |
| `LedgerProofs!CapIsKept` | `PendingIsCapped` |
| `LedgerProofs!LedgerKnowsTheMempool` | `LedgerCoversMempool` |
| `LedgerProofs!NothingIsForgotten` | `LiveIsTracked` |
| `LedgerProofs!ReservationsExclude` | `OneRequestPerOriginNonce` |
| `LedgerProofs!SwapsAreSponsoredOnce` | `SponsorsOnce` |
| `LedgerProofs!ReservationsHold` | `HeldUntilOriginExecuted` |
| `LedgerProofs!RelayImplementsSponsoring` | `RefinesSponsoring` |
| `RbfClockProofs!BidsAreRaisedInTime` | `ClimbsInTime` |
| `RbfClockProofs!ObjectsImplementClock` | `RefinesClock` |
| `RbfClockProofs!RecordIsOne` | `OneRecord` |
| `RbfClockProofs!ReservationOutlastsLadder`, `HighTierIsRefused` | `RefusedWhileClimbing`, for ladders shorter than the reservation; that the default high tier's is one |
| `SponsorCallProofs!CallTypes` | the invariant `CallIInv` the next two rest on |
| `SponsorCallProofs!CallsAreAttempts` | `RefinesAttempt` |
| `SponsorCallProofs!CallsAnswerInTime` | `AnsweredInTime`, where the sleeps of one call add up to less than the timeout |
| `SponsorCallProofs!WindowsHoldTheLimit` | `LimitHolds` |
| `SettlementProofs!BooksStayTyped` | `TypeOK` |
| `SettlementProofs!ValidatorsAgree` | `BuiltIsVerified` |
| `SettlementProofs!VerifiedAbortsAreWorldly` | `OnlyTheWorldAborts` |
| `SettlementProofs!SponsorsBreakEven` | `SponsorBreaksEven` |
| `SettlementProofs!UsersKeepTheBargain` | `UserKeepsTheBargain` |
| `SettlementProofs!PreflightIsHonoured` | `AbortsAreExplained`, where the supply's fees fit a Clarity uint |
| `SwapPageProofs!PageTypeCorrect` | `TypeOK` |
| `SwapPageProofs!ShownOutcomesAreExecuted` | `ShownIsExecuted`, where the API does not report dropped transactions |
| `SwapPageProofs!FreshPollsSettle` | `FreshPollSettles`, under the same condition |
| `SwapPageProofs!PendingSwapsAreFollowed` | `PendingIsFollowed`, under the same condition |
| `SwapFormProofs!BalanceBelongsToAccount` | `BalanceIsOfAccount` |
| `SwapFormProofs!FormTypeCorrect` | `TypeOK` |
| `SwapFormProofs!ShownTextsReadBack` | `ShownReadsBack` |
| `SwapFormProofs!BestPoolIsCommitted` | `BestIsCommitted` |
| `SwapFormProofs!QuotesArePaid` | `QuotesAreFair`, where a uSTX costs no more than a sat |
| `SwapFormProofs!AskedCallsArePayable` | `AskedIsPayable` |
| `SwapFormProofs!SurfacesBuildTheSame` | `SurfacesAgree` |

They hold for every set of requests, users, tiers, sweeps, prices, amounts,
presses, polls and refreshes allowed by the named assumptions of the modules,
which are those the code justifies: tiers differ in value, opening bids are
naturals and otherwise unchecked, the SDK's and relay's tiers are the pinned
ones, no principal of a pool signs a swap, a pool's fees leave some of its input
and its bins come at rising prices, and `None`, which stands for `null`, is
nothing else.

*Relay.* A bid enters `accepted` in two ways. A first bid: the floor was
compared with the tier in preflight, and `Checked` carries that to the
broadcast. A bump: the sweep bumps a record it planned from a list it read
before, so the invariant `Remembered` says that records, lists, plans and the
item at hand, of any sweep and however old, were accepted earlier; `accepted`
only grows. A bump of an accepted bid below its tier is a rung and stays in the
bracket. `NoncesBounded` is what makes the API's `possibleNext` a natural
number: the maximum of the mempool's nonces exists.

*Ledger.* The theorems of `LedgerProofs` assume `Steady`: the account endpoint
answers, and no answer to a first bid is lost, no process dies, no reservation
runs out, no origin nonce is spent elsewhere. Each exclusion is needed: without
it one of the properties is false of the code (section 3). Calls may still
throw, be refused or rejected, bumps be lost, the mempool drop transactions, and
any number of requests, conflicts and sweeps overlap. None of the properties is
inductive; `LInv` joins eight parts. The counter of a key stays ahead of all it
granted and of the chain, so that a grant is a fresh slot (`LedgerInv`,
`GrantsInv`). A request past preflight holds an origin nonce that is due and
that nothing accepted uses (`FlightInv`, `KeyInv`), so that its first bid is
never refused as a conflict and the ledger never forgets its counter. Each slot
belongs to one swap (`SlotsInv`), so that a slot that is executed has executed
its swap's origin nonce, which is all a sweep goes by when it frees a
reservation (`PlansInv`). What was accepted and is not executed is on record or
about to be (`TrackInv`), and only such is in the mempool (`MempoolInv`). The
refinement maps a first broadcast to `Open`, a bump to `Climb` and everything
that takes a transaction out of the mempool to `Leave`.

*SponsorCall.* `CallIInv` ties the call at hand to the step the request is at
and bounds its attempts. What a call has slept so far is `Second * (2^n - 1)`
after n attempts; `TimeInv` adds that up over the request, whose calls but one
came through at the first attempt, so that it has slept no longer than one call
that failed all along. With the code's two retries that is seven seconds of
eight (`CallsAnswerInTime`). That 2^n doubles and grows is shown by counting the
subsets of `1 .. n` (`PowerIsCount`, `PowerGrows`, `PowerDoubles`), which needs
no induction. `LimitInv` counts what a copy of a window lacks: a copy `Covers`
the requests let through if, from any moment less than an hour ago on, it lacks
no more of them than there were crowded ones, that is requests that read the
window while another handled it or within a minute of a put. The window itself
covers all; a copy that was replaced within the minute, and what a crowded
request has read, may lack one more, the last that was not crowded (`Slack`), but
not while such a request is still to write; there is at most one of those, and
what it has read lacks nothing (`KeyInv`). A request counts itself where fewer
than the limit were in the copy it read, so that an hour holds the limit and one
for each crowded request in it. The refinement maps `pc` to the stage of
`SponsorAttempt` and everything that only retries, sleeps or counts to a
stutter.

*RbfClock and SwapLife.* An idle record was last looked at when the timer last
fired and was then younger than the wait; a running sweep sees it one turn
later; a sweep that fails costs one turn more, a restart at most one turn and one
sweep (`Cost`). In `SwapLife` the
calls a sweep has still to make say where it is on the ladder (`DueInv`) and
which object still has the record (`RecordInv`). For the reservation, a `Ladder`
numbers the bids of a tier by the bumps that are left; `HeldInv` says that the
reservation has been held no longer than the rungs already climbed times the
longest a bid stands, plus the age of the one that stands, so that it cannot
lapse before the last bid does. The six hours satisfy this for the high tier
(`HighTierIsRefused`, with the code's numbers, where each of the three bids may
meet nine failing sweeps, nine restarts, or a mixture of at most 99 minutes), not
for the low and mid ones, whose ladders are longer (section 3). A request that
ended between its record and its confirmation is excepted.

*Settlement.* The three sets of checks are compared one by one
(`VerifiedCall`, `VerifiedArguments`, `AcceptedTransfers`, `FailedTransfers`):
a verified call passes every argument check except the sponsor's own swap and
an overflow, fees of at most 150 hundredths of a percent leave a positive net,
the rebate is covered because min-out is at least the tier, and the expected
post-conditions are implied by the transfers that were made. The invariant
carries "verified" from `VerifyTx` to the block, that the sponsor is the key of
the transaction's tier, and that its fee is within the tier. That a committed
swap was signed by the account it was built for comes from its post-conditions,
which name that account in deny mode.

`PreflightIsHonoured` carries what the relay read to the block: `SeenInv` says
that the balance and the quote it saw covered the call, so that, if neither fell
since, all transfers succeed. What is left is an overflow. The contract
multiplies the amount by the fee rates, so the theorem assumes that the whole
supply of sBTC times the integrator's highest rate fits a uint, which holds on
the chain with more than twenty digits to spare; and no balance ever exceeds the
supply (`SupplyIsKept`). There is no sum over balances to reason about, so a
balance is the set of its numbered sats (`Sats`), and each step is shown to be
an injection of the sats after it into those before.

*SwapPage.* What a poll or the page holds of a transaction is "pending" or what
the chain executed (`ReadsAreTrue`), one transaction for each nonce
(`ByNonce`). The chain only grows, so that reads stay true however late they are
written (`GrowingKeepsReads`); and a status that ends the polling comes from
one of them, of the swap or of a twin at its nonce. `ReportsDropped = FALSE` is
the assumption without which `Dropped` refutes the statement. A press that waits
has a relay left, which the types need. A poll that starts once the swap has
executed names that transaction in whatever it reads (`LateInv`), so that it
settles what is shown however many older polls end around it. While no block
comes, the mempool's transaction of the user is the one the page follows or the
one a relay still has in service for a press that waits (`FollowInv`).

*SwapForm.* The newest refresh reads for the account connected, unless the page
was opened from a txid (`NewestReadsForAccount`): a new account starts one, and
nothing but the newest writes.

The texts: a number grouped by thousands, written with eight decimals or with
two less the zeros at their end reads back as itself (`SatsReadBack`,
`BtcReadsBack`, `BipsReadBack`), for every number and not only those of the run.
The quotes: with x and y the reserves and d the floor of `y * dx / (x + dx)`,
`(x + dx) * (y - d) >= x * y` and one more would not (`ProductIsKept`,
`ProductPays`). For the bins, `reserve`, `worth` and `walk` are recursive
functions on `0 .. Len(bins)`; that such a function exists and what holds of it
at every n is proved with the set of those n (`NatFacts!Recursion`, `UpTo`),
since the induction theorems of the library cannot be used here. One bin rounds
three times, which costs or gains at most two sats as long as its price is at
most one sat a uSTX (`FillIsFair`); the walk takes from the cheapest bin first,
which is how `worth` counts (`DrawnGoesOn`), so the gaps add up to two sats a
bin (`WalkIsFair`). That price is assumed in `QuotesArePaid`: a sat buys some
thousand uSTX. A dearer bin would lose more by rounding down uSTX, not by any
other error. `AskedIsPayable` needs no such assumption: the walk never pays out
more than it took in and a sat for each bin (`WalkIsPaid`), and a lower minimum
is worth less (`WorthGrows`). The selection: `better` orders the quotes of one
read, of which there is at most one for each pool (`OnePerPool`), so that
`selectPool`'s choice exists and is the best (`SelectsTheBest`).

The page then: only `Continue` commits, from the snapshot and an entry that
reads (`CommittedFromSnapshot`). `AskInv` says that a committed call's minimum
covers its tier, that a press keeps the call it started with, and that it opens
the wallet with a fresh quote at least that minimum. The integrations agree
because the three ways to find the lowest minimum of the relays are one
(`MinimaAgree`), the tier and slippage given or by default come out the same,
and a minimum that covers the tier is of a quote above it, as every slippage is
at least a tenth of a percent (`QuoteAboveTier`), so that Leather's
`amount-too-small` never applies.

Every safety and action property of a passing run and every refinement has a
theorem. Only model-checked: liveness (`EveryRequestIsAnswered`,
`RecordsClimbOrLeave`, `EveryCallEnds`, `ExecutedIsShown`), which is out of the
prover's reach, and the theorems of `LedgerProofs` beyond `Steady`: `Twin`
checks three of them with both endpoints of the API, for the users and requests
of that run.

## 5. Not modelled

In the relay: keys that change while records name the old one; a state file that
is torn while it is written; the decoding of a transaction (a set of defects)
and of Clarity values (a reply that can be used or not), the parsing of
settings. In the contract: the arithmetic of the pools (a price and a depth;
what the SDK expects of it is in `Quotes`), read-only functions. In SDK and app:
the price impact, messages, admission, the choice of a wallet, names, layout.
Static pages, fixtures and build scripts, test doubles, vendored sources.
`PROJECT.json` has the reasons.

## 6. Plan

Done, in this order: `FeePolicy`, `NonceLedger`, `StacksNode`, `Relay` with its
runs and proofs; the contract, verification and builder, `Settlement`;
`RbfClock`; `SwapPage`; `Quotes` and `SwapForm`; then `Sponsoring` and the
refinement, `SponsorCall` with the rate windows and retries, `SwapLife` with the
two clocks of a reservation, `Integrations` and `Amounts`, the ledger's
theorems; then the theorems of `SponsorCall`, `SwapLife`, `SwapPage`, of
preflight, and of the form's texts, quotes and calls.

Left:

1. `LedgerProofs` beyond `Steady`: which of its parts survive the extended
   endpoint, and a `min(missing)` that leaves out what is pending, which would show
   that this is what the code lacks.
2. Key rotation: a second key for a tier in the node and the ledger, records
   that carry the address, and a restart that changes which of them is current.
