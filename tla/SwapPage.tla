------------------------------ MODULE SwapPage ------------------------------
(***************************************************************************)
(* One user's swap from the wallet to the Done page: signAndSponsor and    *)
(* the last step of the page (app/src/steps.jsx, app.jsx, amounts.js), the *)
(* SDK's RelayClient.submit (sdk/src/relays.ts) over several relays, and   *)
(* as much of relays, mempool and chain as the page can see.               *)
(*                                                                         *)
(* The page runs on one thread; a step of the model is what happens        *)
(* between two awaits.  A press of Sign and Swap goes on when its step is  *)
(* left, so that two may run; a poll goes on while the next one starts.    *)
(* What a relay does between taking a request and broadcasting it is in    *)
(* Relay; the form of the first two steps is in SwapForm.                  *)
(***************************************************************************)
EXTENDS Integers, Sequences, FiniteSets

CONSTANTS
  Relays,         \* the sponsor services
  Ranked,         \* those that take the swap's tier, best first (RelayClient.rank)
  Presses,        \* presses of Sign and Swap that may run at once
  Polls,          \* polls that may run at once
  None,
  AddressLimit,   \* how many transactions one read of an address returns
  ReportsDropped, \* whether the API tells a transaction that was dropped from one it never saw
  Earlier,        \* what the account executed before: a sequence of outcomes
  MaxBid,         \* bound: bids of one relay for one transaction
  MaxNonce,       \* bound: transactions the user's account executes
  MaxMishaps      \* bound: failed reads, silent relays, lost answers, reloads

ASSUME PageAssumption ==
  /\ None \notin Relays \union Presses \union Polls
  /\ Ranked \in Seq(Relays) \ {<<>>}
  /\ Earlier \in Seq({"success", "abort"}) /\ Len(Earlier) <= MaxNonce
  /\ AddressLimit \in Nat \ {0} /\ ReportsDropped \in BOOLEAN
  /\ MaxBid \in Nat \ {0} /\ MaxNonce \in Nat \ {0} /\ MaxMishaps \in Nat

(* A sponsored transaction of the user.  Its relay and its bid make it     *)
(* another txid at the same origin nonce; relay = None is a transaction    *)
(* the user sends without a sponsor.                                       *)
Tx(n, r, b) == [nonce |-> n, relay |-> r, bid |-> b]
Nonces == 0 .. MaxNonce
Txs == [nonce : Nonces, relay : Relays \union {None}, bid : 1 .. MaxBid]

(* None is neither a transaction nor what the API says of one.             *)
ASSUME NoneAssumption ==
  None \notin Txs \union [tx : Txs, status : {"success", "abort", "pending", "dropped"}]

VARIABLES
  view,     \* viewStep: "amount", "sign", "done"
  result,   \* the transaction the page follows, or None
  presses,  \* the runs of signAndSponsor
  mounted,  \* the press the mounted Step3 shows (phase), or None
  reads,    \* Step4's reads: what the API last said
  polls,    \* the runs of poll
  executed, \* chain: the user's transactions and their outcomes, by nonce
  mempool,  \* chain: transactions some node holds
  serving,  \* relays: requests taken and not answered, <<relay, nonce>>
  booked,   \* relays: origin reservations that have a txid
  mishaps

pageVars  == <<view, result, presses, mounted>>
pollVars  == <<reads, polls>>
chainVars == <<executed, mempool>>
relayVars == <<serving, booked>>
vars == <<pageVars, pollVars, chainVars, relayVars, mishaps>>

Idle    == [pc |-> "idle", nonce |-> 0, left |-> <<>>]
NoReads == [direct |-> None, address |-> <<>>, mempool |-> {}]
NoPolls == [p \in Polls |-> None]

(* The account's past: swaps that the best relay sponsored.                *)
History ==
  [i \in DOMAIN Earlier |-> [tx |-> Tx(i - 1, Ranked[1], 1), status |-> Earlier[i]]]

(* A page may be opened from the link to an earlier swap, which names the  *)
(* txid a relay returned, not the one that was executed.                   *)
Links == [nonce : {i - 1 : i \in DOMAIN Earlier}, relay : Relays, bid : {1}]

Init ==
  /\ \/ view = "amount" /\ result = None
     \/ view = "done" /\ result \in Links
  /\ presses = [s \in Presses |-> Idle] /\ mounted = None
  /\ reads = NoReads /\ polls = NoPolls
  /\ executed = History /\ mempool = {}
  /\ serving = {} /\ booked = {}
  /\ mishaps = 0

Mishap == mishaps < MaxMishaps /\ mishaps' = mishaps + 1

-----------------------------------------------------------------------------
(* What the reads say of the swap: swapTxs and txOutcome.                  *)

Used(n) == n < Len(executed)
Outcome(n) == executed[n + 1].status

Listed(rd) == {rd.address[i] : i \in DOMAIN rd.address}

(* byId keeps the last of direct, addressTxs, mempoolTxs for a txid.       *)
Status(rd, tx) ==
  IF tx \in rd.mempool THEN "pending"
  ELSE IF \E e \in Listed(rd) : e.tx = tx
       THEN (CHOOSE e \in Listed(rd) : e.tx = tx).status
  ELSE IF rd.direct # None /\ rd.direct.tx = tx THEN rd.direct.status
  ELSE "unseen"

byId(rd) == rd.mempool \union {e.tx : e \in Listed(rd)}
            \union (IF rd.direct = None THEN {} ELSE {rd.direct.tx})
mined(status) == status \in {"success", "abort"}

(* Mutant: other transactions of the origin, at any nonce.                 *)
twins_AnyNonce(rd, tx) == {t \in byId(rd) : t # tx}

(* Other transactions of the origin at this nonce.                         *)
twins(rd, tx) == {t \in byId(rd) : t # tx /\ t.nonce = tx.nonce}
confirmedTwins(rd, tx) == {t \in twins(rd, tx) : mined(Status(rd, t))}

(* Mutant: the txid the relay returned, whatever mined at its nonce.       *)
current_Returned(rd, tx) == tx

current(rd, tx) ==
  IF mined(Status(rd, tx)) \/ confirmedTwins(rd, tx) = {} THEN tx
  ELSE CHOOSE t \in confirmedTwins(rd, tx) : TRUE

(* Whatever is neither pending nor a success is an abort.                  *)
txOutcome(status) ==
  CASE status \in {"unseen", "pending"} -> "pending"
    [] status = "success" -> "success"
    [] OTHER -> "abort"

shown == txOutcome(Status(reads, current(reads, result)))
Final == view = "done" /\ result # None /\ shown # "pending"

-----------------------------------------------------------------------------
(* The steps of the page.                                                  *)

(* A Step4 that is mounted reads afresh; the polls of one that is not      *)
(* write nowhere.                                                          *)
Show(v) ==
  /\ view' = v
  /\ IF v = view THEN UNCHANGED pollVars ELSE reads' = NoReads /\ polls' = NoPolls

Continue ==
  /\ view = "amount" /\ result = None
  /\ Show("sign")
  /\ UNCHANGED <<result, presses, mounted, chainVars, relayVars, mishaps>>

(* Leaving the step unmounts it; a press that runs goes on.                *)
Back ==
  /\ \/ view = "sign" /\ Show("amount")
     \/ view = "done" /\ Show("sign")
  /\ mounted' = None
  /\ UNCHANGED <<result, presses, chainVars, relayVars, mishaps>>

ToDone ==
  /\ view # "done" /\ result # None
  /\ Show("done")
  /\ mounted' = None
  /\ UNCHANGED <<result, presses, chainVars, relayVars, mishaps>>

(* Retry after an abort, Swap Again after a success.                       *)
onRetry ==
  /\ Final
  /\ result' = None
  /\ Show("amount")
  /\ UNCHANGED <<presses, mounted, chainVars, relayVars, mishaps>>

(* The page is loaded again: the URL holds the followed txid with origin   *)
(* and nonce, nothing else.                                                *)
Loads ==
  /\ Mishap
  /\ reads' = NoReads /\ polls' = NoPolls
  /\ presses' = [s \in Presses |-> Idle]
  /\ mounted' = None
  /\ UNCHANGED <<chainVars, relayVars>>

Reload ==
  /\ Loads
  /\ view' = (IF result = None THEN "amount" ELSE "done")
  /\ UNCHANGED result

(* The Reset button clears the URL first.                                  *)
Reset ==
  /\ Loads
  /\ view' = "amount" /\ result' = None

-----------------------------------------------------------------------------
(* signAndSponsor and submit.                                              *)

Becomes(s, rec) == presses' = [presses EXCEPT ![s] = rec]
Moves(s, pc) == presses' = [presses EXCEPT ![s].pc = pc]

(* Mutant: a press that fails leaves its step busy.                        *)
Fails_StaysBusy(s) == Becomes(s, Idle) /\ UNCHANGED <<view, result, mounted, pollVars>>

(* The press is over and shows an error, if its step is still there.       *)
Fails(s) ==
  /\ Becomes(s, Idle)
  /\ mounted' = (IF mounted = s THEN None ELSE mounted)
  /\ UNCHANGED <<view, result, pollVars>>

(* Mutant: an answer that finds its step left is dropped.                  *)
Follows_IfMounted(s, tx) ==
  /\ Becomes(s, Idle)
  /\ IF mounted = s THEN result' = tx /\ Show("done") /\ mounted' = None
     ELSE UNCHANGED <<view, result, mounted, pollVars>>

(* onSponsored: to the Done page, from whatever step is shown.             *)
Follows(s, tx) ==
  /\ Becomes(s, Idle)
  /\ result' = tx
  /\ Show("done")
  /\ mounted' = None

(* The next relay in the list.                                             *)
TriesNext(s) ==
  /\ presses' = [presses EXCEPT ![s].pc = "posting", ![s].left = Tail(@)]
  /\ UNCHANGED <<view, result, mounted, pollVars>>

Press(s) ==
  /\ view = "sign" /\ result = None /\ mounted = None
  /\ presses[s].pc = "idle"
  /\ Moves(s, "signing")
  /\ mounted' = s
  /\ UNCHANGED <<view, result, pollVars, chainVars, relayVars, mishaps>>

(* The wallet signs at the nonce after the last confirmed transaction; or  *)
(* the fresh quote is too low, or the user refuses.                        *)
WalletSigns(s) ==
  /\ presses[s].pc = "signing" /\ Len(executed) < MaxNonce
  /\ presses' = [presses EXCEPT ![s].pc = "posting", ![s].nonce = Len(executed),
                                ![s].left = Ranked]
  /\ UNCHANGED <<view, result, mounted, pollVars, chainVars, relayVars, mishaps>>

SigningFails(s) ==
  /\ presses[s].pc = "signing"
  /\ Fails(s)
  /\ UNCHANGED <<chainVars, relayVars, mishaps>>

Asked(s) == <<Head(presses[s].left), presses[s].nonce>>
FirstTx(q) == Tx(q[2], q[1], 1)

(* The next relay is asked.  What it holds for this origin nonce it        *)
(* refuses with ORIGIN_NONCE_IN_FLIGHT, a final code: the page follows the *)
(* txid if there is one.                                                   *)
Post(s) ==
  /\ presses[s].pc = "posting" /\ presses[s].left # <<>>
  /\ \/ /\ Asked(s) \in booked
        /\ Follows(s, FirstTx(Asked(s)))
        /\ UNCHANGED relayVars
     \/ /\ Asked(s) \in serving
        /\ Fails(s)
        /\ UNCHANGED relayVars
     \/ /\ Asked(s) \notin serving \union booked
        /\ serving' = serving \union {Asked(s)}
        /\ Moves(s, "waiting")
        /\ UNCHANGED <<view, result, mounted, pollVars, booked>>
  /\ UNCHANGED <<chainVars, mishaps>>

Unreachable(s) ==
  /\ presses[s].pc = "posting" /\ presses[s].left # <<>>
  /\ Mishap /\ TriesNext(s)
  /\ UNCHANGED <<chainVars, relayVars>>

(* AbortController after timeoutMs: the relay does not notice.             *)
TimesOut(s) ==
  /\ presses[s].pc = "waiting"
  /\ Mishap /\ TriesNext(s)
  /\ UNCHANGED <<chainVars, relayVars>>

NoneLeft(s) ==
  /\ presses[s].pc = "posting" /\ presses[s].left = <<>>
  /\ Fails(s)
  /\ UNCHANGED <<chainVars, relayVars, mishaps>>

Answered(s) ==
  /\ presses[s].pc = "waiting" /\ Asked(s) \in booked
  /\ Follows(s, FirstTx(Asked(s)))
  /\ UNCHANGED <<chainVars, relayVars, mishaps>>

-----------------------------------------------------------------------------
(* Relays, mempool and chain.                                              *)

Waiting(q) == {s \in Presses : presses[s].pc = "waiting" /\ Asked(s) = q}

(* A refusal: the ones in FINAL_CODES end the search.                      *)
RelayRefuses(q) ==
  /\ q \in serving
  /\ serving' = serving \ {q}
  /\ IF Waiting(q) = {} THEN UNCHANGED <<pageVars, pollVars>>
     ELSE \E s \in Waiting(q) : TriesNext(s) \/ Fails(s)
  /\ UNCHANGED <<booked, chainVars, mishaps>>

RelayBroadcasts(q) ==
  /\ q \in serving /\ ~Used(q[2])
  /\ serving' = serving \ {q}
  /\ booked' = booked \union {q}
  /\ mempool' = mempool \union {FirstTx(q)}
  /\ UNCHANGED <<pageVars, pollVars, executed, mishaps>>

(* The relay does not learn that the node took it, and answers INTERNAL.   *)
RelayLosesReply(q) ==
  /\ q \in serving /\ ~Used(q[2])
  /\ Mishap
  /\ serving' = serving \ {q}
  /\ mempool' = mempool \union {FirstTx(q)}
  /\ IF Waiting(q) = {} THEN UNCHANGED <<pageVars, pollVars>>
     ELSE \E s \in Waiting(q) : TriesNext(s)
  /\ UNCHANGED <<booked, executed>>

RelayBumps(tx) ==
  /\ tx \in mempool /\ tx.bid < MaxBid /\ <<tx.relay, tx.nonce>> \in booked
  /\ mempool' = (mempool \ {tx}) \union {[tx EXCEPT !.bid = @ + 1]}
  /\ UNCHANGED <<pageVars, pollVars, executed, relayVars, mishaps>>

(* The sweep finds the nonce executed, long after the answer went out.     *)
RelayReleases(q) ==
  /\ q \in booked /\ Used(q[2]) /\ Waiting(q) = {}
  /\ booked' = booked \ {q}
  /\ UNCHANGED <<pageVars, pollVars, chainVars, serving, mishaps>>

(* A block takes a transaction; the others at its nonce are gone.          *)
Executes(tx, status) ==
  /\ tx.nonce = Len(executed) /\ tx.nonce < MaxNonce
  /\ executed' = Append(executed, [tx |-> tx, status |-> status])
  /\ mempool' = {t \in mempool : t.nonce # tx.nonce}
  /\ UNCHANGED <<pageVars, pollVars, relayVars, mishaps>>

Mine == \E tx \in mempool, status \in {"success", "abort"} : Executes(tx, status)
UserSends == Executes(Tx(Len(executed), None, 1), "success")

-----------------------------------------------------------------------------
(* poll: three reads that start together and end in any order.             *)

(* On mount or a new txid, every ten seconds while pending, or Check now.  *)
PollStarts(p) ==
  /\ view = "done" /\ result # None /\ shown = "pending" /\ polls[p] = None
  /\ polls' = [polls EXCEPT ![p] =
       [tx |-> result, base |-> reads, got |-> {}, direct |-> None, address |-> <<>>,
        mempool |-> {}, failed |-> {}, late |-> Used(result.nonce)]]
  /\ UNCHANGED <<pageVars, reads, chainVars, relayVars, mishaps>>

Reading(p, what) == polls[p] # None /\ what \notin polls[p].got

(* What the API says of one txid; None is 404.                             *)
DirectAnswer(tx) ==
  IF tx \in mempool THEN [tx |-> tx, status |-> "pending"]
  ELSE IF Used(tx.nonce) /\ executed[tx.nonce + 1].tx = tx
       THEN [tx |-> tx, status |-> Outcome(tx.nonce)]
  ELSE IF ReportsDropped THEN [tx |-> tx, status |-> "dropped"]
  ELSE None

ReadsDirect(p) ==
  /\ Reading(p, "direct")
  /\ polls' = [polls EXCEPT ![p].got = @ \union {"direct"},
                            ![p].direct = DirectAnswer(polls[p].tx)]

(* The address's last transactions, the newest AddressLimit of them.       *)
ReadsAddress(p) ==
  /\ Reading(p, "address")
  /\ LET oldest == IF Len(executed) > AddressLimit THEN Len(executed) - AddressLimit + 1 ELSE 1
     IN  polls' = [polls EXCEPT ![p].got = @ \union {"address"},
                                ![p].address = SubSeq(executed, oldest, Len(executed))]

ReadsMempool(p) ==
  /\ Reading(p, "mempool")
  /\ polls' = [polls EXCEPT ![p].got = @ \union {"mempool"}, ![p].mempool = mempool]

PollReads(p) ==
  /\ ReadsDirect(p) \/ ReadsAddress(p) \/ ReadsMempool(p)
  /\ UNCHANGED <<pageVars, reads, chainVars, relayVars, mishaps>>

(* ChainClient.request has given up on a read.                             *)
ReadFails(p) ==
  /\ Mishap
  /\ \E what \in {"direct", "address", "mempool"} :
       /\ Reading(p, what)
       /\ polls' = [polls EXCEPT ![p].got = @ \union {what}, ![p].failed = @ \union {what}]
  /\ UNCHANGED <<pageVars, reads, chainVars, relayVars>>

(* next: the reads the poll started from, with what it learnt.             *)
Learnt(q) ==
  [direct  |-> IF q.direct = None THEN q.base.direct ELSE q.direct,
   address |-> IF "address" \in q.failed THEN q.base.address ELSE q.address,
   mempool |-> IF "mempool" \in q.failed THEN q.base.mempool ELSE q.mempool]

PollEnds(p) ==
  /\ polls[p] # None /\ Cardinality(polls[p].got) = 3
  /\ reads' = Learnt(polls[p])
  /\ polls' = [polls EXCEPT ![p] = None]
  /\ UNCHANGED <<pageVars, chainVars, relayVars, mishaps>>

-----------------------------------------------------------------------------
Requests == Relays \X Nonces

Next ==
  \/ Continue \/ Back \/ ToDone \/ onRetry \/ Reload \/ Reset
  \/ \E s \in Presses :
       \/ Press(s) \/ WalletSigns(s) \/ SigningFails(s) \/ Post(s) \/ Unreachable(s)
       \/ TimesOut(s) \/ NoneLeft(s) \/ Answered(s)
  \/ \E q \in Requests :
       \/ RelayRefuses(q) \/ RelayBroadcasts(q) \/ RelayLosesReply(q) \/ RelayReleases(q)
  \/ \E tx \in mempool : RelayBumps(tx)
  \/ Mine \/ UserSends
  \/ \E p \in Polls : PollStarts(p) \/ PollReads(p) \/ ReadFails(p) \/ PollEnds(p)

Spec == Init /\ [][Next]_vars

(* The interval fires and reads come back; nothing makes a block come, a   *)
(* user press, a relay answer or a fault happen.                           *)
Fairness ==
  \A p \in Polls : WF_vars(PollStarts(p)) /\ WF_vars(PollReads(p)) /\ WF_vars(PollEnds(p))
FairSpec == Spec /\ Fairness
-----------------------------------------------------------------------------
(* Properties.                                                             *)

(* Types; and the page shows a press only while it runs, on its step       *)
(* (steps.jsx:217).                                                        *)
TypeOK ==
  /\ view \in {"amount", "sign", "done"}
  /\ result \in Txs \union {None}
  /\ presses \in [Presses -> [pc : {"idle", "signing", "posting", "waiting"}, nonce : Nonces,
                              left : Seq(Relays)]]
  /\ mounted # None => mounted \in Presses /\ view = "sign" /\ presses[mounted].pc # "idle"
  /\ executed \in Seq([tx : Txs, status : {"success", "abort"}])
  /\ mempool \subseteq Txs
  /\ serving \subseteq Requests /\ booked \subseteq Requests
  /\ mishaps \in 0 .. MaxMishaps

(* What the Done page shows as the outcome of a swap is the outcome of the *)
(* transaction the chain executed at its nonce, under whichever txid: not  *)
(* that of a twin, of an earlier swap or of a transaction still alive      *)
(* (amounts.js:160, "whichever transaction mines at this nonce").          *)
ShownIsExecuted ==
  Final => Used(result.nonce) /\ shown = Outcome(result.nonce)

(* A swap is not shown as over while a transaction at its nonce waits in   *)
(* the mempool, the one its relay raised included (steps.jsx:379,          *)
(* "whichever transaction mines at this nonce is the result").  It is part *)
(* of ShownIsExecuted, and needs an API that answers 404 for a dropped     *)
(* transaction.                                                            *)
LiveIsPending ==
  (view = "done" /\ result # None /\ \E tx \in mempool : tx.nonce = result.nonce)
    => shown = "pending"

(* While no block comes, a pending swap is followed, however often Sign    *)
(* and Swap was pressed, as long as every relay answers and nobody reloads *)
(* (relays.ts:78, steps.jsx:261).  After a block it may be lost from view: *)
(* the late answer to a press at an earlier nonce takes the page back.     *)
PendingIsFollowed ==
  (mishaps = 0 /\ executed = History /\ \A s \in Presses : presses[s].pc = "idle")
    => \A tx \in mempool : result # None /\ result.nonce = tx.nonce

(* One read of an address still holds the transaction at this nonce, or    *)
(* the page knows its txid.                                                *)
Reachable(tx) ==
  \/ Len(executed) - tx.nonce <= AddressLimit
  \/ executed[tx.nonce + 1].tx = tx

(* A poll that starts after the swap executed and whose reads succeed      *)
(* shows the outcome, whatever bumps and twins came before and whatever    *)
(* other polls are still to end (steps.jsx:341).                           *)
FreshPollSettles ==
  [][\A p \in Polls :
       (/\ PollEnds(p) /\ polls[p].late /\ polls[p].failed = {}
        /\ polls[p].tx = result /\ Reachable(result))
         => shown' = Outcome(result.nonce)]_vars

(* A page that stays on a swap that executed comes to show the outcome.    *)
Watches(n) ==
  /\ view = "done" /\ result # None /\ result.nonce = n
  /\ Used(n) /\ Reachable(result)
ExecutedIsShown ==
  \A n \in 0 .. (MaxNonce - 1) : Watches(n) ~> (~Watches(n) \/ shown = Outcome(n))
=============================================================================
