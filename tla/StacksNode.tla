----------------------------- MODULE StacksNode -----------------------------
(***************************************************************************)
(* The chain as the relay meets it: a node's mempool, the accounts' nonces *)
(* and the indexing API behind ChainClient.getNonces.  External to the     *)
(* repository: only what the relay depends on is here.  sdk's ChainClient  *)
(* decides what a read returns (mempool-aware endpoint, or the bare        *)
(* account nonce when that endpoint fails) and is modelled from its code.  *)
(***************************************************************************)
EXTENDS Integers, FiniteSets, FiniteSetsExt

CONSTANTS
  IndexLags,    \* BOOLEAN: may the API trail the mempool
  Endpoints     \* subset of {"extended", "account"} that may answer getNonces

ASSUME NodeAssumption ==
  /\ IndexLags \in BOOLEAN
  /\ Endpoints \in SUBSET {"extended", "account"} \ {{}}

VARIABLES
  mempool,      \* sponsored transactions waiting to be mined
  indexed,      \* the part of the mempool the API has seen
  executed,     \* executed[a]: the nonce account a must use next
  accepted      \* every transaction the node ever took (history)

nodeVars == <<mempool, indexed, executed, accepted>>

(* A transaction is [swap, nonce, fee]: the user-signed swap [origin,      *)
(* nonce, tier, bytes], the sponsor nonce and the fee.  Signatures are     *)
(* deterministic, so it is its own txid.  The sponsor account is the       *)
(* tier's key.                                                             *)
Sponsor(t)   == t.swap.tier
OriginKey(s) == <<s.origin, s.nonce>>

SameSponsorNonce(t, u) == Sponsor(t) = Sponsor(u) /\ t.nonce = u.nonce
SameOriginNonce(t, u)  == OriginKey(t.swap) = OriginKey(u.swap)

(* One of its two nonces is used up: it can never be mined.                *)
Dead(t, ex) == t.nonce < ex[Sponsor(t)] \/ t.swap.nonce < ex[t.swap.origin]

Rivals(t) == {u \in mempool \ {t} : SameSponsorNonce(t, u) \/ SameOriginNonce(t, u)}

Outbids(t) == \A u \in Rivals(t) : u.fee < t.fee

(* The API sees a new transaction at once, unless it lags.                 *)
Reindex(pool) == indexed' = IF IndexLags THEN indexed \intersect pool ELSE pool

(* POST /v2/transactions answered with a txid.  A strictly higher fee      *)
(* replaces its rivals; a transaction already there is acknowledged again. *)
Accepts(t) ==
  /\ ~Dead(t, executed)
  /\ Outbids(t)
  /\ mempool' = (mempool \ Rivals(t)) \union {t}
  /\ Reindex(mempool')
  /\ accepted' = accepted \union {t}
  /\ UNCHANGED executed

(* BadNonce, or ConflictingNonceInMempool.                                 *)
RejectsNonce(t) ==
  /\ Dead(t, executed) \/ ~Outbids(t) \/ t \in mempool
  /\ UNCHANGED nodeVars

Advance(accounts) ==
  /\ executed' = [a \in DOMAIN executed |->
                    IF a \in accounts THEN executed[a] + 1 ELSE executed[a]]
  /\ mempool' = {u \in mempool : ~Dead(u, executed')}
  /\ Reindex(mempool')
  /\ UNCHANGED accepted

(* A block takes t: both nonces are due.  Whether the swap then commits or *)
(* aborts makes no difference to nonces and fee.                           *)
Mine(t) ==
  /\ t \in mempool
  /\ t.nonce = executed[Sponsor(t)]
  /\ t.swap.nonce = executed[t.swap.origin]
  /\ Advance({Sponsor(t), t.swap.origin})

(* The origin has another transaction of its own executed.                 *)
SpendsElsewhere(origin) == Advance({origin})

(* The mempool loses t: collected as too old, or replaced by a transaction *)
(* of the origin's that no relay sponsored.                                *)
Drop(t) ==
  /\ t \in mempool
  /\ mempool' = mempool \ {t}
  /\ Reindex(mempool')
  /\ UNCHANGED <<executed, accepted>>

(* The API catches up with one transaction.                                *)
Index(t) ==
  /\ t \in mempool \ indexed
  /\ indexed' = indexed \union {t}
  /\ UNCHANGED <<mempool, executed, accepted>>

(* The nonces of account a that the API knows to be in the mempool.        *)
MempoolNonces(a) ==
  {t.nonce : t \in {u \in indexed : Sponsor(u) = a}} \union
  {t.swap.nonce : t \in {u \in indexed : u.swap.origin = a}}

ExtendedView(a) ==
  LET known == MempoolNonces(a)
      next  == IF known = {} THEN executed[a] ELSE Max(known) + 1
  IN  [lastExecuted |-> executed[a] - 1,
       possibleNext |-> next,
       missing      |-> {n \in executed[a] .. (next - 1) : n \notin known}]

AccountView(a) ==
  [lastExecuted |-> executed[a] - 1, possibleNext |-> executed[a], missing |-> {}]

(* ChainClient.getNonces: the extended endpoint, or the node's account     *)
(* nonce when that one fails.                                              *)
getNonces(a) ==
  {ExtendedView(a) : x \in Endpoints \intersect {"extended"}} \union
  {AccountView(a)  : x \in Endpoints \intersect {"account"}}
=============================================================================
