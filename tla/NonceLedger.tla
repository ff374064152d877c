----------------------------- MODULE NonceLedger -----------------------------
(***************************************************************************)
(* relay/src/core/nonce.ts and the nonce operations of core/store.ts (the  *)
(* Durable Object in adapters/worker.ts has the same bodies): what the     *)
(* relay remembers of the nonces of one sponsor key, and how it reconciles *)
(* that with the chain's view.  Pure; Relay.tla holds the state.           *)
(*                                                                         *)
(* A ledger is [next, pending].  The code keeps `pending` as a list that   *)
(* may hold a nonce twice, whose order nothing observes and whose length   *)
(* is compared with the cap.  Here an entry carries the request that took  *)
(* the nonce, so the set has exactly as many elements as the list.         *)
(***************************************************************************)
EXTENDS Integers, FiniteSets, FiniteSetsExt

Null == -1         \* `next: null`, and `nonce: null` of a refused allocation

EmptyLedger == [next |-> Null, pending |-> {}]

Above(pending, executedFloor) == {e \in pending : e.nonce > executedFloor}

(* Mutant: the cap is passed by one.                                       *)
reconcileNonce_CapOffByOne(local, chain, maxPending) ==
  LET live == Above(local.pending, chain.lastExecuted)
      next == IF local.next < chain.possibleNext THEN chain.possibleNext ELSE local.next
  IN  [pending |-> live,
       nonce   |-> IF chain.missing # {} THEN Min(chain.missing)
                   ELSE IF Cardinality(live) > maxPending THEN Null
                   ELSE next]

(* Mutant: the counter is not looked at.                                   *)
reconcileNonce_ChainOnly(local, chain, maxPending) ==
  LET live == Above(local.pending, chain.lastExecuted)
  IN  [pending |-> live,
       nonce   |-> IF chain.missing # {} THEN Min(chain.missing)
                   ELSE IF Cardinality(live) >= maxPending THEN Null
                   ELSE chain.possibleNext]

(* A reported gap is filled before the cap is looked at; otherwise the     *)
(* larger of the local counter and the chain's next nonce, null counting   *)
(* as smaller than any.                                                    *)
reconcileNonce(local, chain, maxPending) ==
  LET live == Above(local.pending, chain.lastExecuted)
      next == IF local.next < chain.possibleNext THEN chain.possibleNext ELSE local.next
  IN  [pending |-> live,
       nonce   |-> IF chain.missing # {} THEN Min(chain.missing)
                   ELSE IF Cardinality(live) >= maxPending THEN Null
                   ELSE next]

(* Mutant: the counter is stored as granted.                               *)
Allocated_Stays(rec, request) ==
  [next    |-> rec.nonce,
   pending |-> rec.pending \union {[nonce |-> rec.nonce, by |-> request]}]

(* What allocateNonce stores once reconcileNonce has granted a nonce; a    *)
(* refusal stores nothing.                                                 *)
Allocated(rec, request) ==
  [next    |-> rec.nonce + 1,
   pending |-> rec.pending \union {[nonce |-> rec.nonce, by |-> request]}]

(* Mutant: the counter steps back over nonces taken since.                 *)
releaseNonce_StepsBack(local, nonce, forget) ==
  [next    |-> IF forget THEN Null ELSE nonce,
   pending |-> {e \in local.pending : e.nonce # nonce}]

(* Every entry of that nonce goes, whoever added it; the counter steps     *)
(* back only over the last nonce taken, or is dropped (`forget`).          *)
releaseNonce(local, nonce, forget) ==
  [next    |-> IF forget THEN Null
               ELSE IF local.next = nonce + 1 THEN nonce
               ELSE local.next,
   pending |-> {e \in local.pending : e.nonce # nonce}]

(* Mutant: one nonce too many is settled.                                  *)
settleNonces_OffByOne(local, executedFloor) ==
  [local EXCEPT !.pending = Above(local.pending, executedFloor + 1)]

settleNonces(local, executedFloor) ==
  [local EXCEPT !.pending = Above(local.pending, executedFloor)]
=============================================================================
