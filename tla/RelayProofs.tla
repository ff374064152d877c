----------------------------- MODULE RelayProofs -----------------------------
(***************************************************************************)
(* What holds of the relay for every set of requests, users, tiers, sweeps *)
(* and faults: its types, and that no bid leaves its bracket or its        *)
(* ladder.  The argument: a transaction enters `accepted` as a first bid   *)
(* whose floor was checked in preflight, or as one bump of a transaction   *)
(* that is on record, and what is on record, listed, planned or being      *)
(* worked on by any sweep was accepted before.                             *)
(***************************************************************************)
EXTENDS Relay, NatFacts

NoncesBounded == \E b \in Nat : \A t \in mempool : t.nonce <= b /\ t.swap.nonce <= b

(* Everything the relay remembers was taken by the node before.            *)
Remembered ==
  /\ records \subseteq accepted
  /\ \A w \in Sweeps :
       /\ snapshot[w] \subseteq accepted /\ done[w] \subseteq accepted /\ bump[w] \subseteq accepted
       /\ \A x \in bump[w] : ~Exhausted(Sponsor(x), x.fee)
       /\ sweepPc[w] \in {"settling", "freeing", "replacing", "adding"} => item[w] \in accepted
       /\ sweepPc[w] \in {"replacing", "adding"} => Bumped(item[w]) \in accepted

(* A request past preflight can carry its floor; past allocation it holds  *)
(* a nonce; past the broadcast its transaction was taken.                  *)
Checked ==
  \A r \in Requests :
    /\ pc[r] \in {"reading", "allocating", "broadcasting", "recording", "confirming", "releasing"}
         => tierCoversFloor(Swap[r].tier, Swap[r].bytes)
    /\ pc[r] \in {"broadcasting", "recording", "confirming", "releasing"} => nonce[r] \in Nat
    /\ pc[r] \in {"recording", "confirming"} => FirstBid(r) \in accepted

IInv ==
  /\ TypeOK /\ NoncesBounded /\ Remembered /\ Checked
  /\ FeeWithinBracket /\ EveryBidIsARung

-----------------------------------------------------------------------------
(***************************************************************************)
(* Fees                                                                    *)
(***************************************************************************)
(* A first bid is at least the floor when the tier covers it, and never    *)
(* above the tier.                                                         *)
LEMMA FirstBidInBracket ==
  ASSUME NEW t \in TierName, NEW bytes \in Nat
  PROVE  /\ computeFee(t, bytes) \in Nat
         /\ computeFee(t, bytes) <= TIERS[t]
         /\ tierCoversFloor(t, bytes) => admissionFloor(bytes) <= computeFee(t, bytes)
<1>1. admissionFloor(bytes) \in Nat
  BY FeeAssumption DEF admissionFloor
<1>2. TIERS[t] \in Nat /\ OpeningBid[t] \in Nat
  BY FeeAssumption
<1> QED
  BY <1>1, <1>2 DEF computeFee, AtLeast, AtMost, tierCoversFloor

(* A bump is strictly higher and still within the tier.                    *)
LEMMA BumpClimbs ==
  ASSUME NEW t \in TierName, NEW current \in Nat, ~Exhausted(t, current)
  PROVE  /\ bumpFee(t, current) \in Nat
         /\ current < bumpFee(t, current)
         /\ bumpFee(t, current) <= TIERS[t]
<1>1. TIERS[t] \in Nat /\ RbfBumpBips \in Nat
  BY FeeAssumption
<1>2. current * RbfBumpBips \in Nat
  BY <1>1
<1> DEFINE p == current * RbfBumpBips
<1>3. p \div 10000 \in Nat
  <2> HIDE DEF p
  <2>1. p \in Nat
    BY <1>2 DEF p
  <2> QED BY <2>1
<1> QED
  BY <1>1, <1>3 DEF bumpFee, AtLeast, AtMost, Exhausted

-----------------------------------------------------------------------------
(***************************************************************************)
(* The node                                                                *)
(***************************************************************************)
(* The fields of a swap some request carries.                              *)
LEMMA SwapTyped ==
  ASSUME NEW s \in Swaps
  PROVE  s.origin \in Origins /\ s.nonce \in Nat /\ s.tier \in TierName /\ s.bytes \in Nat
BY RelayAssumption DEF Swaps

(* Whatever the endpoint answers is a well-formed view.                    *)
LEMMA ViewTyped ==
  ASSUME NodeTypeOK, NoncesBounded, NEW a \in TierName \union Origins, NEW v \in getNonces(a)
  PROVE  v \in View
<1>1. executed[a] \in Nat
  BY DEF NodeTypeOK
<1>2. CASE v = AccountView(a)
  BY <1>1, <1>2 DEF AccountView, View
<1>3. CASE v = ExtendedView(a)
  <2> DEFINE known == MempoolNonces(a)
             next  == IF known = {} THEN executed[a] ELSE Max(known) + 1
  <2>1. known \in SUBSET Nat
    BY SwapTyped DEF MempoolNonces, NodeTypeOK, Tx
  <2>2. known # {} => Max(known) \in Nat
    <3>1. PICK b \in Nat : \A t \in mempool : t.nonce <= b /\ t.swap.nonce <= b
      BY DEF NoncesBounded
    <3>2. \A y \in known : y <= b
      BY <3>1 DEF MempoolNonces, NodeTypeOK
    <3> HIDE DEF known
    <3> QED BY <2>1, <3>2, GreatestNat
  <2>3. next \in Nat
    BY <1>1, <2>2
  <2>4. v = [lastExecuted |-> executed[a] - 1, possibleNext |-> next,
             missing |-> {n \in executed[a] .. (next - 1) : n \notin known}]
    BY <1>3 DEF ExtendedView
  <2> HIDE DEF next, known
  <2>5. {n \in executed[a] .. (next - 1) : n \notin known} \in SUBSET Nat
    BY <1>1, <2>3
  <2> QED BY <1>1, <2>3, <2>4, <2>5 DEF View
<1> QED
  BY <1>2, <1>3 DEF getNonces

(* The node taking a transaction keeps its own types.                      *)
LEMMA AcceptsStep ==
  ASSUME NodeTypeOK, NoncesBounded, NEW t \in Tx, Accepts(t)
  PROVE  NodeTypeOK' /\ NoncesBounded' /\ accepted' = accepted \union {t}
<1>1. mempool' \subseteq mempool \union {t} /\ mempool' \subseteq Tx
  BY DEF Accepts, NodeTypeOK
<1>2. NodeTypeOK'
  BY <1>1 DEF Accepts, NodeTypeOK, Reindex
<1>3. NoncesBounded'
  <2>1. PICK b \in Nat : \A u \in mempool : u.nonce <= b /\ u.swap.nonce <= b
    BY DEF NoncesBounded
  <2>2. t.nonce \in Nat /\ t.swap.nonce \in Nat
    BY SwapTyped DEF Tx
  <2>3. \A u \in mempool : u.nonce \in Nat /\ u.swap.nonce \in Nat
    BY SwapTyped DEF Tx, NodeTypeOK
  <2>4. b + t.nonce + t.swap.nonce \in Nat
    BY <2>2
  <2>5. \A u \in mempool' : /\ u.nonce <= b + t.nonce + t.swap.nonce
                            /\ u.swap.nonce <= b + t.nonce + t.swap.nonce
    BY <1>1, <2>1, <2>2, <2>3
  <2> QED BY <2>4, <2>5 DEF NoncesBounded
<1> QED
  BY <1>2, <1>3 DEF Accepts

(* The steps that take transactions out of the mempool.                    *)
LEMMA ShrinkStep ==
  ASSUME NodeTypeOK, NoncesBounded, mempool' \subseteq mempool, Reindex(mempool'),
         UNCHANGED accepted, executed' \in [TierName \union Origins -> Nat]
  PROVE  NodeTypeOK' /\ NoncesBounded'
<1>1. NodeTypeOK'
  BY DEF NodeTypeOK, Reindex
<1>2. NoncesBounded'
  BY DEF NoncesBounded
<1> QED BY <1>1, <1>2

(* A block, or an origin's own transaction, keeps them too.                *)
LEMMA AdvanceStep ==
  ASSUME NodeTypeOK, NoncesBounded, NEW accounts, Advance(accounts)
  PROVE  NodeTypeOK' /\ NoncesBounded' /\ UNCHANGED accepted
<1>1. executed' \in [TierName \union Origins -> Nat]
  BY DEF Advance, NodeTypeOK
<1>2. mempool' \subseteq mempool
  BY DEF Advance
<1> QED
  BY <1>1, <1>2, ShrinkStep DEF Advance

(* So does a step that is not the node's.                                  *)
LEMMA NodeUnchanged ==
  ASSUME NodeTypeOK, NoncesBounded, UNCHANGED nodeVars
  PROVE  NodeTypeOK' /\ NoncesBounded' /\ UNCHANGED accepted
BY DEF NodeTypeOK, NoncesBounded, nodeVars

-----------------------------------------------------------------------------
(***************************************************************************)
(* The ledger                                                              *)
(***************************************************************************)
(* reconcileNonce grants a natural number, or nothing, and never adds to   *)
(* the pending nonces.                                                     *)
LEMMA ReconcileTyped ==
  ASSUME NEW l \in Ledger, NEW v \in View
  PROVE  LET rec == reconcileNonce(l, v, MaxPendingPerKey)
         IN  rec.nonce \in Nat \union {Null} /\ rec.pending \subseteq l.pending
<1> DEFINE live == Above(l.pending, v.lastExecuted)
<1>1. live \subseteq l.pending
  BY DEF Above
<1>2. v.missing # {} => Min(v.missing) \in Nat
  BY LeastNat DEF View
<1>3. (IF l.next < v.possibleNext THEN v.possibleNext ELSE l.next) \in Nat \union {Null}
  BY DEF Ledger, View, Null
<1> QED
  BY <1>1, <1>2, <1>3 DEF reconcileNonce

(* Taking, giving back and settling a nonce turn a ledger into a ledger.   *)
LEMMA LedgerTyped ==
  ASSUME NEW l \in Ledger
  PROVE  /\ \A n \in Nat, forget \in BOOLEAN : releaseNonce(l, n, forget) \in Ledger
         /\ \A n \in Int : settleNonces(l, n) \in Ledger
         /\ \A v \in View, r \in Requests :
              LET rec == reconcileNonce(l, v, MaxPendingPerKey)
              IN  rec.nonce # Null => Allocated(rec, r) \in Ledger
<1>1. ASSUME NEW n \in Nat, NEW forget \in BOOLEAN PROVE releaseNonce(l, n, forget) \in Ledger
  BY DEF releaseNonce, Ledger
<1>2. ASSUME NEW n \in Int PROVE settleNonces(l, n) \in Ledger
  BY DEF settleNonces, Above, Ledger
<1>3. ASSUME NEW v \in View, NEW r \in Requests,
             reconcileNonce(l, v, MaxPendingPerKey).nonce # Null
      PROVE  Allocated(reconcileNonce(l, v, MaxPendingPerKey), r) \in Ledger
  <2> DEFINE rec == reconcileNonce(l, v, MaxPendingPerKey)
  <2>1. rec.nonce \in Nat /\ rec.pending \subseteq l.pending
    BY <1>3, ReconcileTyped
  <2> HIDE DEF rec
  <2>2. Allocated(rec, r) \in Ledger
    BY <2>1 DEF Allocated, Ledger
  <2> QED BY <2>2 DEF rec
<1> QED
  BY <1>1, <1>2, <1>3


-----------------------------------------------------------------------------
(***************************************************************************)
(* Frames: what a part of the invariant needs to survive a step            *)
(***************************************************************************)
(* The bid properties are about `accepted` alone.                          *)
LEMMA BidsFrame ==
  ASSUME FeeWithinBracket, EveryBidIsARung, UNCHANGED accepted
  PROVE  FeeWithinBracket' /\ EveryBidIsARung'
BY DEF FeeWithinBracket, EveryBidIsARung

(* What is remembered stays accepted: the history only grows.              *)
LEMMA RememberedFrame ==
  ASSUME Remembered, accepted \subseteq accepted', UNCHANGED <<records, sweepVars>>
  PROVE  Remembered'
BY DEF Remembered, sweepVars

(* What a request knows of itself changes only with its own variables.     *)
LEMMA CheckedFrame ==
  ASSUME Checked, accepted \subseteq accepted', UNCHANGED <<pc, nonce>>
  PROVE  Checked'
BY DEF Checked, FirstBid

(* A new transaction in its bracket and on a rung keeps both properties.   *)
LEMMA NewBid ==
  ASSUME FeeWithinBracket, EveryBidIsARung, NEW t, accepted' = accepted \union {t},
         admissionFloor(t.swap.bytes) <= t.fee, t.fee <= TIERS[Sponsor(t)],
         \/ t.fee = computeFee(Sponsor(t), t.swap.bytes)
         \/ \E u \in accepted : t = Bumped(u) /\ u.fee < t.fee
  PROVE  FeeWithinBracket' /\ EveryBidIsARung'
<1>1. FeeWithinBracket'
  BY DEF FeeWithinBracket
<1>2. EveryBidIsARung'
  <2> SUFFICES ASSUME NEW x \in accepted \union {t}
               PROVE  \/ x.fee = computeFee(Sponsor(x), x.swap.bytes)
                      \/ \E u \in accepted : x = Bumped(u) /\ u.fee < x.fee
    BY DEF EveryBidIsARung
  <2> QED BY DEF EveryBidIsARung
<1> QED BY <1>1, <1>2

-----------------------------------------------------------------------------
(***************************************************************************)
(* Requests                                                                *)
(***************************************************************************)
(* A request that holds a nonce has a well-formed first bid.               *)
LEMMA FirstBidTyped ==
  ASSUME TypeOK, NEW r \in Requests, nonce[r] \in Nat
  PROVE  FirstBid(r) \in Tx /\ Sponsor(FirstBid(r)) = Swap[r].tier
<1>1. Swap[r] \in Swaps /\ Swap[r].tier \in TierName /\ Swap[r].bytes \in Nat
  BY RelayAssumption DEF Swaps
<1>2. computeFee(Swap[r].tier, Swap[r].bytes) \in Nat
  BY <1>1, FirstBidInBracket
<1> QED
  BY <1>1, <1>2 DEF FirstBid, Tx, Sponsor

(* The three kinds of reservation.                                         *)
LEMMA ReservationTyped ==
  Free \in Reservation /\ Running \in Reservation /\ \A t \in Tx : Holding(t) \in Reservation
BY DEF Free, Running, Holding, Reservation

(* A first bid is in its bracket because preflight checked the floor.      *)
LEMMA BroadcastInv ==
  ASSUME IInv, NEW r \in Requests, Broadcast(r)
  PROVE  IInv'
<1> USE DEF IInv
<1>1. nonce[r] \in Nat /\ tierCoversFloor(Swap[r].tier, Swap[r].bytes)
  BY DEF Broadcast, Checked
<1>2. FirstBid(r) \in Tx /\ Sponsor(FirstBid(r)) = Swap[r].tier
  BY <1>1, FirstBidTyped
<1>3. StoreTypeOK' /\ SweepTypeOK' /\ ripe' \subseteq Tx
  BY DEF Broadcast, TypeOK, StoreTypeOK, SweepTypeOK, storeVars, sweepVars
<1>4. RequestTypeOK' /\ faults' \in Nat
  <2>1. pc' \in [Requests -> PCs]
    <3>1. \E label \in {"recording", "failing", "releasing"} : pc' = [pc EXCEPT ![r] = label]
      BY DEF Broadcast, Goto, Fails
    <3> QED BY <3>1 DEF TypeOK, RequestTypeOK, PCs
  <2>2. conflict' \in [Requests -> BOOLEAN]
    <3>1. \E b \in BOOLEAN : conflict' = [conflict EXCEPT ![r] = b] \/ conflict' = conflict
      BY DEF Broadcast
    <3> QED BY <3>1 DEF TypeOK, RequestTypeOK
  <2>3. UNCHANGED <<view, nonce, attempt>> /\ faults' \in Nat
    BY DEF Broadcast, TypeOK, Fault
  <2> QED BY <2>1, <2>2, <2>3 DEF TypeOK, RequestTypeOK
<1>5. CASE Accepts(FirstBid(r))
  <2>1. NodeTypeOK' /\ NoncesBounded' /\ accepted' = accepted \union {FirstBid(r)}
    BY <1>2, <1>5, AcceptsStep DEF TypeOK
  <2>2. FeeWithinBracket' /\ EveryBidIsARung'
    <3>1. Swap[r].tier \in TierName /\ Swap[r].bytes \in Nat
      BY RelayAssumption
    <3>2. /\ FirstBid(r).fee = computeFee(Swap[r].tier, Swap[r].bytes)
          /\ FirstBid(r).swap = Swap[r]
      BY DEF FirstBid
    <3> QED BY <1>1, <1>2, <2>1, <3>1, <3>2, FirstBidInBracket, NewBid
  <2>3. Remembered'
    BY <2>1, RememberedFrame DEF Broadcast, storeVars
  <2>4. Checked'
    <3>1. nonce' = nonce /\ \A q \in Requests : pc'[q] = pc[q] \/ q = r
      BY DEF Broadcast, Goto, Fails, TypeOK, RequestTypeOK
    <3>2. \A q \in Requests : FirstBid(q)' = FirstBid(q)
      BY <3>1 DEF FirstBid
    <3> QED BY <1>1, <2>1, <3>1, <3>2 DEF Checked
  <2> QED BY <1>3, <1>4, <2>1, <2>2, <2>3, <2>4 DEF TypeOK
<1>6. CASE UNCHANGED nodeVars /\ pc' = [pc EXCEPT ![r] = "releasing"]
  <2>1. NodeTypeOK' /\ NoncesBounded' /\ UNCHANGED accepted
    BY <1>6, NodeUnchanged DEF TypeOK
  <2>2. FeeWithinBracket' /\ EveryBidIsARung' /\ Remembered'
    BY <2>1, BidsFrame, RememberedFrame DEF Broadcast, storeVars
  <2>3. Checked'
    <3>1. nonce' = nonce
      BY DEF Broadcast
    <3>2. \A q \in Requests : FirstBid(q)' = FirstBid(q)
      BY <3>1 DEF FirstBid
    <3> QED BY <1>1, <1>6, <2>1, <3>1, <3>2 DEF Checked, TypeOK, RequestTypeOK
  <2> QED BY <1>3, <1>4, <2>1, <2>2, <2>3 DEF TypeOK
<1> QED
  BY <1>5, <1>6 DEF Broadcast, RejectsNonce, Goto

(* Every other step of a request leaves the chain alone, so only the       *)
(* types and what the request knows of itself are at stake.                *)
LEMMA QuietRequestInv ==
  ASSUME IInv, NEW r \in Requests, UNCHANGED <<nodeVars, sweepVars, ripe>>,
         StoreTypeOK', RequestTypeOK', faults' \in Nat,
         records' \subseteq accepted,
         \A q \in Requests \ {r} : pc'[q] = pc[q] /\ nonce'[q] = nonce[q],
         pc'[r] \in {"reading", "allocating", "broadcasting", "recording", "confirming", "releasing"}
           => tierCoversFloor(Swap[r].tier, Swap[r].bytes),
         pc'[r] \in {"broadcasting", "recording", "confirming", "releasing"} => nonce'[r] \in Nat,
         pc'[r] \in {"recording", "confirming"} =>
           pc[r] \in {"recording", "confirming"} /\ nonce'[r] = nonce[r]
  PROVE  IInv'
<1> USE DEF IInv
<1>1. NodeTypeOK' /\ NoncesBounded' /\ UNCHANGED accepted
  BY NodeUnchanged DEF TypeOK
<1>2. TypeOK'
  <2>1. SweepTypeOK'
    BY DEF TypeOK, SweepTypeOK, sweepVars
  <2> QED BY <1>1, <2>1 DEF TypeOK
<1>3. FeeWithinBracket' /\ EveryBidIsARung'
  BY <1>1, BidsFrame
<1>4. Remembered'
  BY <1>1 DEF Remembered, sweepVars
<1>5. Checked'
  <2> SUFFICES ASSUME NEW q \in Requests
      PROVE /\ pc'[q] \in {"reading", "allocating", "broadcasting", "recording", "confirming",
                           "releasing"}
                 => tierCoversFloor(Swap[q].tier, Swap[q].bytes)
            /\ pc'[q] \in {"broadcasting", "recording", "confirming", "releasing"}
                 => nonce'[q] \in Nat
            /\ pc'[q] \in {"recording", "confirming"} => FirstBid(q)' \in accepted
    BY <1>1 DEF Checked
  <2>1. nonce'[q] = nonce[q] => FirstBid(q)' = FirstBid(q)
    BY DEF FirstBid
  <2>2. CASE q # r
    BY <2>1, <2>2 DEF Checked
  <2>3. CASE q = r
    BY <2>1, <2>3 DEF Checked
  <2> QED BY <2>2, <2>3
<1> QED BY <1>1, <1>2, <1>3, <1>4, <1>5


(* Every step of a request, and its death, keeps the invariant.            *)
LEMMA RequestInv ==
  ASSUME IInv, NEW r \in Requests, RequestStep(r) \/ Die(r)
  PROVE  IInv'
<1> USE DEF IInv, TypeOK
<1>0. /\ \A label \in PCs : [pc EXCEPT ![r] = label] \in [Requests -> PCs]
      /\ originKey(Swap[r]) \in OriginKeys /\ Swap[r].tier \in TierName
      /\ Swap[r].origin \in Origins
  BY RelayAssumption DEF RequestTypeOK, OriginKeys, Swaps
<1>1. CASE Reserve(r)
  <2>1. StoreTypeOK'
    BY <1>0, <1>1, ReservationTyped DEF Reserve, StoreTypeOK
  <2>2. RequestTypeOK'
    BY <1>0, <1>1 DEF Reserve, Goto, RequestTypeOK, PCs
  <2> QED
    BY <1>1, <2>1, <2>2, QuietRequestInv DEF Reserve, Goto, Remembered, RequestTypeOK
<1>2. CASE Refuse(r)
  <2>1. StoreTypeOK' /\ faults' \in Nat
    BY <1>2 DEF Refuse, storeVars, StoreTypeOK, Fault
  <2>2. pc' = [pc EXCEPT ![r] = "answered"]
    BY <1>2 DEF Refuse, Answers, Goto
  <2>3. RequestTypeOK'
    BY <1>0, <1>2, <2>2 DEF Refuse, RequestTypeOK, PCs
  <2> QED
    BY <1>2, <2>1, <2>2, <2>3, QuietRequestInv DEF Refuse, storeVars, Remembered, RequestTypeOK
<1>3. CASE Preflight(r)
  <2>1. StoreTypeOK' /\ faults' \in Nat
    BY <1>3 DEF Preflight, storeVars, StoreTypeOK, Fault
  <2>2. \/ pc' = [pc EXCEPT ![r] = "failing"]
        \/ /\ pc' = [pc EXCEPT ![r] = "reading"]
           /\ tierCoversFloor(Swap[r].tier, Swap[r].bytes)
    BY <1>3 DEF Preflight, Fails, Goto
  <2>3. RequestTypeOK'
    BY <1>0, <1>3, <2>2 DEF Preflight, RequestTypeOK, PCs
  <2> QED
    BY <1>3, <2>1, <2>2, <2>3, QuietRequestInv DEF Preflight, storeVars, Remembered, RequestTypeOK
<1>4. CASE ReadSponsor(r)
  <2>1. StoreTypeOK' /\ UNCHANGED <<nodeVars, sweepVars, ripe, records, nonce, faults>>
    BY <1>4 DEF ReadSponsor, storeVars, StoreTypeOK
  <2>2. pc' = [pc EXCEPT ![r] = "allocating"] /\ pc[r] = "reading"
    BY <1>4 DEF ReadSponsor, Goto
  <2>3. view' \in [Requests -> View]
    BY <1>0, <1>4, ViewTyped DEF ReadSponsor, RequestTypeOK
  <2>4. RequestTypeOK'
    BY <1>0, <1>4, <2>2, <2>3 DEF ReadSponsor, RequestTypeOK, PCs
  <2> QED
    BY <2>1, <2>2, <2>4, QuietRequestInv DEF Remembered, Checked, RequestTypeOK
<1>5. CASE Allocate(r)
  <2> DEFINE t == Swap[r].tier
             rec == reconcileNonce(ledger[t], view[r], MaxPendingPerKey)
  <2>1. ledger[t] \in Ledger /\ view[r] \in View
    BY <1>0 DEF StoreTypeOK, RequestTypeOK
  <2>2. /\ rec.nonce \in Nat \union {Null}
        /\ rec.nonce # Null => Allocated(rec, r) \in Ledger
    BY <2>1, ReconcileTyped, LedgerTyped
  <2> HIDE DEF rec
  <2>3. \/ /\ pc' = [pc EXCEPT ![r] = "failing"] /\ UNCHANGED <<ledger, nonce>>
        \/ /\ pc' = [pc EXCEPT ![r] = "broadcasting"] /\ rec.nonce # Null
           /\ ledger' = [ledger EXCEPT ![t] = Allocated(rec, r)]
           /\ nonce' = [nonce EXCEPT ![r] = rec.nonce]
    BY <1>5 DEF Allocate, Fails, Goto, rec
  <2>4. /\ UNCHANGED <<nodeVars, sweepVars, ripe, records, reservation, faults, attempt, conflict>>
        /\ view' = [view EXCEPT ![r] = NoView] /\ pc[r] = "allocating"
    BY <1>5 DEF Allocate
  <2>5. StoreTypeOK'
    BY <1>0, <2>2, <2>3, <2>4 DEF StoreTypeOK
  <2>6. RequestTypeOK'
    <3>1. view' \in [Requests -> View]
      BY <2>4 DEF RequestTypeOK, NoView, View, Null
    <3> QED BY <1>0, <2>2, <2>3, <2>4, <3>1 DEF RequestTypeOK, PCs
  <2> HIDE DEF t
  <2> QED
    BY <2>2, <2>3, <2>4, <2>5, <2>6, QuietRequestInv DEF Remembered, Checked, RequestTypeOK
<1>6. CASE Broadcast(r)
  BY <1>6, BroadcastInv
<1>7. CASE AddPending(r)
  <2>1. FirstBid(r) \in accepted /\ nonce[r] \in Nat
    BY <1>7 DEF AddPending, Checked
  <2>2. FirstBid(r) \in Tx
    BY <2>1 DEF NodeTypeOK
  <2>3. StoreTypeOK'
    BY <1>7, <2>2 DEF AddPending, StoreTypeOK
  <2>4. RequestTypeOK'
    BY <1>0, <1>7 DEF AddPending, Goto, RequestTypeOK, PCs
  <2>5. /\ pc' = [pc EXCEPT ![r] = "confirming"] /\ pc[r] = "recording"
        /\ UNCHANGED <<nodeVars, sweepVars, ripe, nonce, faults>>
        /\ records' \subseteq accepted
    BY <1>7, <2>1 DEF AddPending, Goto, Remembered
  <2> QED
    BY <2>3, <2>4, <2>5, QuietRequestInv DEF Checked, RequestTypeOK
<1>8. CASE ConfirmOriginNonce(r)
  <2>1. FirstBid(r) \in Tx
    BY <1>8 DEF ConfirmOriginNonce, Checked, NodeTypeOK
  <2>2. StoreTypeOK'
    BY <1>0, <1>8, <2>1, ReservationTyped DEF ConfirmOriginNonce, StoreTypeOK
  <2>3. RequestTypeOK'
    BY <1>0, <1>8 DEF ConfirmOriginNonce, Answers, Goto, RequestTypeOK, PCs
  <2> QED
    BY <1>8, <2>2, <2>3, QuietRequestInv DEF ConfirmOriginNonce, Answers, Goto, Remembered,
       RequestTypeOK
<1>9. CASE ReleaseNonce(r)
  <2>1. /\ nonce[r] \in Nat /\ tierCoversFloor(Swap[r].tier, Swap[r].bytes)
        /\ conflict[r] \in BOOLEAN /\ ledger[Swap[r].tier] \in Ledger
    BY <1>0, <1>9 DEF ReleaseNonce, Checked, RequestTypeOK, StoreTypeOK
  <2>2. releaseNonce(ledger[Swap[r].tier], nonce[r], conflict[r]) \in Ledger
    BY <2>1, LedgerTyped
  <2>3. StoreTypeOK'
    BY <1>0, <1>9, <2>2 DEF ReleaseNonce, StoreTypeOK
  <2>4. /\ pc' \in {[pc EXCEPT ![r] = "reading"], [pc EXCEPT ![r] = "failing"]}
        /\ attempt' \in {[attempt EXCEPT ![r] = 1], attempt}
        /\ nonce' = [nonce EXCEPT ![r] = Null]
        /\ UNCHANGED <<nodeVars, sweepVars, ripe, records, view, conflict, faults>>
    BY <1>9 DEF ReleaseNonce, Fails, Goto
  <2>5. RequestTypeOK'
    BY <1>0, <2>4 DEF RequestTypeOK, PCs
  <2> QED
    BY <2>1, <2>3, <2>4, <2>5, QuietRequestInv DEF Remembered, RequestTypeOK
<1>10. CASE Throw(r) \/ StoreThrows(r) \/ Die(r) \/ ReleaseOrigin(r)
  <2>1. /\ pc' \in {[pc EXCEPT ![r] = "failing"], [pc EXCEPT ![r] = "dead"],
                   [pc EXCEPT ![r] = "answered"]}
        /\ UNCHANGED <<nodeVars, sweepVars, ripe, ledger, records, view, nonce, attempt, conflict>>
        /\ faults' \in Nat
    BY <1>10 DEF Throw, StoreThrows, Die, ReleaseOrigin, Answers, Fails, Goto, Fault, storeVars
  <2>2. StoreTypeOK'
    BY <1>0, <1>10, ReservationTyped DEF Throw, StoreThrows, Die, ReleaseOrigin, StoreTypeOK,
       storeVars
  <2>3. RequestTypeOK'
    BY <1>0, <2>1 DEF RequestTypeOK, PCs
  <2> QED
    BY <2>1, <2>2, <2>3, QuietRequestInv DEF Remembered, RequestTypeOK
<1> QED
  BY <1>1, <1>2, <1>3, <1>4, <1>5, <1>6, <1>7, <1>8, <1>9, <1>10 DEF RequestStep


-----------------------------------------------------------------------------
(***************************************************************************)
(* Sweeps                                                                  *)
(***************************************************************************)
(* A sweep step that leaves the chain alone.                               *)
LEMMA QuietSweepInv ==
  ASSUME IInv, UNCHANGED <<nodeVars, requestVars, ripe>>,
         StoreTypeOK', SweepTypeOK', faults' \in Nat, Remembered'
  PROVE  IInv'
<1> USE DEF IInv
<1>1. NodeTypeOK' /\ NoncesBounded' /\ UNCHANGED accepted
  BY NodeUnchanged DEF TypeOK
<1>2. RequestTypeOK'
  BY DEF TypeOK, RequestTypeOK, requestVars
<1>3. Checked'
  BY <1>1, CheckedFrame DEF requestVars
<1>4. FeeWithinBracket' /\ EveryBidIsARung'
  BY <1>1, BidsFrame
<1> QED BY <1>1, <1>2, <1>3, <1>4 DEF TypeOK

(* Forgetting the plan loses nothing the invariant needs.                  *)
LEMMA ForgetsTyped ==
  ASSUME SweepTypeOK, NEW w \in Sweeps, SweepForgets(w)
  PROVE  /\ SweepTypeOK'
         /\ Remembered /\ accepted \subseteq accepted' /\ UNCHANGED records => Remembered'
<1>1. NoTx \in Tx \union {NoTx} /\ [t \in TierName |-> Unread] \in [TierName -> Int]
  BY DEF Unread
<1>2. SweepTypeOK'
  BY <1>1 DEF SweepForgets, SweepGoto, SweepTypeOK, SweepPCs
<1>3. ASSUME Remembered, accepted \subseteq accepted', UNCHANGED records PROVE Remembered'
  <2>1. records' \subseteq accepted'
    BY <1>3 DEF Remembered
  <2>2. ASSUME NEW v \in Sweeps
        PROVE  /\ snapshot'[v] \subseteq accepted' /\ done'[v] \subseteq accepted'
               /\ bump'[v] \subseteq accepted'
               /\ \A x \in bump'[v] : ~Exhausted(Sponsor(x), x.fee)
               /\ sweepPc'[v] \in {"settling", "freeing", "replacing", "adding"} => item'[v] \in accepted'
               /\ sweepPc'[v] \in {"replacing", "adding"} => Bumped(item'[v]) \in accepted'
    <3>1. CASE v = w
      BY <3>1 DEF SweepForgets, SweepGoto, SweepTypeOK
    <3>2. CASE v # w
      <4>1. /\ snapshot'[v] = snapshot[v] /\ done'[v] = done[v] /\ bump'[v] = bump[v]
            /\ item'[v] = item[v] /\ sweepPc'[v] = sweepPc[v]
        BY <3>2 DEF SweepForgets, SweepGoto, SweepTypeOK
      <4> QED BY <1>3, <4>1 DEF Remembered
    <3> QED BY <3>1, <3>2
  <2> QED BY <2>1, <2>2 DEF Remembered
<1> QED BY <1>2, <1>3

(* The bump of a remembered transaction: typed, in its bracket, a rung up. *)
LEMMA BumpedTx ==
  ASSUME TypeOK, FeeWithinBracket, NEW x \in accepted, ~Exhausted(Sponsor(x), x.fee)
  PROVE  /\ Bumped(x) \in Tx /\ Bumped(x).swap = x.swap /\ Sponsor(Bumped(x)) = Sponsor(x)
         /\ x.fee < Bumped(x).fee /\ Bumped(x).fee <= TIERS[Sponsor(x)]
         /\ admissionFloor(x.swap.bytes) <= Bumped(x).fee
<1>1. x \in Tx
  BY DEF TypeOK, NodeTypeOK
<1>2. x.fee \in Nat /\ Sponsor(x) \in TierName /\ x.swap.bytes \in Nat
  BY <1>1, SwapTyped DEF Tx, Sponsor
<1>3. /\ bumpFee(Sponsor(x), x.fee) \in Nat /\ x.fee < bumpFee(Sponsor(x), x.fee)
      /\ bumpFee(Sponsor(x), x.fee) <= TIERS[Sponsor(x)]
  BY <1>2, BumpClimbs
<1>4. /\ Bumped(x) \in Tx /\ Bumped(x).fee = bumpFee(Sponsor(x), x.fee)
      /\ Bumped(x).swap = x.swap
  BY <1>1, <1>3 DEF Bumped, Tx
<1>5. admissionFloor(x.swap.bytes) \in Nat /\ admissionFloor(x.swap.bytes) <= x.fee
  BY <1>2, FeeAssumption DEF FeeWithinBracket, admissionFloor
<1> QED
  BY <1>2, <1>3, <1>4, <1>5 DEF Sponsor

(* A bump is one rung above a transaction the sweep had listed, and what   *)
(* a sweep lists was accepted.                                             *)
LEMMA BroadcastBumpInv ==
  ASSUME IInv, NEW w \in Sweeps, BroadcastBump(w)
  PROVE  IInv'
<1> USE DEF IInv
<1>1. PICK x \in bump[w] :
        \/ /\ Accepts(Bumped(x))
           /\ bump' = [bump EXCEPT ![w] = @ \ {x}]
           /\ item' = [item EXCEPT ![w] = x]
           /\ SweepGoto(w, "replacing")
           /\ UNCHANGED <<snapshot, floor, done, faults>>
        \/ /\ \/ RejectsNonce(Bumped(x)) /\ UNCHANGED faults
              \/ Fault("reject") /\ UNCHANGED nodeVars
              \/ Accepts(Bumped(x)) /\ Fault("lostBump")
           /\ bump' = [bump EXCEPT ![w] = @ \ {x}]
           /\ UNCHANGED <<sweepPc, snapshot, floor, done, item>>
        \/ /\ Accepts(Bumped(x))
           /\ Fault("lostBump")
           /\ SweepForgets(w)
  BY DEF BroadcastBump
<1>2. x \in accepted /\ x \in Tx /\ ~Exhausted(Sponsor(x), x.fee)
  BY DEF Remembered, TypeOK, NodeTypeOK
<1>3. UNCHANGED <<storeVars, requestVars, ripe>> /\ faults' \in Nat
  BY <1>1 DEF BroadcastBump, TypeOK, Fault
<1>4. StoreTypeOK' /\ RequestTypeOK'
  BY <1>3 DEF TypeOK, StoreTypeOK, RequestTypeOK, storeVars, requestVars
<1>5. CASE Accepts(Bumped(x))
  <2>1. NodeTypeOK' /\ NoncesBounded' /\ accepted' = accepted \union {Bumped(x)}
    BY <1>2, <1>5, BumpedTx, AcceptsStep DEF TypeOK
  <2>2. FeeWithinBracket' /\ EveryBidIsARung'
    BY <1>2, <2>1, BumpedTx, NewBid
  <2>3. Checked'
    BY <1>3, <2>1, CheckedFrame DEF requestVars
  <2>4. SweepTypeOK' /\ Remembered'
    <3>1. CASE SweepForgets(w)
      BY <1>3, <2>1, <3>1, ForgetsTyped DEF TypeOK, storeVars
    <3>2. CASE /\ bump' = [bump EXCEPT ![w] = @ \ {x}]
               /\ item' = [item EXCEPT ![w] = x]
               /\ SweepGoto(w, "replacing")
               /\ UNCHANGED <<snapshot, floor, done, faults>>
      <4>1. SweepTypeOK'
        BY <1>2, <3>2 DEF TypeOK, SweepTypeOK, SweepGoto, SweepPCs
      <4>2. Remembered'
        BY <1>2, <1>3, <2>1, <3>2 DEF Remembered, TypeOK, SweepTypeOK, SweepGoto, storeVars
      <4> QED BY <4>1, <4>2
    <3>3. CASE /\ bump' = [bump EXCEPT ![w] = @ \ {x}]
               /\ UNCHANGED <<sweepPc, snapshot, floor, done, item>>
      <4>1. SweepTypeOK'
        BY <3>3 DEF TypeOK, SweepTypeOK
      <4>2. Remembered'
        BY <1>3, <2>1, <3>3 DEF Remembered, TypeOK, SweepTypeOK, storeVars
      <4> QED BY <4>1, <4>2
    <3> QED BY <1>1, <3>1, <3>2, <3>3
  <2> QED BY <1>3, <1>4, <2>1, <2>2, <2>3, <2>4 DEF TypeOK
<1>6. CASE /\ UNCHANGED nodeVars
           /\ bump' = [bump EXCEPT ![w] = @ \ {x}]
           /\ UNCHANGED <<sweepPc, snapshot, floor, done, item>>
  <2>1. SweepTypeOK'
    BY <1>6 DEF TypeOK, SweepTypeOK
  <2>2. Remembered'
    BY <1>3, <1>6 DEF Remembered, TypeOK, SweepTypeOK, storeVars, nodeVars
  <2> QED BY <1>3, <1>4, <1>6, <2>1, <2>2, QuietSweepInv
<1> QED
  BY <1>1, <1>5, <1>6 DEF RejectsNonce

(* Every sweep step keeps the invariant.                                   *)
LEMMA SweepInv ==
  ASSUME IInv, NEW w \in Sweeps, SweepProgress(w) \/ SweepAborts(w)
  PROVE  IInv'
<1> USE DEF IInv, TypeOK
<1>0. /\ \A label \in SweepPCs : [sweepPc EXCEPT ![w] = label] \in [Sweeps -> SweepPCs]
      /\ faults \in Nat /\ accepted \subseteq Tx
  BY DEF SweepTypeOK, NodeTypeOK
<1>1. CASE ListPending(w)
  <2>1. /\ StoreTypeOK' /\ sweepPc' = [sweepPc EXCEPT ![w] = "reading"]
        /\ snapshot' = [snapshot EXCEPT ![w] = records]
        /\ UNCHANGED <<nodeVars, requestVars, ripe, faults, records, floor, done, bump, item>>
    BY <1>1 DEF ListPending, SweepGoto, storeVars, StoreTypeOK
  <2>2. SweepTypeOK'
    BY <1>0, <2>1 DEF SweepTypeOK, SweepPCs, StoreTypeOK
  <2>3. Remembered'
    BY <2>1 DEF Remembered, SweepTypeOK, nodeVars
  <2> QED BY <1>0, <2>1, <2>2, <2>3, QuietSweepInv
<1>2. CASE ReadFloor(w)
  <2>1. /\ StoreTypeOK'
        /\ UNCHANGED <<nodeVars, requestVars, ripe, faults, records, sweepPc, snapshot, done, bump,
                       item>>
    BY <1>2 DEF ReadFloor, storeVars, StoreTypeOK
  <2>2. floor' \in [Sweeps -> [TierName -> Int]]
    <3>1. PICK t \in TierName :
            \E v \in getNonces(t) : floor' = [floor EXCEPT ![w][t] = v.lastExecuted]
      BY <1>2 DEF ReadFloor, ToRead
    <3>2. PICK v \in getNonces(t) : floor' = [floor EXCEPT ![w][t] = v.lastExecuted]
      BY <3>1
    <3>3. v.lastExecuted \in Int
      BY ViewTyped DEF View
    <3> QED BY <3>3, <3>2 DEF SweepTypeOK
  <2>3. SweepTypeOK'
    BY <2>1, <2>2 DEF SweepTypeOK
  <2>4. Remembered'
    BY <2>1 DEF Remembered, nodeVars
  <2> QED BY <1>0, <2>1, <2>3, <2>4, QuietSweepInv
<1>3. CASE PlanRbf(w)
  <2> DEFINE D == {x \in snapshot[w] : Executed(w, x)}
             B == {x \in snapshot[w] :
                     ~Executed(w, x) /\ x \in ripe /\ ~Exhausted(Sponsor(x), x.fee)}
  <2>1. /\ D \subseteq accepted /\ B \subseteq accepted /\ D \subseteq Tx /\ B \subseteq Tx
        /\ \A x \in B : ~Exhausted(Sponsor(x), x.fee)
    BY <1>0 DEF Remembered
  <2>2. /\ StoreTypeOK' /\ sweepPc' = [sweepPc EXCEPT ![w] = "working"]
        /\ done' = [done EXCEPT ![w] = D] /\ bump' = [bump EXCEPT ![w] = B]
        /\ snapshot' = [snapshot EXCEPT ![w] = {}]
        /\ UNCHANGED <<nodeVars, requestVars, ripe, faults, records, floor, item>>
    BY <1>3 DEF PlanRbf, SweepGoto, storeVars, StoreTypeOK
  <2> HIDE DEF D, B
  <2>3. SweepTypeOK'
    BY <1>0, <2>1, <2>2 DEF SweepTypeOK, SweepPCs
  <2>4. Remembered'
    BY <2>1, <2>2 DEF Remembered, SweepTypeOK, nodeVars
  <2> QED BY <1>0, <2>2, <2>3, <2>4, QuietSweepInv
<1>4. CASE RemovePending(w)
  <2>1. PICK x \in done[w] : /\ records' = records \ {x}
                             /\ done' = [done EXCEPT ![w] = @ \ {x}]
                             /\ item' = [item EXCEPT ![w] = x]
    BY <1>4 DEF RemovePending
  <2>2. x \in accepted /\ x \in Tx
    BY <1>0 DEF Remembered
  <2>3. /\ sweepPc' = [sweepPc EXCEPT ![w] = "settling"]
        /\ UNCHANGED <<nodeVars, requestVars, ripe, faults, ledger, reservation, snapshot, floor,
                       bump>>
    BY <1>4 DEF RemovePending, SweepGoto
  <2>4. StoreTypeOK' /\ SweepTypeOK'
    BY <1>0, <2>1, <2>2, <2>3 DEF StoreTypeOK, SweepTypeOK, SweepPCs
  <2>5. Remembered'
    BY <2>1, <2>2, <2>3 DEF Remembered, SweepTypeOK, nodeVars
  <2> QED BY <1>0, <2>3, <2>4, <2>5, QuietSweepInv
<1>5. CASE SettleNonces(w) \/ SweepReleaseOrigin(w)
  <2>1. item[w] \in accepted /\ item[w] \in Tx
    BY <1>0, <1>5 DEF SettleNonces, SweepReleaseOrigin, Remembered
  <2>2. Sponsor(item[w]) \in TierName /\ originKey(item[w].swap) \in OriginKeys
    BY <2>1, SwapTyped DEF Tx, Sponsor, OriginKeys
  <2>3. /\ sweepPc' \in {[sweepPc EXCEPT ![w] = "freeing"], [sweepPc EXCEPT ![w] = "working"]}
        /\ SweepReleaseOrigin(w) => sweepPc' = [sweepPc EXCEPT ![w] = "working"]
        /\ SettleNonces(w) => UNCHANGED item
        /\ item' \in {item, [item EXCEPT ![w] = NoTx]}
        /\ UNCHANGED <<nodeVars, requestVars, ripe, faults, records, snapshot, floor, done, bump>>
    BY <1>5 DEF SettleNonces, SweepReleaseOrigin, SweepGoto
  <2>4. StoreTypeOK'
    <3>1. CASE SettleNonces(w)
      <4>1. floor[w][Sponsor(item[w])] \in Int /\ ledger[Sponsor(item[w])] \in Ledger
        BY <2>2 DEF SweepTypeOK, StoreTypeOK
      <4>2. settleNonces(ledger[Sponsor(item[w])], floor[w][Sponsor(item[w])]) \in Ledger
        BY <4>1, LedgerTyped
      <4> QED BY <3>1, <4>2 DEF SettleNonces, StoreTypeOK
    <3>2. CASE SweepReleaseOrigin(w)
      BY <3>2, <2>2, ReservationTyped DEF SweepReleaseOrigin, StoreTypeOK
    <3> QED BY <1>5, <3>1, <3>2
  <2>5. SweepTypeOK'
    BY <1>0, <2>3 DEF SweepTypeOK, SweepPCs
  <2>6. Remembered'
    BY <1>5, <2>1, <2>3 DEF Remembered, SweepTypeOK, nodeVars
  <2> QED BY <1>0, <2>3, <2>4, <2>5, <2>6, QuietSweepInv
<1>6. CASE BroadcastBump(w)
  BY <1>6, BroadcastBumpInv
<1>7. CASE RemoveReplaced(w)
  <2>1. /\ sweepPc[w] = "replacing"
        /\ sweepPc' = [sweepPc EXCEPT ![w] = "adding"]
        /\ records' = records \ {item[w]}
        /\ UNCHANGED <<nodeVars, requestVars, ripe, faults, ledger, reservation, snapshot, floor,
                       done, bump, item>>
    BY <1>7 DEF RemoveReplaced, SweepGoto
  <2>2. StoreTypeOK' /\ SweepTypeOK'
    BY <1>0, <2>1 DEF StoreTypeOK, SweepTypeOK, SweepPCs
  <2>3. Remembered'
    BY <2>1 DEF Remembered, SweepTypeOK, nodeVars
  <2> QED BY <1>0, <2>1, <2>2, <2>3, QuietSweepInv
<1>8. CASE SweepEnds(w) \/ SweepAborts(w)
  <2>1. /\ SweepForgets(w) /\ faults' \in Nat
        /\ UNCHANGED <<nodeVars, storeVars, requestVars, ripe>>
    BY <1>0, <1>8 DEF SweepEnds, SweepAborts, Fault
  <2>2. SweepTypeOK' /\ Remembered'
    BY <2>1, ForgetsTyped DEF nodeVars, storeVars
  <2>3. StoreTypeOK'
    BY <2>1 DEF StoreTypeOK, storeVars
  <2> QED BY <2>1, <2>2, <2>3, QuietSweepInv
<1>9. CASE AddReplacement(w)
  <2>1. Bumped(item[w]) \in accepted /\ Bumped(item[w]) \in Tx
    BY <1>0, <1>9 DEF AddReplacement, Remembered
  <2>2. /\ sweepPc' = [sweepPc EXCEPT ![w] = "working"]
        /\ item' = [item EXCEPT ![w] = NoTx]
        /\ records' = records \union {Bumped(item[w])}
        /\ UNCHANGED <<nodeVars, requestVars, ripe, faults, ledger, reservation, snapshot, floor,
                       done, bump>>
    BY <1>9 DEF AddReplacement, SweepGoto
  <2>3. StoreTypeOK' /\ SweepTypeOK'
    BY <1>0, <2>1, <2>2 DEF StoreTypeOK, SweepTypeOK, SweepPCs
  <2>4. Remembered'
    BY <2>1, <2>2 DEF Remembered, SweepTypeOK, nodeVars
  <2> QED BY <1>0, <2>2, <2>3, <2>4, QuietSweepInv
<1> QED
  BY <1>1, <1>2, <1>3, <1>4, <1>5, <1>6, <1>7, <1>8, <1>9 DEF SweepProgress

-----------------------------------------------------------------------------
(***************************************************************************)
(* Time, the chain, and the whole                                          *)
(***************************************************************************)
(* A reservation running out, a block, the indexer, a lost or overtaken    *)
(* transaction and the clock keep the invariant: none adds to `accepted`.  *)
LEMMA WorldInv ==
  ASSUME IInv, (\E k \in OriginKeys : Expire(k)) \/ Block \/ IndexerStep \/ World \/ Clock
  PROVE  IInv'
<1> USE DEF IInv, TypeOK
<1>1. NodeTypeOK' /\ NoncesBounded' /\ UNCHANGED accepted
  <2>1. CASE (\E k \in OriginKeys : Expire(k)) \/ Clock
    BY <2>1, NodeUnchanged DEF Expire, Clock, Ripen
  <2>2. CASE Block
    BY <2>2, AdvanceStep DEF Block, Mine
  <2>3. CASE IndexerStep
    BY <2>3 DEF IndexerStep, Index, NodeTypeOK, NoncesBounded
  <2>4. CASE World
    <3>1. CASE \E t \in mempool : Drop(t)
      BY <3>1, ShrinkStep DEF Drop, NodeTypeOK
    <3>2. CASE \E o \in Origins : SpendsElsewhere(o)
      BY <3>2, AdvanceStep DEF SpendsElsewhere
    <3> QED BY <2>4, <3>1, <3>2 DEF World
  <2> QED BY <2>1, <2>2, <2>3, <2>4
<1>2. UNCHANGED <<ledger, records, requestVars, sweepVars>> /\ faults' \in Nat
  BY DEF Expire, Clock, Ripen, Block, IndexerStep, World, relayVars, storeVars, Fault
<1>3. reservation' \in [OriginKeys -> Reservation] /\ ripe' \subseteq Tx
  <2>1. CASE \E k \in OriginKeys : Expire(k)
    BY <2>1, ReservationTyped DEF Expire, StoreTypeOK
  <2>2. CASE Clock
    BY <2>2 DEF Clock, Ripen, storeVars, StoreTypeOK
  <2>3. CASE Block \/ IndexerStep \/ World
    BY <2>3 DEF Block, IndexerStep, World, relayVars, storeVars, StoreTypeOK
  <2> QED BY <2>1, <2>2, <2>3
<1>4. StoreTypeOK' /\ RequestTypeOK' /\ SweepTypeOK'
  BY <1>2, <1>3 DEF StoreTypeOK, RequestTypeOK, SweepTypeOK, requestVars, sweepVars
<1>5. Remembered' /\ Checked'
  BY <1>1, <1>2, RememberedFrame, CheckedFrame DEF requestVars
<1>6. FeeWithinBracket' /\ EveryBidIsARung'
  BY <1>1, BidsFrame
<1> QED BY <1>1, <1>2, <1>3, <1>4, <1>5, <1>6

(* The empty store and mempool satisfy the invariant.                      *)
LEMMA InitInv == Init => IInv
<1> SUFFICES ASSUME Init PROVE IInv
  OBVIOUS
<1>1. NodeTypeOK /\ StoreTypeOK
  BY ReservationTyped DEF Init, NodeTypeOK, StoreTypeOK, EmptyLedger, Ledger, Null
<1>2. RequestTypeOK
  BY DEF Init, RequestTypeOK, NoView, View, Null, PCs
<1>3. SweepTypeOK
  BY DEF Init, SweepTypeOK, SweepPCs, Unread
<1>4. NoncesBounded /\ Remembered /\ Checked /\ FeeWithinBracket /\ EveryBidIsARung
  BY DEF Init, NoncesBounded, Remembered, Checked, FeeWithinBracket, EveryBidIsARung
<1> QED BY <1>1, <1>2, <1>3, <1>4 DEF Init, IInv, TypeOK

(* Every step, and every stutter, keeps the invariant.                     *)
LEMMA NextInv == IInv /\ [Next]_vars => IInv'
<1> SUFFICES ASSUME IInv, [Next]_vars PROVE IInv'
  OBVIOUS
<1>1. CASE \E r \in Requests : RequestStep(r) \/ Die(r)
  BY <1>1, RequestInv
<1>2. CASE \E w \in Sweeps : SweepProgress(w) \/ SweepAborts(w)
  BY <1>2, SweepInv
<1>3. CASE (\E k \in OriginKeys : Expire(k)) \/ Block \/ IndexerStep \/ World \/ Clock
  BY <1>3, WorldInv
<1>4. CASE UNCHANGED vars
  <2>1. UNCHANGED <<nodeVars, storeVars, requestVars, sweepVars, ripe, faults>>
    BY <1>4 DEF vars
  <2>2. NodeTypeOK' /\ NoncesBounded' /\ UNCHANGED accepted
    BY <2>1, NodeUnchanged DEF IInv, TypeOK
  <2>3. /\ StoreTypeOK' /\ RequestTypeOK' /\ SweepTypeOK' /\ ripe' \subseteq Tx /\ faults' \in Nat
    BY <2>1 DEF IInv, TypeOK, StoreTypeOK, RequestTypeOK, SweepTypeOK, storeVars, requestVars,
                sweepVars
  <2>4. Remembered' /\ Checked' /\ FeeWithinBracket' /\ EveryBidIsARung'
    BY <2>1, <2>2, RememberedFrame, CheckedFrame, BidsFrame DEF IInv, storeVars, requestVars
  <2> QED BY <2>2, <2>3, <2>4 DEF IInv, TypeOK
<1> QED
  BY <1>1, <1>2, <1>3, <1>4 DEF Next

(* The types hold of every relay: whatever the chain reports, a nonce the  *)
(* ledger grants, takes back or settles is a natural number.               *)
THEOREM TypeCorrect == Spec => []TypeOK
<1>1. IInv => TypeOK
  BY DEF IInv
<1> QED BY <1>1, InitInv, NextInv, PTL DEF Spec

(* No transaction the node took from the relay bids more than its tier     *)
(* repays, or less than the network admits (fee.ts computeFee, bumpFee).   *)
THEOREM BidsStayInBracket == Spec => []FeeWithinBracket
<1>1. IInv => FeeWithinBracket
  BY DEF IInv
<1> QED BY <1>1, InitInv, NextInv, PTL DEF Spec

(* Every bid is the first of its swap or one bump above another bid at the *)
(* same sponsor nonce (relay.ts executeRbf), through overlapping sweeps,   *)
(* lost replies and restarts.                                              *)
THEOREM BidsClimbTheLadder == Spec => []EveryBidIsARung
<1>1. IInv => EveryBidIsARung
  BY DEF IInv
<1> QED BY <1>1, InitInv, NextInv, PTL DEF Spec
=============================================================================
