---------------------------- MODULE LedgerProofs ----------------------------
(***************************************************************************)
(* The nonce ledger and the reservations, for any number of requests,      *)
(* users, tiers, overlapping sweeps and faults of the kinds below: no      *)
(* sponsor nonce is given twice, no two requests work for one origin       *)
(* nonce, nothing sponsored is forgotten, and the relay implements         *)
(* Sponsoring.                                                             *)
(*                                                                         *)
(* The argument: the counter of a key stays ahead of all it ever granted   *)
(* and of the chain, so that a grant is a fresh slot; a request that got   *)
(* past preflight holds an origin nonce that is due and that nothing       *)
(* accepted uses, so that its first bid is never refused as a conflict,    *)
(* and a ledger is never forgotten; and each slot belongs to one swap, so  *)
(* that a slot that is executed has executed its swap's origin nonce,      *)
(* which is all a sweep goes by when it frees a reservation.               *)
(***************************************************************************)
EXTENDS RelayProofs, FiniteSetTheorems

(* The API gives the account's nonce; calls may be refused, throw, or lose *)
(* the answer to a bump, and the mempool may lose transactions.  With      *)
(* gaps reported, a lost answer to a first bid, a process that dies, a     *)
(* reservation that runs out or a nonce spent elsewhere, some property     *)
(* below fails (README, section 3).                                        *)
Steady ==
  /\ Endpoints = {"account"}
  /\ FaultKinds \subseteq {"refuse", "throw", "reject", "lostBump", "drop"}

Entry(r) == [nonce |-> nonce[r], by |-> r]
Spent(s) == executed[s.origin] > s.nonce
Used(t)  == executed[Sponsor(t)] > t.nonce

(* The mempool holds what was accepted and can still be mined.             *)
MempoolInv == mempool \subseteq accepted /\ \A t \in mempool : ~Dead(t, executed)

(* A ledger is ahead of the chain, of its pending nonces and of all it     *)
(* granted, and remembers what is not yet executed.                        *)
LedgerInv ==
  /\ NoTwins /\ CounterIsAhead /\ PendingIsCapped
  /\ \A a \in TierName :
       /\ IsFiniteSet(ledger[a].pending)
       /\ executed[a] = 0 \/ executed[a] <= ledger[a].next
  /\ \A t \in accepted :
       /\ t.nonce < ledger[Sponsor(t)].next
       /\ Used(t) \/ \E e \in ledger[Sponsor(t)].pending : e.nonce = t.nonce

(* What a request was granted is its own, and was never used.              *)
GrantsInv ==
  \A r \in Requests :
    /\ pc[r] = "allocating" => /\ view[r].lastExecuted < executed[Swap[r].tier]
                               /\ view[r].possibleNext \in Nat /\ view[r].missing = {}
    /\ pc[r] \in {"broadcasting", "releasing"} =>
         /\ Entry(r) \in ledger[Swap[r].tier].pending
         /\ executed[Swap[r].tier] <= nonce[r]
         /\ \A t \in accepted : Sponsor(t) = Swap[r].tier => t.nonce # nonce[r]
    /\ conflict[r] = FALSE

(* A slot belongs to one swap, and a swap has one slot.                    *)
SlotsInv ==
  \A t, u \in accepted :
    /\ SameSponsorNonce(t, u) => t.swap = u.swap
    /\ SameOriginNonce(t, u) => t.swap = u.swap /\ t.nonce = u.nonce

(* Until its origin nonce is executed, a reservation or a request about to *)
(* confirm it stands for what was accepted.                                *)
Confirms(r) == pc[r] \in {"recording", "confirming"}

KeyInv ==
  /\ \A t \in accepted : Used(t) => Spent(t.swap)
  /\ \A t \in accepted :
       \/ Spent(t.swap)
       \/ reservation[originKey(t.swap)].state = "broadcast"
       \/ \E r \in Requests : Confirms(r) /\ originKey(Swap[r]) = originKey(t.swap)
  /\ \A k \in OriginKeys :
       reservation[k].state = "broadcast" => \E t \in accepted : originKey(t.swap) = k

(* What a request in flight knows of its origin nonce.                     *)
FlightInv ==
  /\ OneRequestPerOriginNonce
  /\ \A r \in Requests :
       /\ pc[r] \in {"reading", "allocating", "broadcasting", "releasing"}
            => executed[Swap[r].origin] = Swap[r].nonce
       /\ InFlight(r) => reservation[originKey(Swap[r])] # Free \/ Spent(Swap[r])
       /\ InFlight(r) /\ ~Confirms(r) =>
            \A t \in accepted : originKey(t.swap) = originKey(Swap[r]) => Spent(t.swap)

(* A sweep takes for executed only what is.                                *)
PlansInv ==
  \A w \in Sweeps :
    /\ \A a \in TierName : floor[w][a] < executed[a]
    /\ \A x \in done[w] : Used(x)
    /\ sweepPc[w] \in {"settling", "freeing"} => Used(item[w])

(* What is not executed is on record, or about to be.                      *)
Tracked(t) ==
  \/ \E x \in records : Tracks(x, t)
  \/ \E r \in Requests : pc[r] = "recording" /\ Tracks(FirstBid(r), t)
  \/ \E w \in Sweeps : sweepPc[w] = "adding" /\ Tracks(item[w], t)
TrackInv == \A t \in accepted : Used(t) \/ Tracked(t)

Books ==
  /\ MempoolInv /\ LedgerInv /\ GrantsInv /\ SlotsInv /\ KeyInv /\ FlightInv
  /\ PlansInv /\ TrackInv

LInv == IInv /\ Books

-----------------------------------------------------------------------------
(***************************************************************************)
(* Types and frames                                                        *)
(***************************************************************************)
(* The faults that Steady leaves out do not happen.                        *)
LEMMA NoSuchFault ==
  ASSUME Steady
  PROVE  ~Fault("lostReply") /\ ~Fault("store") /\ ~Fault("death") /\ ~Fault("slow")
         /\ ~Fault("expire") /\ ~Fault("outside")
BY DEF Steady, Fault

LEMMA TxTyped ==
  ASSUME IInv, NEW t \in accepted
  PROVE  /\ t \in Tx /\ t.nonce \in Nat /\ t.fee \in Nat /\ Sponsor(t) \in TierName
         /\ t.swap \in Swaps /\ t.swap.origin \in Origins /\ t.swap.nonce \in Nat
         /\ originKey(t.swap) \in OriginKeys
<1>1. t \in Tx
  BY DEF IInv, TypeOK, NodeTypeOK
<1> QED
  BY <1>1, SwapTyped DEF Tx, Sponsor, OriginKeys

LEMMA AccountTyped ==
  ASSUME IInv
  PROVE  /\ \A a \in TierName : executed[a] \in Nat /\ ledger[a] \in Ledger
         /\ \A o \in Origins : executed[o] \in Nat
BY DEF IInv, TypeOK, NodeTypeOK, StoreTypeOK

LEMMA RequestTyped ==
  ASSUME NEW r \in Requests
  PROVE  /\ Swap[r] \in Swaps /\ Swap[r].tier \in TierName /\ Swap[r].origin \in Origins
         /\ Swap[r].nonce \in Nat /\ originKey(Swap[r]) \in OriginKeys
BY RelayAssumption DEF Swaps, OriginKeys

LEMMA Moved ==
  ASSUME IInv, NEW r \in Requests, NEW label, pc' = [pc EXCEPT ![r] = label]
  PROVE  pc'[r] = label /\ \A q \in Requests : q # r => pc'[q] = pc[q]
BY DEF IInv, TypeOK, RequestTypeOK

LEMMA SweepMoved ==
  ASSUME IInv, NEW w \in Sweeps, NEW label, SweepGoto(w, label)
  PROVE  sweepPc'[w] = label /\ \A v \in Sweeps : v # w => sweepPc'[v] = sweepPc[v]
BY DEF IInv, TypeOK, SweepTypeOK, SweepGoto

(* A step that accepts nothing, or only another bid for a slot in use.     *)
SameSlots ==
  /\ accepted \subseteq accepted'
  /\ \A t \in accepted' : \E u \in accepted : u.swap = t.swap /\ u.nonce = t.nonce

LEMMA MempoolFrame ==
  ASSUME MempoolInv, mempool' \subseteq mempool, UNCHANGED <<accepted, executed>>
  PROVE  MempoolInv'
BY DEF MempoolInv

LEMMA LedgerFrame ==
  ASSUME LedgerInv, SameSlots, UNCHANGED <<ledger, executed>>
  PROVE  LedgerInv'
BY DEF LedgerInv, SameSlots, NoTwins, CounterIsAhead, PendingIsCapped, Used, Sponsor

LEMMA SlotsFrame ==
  ASSUME SlotsInv, SameSlots
  PROVE  SlotsInv'
BY DEF SlotsInv, SameSlots, SameSponsorNonce, SameOriginNonce, OriginKey, Sponsor

LEMMA GrantsFrame ==
  ASSUME GrantsInv, SameSlots, UNCHANGED <<ledger, executed, conflict>>,
         \A r \in Requests :
           /\ pc'[r] = "allocating" => pc[r] = "allocating" /\ view'[r] = view[r]
           /\ pc'[r] \in {"broadcasting", "releasing"} =>
                pc[r] \in {"broadcasting", "releasing"} /\ nonce'[r] = nonce[r]
  PROVE  GrantsInv'
<1> SUFFICES ASSUME NEW r \in Requests
    PROVE  /\ pc'[r] = "allocating" => /\ view'[r].lastExecuted < executed[Swap[r].tier]
                                       /\ view'[r].possibleNext \in Nat /\ view'[r].missing = {}
           /\ pc'[r] \in {"broadcasting", "releasing"} =>
                /\ Entry(r)' \in ledger[Swap[r].tier].pending
                /\ executed[Swap[r].tier] <= nonce'[r]
                /\ \A t \in accepted' : Sponsor(t) = Swap[r].tier => t.nonce # nonce'[r]
           /\ conflict[r] = FALSE
  BY DEF GrantsInv
<1>1. nonce'[r] = nonce[r] => Entry(r)' = Entry(r)
  BY DEF Entry
<1>2. \A n : (\A t \in accepted : Sponsor(t) = Swap[r].tier => t.nonce # n)
               => \A t \in accepted' : Sponsor(t) = Swap[r].tier => t.nonce # n
  BY DEF SameSlots, Sponsor
<1> QED
  BY <1>1, <1>2 DEF GrantsInv

LEMMA KeyFrame ==
  ASSUME KeyInv, SameSlots, UNCHANGED <<executed, reservation>>,
         \A r \in Requests : Confirms(r) => Confirms(r)'
  PROVE  KeyInv'
BY DEF KeyInv, SameSlots, Used, Spent, Sponsor

LEMMA FlightFrame ==
  ASSUME FlightInv, SameSlots, UNCHANGED <<executed, reservation>>,
         \A r \in Requests :
           /\ InFlight(r)' => InFlight(r)
           /\ InFlight(r)' /\ ~Confirms(r)' => ~Confirms(r)
           /\ pc'[r] \in {"reading", "allocating", "broadcasting", "releasing"} =>
                pc[r] \in {"reading", "allocating", "broadcasting", "releasing"}
  PROVE  FlightInv'
<1>1. OneRequestPerOriginNonce'
  BY DEF FlightInv, OneRequestPerOriginNonce
<1> QED
  BY <1>1 DEF FlightInv, SameSlots, Spent

LEMMA PlansFrame ==
  ASSUME PlansInv, UNCHANGED <<executed, sweepVars>>
  PROVE  PlansInv'
BY DEF PlansInv, Used, sweepVars

LEMMA TrackedStays ==
  ASSUME records \subseteq records',
         \A r \in Requests : pc[r] = "recording" => pc'[r] = "recording" /\ nonce'[r] = nonce[r],
         \A w \in Sweeps : sweepPc[w] = "adding" => sweepPc'[w] = "adding" /\ item'[w] = item[w],
         NEW t, NEW u, u.swap = t.swap, u.nonce = t.nonce, Tracked(u)
  PROVE  Tracked(t)'
<1>1. CASE \E x \in records : Tracks(x, u)
  BY <1>1 DEF Tracked, Tracks
<1>2. CASE \E r \in Requests : pc[r] = "recording" /\ Tracks(FirstBid(r), u)
  BY <1>2 DEF Tracked, Tracks, FirstBid
<1>3. CASE \E w \in Sweeps : sweepPc[w] = "adding" /\ Tracks(item[w], u)
  BY <1>3 DEF Tracked, Tracks
<1> QED
  BY <1>1, <1>2, <1>3 DEF Tracked

LEMMA TrackFrame ==
  ASSUME TrackInv, SameSlots, UNCHANGED executed, records \subseteq records',
         \A r \in Requests : pc[r] = "recording" => pc'[r] = "recording" /\ nonce'[r] = nonce[r],
         \A w \in Sweeps : sweepPc[w] = "adding" => sweepPc'[w] = "adding" /\ item'[w] = item[w]
  PROVE  TrackInv'
<1>1. ASSUME NEW t, NEW u, u.swap = t.swap, u.nonce = t.nonce, Used(u)
      PROVE  Used(t)'
  BY <1>1 DEF Used, Sponsor
<1>2. ASSUME NEW t, NEW u, u.swap = t.swap, u.nonce = t.nonce, Tracked(u)
      PROVE  Tracked(t)'
  BY <1>2, TrackedStays
<1> QED
  BY <1>1, <1>2 DEF TrackInv, SameSlots

-----------------------------------------------------------------------------
(***************************************************************************)
(* Requests                                                                *)
(***************************************************************************)
(* With the account endpoint alone, a read is of the account's nonce.      *)
LEMMA AccountRead ==
  ASSUME Steady, IInv, NEW a \in TierName \union Origins, NEW v \in getNonces(a)
  PROVE  /\ v.lastExecuted < executed[a]
         /\ v.possibleNext = executed[a] /\ v.possibleNext \in Nat /\ v.missing = {}
<1>1. executed[a] \in Nat
  BY AccountTyped
<1>2. v = AccountView(a)
  BY DEF Steady, getNonces
<1> QED
  BY <1>1, <1>2 DEF AccountView

LEMMA SameKey ==
  ASSUME NEW s, NEW u, originKey(s) = originKey(u)
  PROVE  s.origin = u.origin /\ s.nonce = u.nonce /\ (Spent(s) <=> Spent(u))
<1>1. s.origin = u.origin /\ s.nonce = u.nonce
  BY DEF originKey
<1> QED
  BY <1>1 DEF Spent

LEMMA OtherKey ==
  ASSUME IInv, NEW k \in OriginKeys, NEW v, reservation' = [reservation EXCEPT ![k] = v]
  PROVE  reservation'[k] = v /\ \A l \in OriginKeys : l # k => reservation'[l] = reservation[l]
BY DEF IInv, TypeOK, StoreTypeOK

(* A step of r that touches neither the node nor the store, before r has   *)
(* anything on record.                                                     *)
LEMMA QuietRequest ==
  ASSUME LInv, NEW r \in Requests,
         UNCHANGED <<nodeVars, storeVars, nonce, conflict, sweepVars>>,
         \A q \in Requests : q # r => pc'[q] = pc[q] /\ view'[q] = view[q],
         ~Confirms(r), ~Confirms(r)', InFlight(r)' => InFlight(r),
         pc'[r] = "allocating" => /\ view'[r].lastExecuted < executed[Swap[r].tier]
                                  /\ view'[r].possibleNext \in Nat /\ view'[r].missing = {},
         pc'[r] \in {"broadcasting", "releasing"} => pc[r] \in {"broadcasting", "releasing"},
         pc'[r] \in {"reading", "allocating", "broadcasting", "releasing"}
           => executed[Swap[r].origin] = Swap[r].nonce
  PROVE  Books'
<1> USE DEF LInv, Books
<1>1. SameSlots /\ UNCHANGED <<executed, accepted, mempool, ledger, reservation, records>>
  BY DEF SameSlots, nodeVars, storeVars
<1>2. MempoolInv' /\ LedgerInv' /\ SlotsInv' /\ PlansInv'
  BY <1>1, MempoolFrame, LedgerFrame, SlotsFrame, PlansFrame
<1>3. KeyInv'
  <2>1. \A q \in Requests : Confirms(q) => Confirms(q)'
    BY DEF Confirms
  <2> QED BY <1>1, <2>1, KeyFrame
<1>4. GrantsInv'
  <2> SUFFICES ASSUME NEW q \in Requests
      PROVE  /\ pc'[q] = "allocating" => /\ view'[q].lastExecuted < executed[Swap[q].tier]
                                         /\ view'[q].possibleNext \in Nat
                                         /\ view'[q].missing = {}
             /\ pc'[q] \in {"broadcasting", "releasing"} =>
                  /\ Entry(q)' \in ledger[Swap[q].tier].pending
                  /\ executed[Swap[q].tier] <= nonce[q]
                  /\ \A t \in accepted : Sponsor(t) = Swap[q].tier => t.nonce # nonce[q]
             /\ conflict[q] = FALSE
    BY <1>1 DEF GrantsInv
  <2>1. Entry(q)' = Entry(q)
    BY DEF Entry
  <2> QED BY <2>1 DEF GrantsInv
<1>5. FlightInv'
  <2>1. \A q \in Requests : InFlight(q)' => InFlight(q) /\ (Confirms(q) => Confirms(q)')
    BY DEF InFlight, Confirms
  <2>2. OneRequestPerOriginNonce'
    BY <1>1, <2>1 DEF FlightInv, OneRequestPerOriginNonce
  <2>3. \A q \in Requests : pc'[q] \in {"reading", "allocating", "broadcasting", "releasing"}
          => executed[Swap[q].origin] = Swap[q].nonce
    BY DEF FlightInv
  <2>4. \A s : Spent(s)' <=> Spent(s)
    BY <1>1 DEF Spent
  <2> QED BY <1>1, <2>1, <2>2, <2>3, <2>4 DEF FlightInv
<1>6. TrackInv'
  <2>1. \A q \in Requests : pc[q] = "recording" => pc'[q] = "recording" /\ nonce'[q] = nonce[q]
    BY DEF Confirms
  <2>2. \A w \in Sweeps : sweepPc[w] = "adding" => sweepPc'[w] = "adding" /\ item'[w] = item[w]
    BY DEF sweepVars
  <2> QED BY <1>1, <2>1, <2>2, TrackFrame
<1> QED
  BY <1>2, <1>3, <1>4, <1>5, <1>6

LEMMA QuietActions ==
  ASSUME Steady, LInv, NEW r \in Requests,
         Refuse(r) \/ Preflight(r) \/ ReadSponsor(r) \/ Throw(r)
  PROVE  Books'
<1> USE DEF LInv
<1>1. CASE Refuse(r)
  <2>1. pc[r] = "new" /\ pc' = [pc EXCEPT ![r] = "answered"]
    BY <1>1 DEF Refuse, Answers, Goto
  <2>2. UNCHANGED <<nodeVars, storeVars, view, nonce, conflict, sweepVars>>
    BY <1>1 DEF Refuse
  <2> QED BY <2>1, <2>2, Moved, QuietRequest DEF Confirms, InFlight
<1>2. CASE Preflight(r)
  <2>1. /\ pc[r] = "preflight"
        /\ \/ pc' = [pc EXCEPT ![r] = "failing"]
           \/ /\ \E v \in getNonces(Swap[r].origin) : v.possibleNext = Swap[r].nonce
              /\ pc' = [pc EXCEPT ![r] = "reading"]
    BY <1>2 DEF Preflight, Fails, Goto
  <2>2. UNCHANGED <<nodeVars, storeVars, view, nonce, conflict, sweepVars>>
    BY <1>2 DEF Preflight
  <2>3. (\E v \in getNonces(Swap[r].origin) : v.possibleNext = Swap[r].nonce)
          => executed[Swap[r].origin] = Swap[r].nonce
    BY AccountRead, RequestTyped
  <2> QED BY <2>1, <2>2, <2>3, Moved, QuietRequest DEF Confirms, InFlight
<1>3. CASE ReadSponsor(r)
  <2>1. pc[r] = "reading" /\ pc' = [pc EXCEPT ![r] = "allocating"]
    BY <1>3 DEF ReadSponsor, Goto
  <2>2. UNCHANGED <<nodeVars, storeVars, nonce, conflict, sweepVars>>
    BY <1>3 DEF ReadSponsor
  <2>3. PICK v \in getNonces(Swap[r].tier) : view' = [view EXCEPT ![r] = v]
    BY <1>3 DEF ReadSponsor
  <2>4. view'[r] = v /\ \A q \in Requests : q # r => view'[q] = view[q]
    BY <2>3 DEF IInv, TypeOK, RequestTypeOK
  <2>5. /\ v.lastExecuted < executed[Swap[r].tier]
        /\ v.possibleNext \in Nat /\ v.missing = {}
    BY AccountRead, RequestTyped
  <2>6. executed[Swap[r].origin] = Swap[r].nonce
    BY <2>1 DEF Books, FlightInv
  <2> QED BY <2>1, <2>2, <2>4, <2>5, <2>6, Moved, QuietRequest DEF Confirms, InFlight
<1>4. CASE Throw(r)
  <2>1. pc[r] \in {"preflight", "reading", "broadcasting"} /\ pc' = [pc EXCEPT ![r] = "failing"]
    BY <1>4 DEF Throw, Fails, Goto
  <2>2. UNCHANGED <<nodeVars, storeVars, view, nonce, conflict, sweepVars>>
    BY <1>4 DEF Throw
  <2>3. pc'[r] = "failing" /\ \A q \in Requests : q # r => pc'[q] = pc[q]
    BY <2>1, Moved
  <2>4. ~Confirms(r) /\ ~Confirms(r)' /\ InFlight(r)
    BY <2>1, <2>3 DEF Confirms, InFlight
  <2> QED BY <2>2, <2>3, <2>4, QuietRequest
<1> QED
  BY <1>1, <1>2, <1>3, <1>4

(* A fresh reservation is taken only where nothing unspent is accepted.    *)
LEMMA ReserveBooks ==
  ASSUME Steady, LInv, NEW r \in Requests, Reserve(r)
  PROVE  Books'
<1> USE DEF LInv, Books
<1> DEFINE k == originKey(Swap[r])
<1>1. /\ pc[r] = "new" /\ reservation[k] = Free
      /\ reservation' = [reservation EXCEPT ![k] = Running]
      /\ pc' = [pc EXCEPT ![r] = "preflight"]
      /\ UNCHANGED <<nodeVars, ledger, records, view, nonce, conflict, sweepVars>>
  BY DEF Reserve, Goto
<1>2. /\ pc'[r] = "preflight" /\ \A q \in Requests : q # r => pc'[q] = pc[q]
      /\ UNCHANGED <<mempool, accepted, executed>> /\ SameSlots
  BY <1>1, Moved DEF nodeVars, SameSlots
<1>3. k \in OriginKeys /\ Running # Free /\ Running.state = "running" /\ Free.state = "free"
  BY RequestTyped DEF Running, Free
<1> HIDE DEF k
<1>4. reservation'[k] = Running /\ \A l \in OriginKeys : l # k => reservation'[l] = reservation[l]
  BY <1>1, <1>3, OtherKey
<1>5. MempoolInv' /\ LedgerInv' /\ SlotsInv' /\ PlansInv'
  BY <1>1, <1>2, MempoolFrame, LedgerFrame, SlotsFrame, PlansFrame
<1>6. GrantsInv'
  BY <1>1, <1>2, GrantsFrame
<1>7. TrackInv'
  <2>1. \A q \in Requests : pc[q] = "recording" => pc'[q] = "recording" /\ nonce'[q] = nonce[q]
    BY <1>1, <1>2
  <2>2. \A w \in Sweeps : sweepPc[w] = "adding" => sweepPc'[w] = "adding" /\ item'[w] = item[w]
    BY <1>1 DEF sweepVars
  <2> QED BY <1>1, <1>2, <2>1, <2>2, TrackFrame
<1>8. \A q \in Requests : InFlight(q) /\ originKey(Swap[q]) = k => Spent(Swap[q])
  BY <1>1 DEF FlightInv
<1>9. \A q \in Requests : Confirms(q) => Confirms(q)' /\ InFlight(q)
  BY <1>1, <1>2 DEF Confirms, InFlight
<1>10. \A t \in accepted : originKey(t.swap) = k => Spent(t.swap)
  BY <1>1, <1>3, <1>8, <1>9, SameKey DEF KeyInv
<1>11. \A s : Spent(s)' <=> Spent(s)
  BY <1>2 DEF Spent
<1>12. KeyInv'
  <2>1. \A t \in accepted' : Used(t)' => Spent(t.swap)'
    BY <1>2, <1>11 DEF KeyInv, Used
  <2>2. ASSUME NEW t \in accepted'
        PROVE  \/ Spent(t.swap)'
               \/ reservation'[originKey(t.swap)].state = "broadcast"
               \/ \E q \in Requests : Confirms(q)' /\ originKey(Swap[q]) = originKey(t.swap)
    BY <1>2, <1>4, <1>9, <1>10, <1>11, TxTyped DEF KeyInv
  <2>3. \A l \in OriginKeys :
          reservation'[l].state = "broadcast" => \E t \in accepted' : originKey(t.swap) = l
    BY <1>2, <1>3, <1>4 DEF KeyInv
  <2> QED BY <2>1, <2>2, <2>3 DEF KeyInv
<1>13. FlightInv'
  <2>1. \A q \in Requests : q # r => (InFlight(q)' <=> InFlight(q)) /\ (Confirms(q)' <=> Confirms(q))
    BY <1>2 DEF InFlight, Confirms
  <2>2. OneRequestPerOriginNonce'
    <3> SUFFICES ASSUME NEW p \in Requests, NEW q \in Requests, p # q,
                        originKey(Swap[p]) = originKey(Swap[q]), InFlight(p)', InFlight(q)'
        PROVE  Spent(Swap[q])
      BY <1>2 DEF OneRequestPerOriginNonce, originKey, OriginKey, Spent
    <3>1. CASE p = r
      BY <3>1, <2>1, <1>8 DEF k
    <3>2. CASE q = r
      BY <3>2, <2>1, <1>8, SameKey DEF k
    <3>3. CASE p # r /\ q # r
      BY <3>3, <2>1 DEF FlightInv, OneRequestPerOriginNonce, originKey, OriginKey, Spent
    <3> QED BY <3>1, <3>2, <3>3
  <2>3. ASSUME NEW q \in Requests
        PROVE  /\ pc'[q] \in {"reading", "allocating", "broadcasting", "releasing"}
                    => executed[Swap[q].origin] = Swap[q].nonce
               /\ InFlight(q)' => reservation'[originKey(Swap[q])] # Free \/ Spent(Swap[q])
               /\ InFlight(q)' /\ ~Confirms(q)' =>
                    \A t \in accepted : originKey(t.swap) = originKey(Swap[q]) => Spent(t.swap)
    <3>1. CASE q = r
      BY <3>1, <1>2, <1>3, <1>4, <1>10 DEF k
    <3>2. CASE q # r
      BY <3>2, <1>2, <1>3, <1>4, <2>1, RequestTyped DEF FlightInv
    <3> QED BY <3>1, <3>2
  <2> QED BY <1>2, <1>11, <2>2, <2>3 DEF FlightInv
<1> QED
  BY <1>5, <1>6, <1>7, <1>12, <1>13

LEMMA OtherLedger ==
  ASSUME IInv, NEW a \in TierName, NEW l, ledger' = [ledger EXCEPT ![a] = l]
  PROVE  ledger'[a] = l /\ \A b \in TierName : b # a => ledger'[b] = ledger[b]
BY DEF IInv, TypeOK, StoreTypeOK

(* What a ledger keeps when entries at or under an executed nonce leave.   *)
LEMMA AboveKeeps ==
  ASSUME NEW pending, IsFiniteSet(pending), NEW f
  PROVE  /\ Above(pending, f) \subseteq pending /\ IsFiniteSet(Above(pending, f))
         /\ Cardinality(Above(pending, f)) <= Cardinality(pending)
<1>1. Above(pending, f) \subseteq pending
  BY DEF Above
<1> QED
  BY <1>1, FS_Subset

(* What a request is granted is at or beyond the counter and the chain.    *)
LEMMA Granted ==
  ASSUME NEW l \in Ledger, NEW v, v.missing = {}, v.possibleNext \in Nat,
         reconcileNonce(l, v, MaxPendingPerKey).nonce # Null
  PROVE  LET rec == reconcileNonce(l, v, MaxPendingPerKey)
         IN  /\ rec.pending = Above(l.pending, v.lastExecuted)
             /\ rec.nonce \in Nat /\ l.next <= rec.nonce
             /\ ~(Cardinality(rec.pending) >= MaxPendingPerKey)
<1>1. l.next \in Nat \union {-1}
  BY DEF Ledger, Null
<1> QED
  BY <1>1 DEF reconcileNonce, Null

(* A nonce is granted beyond the counter, and only entries of executed     *)
(* nonces are forgotten.                                                   *)
LEMMA AllocateBooks ==
  ASSUME Steady, LInv, NEW r \in Requests, Allocate(r)
  PROVE  Books'
<1> USE DEF LInv, Books
<1> DEFINE a   == Swap[r].tier
           rec == reconcileNonce(ledger[a], view[r], MaxPendingPerKey)
           P   == ledger[a].pending
           n   == rec.nonce
           new == [nonce |-> n, by |-> r]
<1>1. /\ pc[r] = "allocating" /\ view' = [view EXCEPT ![r] = NoView]
      /\ UNCHANGED <<nodeVars, records, reservation, conflict, sweepVars>>
      /\ \/ /\ pc' = [pc EXCEPT ![r] = "failing"]
            /\ UNCHANGED <<ledger, nonce>>
         \/ /\ n # Null
            /\ ledger' = [ledger EXCEPT ![a] = Allocated(rec, r)]
            /\ nonce' = [nonce EXCEPT ![r] = n]
            /\ pc' = [pc EXCEPT ![r] = "broadcasting"]
  BY DEF Allocate, Fails, Goto
<1>2. \A q \in Requests : q # r => view'[q] = view[q]
  BY <1>1 DEF IInv, TypeOK, RequestTypeOK
<1>3. CASE pc' = [pc EXCEPT ![r] = "failing"] /\ UNCHANGED <<ledger, nonce>>
  <2>1. pc'[r] = "failing" /\ \A q \in Requests : q # r => pc'[q] = pc[q]
    BY <1>3, Moved
  <2>2. UNCHANGED <<nodeVars, storeVars, nonce, conflict, sweepVars>>
    BY <1>1, <1>3 DEF storeVars
  <2>3. ~Confirms(r) /\ ~Confirms(r)' /\ InFlight(r)
    BY <1>1, <2>1 DEF Confirms, InFlight
  <2> QED BY <1>2, <2>1, <2>2, <2>3, QuietRequest
<1>4. CASE /\ n # Null
           /\ ledger' = [ledger EXCEPT ![a] = Allocated(rec, r)]
           /\ nonce' = [nonce EXCEPT ![r] = n]
           /\ pc' = [pc EXCEPT ![r] = "broadcasting"]
  <2>1. /\ a \in TierName /\ ledger[a] \in Ledger /\ executed[a] \in Nat
        /\ view[r].lastExecuted < executed[a]
        /\ view[r].possibleNext \in Nat /\ view[r].missing = {}
        /\ view[r].lastExecuted \in Int
    BY <1>1, RequestTyped, AccountTyped DEF GrantsInv, IInv, TypeOK, RequestTypeOK, View
  <2>2. /\ rec.pending = Above(P, view[r].lastExecuted)
        /\ n \in Nat /\ ledger[a].next <= n /\ ~(Cardinality(rec.pending) >= MaxPendingPerKey)
    BY <1>4, <2>1, Granted
  <2>3. IsFiniteSet(P) /\ \A e \in P : e.nonce \in Nat /\ e.nonce < ledger[a].next
    BY <2>1 DEF LedgerInv, CounterIsAhead, Ledger
  <2>4. /\ rec.pending \subseteq P /\ IsFiniteSet(rec.pending)
        /\ \A e \in P : e.nonce >= executed[a] => e \in rec.pending
    <3>1. \A e \in P : e.nonce >= executed[a] => e.nonce > view[r].lastExecuted
      BY <2>1, <2>3
    <3>2. rec.pending \subseteq P /\ IsFiniteSet(rec.pending)
      BY <2>2, <2>3, AboveKeeps
    <3>3. \A e \in P : e.nonce >= executed[a] => e \in rec.pending
      BY <2>2, <3>1 DEF Above
    <3> QED BY <3>2, <3>3
  <2>5. ledger'[a] = Allocated(rec, r) /\ \A b \in TierName : b # a => ledger'[b] = ledger[b]
    BY <1>4, <2>1, OtherLedger
  <2>6. ledger'[a].next = n + 1 /\ ledger'[a].pending = rec.pending \union {new}
    BY <2>5 DEF Allocated
  <2>7. /\ nonce'[r] = n /\ \A q \in Requests : q # r => nonce'[q] = nonce[q]
        /\ pc'[r] = "broadcasting" /\ \A q \in Requests : q # r => pc'[q] = pc[q]
    BY <1>4, Moved DEF IInv, TypeOK, RequestTypeOK
  <2>8. UNCHANGED <<mempool, accepted, executed>> /\ SameSlots
    BY <1>1 DEF nodeVars, SameSlots
  <2>9. ledger[a].next \in Nat \union {-1} /\ (executed[a] = 0 \/ executed[a] <= ledger[a].next)
    BY <2>1 DEF LedgerInv, Ledger, Null
  <2>10. executed[a] <= n /\ executed[a] <= n + 1
    BY <2>1, <2>2, <2>9
  <2> HIDE DEF a, rec, P, n
  <2>11. LedgerInv'
    <3>1. NoTwins'
      <4> SUFFICES ASSUME NEW b \in TierName, NEW e \in ledger'[b].pending,
                          NEW f \in ledger'[b].pending, e.nonce = f.nonce
          PROVE  e = f
        BY DEF NoTwins
      <4>1. CASE b # a
        BY <4>1, <2>5 DEF LedgerInv, NoTwins
      <4>2. CASE b = a
        <5>1. \A g \in rec.pending : g.nonce \in Nat /\ g.nonce < ledger[a].next
          BY <2>3, <2>4
        <5>2. \A g \in rec.pending : g.nonce # new.nonce
          BY <5>1, <2>2, <2>9
        <5>3. e \in rec.pending /\ f \in rec.pending => e = f
          BY <2>4, <2>1 DEF LedgerInv, NoTwins, P
        <5> QED BY <4>2, <2>6, <5>2, <5>3
      <4> QED BY <4>1, <4>2
    <3>2. CounterIsAhead'
      <4>1. \A e \in ledger'[a].pending : e.nonce < ledger'[a].next
        <5>1. new.nonce < n + 1
          BY <2>2
        <5>2. \A g \in rec.pending : g.nonce < n + 1
          BY <2>2, <2>3, <2>4, <2>9
        <5> QED BY <2>6, <5>1, <5>2
      <4> QED BY <2>5, <4>1 DEF LedgerInv, CounterIsAhead
    <3>3. IsFiniteSet(ledger'[a].pending) /\ Cardinality(ledger'[a].pending) <= MaxPendingPerKey
      <4>1. MaxPendingPerKey \in Nat /\ Cardinality(rec.pending) \in Nat
        BY <2>4, RelayAssumption, FS_CardinalityType
      <4>2. /\ IsFiniteSet(rec.pending \union {new})
            /\ \/ Cardinality(rec.pending \union {new}) = Cardinality(rec.pending)
               \/ Cardinality(rec.pending \union {new}) = Cardinality(rec.pending) + 1
        BY <2>4, FS_AddElement
      <4> QED BY <4>1, <4>2, <2>2, <2>6
    <3>4. PendingIsCapped'
      BY <2>5, <3>3 DEF LedgerInv, PendingIsCapped
    <3>5. \A b \in TierName : /\ IsFiniteSet(ledger'[b].pending)
                              /\ executed[b] = 0 \/ executed[b] <= ledger'[b].next
      BY <2>5, <2>6, <2>10, <3>3 DEF LedgerInv
    <3>6. ASSUME NEW t \in accepted
          PROVE  /\ t.nonce < ledger'[Sponsor(t)].next
                 /\ Used(t) \/ \E e \in ledger'[Sponsor(t)].pending : e.nonce = t.nonce
      <4>1. t.nonce \in Nat /\ Sponsor(t) \in TierName
        BY TxTyped
      <4>2. /\ t.nonce < ledger[Sponsor(t)].next
            /\ Used(t) \/ \E e \in ledger[Sponsor(t)].pending : e.nonce = t.nonce
        BY DEF LedgerInv
      <4>3. CASE Sponsor(t) = a
        <5>1. t.nonce < n + 1
          BY <4>1, <4>2, <4>3, <2>2, <2>9
        <5>2. Used(t) \/ t.nonce >= executed[a]
          BY <4>1, <4>3, <2>1 DEF Used
        <5>3. Used(t) \/ \E e \in rec.pending : e.nonce = t.nonce
          BY <4>2, <4>3, <5>2, <2>4 DEF P
        <5> QED BY <4>3, <5>1, <5>3, <2>6
      <4>4. CASE Sponsor(t) # a
        BY <4>1, <4>2, <4>4, <2>5
      <4> QED BY <4>3, <4>4
    <3> QED BY <2>8, <3>1, <3>2, <3>4, <3>5, <3>6 DEF LedgerInv, Used
  <2>12. GrantsInv'
    <3> SUFFICES ASSUME NEW q \in Requests
        PROVE  /\ pc'[q] = "allocating" => /\ view'[q].lastExecuted < executed[Swap[q].tier]
                                           /\ view'[q].possibleNext \in Nat
                                           /\ view'[q].missing = {}
               /\ pc'[q] \in {"broadcasting", "releasing"} =>
                    /\ Entry(q)' \in ledger'[Swap[q].tier].pending
                    /\ executed[Swap[q].tier] <= nonce'[q]
                    /\ \A t \in accepted : Sponsor(t) = Swap[q].tier => t.nonce # nonce'[q]
               /\ conflict[q] = FALSE
      BY <1>1, <2>8 DEF GrantsInv
    <3>1. conflict[q] = FALSE
      BY DEF GrantsInv
    <3>2. CASE q = r
      <4>1. Entry(q)' = new /\ Swap[q].tier = a
        BY <3>2, <2>7 DEF Entry, a
      <4>2. \A t \in accepted : Sponsor(t) = a => t.nonce \in Nat /\ t.nonce < ledger[a].next
        BY TxTyped DEF LedgerInv
      <4>3. \A t \in accepted : Sponsor(t) = a => t.nonce # n
        BY <4>2, <2>2, <2>9
      <4> QED BY <3>1, <3>2, <4>1, <4>3, <2>6, <2>7, <2>10
    <3>3. CASE q # r
      <4>1. Entry(q)' = Entry(q) /\ pc'[q] = pc[q] /\ view'[q] = view[q] /\ nonce'[q] = nonce[q]
        BY <3>3, <1>2, <2>7 DEF Entry
      <4>2. ASSUME pc[q] \in {"broadcasting", "releasing"}
            PROVE  Entry(q) \in ledger'[Swap[q].tier].pending
        <5>1. Entry(q) \in ledger[Swap[q].tier].pending /\ executed[Swap[q].tier] <= nonce[q]
          BY <4>2 DEF GrantsInv
        <5>2. Entry(q).nonce = nonce[q] /\ nonce[q] \in Nat
          BY <4>2 DEF Entry, IInv, Checked
        <5>3. CASE Swap[q].tier = a
          BY <5>1, <5>2, <5>3, <2>1, <2>4, <2>6 DEF P
        <5>4. CASE Swap[q].tier # a
          BY <5>1, <5>4, <2>5, RequestTyped
        <5> QED BY <5>3, <5>4
      <4> QED BY <3>1, <4>1, <4>2 DEF GrantsInv
    <3> QED BY <3>2, <3>3
  <2>13. MempoolInv' /\ SlotsInv' /\ PlansInv'
    BY <1>1, <2>8, MempoolFrame, SlotsFrame, PlansFrame
  <2>14. KeyInv'
    <3>1. \A q \in Requests : Confirms(q) => Confirms(q)'
      BY <1>1, <2>7 DEF Confirms
    <3> QED BY <1>1, <2>8, <3>1, KeyFrame
  <2>15. FlightInv'
    <3>1. \A q \in Requests :
            /\ InFlight(q)' => InFlight(q)
            /\ InFlight(q)' /\ ~Confirms(q)' => ~Confirms(q)
            /\ pc'[q] \in {"reading", "allocating", "broadcasting", "releasing"} =>
                 pc[q] \in {"reading", "allocating", "broadcasting", "releasing"}
      BY <1>1, <2>7 DEF InFlight, Confirms
    <3> QED BY <1>1, <2>8, <3>1, FlightFrame
  <2>16. TrackInv'
    <3>1. \A q \in Requests : pc[q] = "recording" => pc'[q] = "recording" /\ nonce'[q] = nonce[q]
      BY <1>1, <2>7
    <3>2. \A w \in Sweeps : sweepPc[w] = "adding" => sweepPc'[w] = "adding" /\ item'[w] = item[w]
      BY <1>1 DEF sweepVars
    <3> QED BY <1>1, <2>8, <3>1, <3>2, TrackFrame
  <2> QED BY <2>11, <2>12, <2>13, <2>14, <2>15, <2>16
<1> QED
  BY <1>1, <1>3, <1>4

(* A first bid meets neither an accepted nor a waiting rival.              *)
LEMMA Fresh ==
  ASSUME LInv, NEW r \in Requests, pc[r] = "broadcasting"
  PROVE  LET b == FirstBid(r)
         IN  /\ b \in Tx /\ b.nonce = nonce[r] /\ b.swap = Swap[r] /\ Sponsor(b) = Swap[r].tier
             /\ ~Used(b) /\ ~Spent(b.swap) /\ ~Dead(b, executed)
             /\ \A t \in accepted : ~SameSponsorNonce(b, t) /\ ~SameOriginNonce(b, t)
             /\ Rivals(b) = {} /\ b \notin mempool
<1> USE DEF LInv, Books
<1> DEFINE b == FirstBid(r)
<1>1. /\ b \in Tx /\ Sponsor(b) = Swap[r].tier /\ b.nonce = nonce[r] /\ b.swap = Swap[r]
      /\ nonce[r] \in Nat
  BY FirstBidTyped DEF IInv, Checked, FirstBid
<1>2. /\ executed[Swap[r].tier] <= nonce[r]
      /\ \A t \in accepted : Sponsor(t) = Swap[r].tier => t.nonce # nonce[r]
  BY DEF GrantsInv
<1>3. /\ executed[Swap[r].origin] = Swap[r].nonce
      /\ \A t \in accepted : originKey(t.swap) = originKey(Swap[r]) => Spent(t.swap)
  BY DEF FlightInv, InFlight, Confirms
<1>4. Swap[r].nonce \in Nat /\ executed[Swap[r].tier] \in Nat
  BY RequestTyped, AccountTyped
<1> HIDE DEF b
<1>5. ~Used(b) /\ ~Spent(b.swap) /\ ~Dead(b, executed)
  BY <1>1, <1>2, <1>3, <1>4 DEF Used, Spent, Dead
<1>6. ASSUME NEW t \in accepted PROVE ~SameSponsorNonce(b, t) /\ ~SameOriginNonce(b, t)
  <2>1. ~SameSponsorNonce(b, t)
    BY <1>1, <1>2 DEF SameSponsorNonce
  <2>2. originKey(t.swap) # originKey(Swap[r])
    <3>1. originKey(t.swap) = originKey(Swap[r]) => Spent(t.swap) /\ ~Spent(t.swap)
      BY <1>1, <1>3, <1>5, SameKey
    <3> QED BY <3>1
  <2> QED BY <1>1, <2>1, <2>2 DEF SameOriginNonce, OriginKey, originKey
<1>7. mempool \subseteq accepted
  BY DEF MempoolInv
<1>8. b \notin mempool
  BY <1>6, <1>7 DEF SameSponsorNonce
<1> QED
  BY <1>1, <1>5, <1>6, <1>7, <1>8 DEF b, Rivals

(* A refused broadcast was refused by a fault alone: no conflict is met.   *)
LEMMA BroadcastCases ==
  ASSUME Steady, LInv, NEW r \in Requests, Broadcast(r)
  PROVE  /\ pc[r] = "broadcasting" /\ UNCHANGED <<storeVars, view, nonce, sweepVars>>
         /\ \/ /\ Accepts(FirstBid(r)) /\ pc' = [pc EXCEPT ![r] = "recording"]
               /\ UNCHANGED conflict
            \/ /\ UNCHANGED <<nodeVars, conflict>> /\ pc' = [pc EXCEPT ![r] = "releasing"]
<1> USE DEF LInv, Books
<1>1. pc[r] = "broadcasting" /\ UNCHANGED <<storeVars, view, nonce, sweepVars>>
  BY DEF Broadcast
<1>2. ~RejectsNonce(FirstBid(r))
  BY <1>1, Fresh DEF RejectsNonce, Outbids
<1>3. \/ Accepts(FirstBid(r)) /\ pc' = [pc EXCEPT ![r] = "recording"] /\ UNCHANGED conflict
      \/ /\ UNCHANGED nodeVars /\ conflict' = [conflict EXCEPT ![r] = FALSE]
         /\ pc' = [pc EXCEPT ![r] = "releasing"]
  BY <1>2, NoSuchFault DEF Broadcast, Goto
<1>4. conflict' = [conflict EXCEPT ![r] = FALSE] => UNCHANGED conflict
  <2>1. conflict \in [Requests -> BOOLEAN] /\ conflict[r] = FALSE
    BY DEF IInv, TypeOK, RequestTypeOK, GrantsInv
  <2> QED BY <2>1
<1> QED
  BY <1>1, <1>3, <1>4

(* An accepted first bid opens a slot of its own, for a swap of its own.   *)
LEMMA BroadcastBooks ==
  ASSUME Steady, LInv, NEW r \in Requests, Broadcast(r)
  PROVE  Books'
<1> USE DEF LInv, Books
<1> DEFINE b == FirstBid(r)
<1>1. pc[r] = "broadcasting" /\ UNCHANGED <<storeVars, view, nonce, sweepVars>>
  BY BroadcastCases
<1>2. CASE UNCHANGED <<nodeVars, conflict>> /\ pc' = [pc EXCEPT ![r] = "releasing"]
  <2>1. pc'[r] = "releasing" /\ \A q \in Requests : q # r => pc'[q] = pc[q]
    BY <1>2, Moved
  <2>2. ~Confirms(r) /\ ~Confirms(r)' /\ InFlight(r)
    BY <1>1, <2>1 DEF Confirms, InFlight
  <2>3. executed[Swap[r].origin] = Swap[r].nonce
    BY <1>1 DEF FlightInv
  <2> QED BY <1>1, <1>2, <2>1, <2>2, <2>3, QuietRequest
<1>3. CASE Accepts(b) /\ pc' = [pc EXCEPT ![r] = "recording"] /\ UNCHANGED conflict
  <2>1. /\ b \in Tx /\ b.nonce = nonce[r] /\ b.swap = Swap[r] /\ Sponsor(b) = Swap[r].tier
        /\ ~Used(b) /\ ~Spent(b.swap) /\ ~Dead(b, executed)
        /\ \A t \in accepted : ~SameSponsorNonce(b, t) /\ ~SameOriginNonce(b, t)
    BY <1>1, Fresh
  <2>2. /\ pc'[r] = "recording" /\ \A q \in Requests : q # r => pc'[q] = pc[q]
    BY <1>3, Moved
  <2>3. /\ accepted' = accepted \union {b} /\ mempool' \subseteq mempool \union {b}
        /\ UNCHANGED executed
    BY <1>3 DEF Accepts
  <2>4. /\ UNCHANGED <<ledger, records, reservation>>
        /\ Swap[r].tier \in TierName /\ originKey(Swap[r]) \in OriginKeys
    BY <1>1, RequestTyped DEF storeVars
  <2>5. FirstBid(r)' = b
    BY <1>1 DEF FirstBid
  <2>6. Entry(r) \in ledger[Swap[r].tier].pending /\ Entry(r).nonce = nonce[r]
    BY <1>1 DEF GrantsInv, Entry
  <2>7. executed[Swap[r].origin] = Swap[r].nonce
    BY <1>1 DEF FlightInv
  <2> HIDE DEF b
  <2>8. MempoolInv'
    BY <2>1, <2>3 DEF MempoolInv
  <2>9. LedgerInv'
    <3>1. nonce[r] < ledger[Swap[r].tier].next
      BY <2>4, <2>6 DEF LedgerInv, CounterIsAhead
    <3> QED BY <2>1, <2>3, <2>4, <2>6, <3>1
            DEF LedgerInv, NoTwins, CounterIsAhead, PendingIsCapped, Used
  <2>10. GrantsInv'
    <3> SUFFICES ASSUME NEW q \in Requests
        PROVE  /\ pc'[q] = "allocating" => /\ view[q].lastExecuted < executed[Swap[q].tier]
                                           /\ view[q].possibleNext \in Nat
                                           /\ view[q].missing = {}
               /\ pc'[q] \in {"broadcasting", "releasing"} =>
                    /\ Entry(q)' \in ledger[Swap[q].tier].pending
                    /\ executed[Swap[q].tier] <= nonce[q]
                    /\ \A t \in accepted' : Sponsor(t) = Swap[q].tier => t.nonce # nonce[q]
               /\ conflict[q] = FALSE
      BY <1>1, <1>3, <2>3, <2>4 DEF GrantsInv
    <3>1. CASE q = r
      BY <3>1, <2>2 DEF GrantsInv
    <3>2. CASE q # r
      <4>1. Entry(q)' = Entry(q) /\ pc'[q] = pc[q]
        BY <1>1, <2>2, <3>2 DEF Entry
      <4>2. ASSUME pc[q] \in {"broadcasting", "releasing"}, Sponsor(b) = Swap[q].tier
            PROVE  b.nonce # nonce[q]
        <5>1. Entry(q) \in ledger[Swap[r].tier].pending
          BY <2>1, <4>2 DEF GrantsInv
        <5>2. Entry(q) # Entry(r) /\ Entry(q).nonce = nonce[q]
          BY <3>2 DEF Entry
        <5> QED BY <2>1, <2>4, <2>6, <5>1, <5>2 DEF LedgerInv, NoTwins
      <4> QED BY <2>3, <4>1, <4>2 DEF GrantsInv
    <3> QED BY <3>1, <3>2
  <2>11. SlotsInv'
    <3>1. \A t \in accepted : ~SameSponsorNonce(t, b) /\ ~SameOriginNonce(t, b)
      BY <2>1 DEF SameSponsorNonce, SameOriginNonce
    <3> QED BY <2>1, <2>3, <3>1 DEF SlotsInv
  <2>12. \A q \in Requests : (Confirms(q) => Confirms(q)') /\ (InFlight(q)' <=> InFlight(q))
    BY <1>1, <2>2 DEF Confirms, InFlight
  <2>13. \A s : Spent(s)' <=> Spent(s)
    BY <2>3 DEF Spent
  <2>14. KeyInv'
    <3>1. \A t \in accepted' : Used(t)' => Spent(t.swap)'
      BY <2>1, <2>3, <2>13 DEF KeyInv, Used
    <3>2. Confirms(r)'
      BY <2>2 DEF Confirms
    <3>3. \A t \in accepted' :
            \/ Spent(t.swap)'
            \/ reservation[originKey(t.swap)].state = "broadcast"
            \/ \E q \in Requests : Confirms(q)' /\ originKey(Swap[q]) = originKey(t.swap)
      BY <2>1, <2>3, <2>12, <2>13, <3>2 DEF KeyInv
    <3> QED BY <2>3, <2>4, <3>1, <3>3 DEF KeyInv
  <2>15. FlightInv'
    <3>1. OneRequestPerOriginNonce'
      BY <2>3, <2>12 DEF FlightInv, OneRequestPerOriginNonce
    <3>2. ASSUME NEW q \in Requests, InFlight(q)', ~Confirms(q)',
                 originKey(b.swap) = originKey(Swap[q])
          PROVE  FALSE
      <4>1. q # r /\ InFlight(q) /\ InFlight(r)
        BY <1>1, <2>2, <2>12, <3>2 DEF Confirms, InFlight
      <4>2. OriginKey(Swap[q]) = OriginKey(Swap[r])
        BY <2>1, <3>2 DEF originKey, OriginKey
      <4>3. Spent(Swap[r])
        BY <4>1, <4>2 DEF FlightInv, OneRequestPerOriginNonce, Spent
      <4> QED BY <2>1, <4>3
    <3>3. \A q \in Requests : ~Confirms(q)' => ~Confirms(q)
      BY <2>12
    <3>4. \A q \in Requests : pc'[q] \in {"reading", "allocating", "broadcasting", "releasing"}
             => pc[q] \in {"reading", "allocating", "broadcasting", "releasing"}
      BY <1>1, <2>2
    <3> QED BY <2>3, <2>4, <2>12, <2>13, <3>1, <3>2, <3>3, <3>4 DEF FlightInv
  <2>16. PlansInv'
    BY <1>1, <2>3, PlansFrame
  <2>17. TrackInv'
    <3>1. \A t : t = b => Tracked(t)'
      BY <2>2, <2>5 DEF Tracked, Tracks
    <3>2. \A q \in Requests : pc[q] = "recording" => pc'[q] = "recording" /\ nonce'[q] = nonce[q]
      BY <1>1, <2>2
    <3>3. \A w \in Sweeps : sweepPc[w] = "adding" => sweepPc'[w] = "adding" /\ item'[w] = item[w]
      BY <1>1 DEF sweepVars
    <3>4. \A t \in accepted : Tracked(t) => Tracked(t)'
      BY <2>4, <3>2, <3>3, TrackedStays
    <3> QED BY <2>3, <3>1, <3>4 DEF TrackInv, Used
  <2> QED BY <2>8, <2>9, <2>10, <2>11, <2>14, <2>15, <2>16, <2>17
<1> QED
  BY <1>2, <1>3, BroadcastCases

(* The record is written while the request still stands for it.            *)
LEMMA AddPendingBooks ==
  ASSUME LInv, NEW r \in Requests, AddPending(r)
  PROVE  Books'
<1> USE DEF LInv, Books
<1>1. /\ pc[r] = "recording" /\ pc' = [pc EXCEPT ![r] = "confirming"]
      /\ records' = records \union {FirstBid(r)}
      /\ UNCHANGED <<nodeVars, ledger, reservation, view, nonce, conflict, sweepVars>>
  BY DEF AddPending, Goto
<1>2. /\ pc'[r] = "confirming" /\ \A q \in Requests : q # r => pc'[q] = pc[q]
      /\ UNCHANGED <<mempool, accepted, executed>> /\ SameSlots
  BY <1>1, Moved DEF nodeVars, SameSlots
<1>3. MempoolInv' /\ LedgerInv' /\ SlotsInv' /\ PlansInv'
  BY <1>1, <1>2, MempoolFrame, LedgerFrame, SlotsFrame, PlansFrame
<1>4. GrantsInv'
  BY <1>1, <1>2, GrantsFrame
<1>5. \A q \in Requests : (Confirms(q) <=> Confirms(q)') /\ (InFlight(q)' <=> InFlight(q))
  BY <1>1, <1>2 DEF Confirms, InFlight
<1>6. KeyInv' /\ FlightInv'
  <2>1. \A q \in Requests : pc'[q] \in {"reading", "allocating", "broadcasting", "releasing"}
          => pc[q] \in {"reading", "allocating", "broadcasting", "releasing"}
    BY <1>1, <1>2
  <2> QED BY <1>1, <1>2, <1>5, <2>1, KeyFrame, FlightFrame
<1>7. TrackInv'
  <2>1. ASSUME NEW t, Tracked(t) PROVE Tracked(t)'
    <3>1. CASE \E x \in records : Tracks(x, t)
      BY <1>1, <3>1 DEF Tracked
    <3>2. CASE \E q \in Requests : pc[q] = "recording" /\ Tracks(FirstBid(q), t)
      <4>1. PICK q \in Requests : pc[q] = "recording" /\ Tracks(FirstBid(q), t)
        BY <3>2
      <4>2. CASE q = r
        BY <1>1, <4>1, <4>2 DEF Tracked
      <4>3. CASE q # r
        BY <1>1, <1>2, <4>1, <4>3 DEF Tracked, Tracks, FirstBid
      <4> QED BY <4>2, <4>3
    <3>3. CASE \E w \in Sweeps : sweepPc[w] = "adding" /\ Tracks(item[w], t)
      BY <1>1, <3>3 DEF Tracked, sweepVars
    <3> QED BY <2>1, <3>1, <3>2, <3>3 DEF Tracked
  <2> QED BY <1>2, <2>1 DEF TrackInv, Used
<1> QED
  BY <1>3, <1>4, <1>6, <1>7

(* The reservation takes over from the request that confirms it.           *)
LEMMA ConfirmBooks ==
  ASSUME LInv, NEW r \in Requests, ConfirmOriginNonce(r)
  PROVE  Books'
<1> USE DEF LInv, Books
<1> DEFINE k == originKey(Swap[r])
<1>1. /\ pc[r] = "confirming" /\ pc' = [pc EXCEPT ![r] = "answered"]
      /\ reservation' = [reservation EXCEPT ![k] = Holding(FirstBid(r))]
      /\ UNCHANGED <<nodeVars, ledger, records, view, nonce, conflict, sweepVars>>
  BY DEF ConfirmOriginNonce, Answers, Goto
<1>2. /\ pc'[r] = "answered" /\ \A q \in Requests : q # r => pc'[q] = pc[q]
      /\ UNCHANGED <<mempool, accepted, executed>> /\ SameSlots
  BY <1>1, Moved DEF nodeVars, SameSlots
<1>3. /\ k \in OriginKeys /\ FirstBid(r) \in accepted /\ originKey(FirstBid(r).swap) = k
      /\ Holding(FirstBid(r)).state = "broadcast" /\ Holding(FirstBid(r)) # Free
  BY <1>1, RequestTyped DEF IInv, Checked, FirstBid, Holding, Free
<1>4. /\ reservation'[k] = Holding(FirstBid(r))
      /\ \A l \in OriginKeys : l # k => reservation'[l] = reservation[l]
  <2> HIDE DEF k
  <2> QED BY <1>1, <1>3, OtherKey
<1>5. MempoolInv' /\ LedgerInv' /\ SlotsInv' /\ PlansInv'
  BY <1>1, <1>2, MempoolFrame, LedgerFrame, SlotsFrame, PlansFrame
<1>6. GrantsInv'
  BY <1>1, <1>2, GrantsFrame
<1>7. TrackInv'
  <2>1. \A q \in Requests : pc[q] = "recording" => pc'[q] = "recording" /\ nonce'[q] = nonce[q]
    BY <1>1, <1>2
  <2>2. \A w \in Sweeps : sweepPc[w] = "adding" => sweepPc'[w] = "adding" /\ item'[w] = item[w]
    BY <1>1 DEF sweepVars
  <2> QED BY <1>1, <1>2, <2>1, <2>2, TrackFrame
<1>8. /\ \A q \in Requests : q # r => (Confirms(q)' <=> Confirms(q)) /\ (InFlight(q)' <=> InFlight(q))
      /\ ~InFlight(r)' /\ \A s : Spent(s)' <=> Spent(s)
  BY <1>2 DEF Confirms, InFlight, Spent
<1> DEFINE h == Holding(FirstBid(r))
<1> HIDE DEF h
<1>9. h.state = "broadcast" /\ h # Free /\ reservation'[k] = h
  BY <1>3, <1>4 DEF h
<1>10. KeyInv'
  <2>1. \A t \in accepted : Used(t)' => Spent(t.swap)'
    BY <1>2, <1>8 DEF KeyInv, Used
  <2>2. ASSUME NEW t \in accepted
        PROVE  \/ Spent(t.swap)'
               \/ reservation'[originKey(t.swap)].state = "broadcast"
               \/ \E q \in Requests : Confirms(q)' /\ originKey(Swap[q]) = originKey(t.swap)
    <3>1. CASE originKey(t.swap) = k
      BY <3>1, <1>9
    <3>2. CASE originKey(t.swap) # k
      BY <3>2, <1>4, <1>8, TxTyped DEF KeyInv
    <3> QED BY <3>1, <3>2
  <2>3. \A l \in OriginKeys :
          reservation'[l].state = "broadcast" => \E t \in accepted : originKey(t.swap) = l
    BY <1>3, <1>4 DEF KeyInv
  <2> QED BY <1>2, <2>1, <2>2, <2>3 DEF KeyInv
<1>11. FlightInv'
  <2>1. OneRequestPerOriginNonce'
    BY <1>2, <1>8 DEF FlightInv, OneRequestPerOriginNonce
  <2>2. \A q \in Requests : pc'[q] \in {"reading", "allocating", "broadcasting", "releasing"}
          => executed[Swap[q].origin] = Swap[q].nonce
    BY <1>2 DEF FlightInv
  <2>3. ASSUME NEW q \in Requests, InFlight(q)'
        PROVE  /\ reservation'[originKey(Swap[q])] # Free \/ Spent(Swap[q])
               /\ ~Confirms(q)' =>
                    \A t \in accepted : originKey(t.swap) = originKey(Swap[q]) => Spent(t.swap)
    BY <1>4, <1>8, <1>9, <2>3, RequestTyped DEF FlightInv
  <2> QED BY <1>2, <1>8, <2>1, <2>2, <2>3 DEF FlightInv
<1> QED
  BY <1>5, <1>6, <1>7, <1>10, <1>11

(* What a release leaves: the counter steps back at most onto the nonce    *)
(* released, under which nothing else is kept.                             *)
LEMMA Released ==
  ASSUME NEW l \in Ledger, NEW n \in Nat, IsFiniteSet(l.pending),
         \A e \in l.pending : e.nonce < l.next
  PROVE  LET m == releaseNonce(l, n, FALSE)
         IN  /\ m.pending = {e \in l.pending : e.nonce # n} /\ m.pending \subseteq l.pending
             /\ IsFiniteSet(m.pending) /\ Cardinality(m.pending) <= Cardinality(l.pending)
             /\ \A c \in Nat : c < l.next /\ c # n => c < m.next
             /\ \A c \in Nat : c <= l.next /\ c <= n => c <= m.next
<1> DEFINE m == releaseNonce(l, n, FALSE)
<1>1. m.pending = {e \in l.pending : e.nonce # n} /\ m.pending \subseteq l.pending
  BY DEF releaseNonce
<1>2. IsFiniteSet(m.pending) /\ Cardinality(m.pending) <= Cardinality(l.pending)
  <2> HIDE DEF m
  <2> QED BY <1>1, FS_Subset
<1>3. l.next \in Int /\ m.next = IF l.next = n + 1 THEN n ELSE l.next
  BY DEF releaseNonce, Ledger, Null
<1> HIDE DEF m
<1>4. \A c \in Nat : (c < l.next /\ c # n => c < m.next) /\ (c <= l.next /\ c <= n => c <= m.next)
  BY <1>3
<1> QED
  BY <1>1, <1>2, <1>4 DEF m

(* A nonce that was refused is given back; nobody else counts on it.       *)
LEMMA ReleaseNonceBooks ==
  ASSUME LInv, NEW r \in Requests, ReleaseNonce(r)
  PROVE  Books'
<1> USE DEF LInv, Books
<1> DEFINE a == Swap[r].tier
           m == releaseNonce(ledger[a], nonce[r], FALSE)
<1>1. conflict[r] = FALSE
  BY DEF GrantsInv
<1>2. /\ pc[r] = "releasing" /\ pc' = [pc EXCEPT ![r] = "failing"]
      /\ ledger' = [ledger EXCEPT ![a] = m] /\ nonce' = [nonce EXCEPT ![r] = Null]
      /\ UNCHANGED <<nodeVars, records, reservation, view, conflict, sweepVars>>
  BY <1>1 DEF ReleaseNonce, Fails, Goto
<1>3. /\ a \in TierName /\ ledger[a] \in Ledger /\ executed[a] \in Nat /\ nonce[r] \in Nat
      /\ Entry(r) \in ledger[a].pending /\ Entry(r).nonce = nonce[r] /\ executed[a] <= nonce[r]
      /\ \A t \in accepted : Sponsor(t) = a => t.nonce # nonce[r]
  BY <1>2, RequestTyped, AccountTyped DEF GrantsInv, Entry, IInv, Checked
<1>4. /\ m.pending = {e \in ledger[a].pending : e.nonce # nonce[r]} /\ IsFiniteSet(m.pending)
      /\ Cardinality(m.pending) <= Cardinality(ledger[a].pending)
      /\ \A c \in Nat : c < ledger[a].next /\ c # nonce[r] => c < m.next
      /\ \A c \in Nat : c <= ledger[a].next /\ c <= nonce[r] => c <= m.next
  <2>1. IsFiniteSet(ledger[a].pending) /\ \A e \in ledger[a].pending : e.nonce < ledger[a].next
    BY <1>3 DEF LedgerInv, CounterIsAhead
  <2> QED BY <1>3, <2>1, Released
<1> HIDE DEF a, m
<1>5. ledger'[a] = m /\ \A b \in TierName : b # a => ledger'[b] = ledger[b]
  BY <1>2, <1>3, OtherLedger
<1>6. /\ pc'[r] = "failing" /\ \A q \in Requests : q # r => pc'[q] = pc[q] /\ nonce'[q] = nonce[q]
      /\ UNCHANGED <<mempool, accepted, executed>> /\ SameSlots
  BY <1>2, Moved DEF nodeVars, SameSlots, IInv, TypeOK, RequestTypeOK
<1>7. LedgerInv'
  <2>1. NoTwins'
    BY <1>4, <1>5 DEF LedgerInv, NoTwins
  <2>2. CounterIsAhead'
    <3>1. \A e \in ledger[a].pending : e.nonce \in Nat /\ e.nonce < ledger[a].next
      BY <1>3 DEF LedgerInv, CounterIsAhead, Ledger
    <3> QED BY <1>4, <1>5, <3>1 DEF LedgerInv, CounterIsAhead
  <2>3. PendingIsCapped' /\ \A b \in TierName : IsFiniteSet(ledger'[b].pending)
    <3>1. Cardinality(ledger[a].pending) <= MaxPendingPerKey /\ MaxPendingPerKey \in Nat
          /\ Cardinality(ledger[a].pending) \in Nat /\ Cardinality(m.pending) \in Nat
      BY <1>3, <1>4, FS_CardinalityType, RelayAssumption DEF LedgerInv, PendingIsCapped
    <3>2. Cardinality(m.pending) <= MaxPendingPerKey
      BY <1>4, <3>1
    <3> QED BY <1>4, <1>5, <3>2 DEF LedgerInv, PendingIsCapped
  <2>4. \A b \in TierName : executed[b] = 0 \/ executed[b] <= ledger'[b].next
    BY <1>3, <1>4, <1>5 DEF LedgerInv
  <2>5. ASSUME NEW t \in accepted
        PROVE  /\ t.nonce < ledger'[Sponsor(t)].next
               /\ Used(t) \/ \E e \in ledger'[Sponsor(t)].pending : e.nonce = t.nonce
    <3>1. t.nonce \in Nat /\ Sponsor(t) \in TierName
      BY TxTyped
    <3>2. CASE Sponsor(t) = a
      BY <1>3, <1>4, <1>5, <3>1, <3>2 DEF LedgerInv
    <3>3. CASE Sponsor(t) # a
      BY <1>5, <3>1, <3>3 DEF LedgerInv
    <3> QED BY <3>2, <3>3
  <2> QED BY <1>6, <2>1, <2>2, <2>3, <2>4, <2>5 DEF LedgerInv, Used
<1>8. GrantsInv'
  <2> SUFFICES ASSUME NEW q \in Requests
      PROVE  /\ pc'[q] = "allocating" => /\ view[q].lastExecuted < executed[Swap[q].tier]
                                         /\ view[q].possibleNext \in Nat
                                         /\ view[q].missing = {}
             /\ pc'[q] \in {"broadcasting", "releasing"} =>
                  /\ Entry(q)' \in ledger'[Swap[q].tier].pending
                  /\ executed[Swap[q].tier] <= nonce'[q]
                  /\ \A t \in accepted : Sponsor(t) = Swap[q].tier => t.nonce # nonce'[q]
             /\ conflict[q] = FALSE
    BY <1>2, <1>6 DEF GrantsInv
  <2>1. CASE q = r
    BY <2>1, <1>6 DEF GrantsInv
  <2>2. CASE q # r
    <3>1. Entry(q)' = Entry(q) /\ pc'[q] = pc[q] /\ nonce'[q] = nonce[q]
      BY <1>6, <2>2 DEF Entry
    <3>2. ASSUME pc[q] \in {"broadcasting", "releasing"}
          PROVE  Entry(q) \in ledger'[Swap[q].tier].pending
      <4>1. Entry(q) \in ledger[Swap[q].tier].pending /\ Entry(q) # Entry(r)
        BY <2>2, <3>2 DEF GrantsInv, Entry
      <4>2. CASE Swap[q].tier = a
        <5>1. Entry(q).nonce # nonce[r]
          BY <1>3, <4>1, <4>2 DEF LedgerInv, NoTwins
        <5> QED BY <1>4, <1>5, <4>1, <4>2, <5>1
      <4>3. CASE Swap[q].tier # a
        BY <1>5, <4>1, <4>3, RequestTyped
      <4> QED BY <4>2, <4>3
    <3> QED BY <3>1, <3>2 DEF GrantsInv
  <2> QED BY <2>1, <2>2
<1>9. MempoolInv' /\ SlotsInv' /\ PlansInv'
  BY <1>2, <1>6, MempoolFrame, SlotsFrame, PlansFrame
<1>10. KeyInv' /\ FlightInv'
  <2>1. \A q \in Requests : (Confirms(q) <=> Confirms(q)') /\ (InFlight(q)' <=> InFlight(q))
    BY <1>2, <1>6 DEF Confirms, InFlight
  <2>2. \A q \in Requests : pc'[q] \in {"reading", "allocating", "broadcasting", "releasing"}
          => pc[q] \in {"reading", "allocating", "broadcasting", "releasing"}
    BY <1>2, <1>6
  <2> QED BY <1>2, <1>6, <2>1, <2>2, KeyFrame, FlightFrame
<1>11. TrackInv'
  <2>1. \A q \in Requests : pc[q] = "recording" => pc'[q] = "recording" /\ nonce'[q] = nonce[q]
    BY <1>2, <1>6
  <2>2. \A w \in Sweeps : sweepPc[w] = "adding" => sweepPc'[w] = "adding" /\ item'[w] = item[w]
    BY <1>2 DEF sweepVars
  <2> QED BY <1>2, <1>6, <2>1, <2>2, TrackFrame
<1> QED
  BY <1>7, <1>8, <1>9, <1>10, <1>11

(* A reservation is freed only where all that is accepted is spent.        *)
LEMMA FreeKey ==
  ASSUME LInv, NEW k \in OriginKeys, reservation' = [reservation EXCEPT ![k] = Free],
         UNCHANGED <<accepted, executed>>,
         \A q \in Requests : Confirms(q) => Confirms(q)',
         \A q \in Requests : /\ InFlight(q)' => InFlight(q)
                             /\ InFlight(q)' /\ ~Confirms(q)' => ~Confirms(q)
                             /\ pc'[q] \in {"reading", "allocating", "broadcasting", "releasing"}
                                  => pc[q] = pc'[q],
         \A t \in accepted : originKey(t.swap) = k => \/ Spent(t.swap)
              \/ \E q \in Requests : Confirms(q)' /\ originKey(Swap[q]) = k,
         \A q \in Requests : InFlight(q)' /\ originKey(Swap[q]) = k => Spent(Swap[q])
  PROVE  KeyInv' /\ FlightInv'
<1> USE DEF LInv, Books
<1>1. /\ reservation'[k] = Free
      /\ \A l \in OriginKeys : l # k => reservation'[l] = reservation[l]
  BY OtherKey
<1>2. \A s : Spent(s)' <=> Spent(s)
  BY DEF Spent
<1>3. Free.state = "free"
  BY DEF Free
<1>4. KeyInv'
  <2>1. \A t \in accepted : Used(t)' => Spent(t.swap)'
    BY <1>2 DEF KeyInv, Used
  <2>2. ASSUME NEW t \in accepted
        PROVE  \/ Spent(t.swap)'
               \/ reservation'[originKey(t.swap)].state = "broadcast"
               \/ \E q \in Requests : Confirms(q)' /\ originKey(Swap[q]) = originKey(t.swap)
    BY <1>1, <1>2, TxTyped DEF KeyInv
  <2>3. \A l \in OriginKeys :
          reservation'[l].state = "broadcast" => \E t \in accepted : originKey(t.swap) = l
    BY <1>1, <1>3 DEF KeyInv
  <2> QED BY <2>1, <2>2, <2>3 DEF KeyInv
<1>5. FlightInv'
  <2>1. OneRequestPerOriginNonce'
    BY DEF FlightInv, OneRequestPerOriginNonce
  <2>2. \A q \in Requests : pc'[q] \in {"reading", "allocating", "broadcasting", "releasing"}
          => executed[Swap[q].origin] = Swap[q].nonce
    BY DEF FlightInv
  <2>3. ASSUME NEW q \in Requests, InFlight(q)'
        PROVE  /\ reservation'[originKey(Swap[q])] # Free \/ Spent(Swap[q])
               /\ ~Confirms(q)' =>
                    \A t \in accepted : originKey(t.swap) = originKey(Swap[q]) => Spent(t.swap)
    BY <1>1, <2>3, RequestTyped DEF FlightInv
  <2> QED BY <1>2, <2>1, <2>2, <2>3 DEF FlightInv
<1> QED
  BY <1>4, <1>5

(* A request that fails gives back a reservation nothing unspent is under. *)
LEMMA ReleaseOriginBooks ==
  ASSUME LInv, NEW r \in Requests, ReleaseOrigin(r)
  PROVE  Books'
<1> USE DEF LInv, Books
<1> DEFINE k == originKey(Swap[r])
<1>1. /\ pc[r] = "failing" /\ pc' = [pc EXCEPT ![r] = "answered"]
      /\ reservation' = [reservation EXCEPT ![k] = Free]
      /\ UNCHANGED <<nodeVars, ledger, records, view, nonce, conflict, sweepVars>>
  BY DEF ReleaseOrigin, Goto
<1>2. /\ pc'[r] = "answered" /\ \A q \in Requests : q # r => pc'[q] = pc[q]
      /\ UNCHANGED <<mempool, accepted, executed>> /\ SameSlots
  BY <1>1, Moved DEF nodeVars, SameSlots
<1>3. MempoolInv' /\ LedgerInv' /\ SlotsInv' /\ PlansInv'
  BY <1>1, <1>2, MempoolFrame, LedgerFrame, SlotsFrame, PlansFrame
<1>4. GrantsInv'
  BY <1>1, <1>2, GrantsFrame
<1>5. TrackInv'
  <2>1. \A q \in Requests : pc[q] = "recording" => pc'[q] = "recording" /\ nonce'[q] = nonce[q]
    BY <1>1, <1>2
  <2>2. \A w \in Sweeps : sweepPc[w] = "adding" => sweepPc'[w] = "adding" /\ item'[w] = item[w]
    BY <1>1 DEF sweepVars
  <2> QED BY <1>1, <1>2, <2>1, <2>2, TrackFrame
<1>6. KeyInv' /\ FlightInv'
  <2>1. InFlight(r) /\ ~Confirms(r) /\ ~InFlight(r)'
    BY <1>1, <1>2 DEF InFlight, Confirms
  <2>2. \A t \in accepted : originKey(t.swap) = k => Spent(t.swap)
    BY <2>1 DEF FlightInv
  <2>3. \A q \in Requests : InFlight(q)' /\ originKey(Swap[q]) = k => Spent(Swap[q])
    <3> SUFFICES ASSUME NEW q \in Requests, InFlight(q)', originKey(Swap[q]) = k
        PROVE  Spent(Swap[q])
      OBVIOUS
    <3>1. q # r /\ InFlight(q)
      BY <1>2, <2>1 DEF InFlight
    <3>2. OriginKey(Swap[q]) = OriginKey(Swap[r])
      BY DEF OriginKey, originKey
    <3> QED BY <2>1, <3>1, <3>2 DEF FlightInv, OneRequestPerOriginNonce, Spent
  <2>4. \A q \in Requests : /\ Confirms(q) <=> Confirms(q)'
                            /\ InFlight(q)' => InFlight(q)
                            /\ pc'[q] \in {"reading", "allocating", "broadcasting", "releasing"}
                                 => pc[q] = pc'[q]
    BY <1>1, <1>2 DEF Confirms, InFlight
  <2>5. k \in OriginKeys
    BY RequestTyped
  <2> HIDE DEF k
  <2> QED BY <1>1, <1>2, <2>2, <2>3, <2>4, <2>5, FreeKey
<1> QED
  BY <1>3, <1>4, <1>5, <1>6

(* Every step of a request.                                                *)
LEMMA RequestBooks ==
  ASSUME Steady, LInv, NEW r \in Requests, RequestStep(r) \/ Die(r)
  PROVE  Books'
<1>1. ~StoreThrows(r) /\ ~Die(r)
  BY NoSuchFault DEF StoreThrows, Die
<1> QED
  BY <1>1, QuietActions, ReserveBooks, AllocateBooks, BroadcastBooks, AddPendingBooks,
     ConfirmBooks, ReleaseNonceBooks, ReleaseOriginBooks DEF RequestStep

-----------------------------------------------------------------------------
(***************************************************************************)
(* Sweeps                                                                  *)
(***************************************************************************)
(* A sweep's step that leaves ledgers and reservations alone.              *)
LEMMA QuietSweep ==
  ASSUME LInv, SameSlots, MempoolInv', PlansInv', TrackInv',
         UNCHANGED <<executed, ledger, reservation, requestVars>>
  PROVE  Books'
<1> USE DEF LInv, Books
<1>1. UNCHANGED <<pc, view, nonce, conflict>>
  BY DEF requestVars
<1>2. LedgerInv' /\ SlotsInv'
  BY LedgerFrame, SlotsFrame
<1>3. GrantsInv'
  BY <1>1, GrantsFrame
<1>4. KeyInv' /\ FlightInv'
  BY <1>1, KeyFrame, FlightFrame DEF Confirms, InFlight
<1> QED
  BY <1>2, <1>3, <1>4

(* The floors and the plan of one sweep change, and stay true.             *)
LEMMA Planned ==
  ASSUME LInv, NEW w \in Sweeps, UNCHANGED executed,
         \A v \in Sweeps : v # w => /\ floor'[v] = floor[v] /\ done'[v] = done[v]
                                   /\ sweepPc'[v] = sweepPc[v] /\ item'[v] = item[v],
         \A a \in TierName : floor'[w][a] < executed[a],
         \A x \in done'[w] : Used(x),
         sweepPc'[w] \in {"settling", "freeing"} => Used(item'[w])
  PROVE  PlansInv'
<1>1. \A x : Used(x) => Used(x)'
  BY DEF Used
<1> SUFFICES ASSUME NEW v \in Sweeps
    PROVE  /\ \A a \in TierName : floor'[v][a] < executed[a]
           /\ \A x \in done'[v] : Used(x)
           /\ sweepPc'[v] \in {"settling", "freeing"} => Used(item'[v])
  BY <1>1 DEF PlansInv, Used
<1> QED
  BY DEF LInv, Books, PlansInv

(* Nothing that a sweep knows is wrong when it knows nothing.              *)
LEMMA Forgotten ==
  ASSUME LInv, NEW w \in Sweeps, SweepForgets(w), UNCHANGED executed, sweepPc[w] # "adding"
  PROVE  /\ PlansInv'
         /\ \A v \in Sweeps : sweepPc[v] = "adding" => sweepPc'[v] = "adding" /\ item'[v] = item[v]
<1>1. /\ floor'[w] = [t \in TierName |-> Unread] /\ done'[w] = {} /\ sweepPc'[w] = "idle"
      /\ \A v \in Sweeps : v # w => /\ floor'[v] = floor[v] /\ done'[v] = done[v]
                                   /\ sweepPc'[v] = sweepPc[v] /\ item'[v] = item[v]
  BY DEF LInv, IInv, TypeOK, SweepTypeOK, SweepForgets, SweepGoto
<1>2. \A a \in TierName : floor'[w][a] < executed[a]
  BY <1>1, AccountTyped DEF LInv, Unread
<1> QED
  BY <1>1, <1>2, Planned

LEMMA QuietSweeps ==
  ASSUME Steady, LInv, NEW w \in Sweeps,
         ListPending(w) \/ ReadFloor(w) \/ PlanRbf(w) \/ SweepEnds(w) \/ SweepAborts(w)
  PROVE  Books'
<1> USE DEF LInv, Books
<1>1. UNCHANGED <<nodeVars, storeVars, requestVars>>
  BY DEF ListPending, ReadFloor, PlanRbf, SweepEnds, SweepAborts
<1>2. /\ SameSlots /\ UNCHANGED <<mempool, accepted, executed, records, ledger, reservation>>
      /\ UNCHANGED <<pc, nonce>>
  BY <1>1 DEF SameSlots, nodeVars, storeVars, requestVars
<1>3. SweepTypeOK
  BY DEF IInv, TypeOK
<1>4. /\ PlansInv'
      /\ \A v \in Sweeps : sweepPc[v] = "adding" => sweepPc'[v] = "adding" /\ item'[v] = item[v]
  <2>1. CASE ListPending(w)
    <3>1. /\ sweepPc[w] = "idle" /\ sweepPc'[w] = "reading" /\ UNCHANGED <<floor, done, item>>
          /\ \A v \in Sweeps : v # w => sweepPc'[v] = sweepPc[v]
      BY <1>3, <2>1, SweepMoved DEF ListPending
    <3> QED BY <1>2, <3>1, Planned DEF PlansInv
  <2>2. CASE ReadFloor(w)
    <3>1. PICK t \in TierName :
            \E v \in getNonces(t) : floor' = [floor EXCEPT ![w][t] = v.lastExecuted]
      BY <2>2 DEF ReadFloor, ToRead
    <3>2. PICK v \in getNonces(t) : floor' = [floor EXCEPT ![w][t] = v.lastExecuted]
      BY <3>1
    <3>3. v.lastExecuted < executed[t]
      BY AccountRead
    <3>4. sweepPc[w] = "reading" /\ UNCHANGED <<sweepPc, done, item>>
      BY <2>2 DEF ReadFloor
    <3>5. /\ \A u \in Sweeps : u # w => floor'[u] = floor[u]
          /\ \A a \in TierName : floor'[w][a] = IF a = t THEN v.lastExecuted ELSE floor[w][a]
      BY <1>3, <3>2 DEF SweepTypeOK
    <3>6. \A a \in TierName : floor'[w][a] < executed[a]
      BY <3>3, <3>5 DEF PlansInv
    <3> QED BY <1>2, <3>4, <3>5, <3>6, Planned DEF PlansInv
  <2>3. CASE PlanRbf(w)
    <3>1. /\ sweepPc[w] = "reading" /\ sweepPc'[w] = "working" /\ UNCHANGED <<floor, item>>
          /\ done' = [done EXCEPT ![w] = {x \in snapshot[w] : Executed(w, x)}]
          /\ \A v \in Sweeps : v # w => sweepPc'[v] = sweepPc[v]
      BY <2>3, SweepMoved DEF PlanRbf
    <3>2. /\ done'[w] = {x \in snapshot[w] : Executed(w, x)}
          /\ \A v \in Sweeps : v # w => done'[v] = done[v]
      BY <1>3, <3>1 DEF SweepTypeOK
    <3>3. ASSUME NEW x \in snapshot[w], Executed(w, x) PROVE Used(x)
      <4>1. x.nonce \in Nat /\ Sponsor(x) \in TierName
        BY TxTyped DEF IInv, Remembered
      <4>2. floor[w][Sponsor(x)] < executed[Sponsor(x)] /\ floor[w][Sponsor(x)] \in Int
        BY <1>3, <4>1 DEF PlansInv, SweepTypeOK
      <4> QED BY <3>3, <4>1, <4>2, AccountTyped DEF Executed, Used
    <3> QED BY <1>2, <3>1, <3>2, <3>3, Planned DEF PlansInv
  <2>4. CASE SweepEnds(w) \/ SweepAborts(w)
    <3>1. SweepForgets(w) /\ sweepPc[w] # "adding"
      BY <2>4, NoSuchFault DEF SweepEnds, SweepAborts
    <3> QED BY <1>2, <3>1, Forgotten
  <2> QED BY <2>1, <2>2, <2>3, <2>4
<1>5. TrackInv'
  BY <1>2, <1>4, TrackFrame
<1> QED
  BY <1>1, <1>2, <1>4, <1>5, MempoolFrame, QuietSweep

(* A record leaves once its nonce is used.                                 *)
LEMMA RemovePendingBooks ==
  ASSUME LInv, NEW w \in Sweeps, RemovePending(w)
  PROVE  Books'
<1> USE DEF LInv, Books
<1>1. PICK x \in done[w] : /\ records' = records \ {x}
                           /\ done' = [done EXCEPT ![w] = @ \ {x}]
                           /\ item' = [item EXCEPT ![w] = x]
  BY DEF RemovePending
<1>2. /\ sweepPc[w] = "working" /\ sweepPc' = [sweepPc EXCEPT ![w] = "settling"]
      /\ UNCHANGED <<nodeVars, ledger, reservation, requestVars, floor>>
  BY DEF RemovePending, SweepGoto
<1>3. /\ item'[w] = x /\ done'[w] = done[w] \ {x} /\ sweepPc'[w] = "settling"
      /\ \A v \in Sweeps : v # w => /\ done'[v] = done[v] /\ item'[v] = item[v]
                                   /\ sweepPc'[v] = sweepPc[v]
  BY <1>1, <1>2 DEF IInv, TypeOK, SweepTypeOK
<1>4. SameSlots /\ UNCHANGED <<mempool, accepted, executed, pc, nonce>>
  BY <1>2 DEF SameSlots, nodeVars, requestVars
<1>5. Used(x)
  BY DEF PlansInv
<1>6. PlansInv'
  BY <1>2, <1>3, <1>4, <1>5, Planned DEF PlansInv
<1>7. TrackInv'
  <2>1. ASSUME NEW t \in accepted, ~Used(t), Tracked(t) PROVE Tracked(t)'
    <3>1. CASE \E y \in records : Tracks(y, t)
      <4>1. ~Tracks(x, t)
        BY <1>5, <2>1 DEF Tracks, Used, Sponsor
      <4> QED BY <1>1, <3>1, <4>1 DEF Tracked
    <3>2. CASE \E r \in Requests : pc[r] = "recording" /\ Tracks(FirstBid(r), t)
      BY <1>4, <3>2 DEF Tracked, FirstBid
    <3>3. CASE \E v \in Sweeps : sweepPc[v] = "adding" /\ Tracks(item[v], t)
      BY <1>2, <1>3, <3>3 DEF Tracked
    <3> QED BY <2>1, <3>1, <3>2, <3>3 DEF Tracked
  <2> QED BY <1>4, <2>1 DEF TrackInv, Used
<1> QED
  BY <1>2, <1>4, <1>6, <1>7, MempoolFrame, QuietSweep

(* Settling forgets no nonce in use: what it drops is executed.            *)
LEMMA SettleBooks ==
  ASSUME LInv, NEW w \in Sweeps, SettleNonces(w)
  PROVE  Books'
<1> USE DEF LInv, Books
<1> DEFINE a == Sponsor(item[w])
           f == floor[w][a]
           m == settleNonces(ledger[a], f)
<1>1. /\ sweepPc[w] = "settling" /\ ledger' = [ledger EXCEPT ![a] = m]
      /\ sweepPc' = [sweepPc EXCEPT ![w] = "freeing"]
      /\ UNCHANGED <<nodeVars, records, reservation, requestVars, floor, done, item>>
  BY DEF SettleNonces, SweepGoto
<1>2. /\ a \in TierName /\ f \in Int /\ f < executed[a] /\ executed[a] \in Nat
      /\ ledger[a] \in Ledger /\ Used(item[w])
  <2>1. item[w] \in accepted
    BY <1>1 DEF IInv, Remembered
  <2> QED BY <1>1, <2>1, TxTyped, AccountTyped DEF PlansInv, IInv, TypeOK, SweepTypeOK
<1>3. /\ m.next = ledger[a].next /\ m.pending = Above(ledger[a].pending, f)
      /\ IsFiniteSet(m.pending) /\ Cardinality(m.pending) <= Cardinality(ledger[a].pending)
      /\ m.pending \subseteq ledger[a].pending
      /\ \A e \in ledger[a].pending : e.nonce >= executed[a] => e \in m.pending
  <2>1. m.next = ledger[a].next /\ m.pending = Above(ledger[a].pending, f)
    BY <1>2 DEF settleNonces, Ledger
  <2>2. IsFiniteSet(ledger[a].pending) /\ \A e \in ledger[a].pending : e.nonce \in Nat
    BY <1>2 DEF LedgerInv, Ledger
  <2>3. \A e \in ledger[a].pending : e.nonce >= executed[a] => e.nonce > f
    BY <1>2, <2>2
  <2> HIDE DEF m, f, a
  <2>4. /\ IsFiniteSet(m.pending) /\ Cardinality(m.pending) <= Cardinality(ledger[a].pending)
        /\ m.pending \subseteq ledger[a].pending
    BY <2>1, <2>2, AboveKeeps
  <2>5. \A e \in ledger[a].pending : e.nonce >= executed[a] => e \in m.pending
    BY <2>1, <2>3 DEF Above
  <2> QED BY <2>1, <2>4, <2>5
<1> HIDE DEF m, f, a
<1>4. ledger'[a] = m /\ \A b \in TierName : b # a => ledger'[b] = ledger[b]
  BY <1>1, <1>2, OtherLedger
<1>5. /\ sweepPc'[w] = "freeing" /\ \A v \in Sweeps : v # w => sweepPc'[v] = sweepPc[v]
      /\ SameSlots /\ UNCHANGED <<mempool, accepted, executed, pc, view, nonce, conflict>>
  BY <1>1 DEF SameSlots, nodeVars, requestVars, IInv, TypeOK, SweepTypeOK
<1>6. LedgerInv'
  <2>1. NoTwins' /\ CounterIsAhead'
    BY <1>3, <1>4 DEF LedgerInv, NoTwins, CounterIsAhead
  <2>2. PendingIsCapped' /\ \A b \in TierName : IsFiniteSet(ledger'[b].pending)
    <3>1. Cardinality(ledger[a].pending) <= MaxPendingPerKey /\ MaxPendingPerKey \in Nat
          /\ Cardinality(ledger[a].pending) \in Nat /\ Cardinality(m.pending) \in Nat
      BY <1>2, <1>3, FS_CardinalityType, RelayAssumption DEF LedgerInv, PendingIsCapped
    <3>2. Cardinality(m.pending) <= MaxPendingPerKey
      BY <1>3, <3>1
    <3> QED BY <1>3, <1>4, <3>2 DEF LedgerInv, PendingIsCapped
  <2>3. \A b \in TierName : executed[b] = 0 \/ executed[b] <= ledger'[b].next
    BY <1>3, <1>4 DEF LedgerInv
  <2>4. ASSUME NEW t \in accepted
        PROVE  /\ t.nonce < ledger'[Sponsor(t)].next
               /\ Used(t) \/ \E e \in ledger'[Sponsor(t)].pending : e.nonce = t.nonce
    <3>1. t.nonce \in Nat /\ Sponsor(t) \in TierName
      BY TxTyped
    <3>2. CASE Sponsor(t) = a
      <4>1. Used(t) \/ t.nonce >= executed[a]
        BY <1>2, <3>1, <3>2 DEF Used
      <4> QED BY <1>3, <1>4, <3>2, <4>1 DEF LedgerInv
    <3>3. CASE Sponsor(t) # a
      BY <1>4, <3>1, <3>3 DEF LedgerInv
    <3> QED BY <3>2, <3>3
  <2> QED BY <1>5, <2>1, <2>2, <2>3, <2>4 DEF LedgerInv, Used
<1>7. GrantsInv'
  <2> SUFFICES ASSUME NEW q \in Requests, pc[q] \in {"broadcasting", "releasing"}
      PROVE  Entry(q) \in ledger'[Swap[q].tier].pending
    BY <1>5 DEF GrantsInv, Entry
  <2>1. /\ Entry(q) \in ledger[Swap[q].tier].pending /\ executed[Swap[q].tier] <= nonce[q]
        /\ Entry(q).nonce = nonce[q] /\ nonce[q] \in Nat
    BY DEF GrantsInv, Entry, IInv, Checked
  <2>2. CASE Swap[q].tier = a
    BY <1>2, <1>3, <1>4, <2>1, <2>2
  <2>3. CASE Swap[q].tier # a
    BY <1>4, <2>1, <2>3, RequestTyped
  <2> QED BY <2>2, <2>3
<1>8. MempoolInv' /\ SlotsInv'
  BY <1>5, MempoolFrame, SlotsFrame
<1>9. KeyInv' /\ FlightInv'
  BY <1>1, <1>5, KeyFrame, FlightFrame DEF Confirms, InFlight
<1>10. PlansInv'
  BY <1>1, <1>2, <1>5, Planned DEF PlansInv
<1>11. TrackInv'
  BY <1>1, <1>5, TrackFrame
<1> QED
  BY <1>6, <1>7, <1>8, <1>9, <1>10, <1>11

(* A sweep frees a reservation once the swap under it is executed.         *)
LEMMA SweepReleaseBooks ==
  ASSUME LInv, NEW w \in Sweeps, SweepReleaseOrigin(w)
  PROVE  Books' /\ Spent(item[w].swap)
<1> USE DEF LInv, Books
<1> DEFINE k == originKey(item[w].swap)
<1>1. /\ sweepPc[w] = "freeing" /\ reservation' = [reservation EXCEPT ![k] = Free]
      /\ sweepPc' = [sweepPc EXCEPT ![w] = "working"] /\ item' = [item EXCEPT ![w] = NoTx]
      /\ UNCHANGED <<nodeVars, ledger, records, requestVars, floor, done>>
  BY DEF SweepReleaseOrigin, SweepGoto
<1>2. /\ sweepPc'[w] = "working"
      /\ \A v \in Sweeps : v # w => sweepPc'[v] = sweepPc[v] /\ item'[v] = item[v]
      /\ SameSlots /\ UNCHANGED <<mempool, accepted, executed, pc, view, nonce, conflict>>
  BY <1>1 DEF SameSlots, nodeVars, requestVars, IInv, TypeOK, SweepTypeOK
<1>3. k \in OriginKeys /\ Spent(item[w].swap)
  <2>1. item[w] \in accepted
    BY <1>1 DEF IInv, Remembered
  <2> QED BY <1>1, <2>1, TxTyped DEF PlansInv, KeyInv
<1>4. MempoolInv' /\ LedgerInv' /\ SlotsInv' /\ GrantsInv'
  BY <1>1, <1>2, MempoolFrame, LedgerFrame, SlotsFrame, GrantsFrame
<1>5. KeyInv' /\ FlightInv'
  <2>1. /\ \A t \in accepted : originKey(t.swap) = k => Spent(t.swap)
        /\ \A q \in Requests : originKey(Swap[q]) = k => Spent(Swap[q])
    BY <1>3, SameKey
  <2> HIDE DEF k
  <2> QED BY <1>1, <1>2, <1>3, <2>1, FreeKey DEF Confirms, InFlight
<1>6. PlansInv'
  BY <1>1, <1>2, Planned DEF PlansInv
<1>7. TrackInv'
  BY <1>1, <1>2, TrackFrame
<1> QED
  BY <1>3, <1>4, <1>5, <1>6, <1>7

(* A bump is another bid for a slot in use.                                *)
LEMMA BumpBooks ==
  ASSUME Steady, LInv, NEW w \in Sweeps, BroadcastBump(w)
  PROVE  /\ Books'
         /\ \/ UNCHANGED nodeVars
            \/ \E x \in accepted : /\ Accepts(Bumped(x)) /\ Bumped(x) \in Tx
                                   /\ x.fee < Bumped(x).fee
<1> USE DEF LInv, Books
<1>1. PICK x \in bump[w] :
        \/ /\ Accepts(Bumped(x))
           /\ item' = [item EXCEPT ![w] = x]
           /\ SweepGoto(w, "replacing")
           /\ UNCHANGED <<floor, done>>
        \/ /\ UNCHANGED nodeVars \/ Accepts(Bumped(x))
           /\ UNCHANGED <<sweepPc, floor, done, item>>
        \/ /\ Accepts(Bumped(x))
           /\ SweepForgets(w)
  BY DEF BroadcastBump, RejectsNonce
<1>2. sweepPc[w] = "working" /\ UNCHANGED <<storeVars, requestVars>>
  BY DEF BroadcastBump
<1>3. /\ x \in accepted /\ Bumped(x) \in Tx /\ x.fee < Bumped(x).fee
      /\ Bumped(x).swap = x.swap /\ Bumped(x).nonce = x.nonce
  <2>1. x \in accepted /\ ~Exhausted(Sponsor(x), x.fee)
    BY DEF IInv, Remembered
  <2>2. x \in Tx
    BY <2>1, TxTyped
  <2> QED BY <2>1, <2>2, BumpedTx DEF IInv, Bumped, Tx
<1>4. UNCHANGED executed /\ SameSlots
  <2>1. CASE UNCHANGED nodeVars
    BY <2>1 DEF nodeVars, SameSlots
  <2>2. CASE Accepts(Bumped(x))
    <3>1. accepted' = accepted \union {Bumped(x)} /\ UNCHANGED executed
      BY <2>2 DEF Accepts
    <3> QED BY <1>3, <3>1 DEF SameSlots
  <2> QED BY <1>1, <2>1, <2>2
<1>5. MempoolInv'
  <2>1. CASE UNCHANGED nodeVars
    BY <2>1, MempoolFrame DEF nodeVars
  <2>2. CASE Accepts(Bumped(x))
    BY <2>2 DEF Accepts, MempoolInv
  <2> QED BY <1>1, <2>1, <2>2
<1>6. /\ PlansInv'
      /\ \A v \in Sweeps : sweepPc[v] = "adding" => sweepPc'[v] = "adding" /\ item'[v] = item[v]
  <2>1. CASE SweepForgets(w)
    BY <1>2, <1>4, <2>1, Forgotten
  <2>2. CASE /\ item' = [item EXCEPT ![w] = x] /\ SweepGoto(w, "replacing")
             /\ UNCHANGED <<floor, done>>
    <3>1. /\ sweepPc'[w] = "replacing"
          /\ \A v \in Sweeps : v # w => sweepPc'[v] = sweepPc[v] /\ item'[v] = item[v]
      BY <2>2, SweepMoved DEF IInv, TypeOK, SweepTypeOK
    <3> QED BY <1>2, <1>4, <2>2, <3>1, Planned DEF PlansInv
  <2>3. CASE UNCHANGED <<sweepPc, floor, done, item>>
    BY <1>4, <2>3, Planned DEF PlansInv
  <2> QED BY <1>1, <2>1, <2>2, <2>3
<1>7. TrackInv'
  BY <1>2, <1>4, <1>6, TrackFrame DEF storeVars, requestVars
<1>8. UNCHANGED <<ledger, reservation>>
  BY <1>2 DEF storeVars
<1>9. Books'
  BY <1>2, <1>4, <1>5, <1>6, <1>7, <1>8, QuietSweep
<1> QED
  BY <1>1, <1>3, <1>9

(* Between the old record and the new one the sweep itself is the record.  *)
LEMMA ReplaceBooks ==
  ASSUME LInv, NEW w \in Sweeps, RemoveReplaced(w) \/ AddReplacement(w)
  PROVE  Books'
<1> USE DEF LInv, Books
<1>1. /\ UNCHANGED <<nodeVars, ledger, reservation, requestVars, floor, done>>
      /\ \/ /\ sweepPc[w] = "replacing" /\ sweepPc' = [sweepPc EXCEPT ![w] = "adding"]
            /\ records' = records \ {item[w]} /\ UNCHANGED item
         \/ /\ sweepPc[w] = "adding" /\ sweepPc' = [sweepPc EXCEPT ![w] = "working"]
            /\ records' = records \union {Bumped(item[w])} /\ item' = [item EXCEPT ![w] = NoTx]
  BY DEF RemoveReplaced, AddReplacement, SweepGoto
<1>2. /\ \A v \in Sweeps : v # w => sweepPc'[v] = sweepPc[v] /\ item'[v] = item[v]
      /\ sweepPc'[w] \in {"adding", "working"}
      /\ SameSlots /\ UNCHANGED <<mempool, accepted, executed, pc, nonce>>
  BY <1>1 DEF SameSlots, nodeVars, requestVars, IInv, TypeOK, SweepTypeOK
<1>3. PlansInv'
  BY <1>1, <1>2, Planned DEF PlansInv
<1>4. TrackInv'
  <2>1. ASSUME NEW t, Tracked(t) PROVE Tracked(t)'
    <3>1. CASE \E r \in Requests : pc[r] = "recording" /\ Tracks(FirstBid(r), t)
      BY <1>2, <3>1 DEF Tracked, FirstBid
    <3>2. CASE \E x \in records : Tracks(x, t)
      <4>1. PICK x \in records : Tracks(x, t)
        BY <3>2
      <4>2. CASE x \in records'
        BY <4>1, <4>2 DEF Tracked
      <4>3. CASE x \notin records'
        <5>1. x = item'[w] /\ sweepPc'[w] = "adding"
          BY <1>1, <4>3 DEF IInv, TypeOK, SweepTypeOK
        <5> QED BY <4>1, <5>1 DEF Tracked
      <4> QED BY <4>2, <4>3
    <3>3. CASE \E v \in Sweeps : sweepPc[v] = "adding" /\ Tracks(item[v], t)
      <4>1. PICK v \in Sweeps : sweepPc[v] = "adding" /\ Tracks(item[v], t)
        BY <3>3
      <4>2. CASE v # w
        BY <1>2, <4>1, <4>2 DEF Tracked
      <4>3. CASE v = w
        <5>1. Tracks(Bumped(item[w]), t) /\ Bumped(item[w]) \in records'
          <6>1. item[w] \in Tx
            BY <4>1, <4>3, TxTyped DEF IInv, Remembered
          <6> QED BY <1>1, <4>1, <4>3, <6>1 DEF Tracks, Bumped, Tx
        <5> QED BY <5>1 DEF Tracked
      <4> QED BY <4>2, <4>3
    <3> QED BY <2>1, <3>1, <3>2, <3>3 DEF Tracked
  <2> QED BY <1>2, <2>1 DEF TrackInv, Used
<1> QED
  BY <1>1, <1>2, <1>3, <1>4, MempoolFrame, QuietSweep

(* Every step of a sweep.                                                  *)
LEMMA SweepBooks ==
  ASSUME Steady, LInv, NEW w \in Sweeps, SweepProgress(w) \/ SweepAborts(w)
  PROVE  Books'
BY QuietSweeps, RemovePendingBooks, SettleBooks, SweepReleaseBooks, BumpBooks, ReplaceBooks
   DEF SweepProgress

-----------------------------------------------------------------------------
(***************************************************************************)
(* Time and the chain                                                      *)
(***************************************************************************)
(* A reservation runs out under a request that is gone.                    *)
LEMMA ExpireBooks ==
  ASSUME Steady, LInv, NEW k \in OriginKeys, Expire(k)
  PROVE  Books' /\ reservation[k].state = "running"
<1> USE DEF LInv, Books
<1>1. /\ reservation[k].state = "running"
      /\ \A r \in Requests : originKey(Swap[r]) = k => ~InFlight(r)
      /\ reservation' = [reservation EXCEPT ![k] = Free]
      /\ UNCHANGED <<nodeVars, ledger, records, requestVars, sweepVars>>
  BY NoSuchFault DEF Expire
<1>2. /\ SameSlots /\ UNCHANGED <<mempool, accepted, executed, pc, view, nonce, conflict>>
      /\ \A q \in Requests : (Confirms(q)' <=> Confirms(q)) /\ (InFlight(q)' <=> InFlight(q))
  BY <1>1 DEF SameSlots, nodeVars, requestVars, Confirms, InFlight
<1>3. MempoolInv' /\ LedgerInv' /\ SlotsInv' /\ GrantsInv' /\ PlansInv'
  BY <1>1, <1>2, MempoolFrame, LedgerFrame, SlotsFrame, GrantsFrame, PlansFrame
<1>4. KeyInv' /\ FlightInv'
  <2>1. \A q \in Requests : Confirms(q) => InFlight(q)
    BY DEF Confirms, InFlight
  <2>2. \A t \in accepted : originKey(t.swap) = k => Spent(t.swap)
    BY <1>1, <2>1 DEF KeyInv
  <2> QED BY <1>1, <1>2, <2>2, FreeKey
<1>5. TrackInv'
  BY <1>1, <1>2, TrackFrame DEF sweepVars
<1> QED
  BY <1>1, <1>3, <1>4, <1>5

(* A mined transaction was the next of both accounts.                      *)
LEMMA MinedNext ==
  ASSUME IInv, MempoolInv, NEW t \in mempool, Mine(t)
  PROVE  /\ t \in accepted /\ executed'[Sponsor(t)] = t.nonce + 1
         /\ executed'[t.swap.origin] = t.swap.nonce + 1
         /\ t.nonce = executed[Sponsor(t)] /\ t.swap.nonce = executed[t.swap.origin]
         /\ \A a \in TierName \union Origins :
               a \notin {Sponsor(t), t.swap.origin} => executed'[a] = executed[a]
         /\ \A a \in TierName \union Origins :
               executed'[a] \in Nat /\ executed[a] <= executed'[a]
<1>1. t \in accepted /\ Sponsor(t) \in TierName /\ t.swap.origin \in Origins
  BY TxTyped DEF MempoolInv
<1>2. executed \in [TierName \union Origins -> Nat]
  BY DEF IInv, TypeOK, NodeTypeOK
<1>3. \A a \in TierName \union Origins :
        executed'[a] = IF a \in {Sponsor(t), t.swap.origin} THEN executed[a] + 1 ELSE executed[a]
  BY <1>2 DEF Mine, Advance
<1>4. t.nonce = executed[Sponsor(t)] /\ t.swap.nonce = executed[t.swap.origin]
  BY DEF Mine
<1> QED
  BY <1>1, <1>2, <1>3, <1>4

(* A block uses up both nonces of one transaction, and no other swap's.    *)
LEMMA BlockBooks ==
  ASSUME LInv, Block
  PROVE  Books'
<1> USE DEF LInv, Books
<1>1. PICK t \in mempool : Mine(t)
  BY DEF Block
<1>2. UNCHANGED <<accepted, storeVars, requestVars, sweepVars>>
  BY <1>1 DEF Block, Mine, Advance, relayVars
<1>3. UNCHANGED <<ledger, records, reservation, pc, view, nonce, conflict, sweepPc, floor, done, item>>
  BY <1>2 DEF storeVars, requestVars, sweepVars
<1>4. /\ t \in accepted /\ executed'[Sponsor(t)] = t.nonce + 1
      /\ executed'[t.swap.origin] = t.swap.nonce + 1
      /\ t.nonce = executed[Sponsor(t)] /\ t.swap.nonce = executed[t.swap.origin]
      /\ \A a \in TierName \union Origins :
            a \notin {Sponsor(t), t.swap.origin} => executed'[a] = executed[a]
      /\ \A a \in TierName \union Origins :
            executed'[a] \in Nat /\ executed[a] \in Nat /\ executed[a] <= executed'[a]
  BY <1>1, MinedNext, AccountTyped
<1>5. Sponsor(t) \in TierName /\ t.swap.origin \in Origins /\ t.nonce \in Nat /\ t.swap.nonce \in Nat
  BY <1>4, TxTyped
<1>6. /\ \A a \in TierName : a # Sponsor(t) => executed'[a] = executed[a]
      /\ \A o \in Origins : o # t.swap.origin => executed'[o] = executed[o]
  BY <1>4, <1>5, RelayAssumption
<1>7. /\ \A u \in accepted : (Used(u) => Used(u)') /\ (Spent(u.swap) => Spent(u.swap)')
      /\ \A r \in Requests : Spent(Swap[r]) => Spent(Swap[r])'
  <2>1. \A u \in accepted : /\ u.nonce \in Nat /\ Sponsor(u) \in TierName
                            /\ u.swap.origin \in Origins /\ u.swap.nonce \in Nat
    BY TxTyped
  <2> QED BY <1>4, <2>1, RequestTyped DEF Used, Spent
<1>8. MempoolInv'
  BY <1>1, <1>2 DEF Mine, Advance, MempoolInv
<1>9. LedgerInv'
  <2>1. \A a \in TierName : executed'[a] = 0 \/ executed'[a] <= ledger[a].next
    <3>1. t.nonce + 1 <= ledger[Sponsor(t)].next
      <4>1. ledger[Sponsor(t)].next \in Int /\ t.nonce < ledger[Sponsor(t)].next
        BY <1>4, <1>5, AccountTyped DEF LedgerInv, Ledger, Null
      <4> QED BY <1>5, <4>1
    <3> QED BY <1>4, <1>6, <3>1 DEF LedgerInv
  <2> QED BY <1>2, <1>3, <1>7, <2>1 DEF LedgerInv, NoTwins, CounterIsAhead, PendingIsCapped
<1>10. GrantsInv'
  <2> SUFFICES ASSUME NEW q \in Requests
      PROVE  /\ pc[q] = "allocating" => /\ view[q].lastExecuted < executed'[Swap[q].tier]
                                        /\ view[q].possibleNext \in Nat
                                        /\ view[q].missing = {}
             /\ pc[q] \in {"broadcasting", "releasing"} =>
                  /\ Entry(q) \in ledger[Swap[q].tier].pending
                  /\ executed'[Swap[q].tier] <= nonce[q]
                  /\ \A u \in accepted : Sponsor(u) = Swap[q].tier => u.nonce # nonce[q]
             /\ conflict[q] = FALSE
    BY <1>2, <1>3 DEF GrantsInv, Entry
  <2>1. Swap[q].tier \in TierName
    BY RequestTyped
  <2>2. ASSUME pc[q] = "allocating" PROVE view[q].lastExecuted < executed'[Swap[q].tier]
    <3>1. view[q].lastExecuted \in Int /\ view[q].lastExecuted < executed[Swap[q].tier]
      BY <2>2 DEF GrantsInv, IInv, TypeOK, RequestTypeOK, View
    <3> QED BY <1>4, <2>1, <3>1
  <2>3. ASSUME pc[q] \in {"broadcasting", "releasing"} PROVE executed'[Swap[q].tier] <= nonce[q]
    <3>1. nonce[q] \in Nat /\ executed[Swap[q].tier] <= nonce[q]
      BY <2>3 DEF GrantsInv, IInv, Checked
    <3>2. Sponsor(t) = Swap[q].tier => t.nonce # nonce[q]
      BY <1>4, <2>3 DEF GrantsInv
    <3> QED BY <1>4, <1>5, <1>6, <2>1, <3>1, <3>2
  <2> QED BY <2>2, <2>3 DEF GrantsInv
<1>11. SlotsInv'
  BY <1>2 DEF SlotsInv
<1>12. KeyInv'
  <2>1. ASSUME NEW u \in accepted, Used(u)' PROVE Spent(u.swap)'
    <3>1. u.nonce \in Nat /\ Sponsor(u) \in TierName
      BY TxTyped
    <3>2. CASE Used(u)
      BY <1>7, <3>2 DEF KeyInv
    <3>3. CASE ~Used(u)
      <4>1. Sponsor(u) = Sponsor(t) /\ u.nonce = t.nonce
        BY <1>4, <1>5, <1>6, <2>1, <3>1, <3>3 DEF Used
      <4>2. u.swap = t.swap
        BY <1>4, <4>1 DEF SlotsInv, SameSponsorNonce
      <4> QED BY <1>4, <1>5, <4>2 DEF Spent
    <3> QED BY <3>2, <3>3
  <2>2. \A q \in Requests : Confirms(q)' <=> Confirms(q)
    BY <1>3 DEF Confirms
  <2>3. UNCHANGED <<accepted, reservation>>
    BY <1>2, <1>3
  <2>4. \A u \in accepted :
          \/ Spent(u.swap)'
          \/ reservation[originKey(u.swap)].state = "broadcast"
          \/ \E q \in Requests : Confirms(q)' /\ originKey(Swap[q]) = originKey(u.swap)
    BY <1>7, <2>2 DEF KeyInv, Spent
  <2> QED BY <2>1, <2>3, <2>4 DEF KeyInv
<1>13. FlightInv'
  <2>1. \A q \in Requests : (Confirms(q)' <=> Confirms(q)) /\ (InFlight(q)' <=> InFlight(q))
    BY <1>3 DEF Confirms, InFlight
  <2>2. OneRequestPerOriginNonce'
    BY <1>7, <2>1 DEF FlightInv, OneRequestPerOriginNonce, Spent
  <2>3. ASSUME NEW q \in Requests,
               pc[q] \in {"reading", "allocating", "broadcasting", "releasing"}
        PROVE  executed'[Swap[q].origin] = Swap[q].nonce
    <3>1. executed[Swap[q].origin] = Swap[q].nonce
      BY <2>3 DEF FlightInv
    <3>2. Swap[q].origin # t.swap.origin
      <4>1. InFlight(q) /\ ~Confirms(q)
        BY <2>3 DEF InFlight, Confirms
      <4>2. originKey(t.swap) = originKey(Swap[q]) => Spent(t.swap)
        BY <1>4, <4>1 DEF FlightInv
      <4>3. ~Spent(t.swap)
        BY <1>4, <1>5 DEF Spent
      <4> QED BY <1>4, <3>1, <4>2, <4>3 DEF originKey
    <3> QED BY <1>6, <3>1, <3>2, RequestTyped
  <2>4. UNCHANGED <<accepted, reservation, pc>>
    BY <1>2, <1>3
  <2>5. ASSUME NEW q \in Requests, InFlight(q)
        PROVE  /\ reservation[originKey(Swap[q])] # Free \/ Spent(Swap[q])'
               /\ ~Confirms(q) =>
                    \A u \in accepted : originKey(u.swap) = originKey(Swap[q]) => Spent(u.swap)'
    BY <1>7, <2>5 DEF FlightInv, Spent
  <2> QED BY <2>1, <2>2, <2>3, <2>4, <2>5 DEF FlightInv
<1>14. PlansInv'
  <2>1. \A w \in Sweeps, a \in TierName : floor[w][a] \in Int
    BY DEF IInv, TypeOK, SweepTypeOK
  <2>2. \A w \in Sweeps : /\ \A x \in done[w] : x \in accepted
                          /\ sweepPc[w] \in {"settling", "freeing"} => item[w] \in accepted
    BY DEF IInv, Remembered
  <2> QED BY <1>3, <1>4, <1>7, <2>1, <2>2 DEF PlansInv
<1>15. TrackInv'
  BY <1>2, <1>3, <1>7 DEF TrackInv, Tracked, FirstBid
<1> QED
  BY <1>8, <1>9, <1>10, <1>11, <1>12, <1>13, <1>14, <1>15

(* The indexer, a lost transaction, the clock, and nothing at all.         *)
LEMMA IdleBooks ==
  ASSUME LInv, UNCHANGED <<accepted, executed, storeVars, requestVars, sweepVars>>,
         mempool' \subseteq mempool
  PROVE  Books'
<1> USE DEF LInv, Books
<1>1. /\ SameSlots /\ UNCHANGED <<ledger, records, reservation, pc, view, nonce, conflict>>
  BY DEF SameSlots, storeVars, requestVars
<1>2. TrackInv' /\ PlansInv' /\ MempoolInv'
  BY <1>1, TrackFrame, PlansFrame, MempoolFrame DEF sweepVars
<1> QED
  BY <1>1, <1>2, QuietSweep

(* Every step of the rest of the world.                                    *)
LEMMA WorldBooks ==
  ASSUME Steady, LInv, (\E k \in OriginKeys : Expire(k)) \/ Block \/ IndexerStep \/ World \/ Clock
  PROVE  Books'
<1>1. CASE IndexerStep
  BY <1>1, IdleBooks DEF IndexerStep, Index, relayVars
<1>2. CASE World
  <2>1. \E t \in mempool : Drop(t) /\ UNCHANGED relayVars
    BY <1>2, NoSuchFault DEF World
  <2> QED BY <2>1, IdleBooks DEF Drop, relayVars
<1>3. CASE Clock
  BY <1>3, IdleBooks DEF Clock, Ripen, nodeVars
<1> QED
  BY <1>1, <1>2, <1>3, ExpireBooks, BlockBooks

-----------------------------------------------------------------------------
(***************************************************************************)
(* The whole                                                               *)
(***************************************************************************)
(* An empty store satisfies everything.                                    *)
LEMMA InitBooks ==
  ASSUME Steady, Init
  PROVE  LInv
<1>1. IInv
  BY InitInv
<1>2. /\ accepted = {} /\ mempool = {} /\ \A a \in TierName : ledger[a] = EmptyLedger
      /\ \A a \in TierName \union Origins : executed[a] = 0
      /\ \A r \in Requests : pc[r] = "new" /\ conflict[r] = FALSE
      /\ \A k \in OriginKeys : reservation[k] = Free
      /\ \A w \in Sweeps : /\ sweepPc[w] = "idle" /\ done[w] = {}
                           /\ \A a \in TierName : floor[w][a] = Unread
  BY DEF Init
<1>3. EmptyLedger.pending = {} /\ Free.state = "free"
  BY DEF EmptyLedger, Free
<1>4. Cardinality({}) = 0 /\ IsFiniteSet({}) /\ 0 <= MaxPendingPerKey
  BY FS_EmptySet, RelayAssumption
<1>5. LedgerInv
  BY <1>2, <1>3, <1>4 DEF LedgerInv, NoTwins, CounterIsAhead, PendingIsCapped
<1>6. MempoolInv /\ GrantsInv /\ SlotsInv /\ TrackInv
  BY <1>2 DEF MempoolInv, GrantsInv, SlotsInv, TrackInv
<1>7. KeyInv
  BY <1>2, <1>3 DEF KeyInv
<1>8. FlightInv
  BY <1>2 DEF FlightInv, InFlight, OneRequestPerOriginNonce
<1>9. PlansInv
  BY <1>2 DEF PlansInv, Unread
<1> QED
  BY <1>1, <1>5, <1>6, <1>7, <1>8, <1>9 DEF LInv, Books

(* Every step, and every stutter, keeps the books.                         *)
LEMMA NextBooks ==
  ASSUME Steady, LInv, [Next]_vars
  PROVE  LInv'
<1>1. IInv'
  BY NextInv DEF LInv
<1>2. Books'
  <2>1. CASE \E r \in Requests : RequestStep(r) \/ Die(r)
    BY <2>1, RequestBooks
  <2>2. CASE \E w \in Sweeps : SweepProgress(w) \/ SweepAborts(w)
    BY <2>2, SweepBooks
  <2>3. CASE (\E k \in OriginKeys : Expire(k)) \/ Block \/ IndexerStep \/ World \/ Clock
    BY <2>3, WorldBooks
  <2>4. CASE UNCHANGED vars
    BY <2>4, IdleBooks DEF vars, nodeVars
  <2> QED BY <2>1, <2>2, <2>3, <2>4 DEF Next
<1> QED
  BY <1>1, <1>2 DEF LInv

THEOREM BooksAreKept ==
  ASSUME Steady
  PROVE  Spec => []LInv
<1>1. Init => LInv
  BY InitBooks
<1>2. LInv /\ [Next]_vars => LInv'
  BY NextBooks
<1> QED BY <1>1, <1>2, PTL DEF Spec

(* No sponsor nonce is ever given to two requests (store.ts allocateNonce, *)
(* docs/relay.md "this is what prevents twins").                           *)
THEOREM NoncesAreGivenOnce ==
  ASSUME Steady
  PROVE  Spec => []NoTwins
<1>1. LInv => NoTwins
  BY DEF LInv, Books, LedgerInv
<1> QED BY <1>1, BooksAreKept, PTL

(* The counter of a key is ahead of every nonce the ledger holds.          *)
THEOREM CounterStaysAhead ==
  ASSUME Steady
  PROVE  Spec => []CounterIsAhead
<1>1. LInv => CounterIsAhead
  BY DEF LInv, Books, LedgerInv
<1> QED BY <1>1, BooksAreKept, PTL

(* The ledger of a key never exceeds maxPendingPerKey.                     *)
THEOREM CapIsKept ==
  ASSUME Steady
  PROVE  Spec => []PendingIsCapped
<1>1. LInv => PendingIsCapped
  BY DEF LInv, Books, LedgerInv
<1> QED BY <1>1, BooksAreKept, PTL

(* Every sponsored transaction in the mempool is in its key's ledger, so   *)
(* that the cap bounds the chain of unmined nonces of the key.             *)
THEOREM LedgerKnowsTheMempool ==
  ASSUME Steady
  PROVE  Spec => []LedgerCoversMempool
<1>1. LInv => LedgerCoversMempool
  <2> SUFFICES ASSUME LInv, NEW t \in mempool
      PROVE  \E e \in ledger[Sponsor(t)].pending : e.nonce = t.nonce
    BY DEF LedgerCoversMempool
  <2>1. t \in accepted /\ ~Dead(t, executed)
    BY DEF LInv, Books, MempoolInv
  <2>2. ~Used(t)
    BY <2>1, TxTyped, AccountTyped DEF LInv, Dead, Used
  <2> QED BY <2>1, <2>2 DEF LInv, Books, LedgerInv
<1> QED BY <1>1, BooksAreKept, PTL

(* Nothing in the mempool is forgotten by replace-by-fee.                  *)
THEOREM NothingIsForgotten ==
  ASSUME Steady
  PROVE  Spec => []LiveIsTracked
<1>1. LInv => LiveIsTracked
  <2> SUFFICES ASSUME LInv, NEW t \in mempool
      PROVE  Tracked(t)
    BY DEF LiveIsTracked, Tracked
  <2>1. t \in accepted /\ ~Dead(t, executed)
    BY DEF LInv, Books, MempoolInv
  <2>2. ~Used(t)
    BY <2>1, TxTyped, AccountTyped DEF LInv, Dead, Used
  <2> QED BY <2>1, <2>2 DEF LInv, Books, TrackInv
<1> QED BY <1>1, BooksAreKept, PTL

(* Two requests work for one origin nonce only once it is used up          *)
(* (store.ts reserveOriginNonce).                                          *)
THEOREM ReservationsExclude ==
  ASSUME Steady
  PROVE  Spec => []OneRequestPerOriginNonce
<1>1. LInv => OneRequestPerOriginNonce
  BY DEF LInv, Books, FlightInv
<1> QED BY <1>1, BooksAreKept, PTL

(* No request is given a sponsor nonce while a transaction sponsored for   *)
(* the same origin nonce waits (docs/relay.md, "One sponsored transaction  *)
(* per origin nonce").                                                     *)
THEOREM SwapsAreSponsoredOnce ==
  ASSUME Steady
  PROVE  Spec => []SponsorsOnce
<1>1. LInv => SponsorsOnce
  <2> SUFFICES ASSUME LInv, NEW r \in Requests, pc[r] \in {"allocating", "broadcasting"},
                      NEW t \in mempool, OriginKey(t.swap) = OriginKey(Swap[r])
      PROVE  FALSE
    BY DEF SponsorsOnce
  <2>1. t \in accepted /\ ~Dead(t, executed)
    BY DEF LInv, Books, MempoolInv
  <2>2. ~Spent(t.swap)
    BY <2>1, TxTyped, AccountTyped DEF LInv, Dead, Spent
  <2>3. InFlight(r) /\ ~Confirms(r) /\ originKey(t.swap) = originKey(Swap[r])
    BY DEF InFlight, Confirms, OriginKey, originKey
  <2> QED BY <2>1, <2>2, <2>3 DEF LInv, Books, FlightInv
<1> QED BY <1>1, BooksAreKept, PTL

-----------------------------------------------------------------------------
(***************************************************************************)
(* What a step may do                                                      *)
(***************************************************************************)
LEMMA KeyOf ==
  ASSUME NEW s
  PROVE  originKey(s)[1] = s.origin /\ originKey(s)[2] = s.nonce
BY DEF originKey

(* The steps that write a reservation.                                     *)
LEMMA ReservationWrites ==
  ASSUME [Next]_vars
  PROVE  \/ UNCHANGED reservation
         \/ \E r \in Requests : Reserve(r) \/ ConfirmOriginNonce(r) \/ ReleaseOrigin(r)
         \/ \E w \in Sweeps : SweepReleaseOrigin(w)
         \/ \E k \in OriginKeys : Expire(k)
<1>1. ASSUME NEW r \in Requests, RequestStep(r) \/ Die(r)
      PROVE  UNCHANGED reservation \/ Reserve(r) \/ ConfirmOriginNonce(r) \/ ReleaseOrigin(r)
  BY <1>1 DEF RequestStep, Refuse, Preflight, ReadSponsor, Allocate, Broadcast, AddPending,
              ReleaseNonce, Throw, StoreThrows, Die, storeVars
<1>2. ASSUME NEW w \in Sweeps, SweepProgress(w) \/ SweepAborts(w)
      PROVE  UNCHANGED reservation \/ SweepReleaseOrigin(w)
  BY <1>2 DEF SweepProgress, ListPending, ReadFloor, PlanRbf, RemovePending, SettleNonces,
              BroadcastBump, RemoveReplaced, AddReplacement, SweepEnds, SweepAborts, storeVars
<1>3. ASSUME Block \/ IndexerStep \/ World \/ Clock
      PROVE  UNCHANGED reservation
  BY <1>3 DEF Block, IndexerStep, World, Clock, Ripen, relayVars, storeVars
<1>4. CASE UNCHANGED vars
  BY <1>4 DEF vars, storeVars
<1> QED
  BY <1>1, <1>2, <1>3, <1>4 DEF Next

(* A reservation with a txid is given up only once the origin nonce is     *)
(* executed.                                                               *)
LEMMA HeldStep ==
  ASSUME Steady, LInv, [Next]_vars, NEW k \in OriginKeys,
         reservation[k].state = "broadcast", reservation'[k] = Free
  PROVE  executed[k[1]] > k[2]
<1> USE DEF LInv, Books
<1>1. PICK t \in accepted : originKey(t.swap) = k
  BY DEF KeyInv
<1>2. Spent(t.swap) => executed[k[1]] > k[2]
  BY <1>1, KeyOf DEF Spent
<1>3. Free.state = "free" /\ Running # Free
  BY DEF Free, Running
<1>4. CASE UNCHANGED reservation
  BY <1>3, <1>4
<1>5. ASSUME NEW r \in Requests, Reserve(r)
      PROVE  FALSE
  <2>1. reservation' = [reservation EXCEPT ![originKey(Swap[r])] = Running]
    BY <1>5 DEF Reserve
  <2>2. originKey(Swap[r]) \in OriginKeys
    BY RequestTyped
  <2>3. reservation'[k] \in {Running, reservation[k]}
    BY <2>1, <2>2, OtherKey
  <2> QED BY <1>3, <2>3
<1>6. ASSUME NEW r \in Requests, ConfirmOriginNonce(r)
      PROVE  FALSE
  <2>1. reservation' = [reservation EXCEPT ![originKey(Swap[r])] = Holding(FirstBid(r))]
    BY <1>6 DEF ConfirmOriginNonce
  <2>2. originKey(Swap[r]) \in OriginKeys
    BY RequestTyped
  <2>3. reservation'[k] \in {Holding(FirstBid(r)), reservation[k]}
    BY <2>1, <2>2, OtherKey
  <2> QED BY <1>3, <2>3 DEF Holding, Free
<1>7. ASSUME NEW r \in Requests, ReleaseOrigin(r)
      PROVE  Spent(t.swap)
  <2>1. /\ pc[r] = "failing" /\ originKey(Swap[r]) \in OriginKeys
        /\ reservation' = [reservation EXCEPT ![originKey(Swap[r])] = Free]
    BY <1>7, RequestTyped DEF ReleaseOrigin
  <2>2. k = originKey(Swap[r])
    BY <1>3, <2>1, OtherKey
  <2> QED BY <1>1, <2>1, <2>2 DEF FlightInv, InFlight, Confirms
<1>8. ASSUME NEW w \in Sweeps, SweepReleaseOrigin(w)
      PROVE  Spent(t.swap)
  <2>1. reservation' = [reservation EXCEPT ![originKey(item[w].swap)] = Free]
    BY <1>8 DEF SweepReleaseOrigin
  <2>2. originKey(item[w].swap) \in OriginKeys
    BY <1>8, TxTyped DEF SweepReleaseOrigin, IInv, Remembered
  <2>3. k = originKey(item[w].swap)
    BY <1>3, <2>1, <2>2, OtherKey
  <2> QED BY <1>1, <1>8, <2>3, SweepReleaseBooks, SameKey
<1>9. ASSUME NEW l \in OriginKeys, Expire(l)
      PROVE  FALSE
  <2>1. reservation[l].state = "running" /\ reservation' = [reservation EXCEPT ![l] = Free]
    BY <1>9, ExpireBooks DEF Expire
  <2> QED BY <1>3, <2>1, OtherKey
<1> QED
  BY <1>2, <1>4, <1>5, <1>6, <1>7, <1>8, <1>9, ReservationWrites

(* A reservation with a txid lives until the origin nonce is executed      *)
(* (store.ts, docs/relay.md).                                              *)
THEOREM ReservationsHold ==
  ASSUME Steady
  PROVE  Spec => HeldUntilOriginExecuted
<1>1. LInv /\ [Next]_vars =>
        [\A k \in OriginKeys :
           (/\ reservation[k].state = "broadcast" /\ reservation'[k] = Free
            /\ faults' = faults)
           => executed[k[1]] > k[2]]_vars
  BY HeldStep
<1> QED BY <1>1, BooksAreKept, PTL DEF Spec, HeldUntilOriginExecuted

-----------------------------------------------------------------------------
(***************************************************************************)
(* The relay implements Sponsoring                                         *)
(***************************************************************************)
(* The specification computes its bids as the relay does.                  *)
LEMMA SamePolicy ==
  ASSUME NEW b
  PROVE  /\ Sponsored!Opening(b) = computeFee(b.swap.tier, b.swap.bytes)
         /\ Sponsored!RungAbove(b) = Bumped(b)
         /\ Sponsored!Of(b) = OriginKey(b.swap)
         /\ \A c : Sponsored!SameSlot(b, c) <=> SameSponsorNonce(b, c)
<1>1. Sponsored!Opening(b) = computeFee(b.swap.tier, b.swap.bytes)
  BY DEF Sponsored!Opening, Sponsored!computeFee, Sponsored!AtMost, Sponsored!AtLeast,
         Sponsored!admissionFloor, computeFee, AtMost, AtLeast, admissionFloor
<1>2. Sponsored!RungAbove(b) = Bumped(b)
  BY DEF Sponsored!RungAbove, Sponsored!bumpFee, Sponsored!AtMost, Sponsored!AtLeast, Bumped,
         bumpFee, AtMost, AtLeast, Sponsor
<1> QED
  BY <1>1, <1>2 DEF Sponsored!Of, Sponsored!SameSlot, OriginKey, SameSponsorNonce, Sponsor

(* An accepted first bid opens a swap's bidding.                           *)
LEMMA FirstBidOpens ==
  ASSUME Steady, LInv, NEW r \in Requests, Broadcast(r)
  PROVE  Sponsored!Next \/ UNCHANGED <<mempool, accepted>>
<1> DEFINE b == FirstBid(r)
<1>1. CASE UNCHANGED nodeVars
  BY <1>1 DEF nodeVars
<1>2. CASE Accepts(b)
  <2>1. /\ b \in Tx /\ b.nonce = nonce[r] /\ b.swap = Swap[r] /\ Rivals(b) = {}
        /\ \A t \in accepted : ~SameSponsorNonce(b, t) /\ ~SameOriginNonce(b, t)
    BY BroadcastCases, Fresh
  <2>2. /\ mempool' = mempool \union {b} /\ accepted' = accepted \union {b}
        /\ mempool \subseteq accepted
    BY <1>2, <2>1 DEF Accepts, LInv, Books, MempoolInv
  <2>3. b.fee = Sponsored!Opening(b)
    BY SamePolicy DEF FirstBid
  <2> HIDE DEF b
  <2>4. \A c \in mempool : Sponsored!Of(c) # Sponsored!Of(b) /\ ~Sponsored!SameSlot(b, c)
    BY <2>1, <2>2, SamePolicy DEF SameOriginNonce
  <2>5. Sponsored!Open(b) /\ b \in accepted'
    BY <2>2, <2>3, <2>4 DEF Sponsored!Open
  <2> QED BY <2>5 DEF Sponsored!Next
<1> QED
  BY <1>1, <1>2, BroadcastCases

(* An accepted bump is one rung up from a bid taken before, and meets no   *)
(* rival but cheaper versions of itself.                                   *)
LEMMA BumpClimbsOn ==
  ASSUME Steady, LInv, NEW w \in Sweeps, BroadcastBump(w)
  PROVE  Sponsored!Next \/ UNCHANGED <<mempool, accepted>>
<1>1. CASE UNCHANGED nodeVars
  BY <1>1 DEF nodeVars
<1>2. CASE \E x \in accepted : Accepts(Bumped(x)) /\ Bumped(x) \in Tx /\ x.fee < Bumped(x).fee
  <2>1. PICK x \in accepted : Accepts(Bumped(x)) /\ Bumped(x) \in Tx /\ x.fee < Bumped(x).fee
    BY <1>2
  <2> DEFINE b == Bumped(x)
  <2>2. x \in Tx /\ b.swap = x.swap /\ b.nonce = x.nonce
    BY TxTyped DEF LInv, Bumped, Tx
  <2>3. /\ mempool' = (mempool \ Rivals(b)) \union {b} /\ accepted' = accepted \union {b}
        /\ Outbids(b) /\ mempool \subseteq accepted
    BY <2>1 DEF Accepts, LInv, Books, MempoolInv
  <2>4. b = Sponsored!RungAbove(x)
    BY SamePolicy
  <2> HIDE DEF b
  <2>5. ASSUME NEW c \in mempool, Sponsored!Of(c) = Sponsored!Of(b) \/ Sponsored!SameSlot(b, c)
        PROVE  /\ c \in Tx /\ c.swap = b.swap /\ c.nonce = b.nonce
               /\ c = b \/ c.fee < b.fee
               /\ Sponsored!Of(c) = Sponsored!Of(b)
    <3>1. SameOriginNonce(c, b) \/ SameSponsorNonce(b, c)
      BY <2>5, SamePolicy DEF SameOriginNonce
    <3>2. SameOriginNonce(c, x) \/ SameSponsorNonce(x, c)
      BY <2>2, <3>1 DEF SameOriginNonce, SameSponsorNonce, Sponsor
    <3>3. c \in accepted /\ c \in Tx
      BY <2>3, TxTyped DEF LInv
    <3>4. c.swap = x.swap /\ c.nonce = x.nonce
      BY <2>1, <3>2, <3>3 DEF LInv, Books, SlotsInv, SameSponsorNonce
    <3>5. c = b \/ c \in Rivals(b)
      BY <2>5, <3>1 DEF Rivals, SameOriginNonce, SameSponsorNonce
    <3>6. c = b \/ c.fee < b.fee
      BY <2>3, <3>5 DEF Outbids
    <3> QED BY <2>2, <3>3, <3>4, <3>6, SamePolicy
  <2>6. ASSUME NEW c \in mempool, Sponsored!Of(c) = Sponsored!Of(b) \/ Sponsored!SameSlot(b, c)
        PROVE  c = b \/ (c.fee < b.fee /\ b = [c EXCEPT !.fee = b.fee])
    <3>1. b \in Tx /\ c \in Tx /\ c.swap = b.swap /\ c.nonce = b.nonce /\ (c = b \/ c.fee < b.fee)
      BY <2>1, <2>5, <2>6 DEF b
    <3>2. b = [c EXCEPT !.fee = b.fee]
      BY <3>1 DEF Tx
    <3> QED BY <3>1, <3>2
  <2>7. mempool' = {c \in mempool : Sponsored!Of(c) # Sponsored!Of(b)} \union {b}
    <3>1. \A c \in mempool : c \in Rivals(b) <=> (c # b /\ Sponsored!Of(c) = Sponsored!Of(b))
      <4> SUFFICES ASSUME NEW c \in mempool
          PROVE  c \in Rivals(b) <=> (c # b /\ Sponsored!Of(c) = Sponsored!Of(b))
        OBVIOUS
      <4>1. c \in Rivals(b) <=> c # b /\ (Sponsored!SameSlot(b, c) \/ Sponsored!Of(c) = Sponsored!Of(b))
        BY SamePolicy DEF Rivals, SameOriginNonce
      <4> QED BY <2>5, <4>1
    <3> QED BY <2>3, <3>1
  <2>8. \E c \in accepted : c.fee < b.fee /\ b = Sponsored!RungAbove(c)
    BY <2>1, <2>4 DEF b
  <2>9. Sponsored!Climb(b) /\ b \in accepted'
    BY <2>3, <2>6, <2>7, <2>8 DEF Sponsored!Climb
  <2> QED BY <2>9 DEF Sponsored!Next
<1> QED
  BY <1>1, <1>2, BumpBooks

(* Every step of the relay is a step of Sponsoring, or none.               *)
LEMMA StepImplements ==
  ASSUME Steady, LInv, [Next]_vars
  PROVE  [Sponsored!Next]_<<mempool, accepted>>
<1>1. ASSUME NEW r \in Requests, RequestStep(r) \/ Die(r)
      PROVE  Sponsored!Next \/ UNCHANGED <<mempool, accepted>>
  <2>1. CASE Broadcast(r)
    BY <2>1, FirstBidOpens
  <2>2. CASE ~Broadcast(r)
    BY <1>1, <2>2 DEF RequestStep, Reserve, Refuse, Preflight, ReadSponsor, Allocate, AddPending,
            ConfirmOriginNonce, ReleaseNonce, Throw, StoreThrows, ReleaseOrigin, Die, nodeVars
  <2> QED BY <2>1, <2>2
<1>2. ASSUME NEW w \in Sweeps, SweepProgress(w) \/ SweepAborts(w)
      PROVE  Sponsored!Next \/ UNCHANGED <<mempool, accepted>>
  <2>1. CASE BroadcastBump(w)
    BY <2>1, BumpClimbsOn
  <2>2. CASE ~BroadcastBump(w)
    BY <1>2, <2>2 DEF SweepProgress, ListPending, ReadFloor, PlanRbf, RemovePending, SettleNonces,
            SweepReleaseOrigin, RemoveReplaced, AddReplacement, SweepEnds, SweepAborts, nodeVars
  <2> QED BY <2>1, <2>2
<1>3. ASSUME (\E k \in OriginKeys : Expire(k)) \/ Block \/ IndexerStep \/ World \/ Clock
      PROVE  Sponsored!Next \/ UNCHANGED <<mempool, accepted>>
  <2>1. mempool' \subseteq mempool /\ UNCHANGED accepted
    BY <1>3 DEF Expire, Block, Mine, Advance, IndexerStep, Index, World, Drop, SpendsElsewhere,
            Clock, Ripen, nodeVars
  <2> QED BY <2>1 DEF Sponsored!Next, Sponsored!Leave
<1>4. CASE UNCHANGED vars
  BY <1>4 DEF vars, nodeVars
<1> QED
  BY <1>1, <1>2, <1>3, <1>4 DEF Next

(* What users and the network see of the relay is what Sponsoring allows.  *)
THEOREM RelayImplementsSponsoring ==
  ASSUME Steady
  PROVE  Spec => RefinesSponsoring
<1>1. Init => Sponsored!Init
  BY DEF Init, Sponsored!Init
<1>2. LInv /\ [Next]_vars => [Sponsored!Next]_<<mempool, accepted>>
  BY StepImplements
<1> QED
  BY <1>1, <1>2, BooksAreKept, PTL DEF Spec, RefinesSponsoring, Sponsored!Spec
=============================================================================
