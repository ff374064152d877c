-------------------------------- MODULE Relay --------------------------------
(***************************************************************************)
(* The sponsoring relay: relay/src/core/relay.ts over core/store.ts.       *)
(*                                                                         *)
(* Each POST /v1/sponsor is a process that runs handleSponsor and          *)
(* sponsorReserved; each run of the timer (or Cron Trigger) is a process   *)
(* that runs executeRbf.  Nothing orders them, so a step here is what runs *)
(* between two awaits.  The store's operations are single steps: the code  *)
(* demands one writer per key and both adapters provide it.                *)
(***************************************************************************)
EXTENDS FeePolicy, NonceLedger, StacksNode

CONSTANTS
  Requests,         \* POST /v1/sponsor calls
  Swap,             \* Swap[r]: the user-signed transaction request r carries
  Origins,          \* user accounts
  Sweeps,           \* executeRbf runs that may overlap
  MinTier,          \* POLICY.minTier
  MaxPendingPerKey, \* POLICY.maxPendingPerKey
  FaultKinds,       \* which of the faults below may happen
  MaxFaults         \* bound: how many of them, in all

AllFaults == {"refuse", "throw", "reject", "lostReply", "lostBump", "store", "death",
              "slow", "expire", "drop", "outside"}

ASSUME RelayAssumption ==
  /\ Origins \intersect TierName = {}
  /\ \A r \in Requests :
       Swap[r] \in [origin : Origins, nonce : Nat, tier : TierName, bytes : Nat]
  /\ MinTier \in TierName
  /\ MaxPendingPerKey \in Nat \ {0}
  /\ FaultKinds \subseteq AllFaults
  /\ MaxFaults \in Nat

VARIABLES
  (* the store *)
  ledger,       \* ledger[t]: next and pending nonces of tier t's key
  records,      \* pending records; a record is its transaction (see below)
  reservation,  \* reservation[k]: in-flight memory of the origin nonce k
  (* the requests *)
  pc,           \* where request r is
  view,         \* the sponsor's nonces as r read them
  nonce,        \* the sponsor nonce r was given
  attempt,      \* 0, or 1 after the one retry
  conflict,     \* the rejection r is handling was a nonce conflict
  answer,       \* what r answered, or is about to
  (* the sweeps *)
  sweepPc,
  snapshot,     \* the records w listed
  floor,        \* floor[w][t]: lastExecuted of key t as w read it
  done,         \* plan.done still to be dropped
  bump,         \* plan.bump still to be re-sponsored
  item,         \* the record w is working on
  (* time and faults *)
  ripe,         \* transactions older than the tier's rbfAfterSeconds
  faults        \* faults so far

storeVars   == <<ledger, records, reservation>>
requestVars == <<pc, view, nonce, attempt, conflict, answer>>
sweepVars   == <<sweepPc, snapshot, floor, done, bump, item>>
vars == <<nodeVars, storeVars, requestVars, sweepVars, ripe, faults>>

(* A pending record is the transaction it tracks: tier, sponsor nonce,     *)
(* fee, original transaction and origin nonce are all part of it.  Its     *)
(* `broadcastAt` is kept as membership in `ripe`.                          *)
Swaps      == {Swap[r] : r \in Requests}

(* What reservations are kept under: one namespace for all tiers.          *)
originKey(s) == <<s.origin, s.nonce>>
OriginKeys   == {originKey(s) : s \in Swaps}
Tx         == [swap : Swaps, nonce : Nat, fee : Nat]

NoSwap  == [origin |-> "none", nonce |-> Null, tier |-> "none", bytes |-> 0]
NoTx    == [swap |-> NoSwap, nonce |-> Null, fee |-> Null]
NoView  == [lastExecuted |-> Null, possibleNext |-> Null, missing |-> {}]
Unread  == -2

(* A reservation is absent, `running` (txid null), or holds a txid.        *)
Free    == [state |-> "free", tx |-> NoTx]
Running == [state |-> "running", tx |-> NoTx]
Holding(t) == [state |-> "broadcast", tx |-> t]

(* Mutant: the whole tier is bid at once.                                  *)
FirstBid_WholeTier(r) == [swap |-> Swap[r], nonce |-> nonce[r], fee |-> TIERS[Swap[r].tier]]

FirstBid(r) == [swap  |-> Swap[r],
                nonce |-> nonce[r],
                fee   |-> computeFee(Swap[r].tier, Swap[r].bytes)]

(* The transaction a sweep re-sponsors t with: same sponsor nonce.         *)
Bumped(t) == [t EXCEPT !.fee = bumpFee(Sponsor(t), t.fee)]

(* Requests between a successful reserveOriginNonce and their last step.   *)
InFlight(r) == pc[r] \notin {"new", "answered", "dead"}

Fault(kind) ==
  /\ kind \in FaultKinds
  /\ faults < MaxFaults
  /\ faults' = faults + 1

Init ==
  /\ mempool = {} /\ indexed = {} /\ accepted = {}
  /\ executed = [a \in TierName \union Origins |-> 0]
  /\ ledger = [t \in TierName |-> EmptyLedger]
  /\ records = {}
  /\ reservation = [k \in OriginKeys |-> Free]
  /\ pc = [r \in Requests |-> "new"]
  /\ view = [r \in Requests |-> NoView]
  /\ nonce = [r \in Requests |-> Null]
  /\ attempt = [r \in Requests |-> 0]
  /\ conflict = [r \in Requests |-> FALSE]
  /\ answer = [r \in Requests |-> "none"]
  /\ sweepPc = [w \in Sweeps |-> "idle"]
  /\ snapshot = [w \in Sweeps |-> {}]
  /\ floor = [w \in Sweeps |-> [t \in TierName |-> Unread]]
  /\ done = [w \in Sweeps |-> {}]
  /\ bump = [w \in Sweeps |-> {}]
  /\ item = [w \in Sweeps |-> NoTx]
  /\ ripe = {}
  /\ faults = 0

-----------------------------------------------------------------------------
(***************************************************************************)
(* POST /v1/sponsor                                                        *)
(***************************************************************************)
Goto(r, label) == pc' = [pc EXCEPT ![r] = label]

Answers(r, code) ==
  /\ Goto(r, "answered")
  /\ answer' = [answer EXCEPT ![r] = code]

(* Any throw inside sponsorReserved: the reservation is still to be given  *)
(* back before the error is answered.                                      *)
Fails(r, code) ==
  /\ Goto(r, "failing")
  /\ answer' = [answer EXCEPT ![r] = code]

(* Mutant: a live reservation is overwritten.                              *)
Reserve_Blind(r) ==
  /\ pc[r] = "new"
  /\ Swap[r].tier \in acceptedTiers(MinTier)
  /\ reservation' = [reservation EXCEPT ![originKey(Swap[r])] = Running]
  /\ Goto(r, "preflight")
  /\ UNCHANGED <<nodeVars, ledger, records, view, nonce, attempt, conflict, answer,
                 sweepVars, ripe, faults>>

(* handleSponsor up to its try.  The rate limits are counted before the    *)
(* reservation (a refusal there is the "refuse" fault).                    *)
Reserve(r) ==
  /\ pc[r] = "new"
  /\ Swap[r].tier \in acceptedTiers(MinTier)
  /\ reservation[originKey(Swap[r])] = Free
  /\ reservation' = [reservation EXCEPT ![originKey(Swap[r])] = Running]
  /\ Goto(r, "preflight")
  /\ UNCHANGED <<nodeVars, ledger, records, view, nonce, attempt, conflict, answer,
                 sweepVars, ripe, faults>>

Refuse(r) ==
  /\ pc[r] = "new"
  /\ \/ /\ Swap[r].tier \notin acceptedTiers(MinTier)
        /\ Answers(r, "TIER_BELOW_MIN")
        /\ UNCHANGED faults
     \/ /\ Swap[r].tier \in acceptedTiers(MinTier)
        /\ Fault("refuse")
        /\ Answers(r, "RATE_LIMITED")
     \/ /\ Swap[r].tier \in acceptedTiers(MinTier)
        /\ reservation[originKey(Swap[r])] # Free
        /\ Answers(r, "ORIGIN_NONCE_IN_FLIGHT")
        /\ UNCHANGED faults
  /\ UNCHANGED <<nodeVars, storeVars, view, nonce, attempt, conflict, sweepVars, ripe>>

(* Balance, origin nonce, quote, admission floor.  Balance and quote       *)
(* refuse as the "refuse" fault.                                           *)
Preflight(r) ==
  /\ pc[r] = "preflight"
  /\ \/ \E v \in getNonces(Swap[r].origin) :
          /\ \/ /\ v.possibleNext # Swap[r].nonce
                /\ Fails(r, "BAD_NONCE")
             \/ /\ v.possibleNext = Swap[r].nonce
                /\ ~tierCoversFloor(Swap[r].tier, Swap[r].bytes)
                /\ Fails(r, "TIER_TOO_SMALL")
             \/ /\ v.possibleNext = Swap[r].nonce
                /\ tierCoversFloor(Swap[r].tier, Swap[r].bytes)
                /\ Goto(r, "reading")
                /\ UNCHANGED answer
          /\ UNCHANGED faults
     \/ /\ Fault("refuse")
        /\ Fails(r, "PREFLIGHT_REFUSED")
  /\ UNCHANGED <<nodeVars, storeVars, view, nonce, attempt, conflict, sweepVars, ripe>>

ReadSponsor(r) ==
  /\ pc[r] = "reading"
  /\ \E v \in getNonces(Swap[r].tier) : view' = [view EXCEPT ![r] = v]
  /\ Goto(r, "allocating")
  /\ UNCHANGED <<nodeVars, storeVars, nonce, attempt, conflict, answer, sweepVars, ripe,
                 faults>>

(* store.allocateNonce: reconcile, take, record and advance in one step,   *)
(* but with the view read earlier.                                         *)
Allocate(r) ==
  LET t   == Swap[r].tier
      rec == reconcileNonce(ledger[t], view[r], MaxPendingPerKey)
  IN  /\ pc[r] = "allocating"
      /\ view' = [view EXCEPT ![r] = NoView]
      /\ \/ /\ rec.nonce = Null
            /\ Fails(r, "SPONSOR_BUSY")
            /\ UNCHANGED <<ledger, nonce>>
         \/ /\ rec.nonce # Null
            /\ ledger' = [ledger EXCEPT ![t] = Allocated(rec, r)]
            /\ nonce' = [nonce EXCEPT ![r] = rec.nonce]
            /\ Goto(r, "broadcasting")
            /\ UNCHANGED answer
      /\ UNCHANGED <<nodeVars, records, reservation, attempt, conflict, sweepVars, ripe,
                     faults>>

(* What route answers when a chain call throws: by the HTTP status of the  *)
(* last attempt of ChainClient.request.                                    *)
ChainErrors == {"UPSTREAM_RATE_LIMITED", "INTERNAL"}

(* Sign and POST.  The answer may be lost after the node has taken the     *)
(* transaction: the client's own retries then end in a throw, or in the    *)
(* refusal of the transaction as a conflict with itself.                   *)
Broadcast(r) ==
  /\ pc[r] = "broadcasting"
  /\ \/ /\ Accepts(FirstBid(r))
        /\ Goto(r, "recording")
        /\ UNCHANGED <<answer, conflict, faults>>
     \/ /\ Accepts(FirstBid(r))
        /\ Fault("lostReply")
        /\ \/ (\E code \in ChainErrors : Fails(r, code)) /\ UNCHANGED conflict
           \/ /\ Goto(r, "releasing")
              /\ conflict' = [conflict EXCEPT ![r] = TRUE]
              /\ UNCHANGED answer
     \/ /\ RejectsNonce(FirstBid(r))
        /\ Goto(r, "releasing")
        /\ conflict' = [conflict EXCEPT ![r] = TRUE]
        /\ UNCHANGED <<answer, faults>>
     \/ /\ Fault("reject")
        /\ Goto(r, "releasing")
        /\ conflict' = [conflict EXCEPT ![r] = FALSE]
        /\ UNCHANGED <<nodeVars, answer>>
  /\ UNCHANGED <<storeVars, view, nonce, attempt, sweepVars, ripe>>

AddPending(r) ==
  /\ pc[r] = "recording"
  /\ records' = records \union {FirstBid(r)}
  /\ Goto(r, "confirming")
  /\ UNCHANGED <<nodeVars, ledger, reservation, view, nonce, attempt, conflict, answer,
                 sweepVars, ripe, faults>>

(* Mutant: the txid is not attached, so the reservation stays short-lived. *)
ConfirmOriginNonce_NoTxid(r) ==
  /\ pc[r] = "confirming"
  /\ Answers(r, "OK")
  /\ UNCHANGED <<nodeVars, storeVars, view, nonce, attempt, conflict, sweepVars, ripe, faults>>

ConfirmOriginNonce(r) ==
  /\ pc[r] = "confirming"
  /\ reservation' = [reservation EXCEPT ![originKey(Swap[r])] = Holding(FirstBid(r))]
  /\ Answers(r, "OK")
  /\ UNCHANGED <<nodeVars, ledger, records, view, nonce, attempt, conflict, sweepVars, ripe,
                 faults>>

(* Mutant: every conflict is retried.                                      *)
ReleaseNonce_Retries(r) ==
  LET t == Swap[r].tier
  IN  /\ pc[r] = "releasing"
      /\ ledger' = [ledger EXCEPT ![t] = releaseNonce(ledger[t], nonce[r], conflict[r])]
      /\ nonce' = [nonce EXCEPT ![r] = Null]
      /\ \/ /\ conflict[r]
            /\ attempt' = [attempt EXCEPT ![r] = @ + 1]
            /\ Goto(r, "reading")
            /\ UNCHANGED answer
         \/ ~conflict[r] /\ Fails(r, "BROADCAST_FAILED") /\ UNCHANGED attempt
      /\ UNCHANGED <<nodeVars, records, reservation, view, conflict, sweepVars, ripe, faults>>

(* store.releaseNonce, then one retry after a nonce conflict.              *)
ReleaseNonce(r) ==
  LET t == Swap[r].tier
  IN  /\ pc[r] = "releasing"
      /\ ledger' = [ledger EXCEPT ![t] = releaseNonce(ledger[t], nonce[r], conflict[r])]
      /\ nonce' = [nonce EXCEPT ![r] = Null]
      /\ \/ /\ conflict[r] /\ attempt[r] = 0
            /\ attempt' = [attempt EXCEPT ![r] = 1]
            /\ Goto(r, "reading")
            /\ UNCHANGED answer
         \/ /\ ~(conflict[r] /\ attempt[r] = 0)
            /\ Fails(r, "BROADCAST_FAILED")
            /\ UNCHANGED attempt
      /\ UNCHANGED <<nodeVars, records, reservation, view, conflict, sweepVars, ripe, faults>>

(* A chain call throws before it did anything.                             *)
Throw(r) ==
  /\ pc[r] \in {"preflight", "reading", "broadcasting"}
  /\ Fault("throw")
  /\ \E code \in ChainErrors : Fails(r, code)
  /\ UNCHANGED <<nodeVars, storeVars, view, nonce, attempt, conflict, sweepVars, ripe>>

(* A store call throws: the Durable Object cannot be reached, or the state *)
(* file not written.  Where the write was made and only its answer lost,   *)
(* this comes one label later.  The rate limits and the reservation are    *)
(* outside the try; a throw of the catch's own call leaves the             *)
(* reservation behind.                                                     *)
StoreThrows(r) ==
  /\ Swap[r].tier \in acceptedTiers(MinTier)
  /\ \/ pc[r] \in {"new", "preflight", "failing"} /\ Answers(r, "INTERNAL")
     \/ /\ \/ pc[r] \in {"allocating", "broadcasting", "recording", "confirming", "releasing"}
           \/ pc[r] = "reading" /\ attempt[r] = 1
        /\ Fails(r, "INTERNAL")
  /\ Fault("store")
  /\ UNCHANGED <<nodeVars, storeVars, view, nonce, attempt, conflict, sweepVars, ripe>>

(* Mutant: the reservation is left to lapse.                               *)
ReleaseOrigin_Lapses(r) ==
  /\ pc[r] = "failing"
  /\ Goto(r, "answered")
  /\ UNCHANGED <<nodeVars, storeVars, view, nonce, attempt, conflict, answer, sweepVars, ripe,
                 faults>>

(* The catch of handleSponsor.                                             *)
ReleaseOrigin(r) ==
  /\ pc[r] = "failing"
  /\ reservation' = [reservation EXCEPT ![originKey(Swap[r])] = Free]
  /\ Goto(r, "answered")
  /\ UNCHANGED <<nodeVars, ledger, records, view, nonce, attempt, conflict, answer, sweepVars,
                 ripe, faults>>

RequestStep(r) ==
  \/ Reserve(r) \/ Refuse(r) \/ Preflight(r) \/ ReadSponsor(r) \/ Allocate(r)
  \/ Broadcast(r) \/ AddPending(r) \/ ConfirmOriginNonce(r) \/ ReleaseNonce(r)
  \/ Throw(r) \/ StoreThrows(r) \/ ReleaseOrigin(r)

-----------------------------------------------------------------------------
(***************************************************************************)
(* executeRbf                                                              *)
(***************************************************************************)
SweepGoto(w, label) == sweepPc' = [sweepPc EXCEPT ![w] = label]

ListPending(w) ==
  /\ sweepPc[w] = "idle"
  /\ snapshot' = [snapshot EXCEPT ![w] = records]
  /\ SweepGoto(w, "reading")
  /\ UNCHANGED <<nodeVars, storeVars, requestVars, floor, done, bump, item, ripe, faults>>

ToRead(w) == {t \in TierName : floor[w][t] = Unread /\ \E x \in snapshot[w] : Sponsor(x) = t}

ReadFloor(w) ==
  /\ sweepPc[w] = "reading"
  /\ \E t \in ToRead(w) : \E v \in getNonces(t) :
       floor' = [floor EXCEPT ![w][t] = v.lastExecuted]
  /\ UNCHANGED <<nodeVars, storeVars, requestVars, sweepPc, snapshot, done, bump, item, ripe,
                 faults>>

(* Mutant: a record counts as executed one nonce early.                    *)
Executed_Early(w, x) == floor[w][Sponsor(x)] >= x.nonce - 1

(* planRbf: executed by the key's nonce, else old enough to climb.  A      *)
(* record at its tier is stuck: reported, and left alone.                  *)
Executed(w, x) == floor[w][Sponsor(x)] >= x.nonce

(* Mutant: only the transaction next in line is bumped.                    *)
PlanRbf_HeadOnly(w) ==
  /\ sweepPc[w] = "reading"
  /\ ToRead(w) = {}
  /\ done' = [done EXCEPT ![w] = {x \in snapshot[w] : Executed(w, x)}]
  /\ bump' = [bump EXCEPT ![w] =
       {x \in snapshot[w] : /\ floor[w][Sponsor(x)] = x.nonce - 1
                            /\ x \in ripe /\ ~Exhausted(Sponsor(x), x.fee)}]
  /\ snapshot' = [snapshot EXCEPT ![w] = {}]
  /\ SweepGoto(w, "working")
  /\ UNCHANGED <<nodeVars, storeVars, requestVars, floor, item, ripe, faults>>

PlanRbf(w) ==
  /\ sweepPc[w] = "reading"
  /\ ToRead(w) = {}
  /\ done' = [done EXCEPT ![w] = {x \in snapshot[w] : Executed(w, x)}]
  /\ bump' = [bump EXCEPT ![w] =
       {x \in snapshot[w] : ~Executed(w, x) /\ x \in ripe /\ ~Exhausted(Sponsor(x), x.fee)}]
  /\ snapshot' = [snapshot EXCEPT ![w] = {}]
  /\ SweepGoto(w, "working")
  /\ UNCHANGED <<nodeVars, storeVars, requestVars, floor, item, ripe, faults>>

RemovePending(w) ==
  /\ sweepPc[w] = "working"
  /\ \E x \in done[w] :
       /\ records' = records \ {x}
       /\ done' = [done EXCEPT ![w] = @ \ {x}]
       /\ item' = [item EXCEPT ![w] = x]
  /\ SweepGoto(w, "settling")
  /\ UNCHANGED <<nodeVars, ledger, reservation, requestVars, snapshot, floor, bump, ripe,
                 faults>>

SettleNonces(w) ==
  LET t == Sponsor(item[w])
  IN  /\ sweepPc[w] = "settling"
      /\ ledger' = [ledger EXCEPT ![t] = settleNonces(ledger[t], floor[w][t])]
      /\ SweepGoto(w, "freeing")
      /\ UNCHANGED <<nodeVars, records, reservation, requestVars, snapshot, floor, done, bump,
                     item, ripe, faults>>

SweepReleaseOrigin(w) ==
  /\ sweepPc[w] = "freeing"
  /\ reservation' = [reservation EXCEPT ![originKey(item[w].swap)] = Free]
  /\ item' = [item EXCEPT ![w] = NoTx]
  /\ SweepGoto(w, "working")
  /\ UNCHANGED <<nodeVars, ledger, records, requestVars, snapshot, floor, done, bump, ripe,
                 faults>>

SweepForgets(w) ==
  /\ floor' = [floor EXCEPT ![w] = [t \in TierName |-> Unread]]
  /\ snapshot' = [snapshot EXCEPT ![w] = {}]
  /\ done' = [done EXCEPT ![w] = {}]
  /\ bump' = [bump EXCEPT ![w] = {}]
  /\ item' = [item EXCEPT ![w] = NoTx]
  /\ SweepGoto(w, "idle")

(* Re-sponsor and POST.  A rejected bump is passed over, as is one whose   *)
(* lost answer the client's retry turned into a rejection; a throw ends    *)
(* the whole sweep, what is left of the plan included.                     *)
BroadcastBump(w) ==
  /\ sweepPc[w] = "working"
  /\ done[w] = {}
  /\ \E x \in bump[w] :
       \/ /\ Accepts(Bumped(x))
          /\ bump' = [bump EXCEPT ![w] = @ \ {x}]
          /\ item' = [item EXCEPT ![w] = x]
          /\ SweepGoto(w, "replacing")
          /\ UNCHANGED <<snapshot, floor, done, faults>>
       \/ /\ \/ RejectsNonce(Bumped(x)) /\ UNCHANGED faults
             \/ Fault("reject") /\ UNCHANGED nodeVars
             \/ Accepts(Bumped(x)) /\ Fault("lostBump")
          /\ bump' = [bump EXCEPT ![w] = @ \ {x}]
          /\ UNCHANGED <<sweepPc, snapshot, floor, done, item>>
       \/ /\ Accepts(Bumped(x))
          /\ Fault("lostBump")
          /\ SweepForgets(w)
  /\ UNCHANGED <<storeVars, requestVars, ripe>>

(* replacePending: the old record goes, then the new one comes.  On the     *)
(* Worker these are calls to the tiers' objects, one after the other, and   *)
(* a sweep may list or die between them; MemoryStore does both at once.     *)
RemoveReplaced(w) ==
  /\ sweepPc[w] = "replacing"
  /\ records' = records \ {item[w]}
  /\ SweepGoto(w, "adding")
  /\ UNCHANGED <<nodeVars, ledger, reservation, requestVars, snapshot, floor, done, bump, item,
                 ripe, faults>>

(* Mutant: the new record is not written.                                  *)
AddReplacement_Loses(w) ==
  /\ sweepPc[w] = "adding"
  /\ item' = [item EXCEPT ![w] = NoTx]
  /\ SweepGoto(w, "working")
  /\ UNCHANGED <<nodeVars, storeVars, requestVars, snapshot, floor, done, bump, ripe, faults>>

AddReplacement(w) ==
  /\ sweepPc[w] = "adding"
  /\ records' = records \union {Bumped(item[w])}
  /\ item' = [item EXCEPT ![w] = NoTx]
  /\ SweepGoto(w, "working")
  /\ UNCHANGED <<nodeVars, ledger, reservation, requestVars, snapshot, floor, done, bump, ripe,
                 faults>>

SweepEnds(w) ==
  /\ sweepPc[w] = "working"
  /\ done[w] = {} /\ bump[w] = {}
  /\ SweepForgets(w)
  /\ UNCHANGED <<nodeVars, storeVars, requestVars, ripe, faults>>

(* A chain or store call throws, or the process running the sweep dies.    *)
SweepAborts(w) ==
  /\ sweepPc[w] # "idle"
  /\ \/ sweepPc[w] \in {"reading", "working"} /\ Fault("throw")
     \/ Fault("store")
     \/ Fault("death")
  /\ SweepForgets(w)
  /\ UNCHANGED <<nodeVars, storeVars, requestVars, ripe>>

SweepProgress(w) ==
  \/ ListPending(w) \/ ReadFloor(w) \/ PlanRbf(w)
  \/ RemovePending(w) \/ SettleNonces(w) \/ SweepReleaseOrigin(w)
  \/ BroadcastBump(w) \/ RemoveReplaced(w) \/ AddReplacement(w) \/ SweepEnds(w)

-----------------------------------------------------------------------------
(***************************************************************************)
(* Deaths, time, and the rest of the world                                 *)
(***************************************************************************)
(* The process serving r dies; only the store survives.                    *)
Die(r) ==
  /\ InFlight(r)
  /\ Fault("death")
  /\ Goto(r, "dead")
  /\ UNCHANGED <<nodeVars, storeVars, view, nonce, attempt, conflict, answer, sweepVars, ripe>>

(* reservationLive turns false.  A running reservation whose request is    *)
(* still running has only to be slower than RESERVE_RUNNING_MS ("slow"); a *)
(* broadcast one takes RESERVE_BROADCAST_MS ("expire").                    *)
Expire(k) ==
  /\ \/ /\ reservation[k].state = "running"
        /\ \/ /\ \A r \in Requests : originKey(Swap[r]) = k => ~InFlight(r)
              /\ UNCHANGED faults
           \/ /\ \E r \in Requests : originKey(Swap[r]) = k /\ InFlight(r)
              /\ Fault("slow")
     \/ /\ reservation[k].state = "broadcast"
        /\ Fault("expire")
  /\ reservation' = [reservation EXCEPT ![k] = Free]
  /\ UNCHANGED <<nodeVars, ledger, records, requestVars, sweepVars, ripe>>

(* rbfAfterSeconds have passed since the record's broadcastAt.  The age of *)
(* a record at its tier matters to nothing.                                *)
Ripen(t) ==
  /\ t \in records \ ripe
  /\ ~Exhausted(Sponsor(t), t.fee)
  /\ ripe' = ripe \union {t}
  /\ UNCHANGED <<nodeVars, storeVars, requestVars, sweepVars, faults>>

relayVars == <<storeVars, requestVars, sweepVars, ripe>>

Block == \E t \in mempool : Mine(t) /\ UNCHANGED <<relayVars, faults>>

IndexerStep == \E t \in mempool : Index(t) /\ UNCHANGED <<relayVars, faults>>

World ==
  /\ \/ /\ Fault("drop")
        /\ \E t \in mempool : Drop(t)
     \/ /\ Fault("outside")
        /\ \E o \in Origins : SpendsElsewhere(o)
  /\ UNCHANGED relayVars

Clock == \E t \in records : Ripen(t)

Next ==
  \/ \E r \in Requests : RequestStep(r) \/ Die(r)
  \/ \E w \in Sweeps : SweepProgress(w) \/ SweepAborts(w)
  \/ \E k \in OriginKeys : Expire(k)
  \/ Block \/ IndexerStep \/ World \/ Clock

Spec == Init /\ [][Next]_vars

(* A request, once it arrived, runs on unless its process dies; the timer  *)
(* starts sweeps for ever; time passes; blocks and the API keep coming.    *)
(* Nothing makes a request arrive or a fault happen.                       *)
FairSpec ==
  /\ Spec
  /\ \A r \in Requests : WF_vars(pc[r] # "new" /\ RequestStep(r))
  /\ \A w \in Sweeps : WF_vars(SweepProgress(w))
  /\ WF_vars(Block) /\ WF_vars(IndexerStep) /\ WF_vars(Clock)

-----------------------------------------------------------------------------
(***************************************************************************)
(* Properties                                                              *)
(***************************************************************************)
PCs == {"new", "preflight", "reading", "allocating", "broadcasting", "recording",
        "confirming", "releasing", "failing", "answered", "dead"}
SweepPCs == {"idle", "reading", "working", "settling", "freeing", "replacing",
            "adding"}

View   == [lastExecuted : Int, possibleNext : Int, missing : SUBSET Nat]
Ledger == [next : Nat \union {Null}, pending : SUBSET [nonce : Nat, by : Requests]]
Reservation == [state : {"free", "running", "broadcast"}, tx : Tx \union {NoTx}]

NodeTypeOK ==
  /\ mempool \subseteq Tx /\ indexed \subseteq mempool /\ accepted \subseteq Tx
  /\ executed \in [TierName \union Origins -> Nat]

StoreTypeOK ==
  /\ ledger \in [TierName -> Ledger]
  /\ records \subseteq Tx
  /\ reservation \in [OriginKeys -> Reservation]

RequestTypeOK ==
  /\ pc \in [Requests -> PCs]
  /\ view \in [Requests -> View]
  /\ nonce \in [Requests -> Nat \union {Null}]
  /\ attempt \in [Requests -> {0, 1}]
  /\ conflict \in [Requests -> BOOLEAN]

SweepTypeOK ==
  /\ sweepPc \in [Sweeps -> SweepPCs]
  /\ snapshot \in [Sweeps -> SUBSET Tx]
  /\ floor \in [Sweeps -> [TierName -> Int]]
  /\ done \in [Sweeps -> SUBSET Tx]
  /\ bump \in [Sweeps -> SUBSET Tx]
  /\ item \in [Sweeps -> Tx \union {NoTx}]

(* Every variable stays in its type: in particular a released, settled or  *)
(* forgotten ledger is a ledger, and a nonce is a natural number whatever  *)
(* the chain reported.                                                     *)
TypeOK ==
  /\ NodeTypeOK /\ StoreTypeOK /\ RequestTypeOK /\ SweepTypeOK
  /\ ripe \subseteq Tx
  /\ faults \in Nat

(* The sponsor is never asked to pay more than the tier repays, nor bids   *)
(* what the network would not admit (fee.ts, docs/relay.md "Fee policy"),  *)
(* whatever the operator's opening bids and however often requests, bumps  *)
(* and overlapping sweeps touch the transaction.                           *)
FeeWithinBracket ==
  \A t \in accepted : admissionFloor(t.swap.bytes) <= t.fee /\ t.fee <= TIERS[Sponsor(t)]

(* Every transaction the node took is the first bid of its swap or one     *)
(* bump above another it took for the same swap at the same sponsor nonce: *)
(* no lost reply, resurrected record or second sweep skips a rung or       *)
(* carries a bid over to another nonce.                                    *)
EveryBidIsARung ==
  \A t \in accepted :
    \/ t.fee = computeFee(Sponsor(t), t.swap.bytes)
    \/ \E u \in accepted : t = Bumped(u) /\ u.fee < t.fee

(* A sponsored transaction still in the mempool is under a record of its   *)
(* swap and nonce, or about to be: otherwise replace-by-fee forgets it.    *)
Tracks(x, t) == x.swap = t.swap /\ x.nonce = t.nonce
LiveIsTracked ==
  \A t \in mempool :
    \/ \E x \in records : Tracks(x, t)
    \/ \E r \in Requests : pc[r] = "recording" /\ Tracks(FirstBid(r), t)
    \/ \E w \in Sweeps : sweepPc[w] = "adding" /\ Tracks(item[w], t)

(* The reservation is a lock: two requests work for the same origin nonce  *)
(* only once the nonce is used up (a sweep may drop the record of a mined  *)
(* transaction before its request has confirmed the reservation).          *)
OneRequestPerOriginNonce ==
  \A q, r \in Requests :
    /\ q # r /\ OriginKey(Swap[q]) = OriginKey(Swap[r])
    /\ InFlight(q) /\ InFlight(r)
    => executed[Swap[r].origin] > Swap[r].nonce

(* docs/relay.md, "One sponsored transaction per origin nonce": no request *)
(* gets as far as taking a sponsor nonce while a transaction the relay     *)
(* sponsored for the same origin nonce is waiting to be mined.             *)
SponsorsOnce ==
  \A r \in Requests :
    pc[r] \in {"allocating", "broadcasting"} =>
      \A t \in mempool : OriginKey(t.swap) # OriginKey(Swap[r])

(* docs/relay.md, "Allocation is one atomic step ... this is what prevents *)
(* twins": no sponsor nonce is given to two requests.                      *)
NoTwins ==
  \A t \in TierName : \A e, f \in ledger[t].pending : e.nonce = f.nonce => e = f

(* docs/relay.md, "Pending is capped at maxPendingPerKey".                 *)
PendingIsCapped ==
  \A t \in TierName : Cardinality(ledger[t].pending) <= MaxPendingPerKey

(* What the cap is for: the transactions of one key in the mempool stay    *)
(* below the network's chaining limit.  They are all in the ledger.        *)
LedgerCoversMempool ==
  \A t \in mempool : \E e \in ledger[Sponsor(t)].pending : e.nonce = t.nonce

(* The counter is ahead of every nonce in use, so the next request cannot  *)
(* be given one of them.                                                   *)
CounterIsAhead ==
  \A t \in TierName : \A e \in ledger[t].pending : e.nonce < ledger[t].next

(* store.ts and docs/relay.md: a reservation with a txid "lives until the  *)
(* sweep sees the origin nonce executed", or six hours (an "expire").      *)
HeldUntilOriginExecuted ==
  [][\A k \in OriginKeys :
       (/\ reservation[k].state = "broadcast" /\ reservation'[k] = Free
        /\ faults' = faults)
       => executed[k[1]] > k[2]]_vars

(* The relay implements Sponsoring while the account endpoint answers and   *)
(* no request loses its broadcast's answer, dies or outlasts its            *)
(* reservation: a bid opens at the tier's opening bid while none waits for  *)
(* its origin nonce, climbs rung by rung, and never takes the sponsor nonce *)
(* another user's bid waits at, also when the mempool loses a transaction   *)
(* the ledger still counts and a sweep sends it again.                      *)
Sponsored == INSTANCE Sponsoring WITH waiting <- mempool, taken <- accepted
RefinesSponsoring == Sponsored!Spec

(* Every request that arrived is answered, unless its process died, and    *)
(* leaves nobody locked out: its reservation is given back, holds its      *)
(* transaction, or belongs to another request at work (relay.ts:55-60).    *)
LeavesRunning(r) ==
  /\ reservation[originKey(Swap[r])].state = "running"
  /\ \A q \in Requests : InFlight(q) => originKey(Swap[q]) # originKey(Swap[r])
EveryRequestIsAnswered ==
  \A r \in Requests :
    InFlight(r) ~> (pc[r] = "dead" \/ (pc[r] = "answered" /\ ~LeavesRunning(r)))

(* A swap on record ends off the record, or stuck with its bid at the tier *)
(* for the operator to see: the ladder never stalls half-way.              *)
RecordsClimbOrLeave ==
  \A s \in Swaps :
    (\E x \in records : x.swap = s)
      ~> (\A x \in records : x.swap = s => Exhausted(Sponsor(x), x.fee))
=============================================================================
