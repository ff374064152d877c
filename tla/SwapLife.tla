------------------------------ MODULE SwapLife ------------------------------
(***************************************************************************)
(* One swap in the store of the Worker (adapters/worker.ts) and against    *)
(* the clock, from its reservation to its removal.  Each tier's pending    *)
(* records are in an object of their own, the origin reservations of all   *)
(* tiers in another; what concerns several objects is one call after the   *)
(* other.  The ladder is RbfClock's, which this implements.  The nonces    *)
(* the objects keep are NonceLedger's, used by Relay.  A request whose     *)
(* transaction was taken is over before the timer next fires: how requests *)
(* and sweeps overlap is Relay's.                                          *)
(***************************************************************************)
EXTENDS RbfClock, Sequences

CONSTANTS
  TIER_NAMES,          \* the objects, in the order they are called
  RESERVE_RUNNING_MS,  \* in ticks
  RESERVE_BROADCAST_MS

ASSUME LifeAssumption ==
  /\ TIER_NAMES \in Seq(TierName) /\ {TIER_NAMES[i] : i \in DOMAIN TIER_NAMES} = TierName
  /\ RESERVE_RUNNING_MS \in Nat /\ RESERVE_BROADCAST_MS \in Nat

VARIABLES
  objects,     \* objects[t]: the fees of the swap's records kept at tier t
  reservation, \* "none", "running", "broadcast"
  held,        \* now - reservation.at
  request,     \* what sponsorReserved does next: "reserving", "adding",
               \* "confirming", "answered"; or it ended before it wrote the
               \* record, "lost", or before it confirmed, "died"
  calls,       \* the sweep's calls: what for, and to which objects still
  mined,
  twin         \* "none", or what the same origin nonce, sent again on any
               \* tier, was told: "refused", "admitted"

lifeVars == <<objects, reservation, held, request, calls, mined, twin>>

NoCalls      == [op |-> "none", left |-> <<>>, found |-> {}]
ToAll(op)    == [op |-> op, left |-> TIER_NAMES, found |-> {}]
Called(op)   == calls.op = op /\ calls.left = <<>>

(* Mutant: every reservation lapses like that of a running request.        *)
reservationLive_Short == reservation # "none" /\ held < RESERVE_RUNNING_MS

reservationLive ==
  CASE reservation = "none"      -> FALSE
    [] reservation = "running"   -> held < RESERVE_RUNNING_MS
    [] reservation = "broadcast" -> held < RESERVE_BROADCAST_MS

LifeInit ==
  /\ Init
  /\ objects = [t \in TierName |-> {}]
  /\ reservation = "none" /\ held = age
  /\ request = "reserving"
  /\ calls = NoCalls
  /\ mined = FALSE /\ twin = "none"

-----------------------------------------------------------------------------
(* The request.  Its chain calls take the age the record starts with.      *)

reserveOriginNonce ==
  /\ request = "reserving" /\ ~reservationLive
  /\ reservation' = "running"
  /\ request' = "adding"
  /\ UNCHANGED <<clockVars, objects, held, calls, mined, twin>>

addPending ==
  /\ request = "adding"
  /\ objects' = [objects EXCEPT ![Tier] = @ \union {fee}]
  /\ request' = "confirming"
  /\ UNCHANGED <<clockVars, reservation, held, calls, mined, twin>>

(* The reservation keeps its time.                                         *)
confirmOriginNonce ==
  /\ request = "confirming"
  /\ reservation' = "broadcast"
  /\ request' = "answered"
  /\ UNCHANGED <<clockVars, objects, held, calls, mined, twin>>

(* The process ends, and the reservation stays as it is (store.ts: "in     *)
(* case the request died"); or the call to the store throws, and the catch *)
(* of handleSponsor gives the reservation back.                            *)
Dies ==
  /\ \/ request = "adding" /\ request' = "lost" /\ Unrecorded
     \/ request = "confirming" /\ request' = "died" /\ UNCHANGED clockVars
  /\ reservation' \in {reservation, "none"}
  /\ UNCHANGED <<objects, held, calls, mined, twin>>

(* The wallet's transaction is sent once more, on whatever tier.           *)
Twin ==
  /\ twin # "admitted" /\ request # "reserving"
  /\ twin' = IF reservationLive THEN "refused" ELSE "admitted"
  /\ UNCHANGED <<clockVars, objects, reservation, held, request, calls, mined>>

-----------------------------------------------------------------------------
(* The sweeps.                                                             *)

(* The next object is called, and answers.                                 *)
Calls(op, found) ==
  /\ calls.op = op /\ calls.left # <<>>
  /\ calls' = [calls EXCEPT !.left = Tail(@), !.found = @ \union found]

Recorded == request \in {"answered", "died"}

Passes(tick) ==
  /\ Recorded
  /\ tick
  /\ held' = held + 1
  /\ UNCHANGED <<objects, reservation, request, mined, twin>>

SweepFires   == Passes(Fires) /\ calls' = ToAll("list")
MinutePasses == Passes(Tick) /\ UNCHANGED calls

listPending ==
  /\ Calls("list", objects[Head(calls.left)])
  /\ UNCHANGED <<clockVars, objects, reservation, held, request, mined, twin>>

PlanThrows ==
  /\ Called("list") /\ calls.found # {} /\ NoncesThrow
  /\ calls' = NoCalls
  /\ UNCHANGED <<objects, reservation, held, request, mined, twin>>

(* The record is bumped once its time has come.                            *)
PlanBump ==
  /\ Called("list") /\ calls.found # {} /\ ~mined /\ Plan
  /\ calls' = IF sweepPc' = "bumping" THEN [NoCalls EXCEPT !.op = "bump"] ELSE NoCalls
  /\ UNCHANGED <<objects, reservation, held, request, mined, twin>>

(* The node takes the bump, and the record is to be replaced.              *)
Broadcast ==
  /\ calls.op = "bump"
  /\ calls' = ToAll("remove")
  /\ UNCHANGED <<clockVars, objects, reservation, held, request, mined, twin>>

BroadcastFails ==
  /\ calls.op = "bump" /\ BumpFails
  /\ calls' = NoCalls
  /\ UNCHANGED <<objects, reservation, held, request, mined, twin>>

PlanDone ==
  /\ Called("list") /\ calls.found # {} /\ mined
  /\ calls' = ToAll("drop")
  /\ UNCHANGED <<clockVars, objects, reservation, held, request, mined, twin>>

(* Mutant: only the first object is asked to remove a record.              *)
removePending_First ==
  /\ \E op \in {"remove", "drop"} : Calls(op, {})
  /\ objects' = IF calls.left = TIER_NAMES
                THEN [objects EXCEPT ![Head(calls.left)] = @ \ {fee}] ELSE objects
  /\ UNCHANGED <<clockVars, reservation, held, request, mined, twin>>

(* Whichever object has it removes it.                                     *)
removePending ==
  /\ \E op \in {"remove", "drop"} : Calls(op, {})
  /\ objects' = [objects EXCEPT ![Head(calls.left)] = @ \ {fee}]
  /\ UNCHANGED <<clockVars, reservation, held, request, mined, twin>>

(* Mutant: the replacement is stamped with the old record's time.          *)
AddReplacement_Stale ==
  /\ Called("remove") /\ sweepPc = "bumping"
  /\ fee' = bumpFee(Tier, fee) /\ sweepPc' = "idle"
  /\ objects' = [objects EXCEPT ![Tier] = @ \union {fee'}]
  /\ calls' = NoCalls
  /\ UNCHANGED <<phase, age, restarts, failed, reservation, held, request, mined, twin>>

(* The second half of replacePending.                                      *)
AddReplacement ==
  /\ Called("remove") /\ Bump
  /\ objects' = [objects EXCEPT ![Tier] = @ \union {fee'}]
  /\ calls' = NoCalls
  /\ UNCHANGED <<reservation, held, request, mined, twin>>

(* The last call for a record that is done.                                *)
releaseOriginNonce ==
  /\ Called("drop") /\ Done
  /\ reservation' = "none"
  /\ calls' = NoCalls
  /\ UNCHANGED <<objects, held, request, mined, twin>>

Executes ==
  /\ request # "reserving" /\ ~mined
  /\ mined' = TRUE
  /\ UNCHANGED <<clockVars, objects, reservation, held, request, calls, twin>>

(* Once removed, to be dropped or replaced, the record is nowhere.         *)
Restarts ==
  /\ Recorded /\ sweepPc # "gone" /\ ~Exhausted(Tier, fee)
  /\ Restart
  /\ sweepPc' = IF \A t \in TierName : objects[t] = {} THEN "gone" ELSE "idle"
  /\ calls' = NoCalls
  /\ UNCHANGED <<objects, reservation, held, request, mined, twin>>

-----------------------------------------------------------------------------
Climbing == ~Exhausted(Tier, fee) /\ sweepPc # "gone"

LifeNext ==
  \/ reserveOriginNonce \/ addPending \/ confirmOriginNonce \/ Dies \/ Twin \/ Executes
  \/ /\ Climbing
     /\ SweepFires \/ MinutePasses \/ listPending \/ PlanThrows \/ PlanBump \/ PlanDone
  \/ Broadcast \/ BroadcastFails \/ removePending \/ AddReplacement \/ releaseOriginNonce
  \/ Restarts

LifeSpec == LifeInit /\ [][LifeNext]_<<clockVars, lifeVars>>

-----------------------------------------------------------------------------
(* Properties                                                              *)

(* The calls to the objects implement the ladder of RbfClock, with sweeps  *)
(* that fail, restarts and requests that die.                              *)
RefinesClock == Spec

(* Outside a replacement or a removal the swap has exactly one record, in  *)
(* its tier's object, at the fee last bid, whatever failed before; once it *)
(* is dropped as executed, or was never written, no object has one, and if *)
(* it was dropped and no restart took it its reservation is gone too       *)
(* (worker.ts removePending, replacePending).                              *)
OneRecord ==
  /\ (/\ request \in {"confirming", "answered", "died"}
      /\ calls.op \in {"none", "list", "bump"} /\ sweepPc # "gone")
       => objects = [[t \in TierName |-> {}] EXCEPT ![Tier] = {fee}]
  /\ (sweepPc = "gone" /\ calls.op = "none")
       => /\ objects = [t \in TierName |-> {}]
          /\ restarts = 0 /\ request # "lost" => reservation = "none"

(* store.ts, RESERVE_BROADCAST_MS: the reservation outlasts the ladder, so *)
(* that the same origin nonce is not admitted again while the first        *)
(* transaction still climbs towards its tier.  Only where the request      *)
(* ended between its record and its confirmation may the reservation be    *)
(* over, given back or after the two minutes of RESERVE_RUNNING_MS, while  *)
(* the record still climbs.                                                *)
RefusedWhileClimbing ==
  twin = "admitted" => mined \/ ~Climbing \/ request = "died"

=============================================================================
