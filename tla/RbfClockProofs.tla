--------------------------- MODULE RbfClockProofs ---------------------------
(***************************************************************************)
(* The bound on how long a bid stands, for every timer, wait and latency.  *)
(* An idle record was last looked at when the timer last fired, and was    *)
(* then younger than the wait; a running sweep looks at it one turn later. *)
(* Every sweep that fails costs one turn of the timer, and every restart   *)
(* may cost one and the sweep it cut short.                                *)
(* The sweep over the Worker's objects climbs that ladder, with one record *)
(* in all objects together; and where the ladder is shorter than the       *)
(* reservation, the rungs still above the bid times the longest that one   *)
(* stands bound how far the reservation has run down.                      *)
(***************************************************************************)
EXTENDS SwapLife, TLAPS

Cost == restarts * (SweepEvery + Latency) + failed * SweepEvery

IInv ==
  /\ phase \in Nat /\ phase < SweepEvery
  /\ age \in Nat /\ restarts \in Nat /\ failed \in Nat
  /\ sweepPc \in {"idle", "reading", "bumping", "gone"}
  /\ sweepPc = "idle" => age <= RbfAfter - 1 + phase + Cost
  /\ sweepPc \in {"reading", "bumping"} =>
       phase <= Latency /\ age <= RbfAfter - 1 + SweepEvery + phase + Cost

(* A restart more costs a turn and a sweep, a failure more a turn.         *)
LEMMA CostOfAnother ==
  ASSUME NEW m \in Nat, NEW n \in Nat
  PROVE  /\ m * (SweepEvery + Latency) \in Nat /\ n * SweepEvery \in Nat
         /\ (m + 1) * (SweepEvery + Latency) = m * (SweepEvery + Latency) + SweepEvery + Latency
         /\ (n + 1) * SweepEvery = n * SweepEvery + SweepEvery
<1>1. \A a, b \in Nat : a * b \in Nat /\ (a + 1) * b = a * b + b
  OBVIOUS
<1>2. SweepEvery \in Nat /\ Latency \in Nat /\ SweepEvery + Latency \in Nat
  BY ClockAssumption
<1> QED
  BY <1>1, <1>2

LEMMA CostIsNat ==
  ASSUME restarts \in Nat, failed \in Nat
  PROVE  Cost \in Nat
<1>1. restarts * (SweepEvery + Latency) \in Nat /\ failed * SweepEvery \in Nat
  BY CostOfAnother
<1> QED
  BY <1>1 DEF Cost

LEMMA Later ==
  ASSUME NEW a \in Nat, NEW r \in Nat, NEW p \in Nat, NEW c \in Nat, a <= r - 1 + c
  PROVE  a <= r - 1 + p + c
OBVIOUS

LEMMA InitInv == Init => IInv
<1>1. Init => Cost = 0
  BY ClockAssumption DEF Init, Cost
<1> QED
  BY <1>1, ClockAssumption DEF Init, IInv

(* A sweep that ends without a bump leaves the record idle for one turn.   *)
LEMMA FailsInv ==
  ASSUME IInv, NoncesThrow \/ BumpFails
  PROVE  IInv'
<1>1. /\ UNCHANGED <<phase, age, restarts>> /\ sweepPc' = "idle" /\ sweepPc \in {"reading", "bumping"}
      /\ failed' = failed + 1 \/ (failed' = failed /\ ~(age >= RbfAfter))
  BY DEF NoncesThrow, BumpFails
<1>2. /\ phase \in Nat /\ phase < SweepEvery /\ age \in Nat /\ restarts \in Nat /\ failed \in Nat
      /\ age <= RbfAfter - 1 + SweepEvery + phase + Cost
  BY <1>1 DEF IInv
<1>3. Cost \in Nat
  BY <1>2, CostIsNat
<1>4. CASE failed' = failed + 1
  <2>1. Cost' = Cost + SweepEvery
    <3>1. Cost' = restarts * (SweepEvery + Latency) + (failed + 1) * SweepEvery
      BY <1>1, <1>4 DEF Cost
    <3>2. /\ restarts * (SweepEvery + Latency) \in Nat /\ failed * SweepEvery \in Nat
          /\ (failed + 1) * SweepEvery = failed * SweepEvery + SweepEvery
      BY <1>2, CostOfAnother
    <3> QED
      BY <3>1, <3>2, ClockAssumption DEF Cost
  <2>2. age' <= RbfAfter - 1 + phase' + Cost'
    BY <1>1, <1>2, <1>3, <2>1, ClockAssumption
  <2> QED
    BY <1>1, <1>2, <1>4, <2>2 DEF IInv
<1>5. CASE failed' = failed /\ ~(age >= RbfAfter)
  <2>1. Cost' = Cost
    BY <1>1, <1>5 DEF Cost
  <2>2. age' <= RbfAfter - 1 + phase' + Cost'
    BY <1>1, <1>2, <1>3, <1>5, <2>1, ClockAssumption
  <2> QED
    BY <1>1, <1>2, <1>5, <2>2 DEF IInv
<1> QED
  BY <1>1, <1>4, <1>5

LEMMA StepInv == IInv /\ [Next]_clockVars => IInv'
<1> SUFFICES ASSUME IInv, [Next]_clockVars PROVE IInv'
  OBVIOUS
<1>1. Cost \in Nat
  BY CostIsNat DEF IInv
<1>2. UNCHANGED <<restarts, failed>> => Cost' = Cost
  BY DEF Cost
<1>3. CASE Fires
  BY <1>1, <1>2, <1>3, ClockAssumption DEF Fires, TimePasses, IInv
<1>4. CASE Tick
  <2>1. UNCHANGED <<restarts, failed>> /\ Cost' = Cost
    BY <1>2, <1>4 DEF Tick, TimePasses
  <2> QED
    BY <1>1, <1>4, <2>1, ClockAssumption DEF Tick, TimePasses, IInv
<1>5. CASE Plan /\ ~Exhausted(Tier, fee)
  BY <1>1, <1>2, <1>5, ClockAssumption DEF Plan, IInv
<1>6. CASE Done \/ Unrecorded
  BY <1>1, <1>2, <1>6 DEF Done, Unrecorded, IInv
<1>7. CASE Bump
  <2>1. restarts' = 0 /\ failed' = 0 /\ Cost' = 0
    BY <1>7, ClockAssumption DEF Bump, Cost
  <2> QED
    BY <1>7, <2>1, ClockAssumption DEF Bump, IInv
<1>8. CASE Restart /\ sweepPc # "gone"
  <2>1. restarts' \in Nat /\ failed' \in Nat /\ Cost' = Cost + SweepEvery + Latency
    <3>1. restarts \in Nat /\ failed \in Nat /\ restarts' = restarts + 1 /\ failed' = failed
      BY <1>8 DEF Restart, IInv
    <3>2. /\ restarts * (SweepEvery + Latency) \in Nat /\ failed * SweepEvery \in Nat
          /\ (restarts + 1) * (SweepEvery + Latency)
               = restarts * (SweepEvery + Latency) + SweepEvery + Latency
      BY <3>1, CostOfAnother
    <3> QED
      BY <3>1, <3>2, ClockAssumption DEF Cost
  <2>2. phase' \in {0, phase} /\ UNCHANGED age /\ sweepPc' \in {"idle", "gone"}
    BY <1>8 DEF Restart
  <2>3. age <= RbfAfter - 1 + SweepEvery + Latency + Cost
    BY <1>1, <1>8, ClockAssumption DEF IInv
  <2>4. phase' \in Nat /\ phase' < SweepEvery /\ age' \in Nat /\ age' <= RbfAfter - 1 + phase' + Cost'
    <3>1. phase \in Nat /\ phase < SweepEvery /\ age \in Nat
      BY DEF IInv
    <3>2. phase' \in Nat /\ phase' < SweepEvery
      BY <2>2, <3>1, ClockAssumption
    <3>3. age <= RbfAfter - 1 + (Cost + SweepEvery + Latency)
      BY <1>1, <2>3, <3>1, ClockAssumption
    <3>4. Cost' \in Nat
      BY <1>1, <2>1, ClockAssumption
    <3>5. age' \in Nat /\ age' <= RbfAfter - 1 + Cost'
      BY <2>1, <2>2, <3>1, <3>3
    <3>6. age' <= RbfAfter - 1 + phase' + Cost'
      BY <3>2, <3>4, <3>5, Later, ClockAssumption
    <3> QED
      BY <3>2, <3>5, <3>6
  <2> QED
    BY <2>1, <2>2, <2>4 DEF IInv
<1>9. CASE NoncesThrow \/ BumpFails
  BY <1>9, FailsInv
<1>10. CASE UNCHANGED clockVars
  BY <1>2, <1>10 DEF clockVars, IInv
<1> QED
  BY <1>3, <1>4, <1>5, <1>6, <1>7, <1>8, <1>9, <1>10 DEF Next

(* A bid below its tier never stands longer than one wait, one turn of the *)
(* timer and one sweep, and a turn more for every sweep that failed to     *)
(* raise it, a turn and a sweep more for every restart (executeRbf,        *)
(* planRbf).                                                               *)
THEOREM BidsAreRaisedInTime == Spec => []ClimbsInTime
<1>1. IInv => ClimbsInTime
  <2> SUFFICES ASSUME IInv, sweepPc # "gone" PROVE age <= LongestStand
    BY DEF ClimbsInTime
  <2>1. Cost \in Nat /\ LongestStand = RbfAfter - 1 + (Cost + SweepEvery + Latency)
    <3>1. restarts \in Nat /\ failed \in Nat
      BY DEF IInv
    <3>2. /\ restarts * (SweepEvery + Latency) \in Nat /\ failed * SweepEvery \in Nat
          /\ (failed + 1) * SweepEvery = failed * SweepEvery + SweepEvery
      BY <3>1, CostOfAnother
    <3> QED
      BY <3>2, ClockAssumption DEF LongestStand, Cost
  <2> QED
    BY <2>1, ClockAssumption DEF IInv
<1> QED
  BY <1>1, InitInv, StepInv, PTL DEF Spec

-----------------------------------------------------------------------------
(* A sweep looks at bids below the tier, and nothing but its bump changes  *)
(* the fee.                                                                *)
DueInv == sweepPc \in {"reading", "bumping"} => ~Exhausted(Tier, fee)

LEMMA DueStep == DueInv /\ [LifeNext]_<<clockVars, lifeVars>> => DueInv'
<1> SUFFICES ASSUME DueInv, [LifeNext]_<<clockVars, lifeVars>> PROVE DueInv'
  OBVIOUS
<1>1. ASSUME UNCHANGED clockVars PROVE DueInv'
  BY <1>1 DEF DueInv, clockVars
<1>2. ASSUME Climbing, Fires \/ Tick PROVE DueInv'
  BY <1>2 DEF Fires, Tick, TimePasses, DueInv, Climbing
<1>3. ASSUME Plan PROVE DueInv'
  BY <1>3 DEF Plan, DueInv
<1>4. ASSUME Unrecorded \/ NoncesThrow \/ Done \/ Bump \/ BumpFails PROVE DueInv'
  BY <1>4 DEF Unrecorded, NoncesThrow, Done, Bump, BumpFails, DueInv
<1>5. ASSUME Restart PROVE DueInv'
  <2>1. sweepPc' \notin {"reading", "bumping"}
    BY <1>5 DEF Restart
  <2> QED
    BY <2>1 DEF DueInv
<1> QED
  BY <1>1, <1>2, <1>3, <1>4, <1>5
     DEF LifeNext, reserveOriginNonce, addPending, confirmOriginNonce, Dies, Twin, Executes, Passes,
         SweepFires, MinutePasses, listPending, PlanThrows, PlanBump, PlanDone, Broadcast,
         BroadcastFails, removePending, AddReplacement, releaseOriginNonce, Restarts, lifeVars

LEMMA StepClimbs ==
  ASSUME DueInv, [LifeNext]_<<clockVars, lifeVars>>
  PROVE  [Next]_clockVars
<1>1. ASSUME Climbing, Fires \/ Tick \/ Plan \/ NoncesThrow PROVE Next
  BY <1>1 DEF Climbing, Next
<1>2. ASSUME Bump \/ BumpFails \/ Done PROVE Next
  BY <1>2 DEF Bump, BumpFails, Done, DueInv, Next
<1>3. ASSUME Restarts \/ Unrecorded PROVE Next
  BY <1>3 DEF Restarts, Next
<1> QED
  BY <1>1, <1>2, <1>3
     DEF LifeNext, reserveOriginNonce, addPending, confirmOriginNonce, Dies, Twin, Executes, Passes,
         SweepFires, MinutePasses, listPending, PlanThrows, PlanBump, PlanDone, Broadcast,
         BroadcastFails, removePending, AddReplacement, releaseOriginNonce, lifeVars

(* The sweep over the Worker's objects implements the ladder, whatever the *)
(* tiers, the timer and the latency are (executeRbf, worker.ts).           *)
THEOREM ObjectsImplementClock == LifeSpec => RefinesClock
<1>1. LifeInit => Init /\ DueInv
  BY DEF LifeInit, Init, DueInv
<1> QED
  BY <1>1, DueStep, StepClimbs, PTL DEF LifeSpec, RefinesClock, Spec

(* In the Worker, too, no bid below its tier stands too long.              *)
COROLLARY ObjectsClimbInTime == LifeSpec => []ClimbsInTime
BY ObjectsImplementClock, BidsAreRaisedInTime, PTL DEF RefinesClock

-----------------------------------------------------------------------------
(***************************************************************************)
(* The record in the objects                                               *)
(***************************************************************************)
NoRecord   == [t \in TierName |-> {}]
RecordAt(f) == [[t \in TierName |-> {}] EXCEPT ![Tier] = {f}]
TierToCall == \E i \in DOMAIN calls.left : calls.left[i] = Tier

(* What a sweep is calling the objects for goes with what it is about; and *)
(* until the tier's own object is asked to remove the record, it is there. *)
RecordInv ==
  /\ restarts \in Nat
  /\ request \in {"reserving", "adding", "confirming", "answered", "lost", "died"}
  /\ \/ calls.op = "none" /\ sweepPc \in {"idle", "gone"}
     \/ calls.op \in {"list", "drop"} /\ sweepPc = "reading"
     \/ calls.op \in {"bump", "remove"} /\ sweepPc = "bumping"
  /\ sweepPc # "idle" => request \in {"answered", "died", "lost"}
  /\ request = "lost" => sweepPc = "gone"
  /\ calls.left \in Seq(TierName)
  /\ calls = [op |-> calls.op, left |-> calls.left, found |-> calls.found]
  /\ request \in {"reserving", "adding", "lost"} => objects = NoRecord
  /\ (/\ request \in {"confirming", "answered", "died"}
      /\ calls.op \in {"none", "list", "bump"} /\ sweepPc # "gone")
       => objects = RecordAt(fee)
  /\ calls.op \in {"remove", "drop"} =>
       objects = NoRecord \/ (objects = RecordAt(fee) /\ TierToCall)
  /\ calls.op = "none" /\ sweepPc = "gone" =>
       objects = NoRecord /\ (restarts = 0 /\ request # "lost" => reservation = "none")

LEMMA InitRecord == LifeInit => RecordInv
<1> SUFFICES ASSUME LifeInit PROVE RecordInv
  OBVIOUS
<1> QED
  BY DEF LifeInit, Init, RecordInv, NoRecord, NoCalls

(* A call to all objects comes to the tier's own.                          *)
LEMMA AllAreCalled ==
  ASSUME NEW op, calls' = ToAll(op)
  PROVE  /\ calls'.op = op /\ calls'.left \in Seq(TierName) /\ TierToCall'
         /\ calls' = [op |-> calls'.op, left |-> calls'.left, found |-> calls'.found]
<1>1. TIER_NAMES \in Seq(TierName) /\ \E i \in DOMAIN TIER_NAMES : TIER_NAMES[i] = Tier
  BY LifeAssumption, ClockAssumption
<1> QED
  BY <1>1 DEF ToAll, TierToCall

LEMMA NoneIsCalled ==
  ASSUME calls' = NoCalls
  PROVE  /\ calls'.op = "none" /\ calls'.left \in Seq(TierName)
         /\ calls' = [op |-> calls'.op, left |-> calls'.left, found |-> calls'.found]
BY DEF NoCalls

LEMMA OneIsCalled ==
  ASSUME RecordInv, NEW op, NEW found, Calls(op, found)
  PROVE  /\ calls.op = op /\ calls'.op = op /\ calls'.left \in Seq(TierName)
         /\ calls' = [op |-> calls'.op, left |-> calls'.left, found |-> calls'.found]
         /\ Head(calls.left) \in TierName
         /\ TierToCall /\ Head(calls.left) # Tier => TierToCall'
<1>1. calls.left \in Seq(TierName) /\ calls.left # <<>>
  BY DEF RecordInv, Calls
<1>2. /\ calls'.op = calls.op /\ calls'.left = Tail(calls.left)
      /\ calls' = [op |-> calls'.op, left |-> calls'.left, found |-> calls'.found]
  BY DEF RecordInv, Calls
<1>3. ASSUME NEW i \in DOMAIN calls.left, calls.left[i] = Tier, Head(calls.left) # Tier
      PROVE  i - 1 \in DOMAIN Tail(calls.left) /\ Tail(calls.left)[i - 1] = Tier
  BY <1>1, <1>3
<1>4. TierToCall /\ Head(calls.left) # Tier => TierToCall'
  <2> SUFFICES ASSUME TierToCall, Head(calls.left) # Tier PROVE TierToCall'
    OBVIOUS
  <2>1. PICK i \in DOMAIN calls.left : calls.left[i] = Tier
    BY DEF TierToCall
  <2> QED
    BY <1>2, <1>3, <2>1 DEF TierToCall
<1> QED
  BY <1>1, <1>2, <1>4 DEF Calls

LEMMA StepRecord == RecordInv /\ [LifeNext]_<<clockVars, lifeVars>> => RecordInv'
<1> SUFFICES ASSUME RecordInv, [LifeNext]_<<clockVars, lifeVars>> PROVE RecordInv'
  OBVIOUS
<1>1. CASE \/ reserveOriginNonce \/ confirmOriginNonce \/ Dies \/ Twin \/ Executes
           \/ UNCHANGED <<clockVars, lifeVars>>
  <2>1. UNCHANGED <<fee, restarts, objects, calls>>
    BY <1>1 DEF reserveOriginNonce, confirmOriginNonce, Dies, Unrecorded, Twin, Executes,
                clockVars, lifeVars
  <2>2. CASE ~Dies
    <3>1. UNCHANGED sweepPc
      BY <1>1, <2>2 DEF reserveOriginNonce, confirmOriginNonce, Twin, Executes, clockVars, lifeVars
    <3>2. /\ request' = request \/ (request = "reserving" /\ request' = "adding")
                                \/ (request = "confirming" /\ request' = "answered")
          /\ request \in {"answered", "died", "lost"} => reservation' = reservation
      BY <1>1, <2>2 DEF reserveOriginNonce, confirmOriginNonce, Twin, Executes, lifeVars
    <3> QED
      BY <2>1, <3>1, <3>2 DEF RecordInv, TierToCall, RecordAt
  <2>3. CASE Dies
    <3>1. \/ request = "adding" /\ request' = "lost" /\ sweepPc = "idle" /\ sweepPc' = "gone"
          \/ request = "confirming" /\ request' = "died" /\ sweepPc' = sweepPc
      BY <2>3 DEF Dies, Unrecorded, clockVars
    <3>2. CASE request = "adding" /\ request' = "lost" /\ sweepPc = "idle" /\ sweepPc' = "gone"
      BY <2>1, <3>2 DEF RecordInv, TierToCall, RecordAt
    <3>3. CASE request = "confirming" /\ request' = "died" /\ sweepPc' = sweepPc
      BY <2>1, <3>3 DEF RecordInv, TierToCall, RecordAt
    <3> QED
      BY <3>1, <3>2, <3>3
  <2> QED
    BY <2>2, <2>3
<1>2. CASE addPending
  <2>1. objects = NoRecord /\ objects' = RecordAt(fee)
    BY <1>2, ClockAssumption DEF addPending, RecordInv, NoRecord, RecordAt
  <2> QED
    BY <1>2, <2>1 DEF addPending, clockVars, RecordInv, RecordAt
<1>3. CASE SweepFires
  <2>1. /\ sweepPc = "idle" /\ sweepPc' = "reading" /\ UNCHANGED <<fee, restarts, objects, request>>
        /\ request \in {"answered", "died"} /\ calls' = ToAll("list")
    BY <1>3 DEF SweepFires, Passes, Recorded, Fires, TimePasses
  <2> QED
    BY <2>1, AllAreCalled DEF RecordInv, RecordAt
<1>4. CASE MinutePasses
  <2>1. UNCHANGED <<fee, restarts, sweepPc, objects, calls, request, reservation>>
    BY <1>4 DEF MinutePasses, Passes, Tick, TimePasses
  <2> QED
    BY <2>1 DEF RecordInv, TierToCall, RecordAt
<1>5. CASE listPending
  <2>1. UNCHANGED <<fee, restarts, sweepPc, objects, request, reservation>>
    BY <1>5 DEF listPending, clockVars
  <2> QED
    BY <1>5, <2>1, OneIsCalled DEF listPending, RecordInv, RecordAt
<1>6. CASE PlanThrows \/ PlanBump \/ Broadcast \/ BroadcastFails
  <2>1. /\ calls.op \in {"list", "bump"} /\ UNCHANGED <<fee, restarts, objects, request, reservation>>
        /\ \/ sweepPc' = "bumping" /\ calls' = [NoCalls EXCEPT !.op = "bump"]
           \/ sweepPc = "bumping" /\ sweepPc' = "bumping" /\ calls' = ToAll("remove")
           \/ sweepPc' = "idle" /\ calls' = NoCalls
    BY <1>6 DEF PlanThrows, PlanBump, Broadcast, BroadcastFails, Called, Plan, NoncesThrow, BumpFails,
                clockVars, RecordInv
  <2>2. sweepPc \in {"reading", "bumping"} /\ request \in {"answered", "died"} /\ objects = RecordAt(fee)
    BY <2>1 DEF RecordInv
  <2>3. CASE sweepPc' = "bumping" /\ calls' = [NoCalls EXCEPT !.op = "bump"]
    <3>1. /\ calls'.op = "bump" /\ calls'.left \in Seq(TierName)
          /\ calls' = [op |-> calls'.op, left |-> calls'.left, found |-> calls'.found]
      BY <2>3 DEF NoCalls
    <3> QED
      BY <2>1, <2>2, <2>3, <3>1 DEF RecordInv, RecordAt
  <2>4. CASE sweepPc' = "bumping" /\ calls' = ToAll("remove")
    BY <2>1, <2>2, <2>4, AllAreCalled DEF RecordInv, RecordAt
  <2>5. CASE sweepPc' = "idle" /\ calls' = NoCalls
    BY <2>1, <2>2, <2>5, NoneIsCalled DEF RecordInv, RecordAt
  <2> QED
    BY <2>1, <2>3, <2>4, <2>5
<1>7. CASE PlanDone
  <2>1. /\ calls.op = "list" /\ UNCHANGED <<fee, restarts, objects, request, reservation, sweepPc>>
        /\ calls' = ToAll("drop")
    BY <1>7 DEF PlanDone, Called, clockVars
  <2>2. sweepPc = "reading" /\ request \in {"answered", "died"} /\ objects = RecordAt(fee)
    BY <2>1 DEF RecordInv
  <2>3. /\ calls'.op = "drop" /\ calls'.left \in Seq(TierName) /\ TierToCall'
        /\ calls' = [op |-> calls'.op, left |-> calls'.left, found |-> calls'.found]
    BY <2>1, AllAreCalled
  <2>4. objects' = RecordAt(fee)'
    BY <2>1, <2>2 DEF RecordAt
  <2> QED
    BY <2>1, <2>2, <2>3, <2>4 DEF RecordInv
<1>8. CASE removePending
  <2>1. PICK op \in {"remove", "drop"} : Calls(op, {})
    BY <1>8 DEF removePending
  <2>2. /\ objects' = [objects EXCEPT ![Head(calls.left)] = @ \ {fee}]
        /\ UNCHANGED <<fee, restarts, sweepPc, request, reservation>>
    BY <1>8 DEF removePending, clockVars
  <2>3. /\ calls.op = op /\ calls'.op = op /\ calls'.left \in Seq(TierName)
        /\ calls' = [op |-> calls'.op, left |-> calls'.left, found |-> calls'.found]
        /\ Head(calls.left) \in TierName
        /\ TierToCall /\ Head(calls.left) # Tier => TierToCall'
    BY <2>1, OneIsCalled
  <2>4. CASE objects = NoRecord
    <3>1. objects' = NoRecord
      BY <2>2, <2>3, <2>4 DEF NoRecord
    <3> QED
      BY <2>2, <2>3, <3>1 DEF RecordInv
  <2>5. CASE objects = RecordAt(fee) /\ TierToCall
    <3>1. CASE Head(calls.left) = Tier
      <4>1. objects' = NoRecord
        BY <2>2, <2>3, <2>5, <3>1 DEF NoRecord, RecordAt
      <4> QED
        BY <2>2, <2>3, <4>1 DEF RecordInv
    <3>2. CASE Head(calls.left) # Tier
      <4>1. objects' = RecordAt(fee') /\ TierToCall'
        BY <2>2, <2>3, <2>5, <3>2 DEF RecordAt
      <4> QED
        BY <2>2, <2>3, <4>1 DEF RecordInv
    <3> QED
      BY <3>1, <3>2
  <2> QED
    BY <2>3, <2>4, <2>5 DEF RecordInv
<1>9. CASE AddReplacement
  <2>1. /\ calls.op = "remove" /\ calls.left = <<>> /\ sweepPc' = "idle"
        /\ objects' = [objects EXCEPT ![Tier] = @ \union {fee'}]
        /\ calls' = NoCalls /\ UNCHANGED <<request, reservation>> /\ restarts' = 0
    BY <1>9 DEF AddReplacement, Called, Bump
  <2>2. objects = NoRecord
    BY <2>1 DEF RecordInv, TierToCall
  <2>3. objects' = RecordAt(fee')
    BY <2>1, <2>2, ClockAssumption DEF NoRecord, RecordAt
  <2> QED
    BY <2>1, <2>3, NoneIsCalled DEF RecordInv
<1>10. CASE releaseOriginNonce
  <2>1. /\ calls.op = "drop" /\ calls.left = <<>> /\ reservation' = "none" /\ calls' = NoCalls
        /\ UNCHANGED <<objects, request, restarts>> /\ sweepPc = "reading" /\ sweepPc' = "gone"
    BY <1>10 DEF releaseOriginNonce, Called, Done
  <2>2. objects = NoRecord
    BY <2>1 DEF RecordInv, TierToCall
  <2> QED
    BY <2>1, <2>2, NoneIsCalled DEF RecordInv
<1>11. CASE Restarts
  <2>1. /\ request \in {"answered", "died"} /\ sweepPc # "gone" /\ restarts' = restarts + 1
        /\ UNCHANGED <<fee, objects, request, reservation>>
        /\ sweepPc' = IF \A t \in TierName : objects[t] = {} THEN "gone" ELSE "idle"
        /\ calls' = NoCalls
    BY <1>11 DEF Restarts, Recorded, Restart
  <2>2. objects = NoRecord \/ objects = RecordAt(fee)
    BY <2>1 DEF RecordInv
  <2>3. CASE objects = RecordAt(fee)
    <3>1. objects[Tier] # {}
      BY <2>3, ClockAssumption DEF RecordAt
    <3>2. sweepPc' = "idle"
      BY <2>1, <3>1, ClockAssumption
    <3>3. /\ calls'.op = "none" /\ calls'.left \in Seq(TierName)
          /\ calls' = [op |-> calls'.op, left |-> calls'.left, found |-> calls'.found]
      BY <2>1, NoneIsCalled
    <3>4. objects' = RecordAt(fee)' /\ restarts' \in Nat
      BY <2>1, <2>3 DEF RecordInv, RecordAt
    <3> QED
      BY <2>1, <3>2, <3>3, <3>4 DEF RecordInv
  <2>4. CASE objects = NoRecord
    <3>1. sweepPc' = "gone"
      BY <2>1, <2>4 DEF NoRecord
    <3> QED
      BY <2>1, <2>4, <3>1, NoneIsCalled DEF RecordInv
  <2> QED
    BY <2>2, <2>3, <2>4
<1> QED
  BY <1>1, <1>2, <1>3, <1>4, <1>5, <1>6, <1>7, <1>8, <1>9, <1>10, <1>11 DEF LifeNext

(* worker.ts replacePending, removePending: called one after the other,    *)
(* and with restarts in between, the objects never hold the swap twice or  *)
(* at a fee it no longer bids, and lose it only in a restart.              *)
THEOREM RecordIsOne == LifeSpec => []OneRecord
<1>1. RecordInv => OneRecord
  BY DEF RecordInv, OneRecord, NoRecord, RecordAt
<1> QED
  BY <1>1, InitRecord, StepRecord, PTL DEF LifeSpec

-----------------------------------------------------------------------------
(***************************************************************************)
(* The reservation and the ladder                                          *)
(***************************************************************************)
(* The bids of a swap and how many bumps each is from its tier: every      *)
(* policy has such a count, since a bump raises the bid.                   *)
Ladder(Bids, Rung) ==
  /\ computeFee(Tier, Bytes) \in Bids /\ Rung \in [Bids -> Nat]
  /\ \A f \in Bids : ~Exhausted(Tier, f) =>
       bumpFee(Tier, f) \in Bids /\ Rung[bumpFee(Tier, f)] < Rung[f]

(* LongestStand with every restart and every failure there may be.         *)
LongestBid ==
  RbfAfter - 1 + (MaxFailed + 1) * SweepEvery + Latency + MaxRestarts * (SweepEvery + Latency)

(* The time a reservation is held is spent on the rungs below the bid.     *)
HeldInv(Bids, Rung) ==
  /\ fee \in Bids /\ restarts <= MaxRestarts /\ failed <= MaxFailed /\ held \in Nat
  /\ request \in {"reserving", "adding", "confirming"} => sweepPc = "idle" /\ held <= Latency
  /\ request = "reserving" => twin = "none"
  /\ request \in {"reserving", "adding", "confirming", "answered", "lost", "died"}
  /\ request = "lost" => sweepPc = "gone"
  /\ request \in {"adding", "confirming"} => reservation = "running"
  /\ request = "answered" /\ sweepPc # "gone" => reservation = "broadcast"
  /\ held + Rung[fee] * LongestBid <= Rung[computeFee(Tier, Bytes)] * LongestBid + age

LEMMA LiveWhile ==
  /\ reservation = "running" /\ held < RESERVE_RUNNING_MS => reservationLive
  /\ reservation = "broadcast" /\ held < RESERVE_BROADCAST_MS => reservationLive
<1>1. "running" # "none" /\ "broadcast" # "none" /\ "running" # "broadcast" /\ "broadcast" # "running"
  OBVIOUS
<1> QED
  BY <1>1, Zenon DEF reservationLive

LEMMA LongestBidIs ==
  ASSUME IInv, restarts <= MaxRestarts, failed <= MaxFailed
  PROVE  LongestBid \in Nat /\ (sweepPc # "gone" => age <= LongestBid)
<1> DEFINE turn == SweepEvery + Latency
<1>1. restarts \in Nat /\ failed \in Nat /\ MaxRestarts \in Nat /\ MaxFailed \in Nat /\ turn \in Nat
      /\ SweepEvery \in Nat
  BY ClockAssumption DEF IInv
<1>2. \A m, n, k \in Nat : m <= n => m * k \in Nat /\ n * k \in Nat /\ m * k <= n * k
  OBVIOUS
<1>3. /\ restarts * turn \in Nat /\ MaxRestarts * turn \in Nat /\ restarts * turn <= MaxRestarts * turn
      /\ failed * SweepEvery \in Nat /\ MaxFailed * SweepEvery \in Nat
      /\ failed * SweepEvery <= MaxFailed * SweepEvery
  BY <1>1, <1>2
<1>4. Cost = restarts * turn + failed * SweepEvery
  BY DEF Cost
<1>5. LongestBid = RbfAfter - 1 + MaxFailed * SweepEvery + SweepEvery + Latency + MaxRestarts * turn
  <2>1. (MaxFailed + 1) * SweepEvery = MaxFailed * SweepEvery + SweepEvery
    BY <1>1, CostOfAnother
  <2> QED
    BY <1>3, <2>1, ClockAssumption DEF LongestBid
<1> HIDE DEF turn
<1>6. sweepPc # "gone" => age <= RbfAfter - 1 + SweepEvery + Latency + Cost
  <2>1. phase < SweepEvery /\ phase \in Nat /\ Cost \in Nat
    BY <1>3, <1>4 DEF IInv
  <2> QED
    BY <2>1, ClockAssumption DEF IInv
<1>7. RbfAfter \in Nat /\ RbfAfter >= 1 /\ Latency \in Nat /\ age \in Nat
  BY ClockAssumption DEF IInv
<1> QED
  BY <1>1, <1>3, <1>4, <1>5, <1>6, <1>7

(* One rung less leaves room for the longest that a bid can stand.         *)
LEMMA OneRungLess ==
  ASSUME NEW a \in Nat, NEW b \in Nat, a < b, NEW l \in Nat
  PROVE  a * l \in Nat /\ a * l + l <= b * l
<1>1. PICK c \in Nat : b = a + 1 + c
  <2>1. b - (a + 1) \in Nat /\ b = a + 1 + (b - (a + 1))
    OBVIOUS
  <2> QED
    BY <2>1
<1>2. b * l = a * l + l + c * l /\ c * l \in Nat
  BY <1>1
<1> QED
  BY <1>2

LEMMA HeldStep ==
  ASSUME NEW Bids, NEW Rung, Ladder(Bids, Rung), IInv, DueInv, RecordInv,
         HeldInv(Bids, Rung), [LifeNext]_<<clockVars, lifeVars>>
  PROVE  HeldInv(Bids, Rung)'
<1> USE DEF HeldInv
<1>1. CASE \/ reserveOriginNonce \/ addPending \/ confirmOriginNonce \/ Dies \/ Twin \/ Executes
           \/ UNCHANGED <<clockVars, lifeVars>>
  <2>1. UNCHANGED <<fee, age, restarts, failed, held>>
    BY <1>1 DEF reserveOriginNonce, addPending, confirmOriginNonce, Dies, Unrecorded, Twin, Executes,
                clockVars, lifeVars
  <2>2. CASE UNCHANGED <<request, reservation, sweepPc>>
    BY <1>1, <2>1, <2>2 DEF reserveOriginNonce, addPending, confirmOriginNonce, Dies, Twin, Executes,
                            lifeVars
  <2>3. CASE reserveOriginNonce \/ addPending \/ confirmOriginNonce
    BY <2>1, <2>3 DEF reserveOriginNonce, addPending, confirmOriginNonce, clockVars
  <2>4. CASE Dies
    BY <2>1, <2>4 DEF Dies, Unrecorded, clockVars
  <2> QED
    BY <1>1, <2>2, <2>3, <2>4 DEF Twin, Executes, clockVars, lifeVars
<1>2. CASE SweepFires \/ MinutePasses
  <2>1. /\ age' = age + 1 /\ held' = held + 1 /\ request \in {"answered", "died"} /\ age \in Nat
        /\ UNCHANGED <<fee, restarts, failed, request, reservation, twin>>
    BY <1>2 DEF SweepFires, MinutePasses, Passes, Recorded, Fires, Tick, TimePasses, IInv
  <2>2. sweepPc # "gone" \/ UNCHANGED sweepPc
    BY <1>2 DEF SweepFires, MinutePasses, Passes, Fires, Tick
  <2>3. LongestBid \in Nat /\ Rung[fee] \in Nat /\ Rung[computeFee(Tier, Bytes)] \in Nat
    BY LongestBidIs DEF Ladder
  <2>4. Rung[fee] * LongestBid \in Nat /\ Rung[computeFee(Tier, Bytes)] * LongestBid \in Nat
    BY <2>3
  <2>5. held' + Rung[fee'] * LongestBid <= Rung[computeFee(Tier, Bytes)] * LongestBid + age'
    BY <2>1, <2>4
  <2> QED
    BY <2>1, <2>2, <2>5
<1>3. CASE listPending \/ removePending \/ Broadcast
  <2>1. UNCHANGED <<fee, age, restarts, failed, sweepPc, held, request, reservation, twin>>
    BY <1>3 DEF listPending, removePending, Broadcast, clockVars
  <2> QED
    BY <2>1
<1>4. CASE PlanThrows \/ PlanBump \/ BroadcastFails \/ PlanDone
  <2>1. /\ UNCHANGED <<fee, age, restarts, held, request, reservation, twin>>
        /\ sweepPc \in {"reading", "bumping"}
    BY <1>4 DEF PlanThrows, PlanBump, BroadcastFails, PlanDone, Plan, NoncesThrow, BumpFails, Called,
                clockVars, RecordInv
  <2>2. failed' <= MaxFailed
    <3>1. failed \in Nat /\ failed <= MaxFailed /\ MaxFailed \in Nat
      BY ClockAssumption DEF IInv
    <3>2. failed' = failed \/ (failed' = failed + 1 /\ failed < MaxFailed)
      BY <1>4 DEF PlanThrows, PlanBump, BroadcastFails, PlanDone, Plan, NoncesThrow, BumpFails,
                  clockVars
    <3> QED
      BY <3>1, <3>2
  <2> QED
    BY <2>1, <2>2
<1>5. CASE AddReplacement
  <2>1. /\ sweepPc = "bumping" /\ sweepPc' = "idle" /\ fee' = bumpFee(Tier, fee) /\ age' = 0
        /\ restarts' = 0 /\ failed' = 0 /\ UNCHANGED <<held, request, reservation, twin>>
    BY <1>5 DEF AddReplacement, Bump
  <2>2. fee' \in Bids /\ Rung[fee'] \in Nat /\ Rung[fee] \in Nat /\ Rung[fee'] < Rung[fee]
        /\ Rung[computeFee(Tier, Bytes)] \in Nat
    BY <2>1 DEF DueInv, Ladder
  <2>3. age <= LongestBid /\ LongestBid \in Nat /\ age \in Nat
    BY <2>1, LongestBidIs DEF IInv
  <2>4. /\ Rung[fee'] * LongestBid \in Nat
        /\ Rung[fee'] * LongestBid + LongestBid <= Rung[fee] * LongestBid
    BY <2>2, <2>3, OneRungLess
  <2>5. Rung[fee] * LongestBid \in Nat /\ Rung[computeFee(Tier, Bytes)] * LongestBid \in Nat
    BY <2>2, <2>3
  <2>6. held + Rung[fee'] * LongestBid <= Rung[computeFee(Tier, Bytes)] * LongestBid + age'
    BY <2>1, <2>3, <2>4, <2>5
  <2>7. restarts' <= MaxRestarts /\ failed' <= MaxFailed
    BY <2>1, ClockAssumption
  <2>8. request = "died" \/ (request = "answered" /\ reservation = "broadcast")
    BY <2>1
  <2>9. held' + Rung[fee'] * LongestBid <= Rung[computeFee(Tier, Bytes)] * LongestBid + age'
    BY <2>1, <2>6
  <2> QED
    BY <2>1, <2>2, <2>7, <2>8, <2>9
<1>6. CASE releaseOriginNonce
  <2>1. /\ UNCHANGED <<fee, age, restarts, failed, held, request, twin>>
        /\ sweepPc = "reading" /\ sweepPc' = "gone"
    BY <1>6 DEF releaseOriginNonce, Done
  <2> QED
    BY <2>1
<1>7. CASE Restarts
  <2>1. /\ request \in {"answered", "died"} /\ sweepPc # "gone" /\ restarts' <= MaxRestarts
        /\ UNCHANGED <<fee, age, failed, held, request, reservation, twin>>
    <3>1. restarts' <= MaxRestarts
      BY <1>7, ClockAssumption DEF Restarts, Restart, IInv
    <3> QED
      BY <1>7, <3>1 DEF Restarts, Recorded, Restart
  <2> QED
    BY <2>1
<1> QED
  BY <1>1, <1>2, <1>3, <1>4, <1>5, <1>6, <1>7 DEF LifeNext

(* A swap that climbs is reserved.                                         *)
LEMMA ClimbingIsReserved ==
  ASSUME NEW Bids, NEW Rung, Ladder(Bids, Rung), Latency < RESERVE_RUNNING_MS,
         Rung[computeFee(Tier, Bytes)] * LongestBid < RESERVE_BROADCAST_MS,
         IInv, HeldInv(Bids, Rung), Climbing, request \notin {"reserving", "died"}
  PROVE  reservationLive
<1>1. CASE request \in {"adding", "confirming"}
  <2>1. held < RESERVE_RUNNING_MS
    BY <1>1, ClockAssumption, LifeAssumption DEF HeldInv
  <2> QED
    BY <1>1, <2>1, LiveWhile DEF HeldInv
<1>2. CASE request = "answered"
  <2>1. /\ Rung[fee] \in Nat /\ Rung[fee] > 0 /\ Rung[computeFee(Tier, Bytes)] \in Nat
    <3>1. fee \in Bids /\ ~Exhausted(Tier, fee)
      BY DEF HeldInv, Climbing
    <3>2. Rung[bumpFee(Tier, fee)] \in Nat /\ Rung[bumpFee(Tier, fee)] < Rung[fee]
      BY <3>1 DEF Ladder
    <3> QED
      BY <3>1, <3>2 DEF Ladder
  <2>2. LongestBid \in Nat /\ age <= LongestBid /\ age \in Nat
    BY LongestBidIs DEF HeldInv, Climbing, IInv
  <2>3. LongestBid <= Rung[fee] * LongestBid
    <3>1. PICK zero \in Nat : zero = 0
      OBVIOUS
    <3>2. zero * LongestBid + LongestBid <= Rung[fee] * LongestBid
      BY <2>1, <2>2, <3>1, OneRungLess
    <3> QED
      BY <2>2, <3>1, <3>2
  <2>4. Rung[fee] * LongestBid \in Nat /\ Rung[computeFee(Tier, Bytes)] * LongestBid \in Nat
    BY <2>1, <2>2
  <2>5. held < RESERVE_BROADCAST_MS
    BY <2>2, <2>3, <2>4, LifeAssumption DEF HeldInv
  <2> QED
    BY <1>2, <2>5, LiveWhile DEF HeldInv, Climbing
<1> QED
  BY <1>1, <1>2 DEF HeldInv, Climbing

(* What has stopped climbing does not start again, and a request that died *)
(* stays dead.                                                             *)
LEMMA RefusedStep ==
  ASSUME NEW Bids, NEW Rung, Ladder(Bids, Rung), Latency < RESERVE_RUNNING_MS,
         Rung[computeFee(Tier, Bytes)] * LongestBid < RESERVE_BROADCAST_MS,
         IInv, DueInv, RecordInv, HeldInv(Bids, Rung), RefusedWhileClimbing,
         [LifeNext]_<<clockVars, lifeVars>>
  PROVE  RefusedWhileClimbing'
<1>1. CASE Twin
  <2>1. UNCHANGED <<fee, sweepPc, mined, request>> /\ request # "reserving"
        /\ (twin' = "admitted" => ~reservationLive)
    BY <1>1 DEF Twin, clockVars
  <2> QED
    BY <2>1, ClimbingIsReserved DEF RefusedWhileClimbing, Climbing
<1>2. CASE ~Twin
  <2>1. twin' = twin /\ (mined => mined') /\ (request = "died" => request' = "died")
    BY <1>2 DEF LifeNext, reserveOriginNonce, addPending, confirmOriginNonce, Dies, Twin, Executes,
                Passes, SweepFires, MinutePasses, listPending, PlanThrows, PlanBump, PlanDone,
                Broadcast, BroadcastFails, removePending, AddReplacement, releaseOriginNonce,
                Restarts, lifeVars
  <2>2. ~Climbing => ~Climbing'
    <3>1. [Next]_clockVars
      BY StepClimbs
    <3>2. CASE Unrecorded
      BY <3>2 DEF Unrecorded, Climbing
    <3>3. CASE UNCHANGED clockVars
      BY <3>3 DEF Climbing, clockVars
    <3> QED
      BY <3>1, <3>2, <3>3 DEF Next, Climbing
  <2> QED
    BY <2>1, <2>2 DEF RefusedWhileClimbing
<1> QED
  BY <1>1, <1>2

(* store.ts, RESERVE_BROADCAST_MS: where the ladder of a tier, at its      *)
(* slowest, is shorter than a reservation with a txid, the same origin     *)
(* nonce is not admitted again before the swap executed or its bid reached *)
(* the tier, at any fee policy, timer and number of failing sweeps and     *)
(* restarts, unless the request died before it confirmed the reservation.  *)
THEOREM ReservationOutlastsLadder ==
  ASSUME NEW Bids, NEW Rung, Ladder(Bids, Rung), Latency < RESERVE_RUNNING_MS,
         Rung[computeFee(Tier, Bytes)] * LongestBid < RESERVE_BROADCAST_MS
  PROVE  LifeSpec => []RefusedWhileClimbing
<1> DEFINE Inv == IInv /\ DueInv /\ RecordInv /\ HeldInv(Bids, Rung) /\ RefusedWhileClimbing
<1>1. LifeInit => Inv
  <2> SUFFICES ASSUME LifeInit PROVE Inv
    OBVIOUS
  <2>1. IInv /\ DueInv /\ RecordInv /\ RefusedWhileClimbing
    BY InitInv, InitRecord DEF LifeInit, Init, DueInv, RefusedWhileClimbing
  <2>2. /\ fee = computeFee(Tier, Bytes) /\ restarts = 0 /\ failed = 0
        /\ held = age /\ age \in 0 .. Latency
        /\ request = "reserving" /\ twin = "none" /\ sweepPc = "idle"
    BY DEF LifeInit, Init
  <2>3. LongestBid \in Nat /\ Rung[fee] \in Nat
    BY <2>1, <2>2, LongestBidIs, ClockAssumption DEF Ladder
  <2>4. Rung[fee] * LongestBid \in Nat
    BY <2>3
  <2>5. HeldInv(Bids, Rung)
    BY <2>2, <2>4, ClockAssumption DEF HeldInv, Ladder
  <2> QED
    BY <2>1, <2>5
<1>2. Inv /\ [LifeNext]_<<clockVars, lifeVars>> => Inv'
  <2> SUFFICES ASSUME Inv, [LifeNext]_<<clockVars, lifeVars>> PROVE Inv'
    OBVIOUS
  <2>1. IInv' /\ DueInv' /\ RecordInv'
    BY StepClimbs, StepInv, DueStep, StepRecord
  <2> QED
    BY <2>1, HeldStep, RefusedStep
<1>3. Inv => RefusedWhileClimbing
  OBVIOUS
<1> QED
  BY <1>1, <1>2, <1>3, PTL DEF LifeSpec

(* The ladder of the default policy's high tier (config.ts POLICY), with a *)
(* minute for a tick: 800,000 climbs by ten percent to 880,000, 968,000    *)
(* and 1,000,000, three bumps ten minutes apart.                           *)
HighBids == {800000, 880000, 968000, 1000000}
HighRung == [f \in HighBids |-> IF f = 1000000 THEN 0 ELSE IF f = 968000 THEN 1
                                ELSE IF f = 880000 THEN 2 ELSE 3]

LEMMA HighLadder ==
  ASSUME TIERS[Tier] = 1000000, OpeningBid[Tier] = 800000, RbfBumpBips = 1000,
         MinFeePerByte = 1, Bytes <= 800000
  PROVE  Ladder(HighBids, HighRung) /\ computeFee(Tier, Bytes) = 800000
<1>1. computeFee(Tier, Bytes) = 800000
  BY ClockAssumption DEF computeFee, admissionFloor, AtMost, AtLeast
<1>2. HighRung \in [HighBids -> Nat]
  BY DEF HighRung
<1>3. /\ bumpFee(Tier, 800000) = 880000 /\ bumpFee(Tier, 880000) = 968000
      /\ bumpFee(Tier, 968000) = 1000000
  BY DEF bumpFee, AtMost, AtLeast
<1>4. /\ HighRung[1000000] = 0 /\ HighRung[968000] = 1 /\ HighRung[880000] = 2
      /\ HighRung[800000] = 3
  BY DEF HighRung, HighBids
<1>5. \A f \in HighBids : ~Exhausted(Tier, f) => f \in {800000, 880000, 968000}
  BY DEF HighBids, Exhausted
<1> QED
  BY <1>1, <1>2, <1>3, <1>4, <1>5 DEF Ladder, HighBids

(* With the code's own numbers the high tier's ladder ends in time, even   *)
(* when each bid stands through nine failing sweeps, nine restarts, or a   *)
(* mixture that costs as much.                                             *)
COROLLARY HighTierIsRefused ==
  ASSUME TIERS[Tier] = 1000000, OpeningBid[Tier] = 800000, RbfBumpBips = 1000,
         MinFeePerByte = 1, Bytes <= 800000,
         SweepEvery = 10, RbfAfter = 10, Latency <= 1, 10 * MaxFailed + 11 * MaxRestarts <= 99,
         RESERVE_RUNNING_MS = 2, RESERVE_BROADCAST_MS = 6 * 60
  PROVE  LifeSpec => []RefusedWhileClimbing
<1>1. Ladder(HighBids, HighRung) /\ HighRung[computeFee(Tier, Bytes)] = 3
  BY HighLadder DEF HighRung, HighBids
<1>2. LongestBid \in Nat /\ LongestBid <= 119
  BY ClockAssumption DEF LongestBid
<1>3. HighRung[computeFee(Tier, Bytes)] * LongestBid < RESERVE_BROADCAST_MS
  BY <1>1, <1>2
<1>4. Latency < RESERVE_RUNNING_MS
  BY ClockAssumption
<1> QED
  BY <1>1, <1>3, <1>4, ReservationOutlastsLadder
=============================================================================
