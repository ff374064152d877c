------------------------------ MODULE RbfClock ------------------------------
(***************************************************************************)
(* When the ladder climbs: planRbf and executeRbf against the clock, for   *)
(* one pending transaction.  Relay has the bids and the interleavings,     *)
(* without time; here is one record, with time.  SwapLife implements this  *)
(* over the store.                                                         *)
(*                                                                         *)
(* The timer fires every SweepEvery ticks whatever the last sweep did.     *)
(* A sweep plans with the time after its reads (relay.ts:157) and stamps   *)
(* the record with the time after its broadcast (relay.ts:171).  It may    *)
(* fail on the way: reading the nonces may throw, a bump be refused or     *)
(* throw, and what throws ends the sweep for every record behind it.       *)
(***************************************************************************)
EXTENDS FeePolicy

CONSTANTS
  Tier,       \* the record's tier
  SweepEvery, \* ticks between two runs of the timer
  RbfAfter,   \* rbfAfterSeconds[Tier], in ticks
  Latency,    \* ticks the chain calls of one sweep, or of one request, take
  Bytes,      \* length of the transaction
  MaxRestarts,\* bound: restarts of the relay while one bid stands
  MaxFailed   \* bound: sweeps that find one bid due and fail

(* A sweep or a request is over well before the next run of the timer.     *)
ASSUME ClockAssumption ==
  /\ Tier \in TierName
  /\ SweepEvery \in Nat /\ RbfAfter \in Nat /\ Latency \in Nat
  /\ Bytes \in Nat /\ MaxRestarts \in Nat /\ MaxFailed \in Nat
  /\ Latency < SweepEvery /\ Latency < RbfAfter

VARIABLES
  phase,   \* ticks since the timer last fired, or started
  age,     \* now - broadcastAt
  fee,     \* the record's fee
  restarts,\* since the bid was made
  failed,  \* sweeps since the bid was made that failed when it was due
  sweepPc  \* "idle", "reading" until the sweep has dropped the record or
           \* planned for it, "bumping"; "gone": dropped as executed, lost
           \* in a restart or never written

clockVars == <<phase, age, fee, restarts, failed, sweepPc>>

(* addPending: broadcastAt is when the request came, which is a little     *)
(* before the record is written.                                           *)
Init ==
  /\ phase \in 0 .. (SweepEvery - 1)
  /\ age \in 0 .. Latency
  /\ fee = computeFee(Tier, Bytes)
  /\ restarts = 0 /\ failed = 0
  /\ sweepPc = "idle"

(* The request dies with its transaction sent and no record written.       *)
Unrecorded ==
  /\ sweepPc = "idle" /\ fee = computeFee(Tier, Bytes) /\ age <= Latency
  /\ sweepPc' = "gone"
  /\ UNCHANGED <<phase, age, fee, restarts, failed>>

TimePasses ==
  /\ age' = age + 1
  /\ UNCHANGED <<fee, restarts, failed>>

(* setInterval, or the Cron Trigger; the last sweep is over by then.       *)
Fires ==
  /\ phase = SweepEvery - 1
  /\ sweepPc = "idle"
  /\ phase' = 0
  /\ sweepPc' = "reading"
  /\ TimePasses

Tick ==
  /\ phase < SweepEvery - 1
  /\ sweepPc # "idle" => phase < Latency
  /\ phase' = phase + 1
  /\ UNCHANGED sweepPc
  /\ TimePasses

(* Mutant: the wait has to be exceeded.                                    *)
Plan_Strict ==
  /\ sweepPc = "reading"
  /\ sweepPc' = IF age > RbfAfter /\ ~Exhausted(Tier, fee) THEN "bumping" ELSE "idle"
  /\ UNCHANGED <<phase, age, fee, restarts, failed>>

Plan ==
  /\ sweepPc = "reading"
  /\ sweepPc' = IF age >= RbfAfter /\ ~Exhausted(Tier, fee) THEN "bumping" ELSE "idle"
  /\ UNCHANGED <<phase, age, fee, restarts, failed>>

(* A chain call of the sweep throws before any bump.                       *)
NoncesThrow ==
  /\ sweepPc = "reading"
  /\ age >= RbfAfter => failed < MaxFailed
  /\ failed' = IF age >= RbfAfter THEN failed + 1 ELSE failed
  /\ sweepPc' = "idle"
  /\ UNCHANGED <<phase, age, fee, restarts>>

(* The sponsor nonce was executed.                                         *)
Done ==
  /\ sweepPc = "reading"
  /\ sweepPc' = "gone"
  /\ UNCHANGED <<phase, age, fee, restarts, failed>>

(* Broadcast, then replacePending with a new fee and broadcastAt.          *)
Bump ==
  /\ sweepPc = "bumping"
  /\ fee' = bumpFee(Tier, fee)
  /\ age' = 0
  /\ restarts' = 0 /\ failed' = 0
  /\ sweepPc' = "idle"
  /\ UNCHANGED phase

(* The broadcast is refused, or it or that of a record before it throws:   *)
(* the record stays as it is.                                              *)
BumpFails ==
  /\ sweepPc = "bumping"
  /\ failed < MaxFailed
  /\ failed' = failed + 1
  /\ sweepPc' = "idle"
  /\ UNCHANGED <<phase, age, fee, restarts>>

(* The process ends and starts again.  A sweep is cut short, and the       *)
(* record lost if it was being replaced or dropped; setInterval begins a   *)
(* new turn, the Cron Trigger does not.  A call to the store that throws   *)
(* ends a sweep in the same way.                                           *)
Restart ==
  /\ restarts < MaxRestarts
  /\ restarts' = restarts + 1
  /\ phase' \in {0, phase}
  /\ sweepPc' \in (IF sweepPc = "idle" THEN {"idle"} ELSE {"idle", "gone"})
  /\ UNCHANGED <<age, fee, failed>>

(* At its tier the record is stuck; nothing about it changes any more.     *)
Next ==
  \/ Unrecorded
  \/ /\ ~Exhausted(Tier, fee) /\ sweepPc # "gone"
     /\ \/ Fires \/ Tick \/ NoncesThrow \/ Plan \/ Done
        \/ Bump \/ BumpFails \/ Restart

Spec == Init /\ [][Next]_clockVars

(* The longest a bid can stand: a sweep finds it one tick short of         *)
(* RbfAfter, and the next one takes its time; each sweep that fails costs  *)
(* a turn of the timer, and each restart may cost one and the sweep it cut *)
(* short.                                                                  *)
LongestStand ==
  RbfAfter - 1 + (failed + 1) * SweepEvery + Latency + restarts * (SweepEvery + Latency)

(* executeRbf, "pending longer than the tier's rbfAfterSeconds": a bid     *)
(* below its tier is raised, and never stands longer than one wait, one    *)
(* turn of the timer and a sweep, a turn more for every sweep that failed  *)
(* to raise it and a turn and a sweep more for every restart.              *)
ClimbsInTime ==
  Exhausted(Tier, fee) \/ sweepPc = "gone" \/ age <= LongestStand

=============================================================================
