---------------------------- MODULE SwapContract ----------------------------
(***************************************************************************)
(* contracts/contracts/sbtc-gas-swap-v1.clar: what swap-sbtc-for-gas makes *)
(* of a call, and the network of its post-conditions.  Pure; the state it  *)
(* reads and writes is in Settlement.tla.                                  *)
(*                                                                         *)
(* A call is the user-signed transaction t; its sponsor is whoever co-     *)
(* signs.  w is the world it runs in: [feeRecipient, sbtc, stx, market].   *)
(* The token, the pools and the network's post-conditions are external:    *)
(* market[p] is what a sat buys in pool p and, for the pool that fills     *)
(* partially, how many sats it still takes.                                *)
(***************************************************************************)
EXTENDS Checks

CONSTANT MaxUint       \* the largest Clarity uint (2^128 - 1)

FEE_BIPS            == 50
BIPS_DENOM          == 10000
MAX_INTEGRATOR_BIPS == 100
TierValues          == {10000, 100000, 1000000}

(* Pools 1 (Bitflow XYK), 2 (Velar) and 3 (Bitflow DLMM), and the          *)
(* principals that send their STX.                                         *)
PoolIds   == {1, 2, 3}
VELAR     == 2
DLMM      == 3
PoolSends == <<"xyk-pool", "velar-pool", "dlmm-pool">>

FeeAt(amount, bips) == (amount * bips) \div BIPS_DENOM

(* bips is 0 when there is no integrator, whatever the argument says.      *)
CallBips(t)      == IF t.integrator = None THEN 0 ELSE t.bips
ServiceFee(t)    == FeeAt(t.amount, FEE_BIPS)
IntegratorFee(t) == FeeAt(t.amount, CallBips(t))
Net(t)           == t.amount - (ServiceFee(t) + IntegratorFee(t))

Overflows(t) == t.amount * FEE_BIPS > MaxUint \/ t.amount * CallBips(t) > MaxUint

(* The let bindings come before the first assert: a multiplication that    *)
(* overflows, or fees above the amount, end the call with a runtime error. *)
ArgumentChecks(t, sponsor) ==
  << Check(sponsor # None,                "u101"),
     Check(~Overflows(t) /\ Net(t) >= 0,  "runtime"),
     Check(t.amount > 0,                  "u102"),
     Check(t.tier \in TierValues,         "u103"),
     Check(t.minOut >= t.tier,            "u104"),
     Check(t.pool \in PoolIds,            "u105"),
     Check(t.bips <= MAX_INTEGRATOR_BIPS, "u106"),
     Check(Net(t) > 0,                    "u107"),
     Check(t.user # sponsor,              "u109") >>

(* What a pool takes of the net input, and pays for it.                    *)
Filled(p, net, market)   == IF p = DLMM /\ net > market[p].depth THEN market[p].depth ELSE net
Received(p, net, market) == Filled(p, net, market) * market[p].rate

VelarTakes(net)          == (net * 9970) \div 10000 > 0

Taken(t, w) == Filled(t.pool, Net(t), w.market)
Out(t, w)   == Received(t.pool, Net(t), w.market)

(* Everything the user sends in sBTC: both fees and what the pool takes.   *)
Spent(t, w) == ServiceFee(t) + IntegratorFee(t) + Taken(t, w)

(* Mutant: a pool pays before it has been paid.                            *)
TransferChecks_Unpaid(t, w) ==
  << Check(ServiceFee(t) > 0 => t.user # w.feeRecipient,             "sbtc u2"),
     Check(IntegratorFee(t) > 0 => t.user # t.integrator,            "sbtc u2"),
     Check(t.pool = VELAR => VelarTakes(Net(t)),                     "pool"),
     Check(Out(t, w) >= t.minOut,                                    "pool") >>

(* The transfers in the order of the code.  A transfer fails with u1 when  *)
(* the balance is short and with u2 when it goes to its own sender; a fee  *)
(* of zero is not transferred.  Every pool checks min-out before it pulls. *)
TransferChecks(t, w) ==
  << Check(ServiceFee(t) > 0 => t.user # w.feeRecipient,             "sbtc u2"),
     Check(w.sbtc[t.user] >= ServiceFee(t),                          "sbtc u1"),
     Check(IntegratorFee(t) > 0 => t.user # t.integrator,            "sbtc u2"),
     Check(w.sbtc[t.user] >= ServiceFee(t) + IntegratorFee(t),       "sbtc u1"),
     Check(t.pool = VELAR => VelarTakes(Net(t)),                     "pool"),
     Check(Out(t, w) >= t.minOut,                                    "pool"),
     Check(w.sbtc[t.user] >= Spent(t, w),                            "sbtc u1"),
     Check(Out(t, w) >= t.minOut,                                    "u108"),
     Check(w.stx[t.user] + Out(t, w) >= t.tier,                      "stx u1") >>

(* What principal p sends of an asset while the call runs.                 *)
Sends(t, w, p, asset) ==
  CASE p = t.user /\ asset = "sbtc"            -> Spent(t, w)
    [] p = t.user /\ asset = "stx"             -> t.tier
    [] p = PoolSends[t.pool] /\ asset = "stx"  -> Out(t, w)
    [] OTHER                                   -> 0

(* A post-condition [principal, asset, condition, amount] the user signed. *)
Meets(k, sent) ==
  \/ k.condition = "eq"  /\ sent = k.amount
  \/ k.condition = "lte" /\ sent <= k.amount
  \/ k.condition = "gte" /\ sent >= k.amount

Covered(t, p, asset) == \E k \in t.conditions : k.principal = p /\ k.asset = asset

(* In deny mode whatever moves must be named by a condition.               *)
PostConditionsHold(t, w) ==
  /\ \A k \in t.conditions : Meets(k, Sends(t, w, k.principal, k.asset))
  /\ t.mode = "deny" =>
       /\ Covered(t, t.user, "sbtc") /\ Covered(t, t.user, "stx")
       /\ Covered(t, PoolSends[t.pool], "stx")

(* swap-sbtc-for-gas: "ok", or the error; on any error nothing moves.      *)
swapSbtcForGas(t, sponsor, w) ==
  IF ~Passes(ArgumentChecks(t, sponsor)) THEN Verdict(ArgumentChecks(t, sponsor))
  ELSE IF ~Passes(TransferChecks(t, w)) THEN Verdict(TransferChecks(t, w))
  ELSE IF PostConditionsHold(t, w) THEN "ok" ELSE "abort_by_post_condition"

(* The tuple a swap that is ok returns, which the pool's fill is not in.   *)
OkTuple(t, w) ==
  [received |-> Out(t, w), rebate |-> t.tier, serviceFee |-> ServiceFee(t),
   integratorFee |-> IntegratorFee(t), poolId |-> t.pool]
=============================================================================
