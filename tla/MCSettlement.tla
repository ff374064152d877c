---------------------------- MODULE MCSettlement ----------------------------
(* Small instances of Settlement for TLC. *)
EXTENDS Settlement, TLC

CONSTANTS r1, r2, alice, dao, app, stranger

MCTierName   == {"low", "mid", "high"}
MCOpeningBid == [low |-> 8000, mid |-> 100001, high |-> 800000]
MCSbtc       == [a \in {alice, dao, app, stranger} \union MCTierName |->
                   IF a \in {alice, dao, "low"} THEN 301 ELSE 0]
MCStx        == [a \in {alice, dao, app, stranger} \union MCTierName |->
                   IF a = alice THEN 12000 ELSE IF a = dao THEN 0 ELSE 200000]
MCMarket     == [p \in {1, 2, 3} |-> [rate |-> 400, depth |-> 1000]]

input(u, amount, tier, pool, integrator, bips) ==
  [user |-> u, amount |-> amount, tier |-> tier, pool |-> pool, slippage |-> 1000,
   integrator |-> integrator, bips |-> bips]

(* A plain swap, one through the pool that may fill partially with an      *)
(* integrator, and one by the fee recipient.                               *)
MCInputs == {input(alice, 301, "mid", 1, None, 0), input(alice, 201, "low", 3, app, 100),
             input(dao, 200, "low", 2, None, 100)}

handMade(u, nonce, amount, tier, minOut, pool, integrator, bips) ==
  LET t == [defects |-> {}, user |-> u, nonce |-> nonce, amount |-> amount, tier |-> tier,
            minOut |-> minOut, pool |-> pool, integrator |-> integrator, bips |-> bips,
            mode |-> "deny", conditions |-> {}]
  IN  IF pool \in PoolIds THEN [t EXCEPT !.conditions = expectedPostConditions(t)] ELSE t

(* One transaction for every defect of the envelope, and for a wrong mode  *)
(* and missing post-conditions.                                            *)
MCDefective ==
  LET good == handMade(alice, 0, 201, 10000, 60000, 3, app, 100)
  IN  {[good EXCEPT !.defects = {Defects[d], "BAD_ARGS"}] : d \in DOMAIN Defects}
      \union {[good EXCEPT !.mode = "allow"], [good EXCEPT !.conditions = {}]}

(* Two signed swaps of one user, at the nonces n and n + 1, each within    *)
(* the balance alone: at the lower price the whole amount of the first     *)
(* would just fetch its min-out, the net does not; the second's just does. *)
MCQueue == {handMade(alice, 0, 301, 10000, 30001, 1, None, 0),
            handMade(alice, 1, 201, 10000, 19800, 3, app, 100)}
(* One whose service fee does not fit the contract's uint.                 *)
MCHuge     == handMade(alice, 0, 60201, 10000, 19800, 1, None, 0)
MCHandMade == {MCHuge} \union MCQueue \union MCDefective
=============================================================================
