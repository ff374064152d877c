------------------------------- MODULE MCRelay -------------------------------
(* Small instances of Relay for TLC. *)
EXTENDS Relay, TLC

CONSTANTS r1, r2, r3, alice, bob, carol, w1, w2

(* A scaled fee policy: low climbs 2, 3, 4; high climbs 6, 7.              *)
MCBothTiers == [low |-> 4, high |-> 7]
MCBothTiersOpening == [low |-> 2, high |-> 6]
MCBothTiersNames == {"low", "high"}
MCLowTierNames == {"low"}
MCLowTier == [low |-> 4]
MCLowTierOpening == [low |-> 2]
(* A tier that opens at its limit: no ladder, for runs about nonces.       *)
MCFlatTierNames == {"low"}
MCFlatTier == [low |-> 4]
MCFlatTierOpening == [low |-> 5]

(* Three tiers, for a relay whose minimum is the middle one: mid opens     *)
(* below the floor, high above its tier.                                   *)
MCAllTiersNames == {"low", "mid", "high"}
MCAllTiers == [low |-> 3, mid |-> 4, high |-> 7]
MCAllTiersOpening == [low |-> 1, mid |-> 0, high |-> 8]

swapOf(o, n, t) == [origin |-> o, nonce |-> n, tier |-> t, bytes |-> 1]

(* alice submits one signed swap twice, and at the same origin nonce       *)
(* another on the other tier.                                              *)
MCTwinSwap == (r1 :> swapOf(alice, 0, "low")) @@ (r2 :> swapOf(alice, 0, "high"))
              @@ (r3 :> swapOf(alice, 0, "low"))
(* The same signed transaction submitted twice, and bob.                   *)
MCResubmitSwap == (r1 :> swapOf(alice, 0, "low")) @@ (r2 :> swapOf(alice, 0, "low"))
                  @@ (r3 :> swapOf(bob, 0, "low"))
(* The same, with bob's transaction too long for his tier's floor.         *)
MCTooLongSwap == (r3 :> [origin |-> bob, nonce |-> 0, tier |-> "low", bytes |-> 5])
                 @@ MCResubmitSwap
(* alice on two tiers, and bob on one below the minimum.                   *)
MCMinimumSwap == (r1 :> swapOf(alice, 0, "mid")) @@ (r2 :> swapOf(alice, 0, "high"))
                 @@ (r3 :> swapOf(bob, 0, "low"))
(* Three users of one key.                                                 *)
MCCrowdSwap == (r1 :> swapOf(alice, 0, "low")) @@ (r2 :> swapOf(bob, 0, "low"))
               @@ (r3 :> swapOf(carol, 0, "low"))
(* The same, with bob and carol's transactions so long that they open at   *)
(* the tier's limit, while alice's climbs.  bob and carol, each with the   *)
(* request, are interchangeable.                                           *)
MCLadderSwap == (r1 :> swapOf(alice, 0, "low"))
                @@ (r2 :> [origin |-> bob, nonce |-> 0, tier |-> "low", bytes |-> 4])
                @@ (r3 :> [origin |-> carol, nonce |-> 0, tier |-> "low", bytes |-> 4])
MCLadderSymmetry == {(r2 :> r3) @@ (r3 :> r2) @@ (bob :> carol) @@ (carol :> bob)}
=============================================================================
