---------------------------- MODULE MCSponsorCall ----------------------------
(* Small instances of SponsorCall for TLC. *)
EXTENDS SponsorCall, TLC
CONSTANTS r1, r2, r3, alice, bob
MCOrigin == (r1 :> alice) @@ (r2 :> alice) @@ (r3 :> bob)
(* One request with all its chain calls; three that contend for the windows *)
(* and find their nonce in flight.                                         *)
MCDays ==
  {[come |-> {r1}, reserved |-> {r1}, atomic |-> TRUE]} \union
  {[come |-> {r1, r2, r3}, reserved |-> {}, atomic |-> a] : a \in BOOLEAN}
(* Long after the last put, just short of an hour, and an hour; without a  *)
(* gap a put is always less than a minute old.                             *)
MCGaps   == {HOUR \div 2, HOUR - 1, HOUR}
=============================================================================
