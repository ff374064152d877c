----------------------------- MODULE Sponsoring -----------------------------
(***************************************************************************)
(* What a relay promises of the transactions it pays for, with nothing of  *)
(* how it keeps its word: no store, no requests, no sweeps.  Relay.tla     *)
(* implements it (RefinesSponsoring there).                                *)
(*                                                                         *)
(* A bid is a transaction the sponsor signed: [swap, nonce, fee].          *)
(***************************************************************************)
EXTENDS FeePolicy

VARIABLES
  waiting,      \* bids in the mempool
  taken         \* every bid the network ever took

Of(b)          == <<b.swap.origin, b.swap.nonce>>
Opening(b)     == computeFee(b.swap.tier, b.swap.bytes)
RungAbove(b)   == [b EXCEPT !.fee = bumpFee(b.swap.tier, b.fee)]
SameSlot(b, c) == b.swap.tier = c.swap.tier /\ b.nonce = c.nonce

Init == waiting = {} /\ taken = {}

(* A swap is sponsored: at its tier's opening bid, only while no other bid *)
(* waits for the same origin nonce, and displacing no other user's bid.    *)
Open(b) ==
  /\ b.fee = Opening(b)
  /\ \A c \in waiting : Of(c) # Of(b) /\ ~SameSlot(b, c)
  /\ waiting' = waiting \union {b}
  /\ taken' = taken \union {b}

(* A bid taken before is raised by one rung: the same swap at the same     *)
(* sponsor nonce, in place of a cheaper version of itself.                 *)
Climb(b) ==
  /\ \E c \in taken : c.fee < b.fee /\ b = RungAbove(c)
  /\ \A c \in waiting : (Of(c) = Of(b) \/ SameSlot(b, c)) =>
       c = b \/ (c.fee < b.fee /\ b = [c EXCEPT !.fee = b.fee])
  /\ waiting' = {c \in waiting : Of(c) # Of(b)} \union {b}
  /\ taken' = taken \union {b}

(* Bids leave the mempool, mined, overtaken or lost.                       *)
Leave == waiting' \subseteq waiting /\ UNCHANGED taken

Next == Leave \/ \E b \in taken' : Open(b) \/ Climb(b)

Spec == Init /\ [][Next]_<<waiting, taken>>
=============================================================================
