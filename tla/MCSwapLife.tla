----------------------------- MODULE MCSwapLife -----------------------------
(* The default policy in thousands of micro-STX and minutes: high climbs   *)
(* 800, 880, 968, 1000, a bump every ten minutes; a minute for the chain   *)
(* calls of a sweep is generous.                                           *)
EXTENDS SwapLife

MCTierName   == {"low", "mid", "high"}
MCTIERS      == [low |-> 10, mid |-> 100, high |-> 1000]
MCOpeningBid == [low |-> 3, mid |-> 6, high |-> 800]
MCTierNames  == <<"low", "mid", "high">>
=============================================================================
