----------------------------- MODULE MCSwapPage -----------------------------
(* Small instances of SwapPage for TLC. *)
EXTENDS SwapPage, TLC

CONSTANTS near, far

MCRanked  == <<near, far>>
MCEarlier == <<"success">>
MCNone    == <<>>
=============================================================================
