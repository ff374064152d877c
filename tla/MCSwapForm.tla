----------------------------- MODULE MCSwapForm -----------------------------
(* Small instances of SwapForm for TLC: about 400 uSTX for a sat. *)
EXTENDS SwapForm, TLC

CONSTANTS alice, bob, app, near, far

MCBalanceOf   == alice :> 1301 @@ bob :> 199
MCMinTier     == near :> "mid" @@ far :> "low"

xyk(y, enabled) == [xBalance |-> 1000, yBalance |-> y, protocolFeeBips |-> 10,
                    providerFeeBips |-> 40, enabled |-> enabled]
velar(stx) == [reserveStx |-> stx, reserveSbtc |-> 900, feeNum |-> 9970, feeDen |-> 10000]
bin(price, x, y) == [price |-> price, xBalance |-> x, yBalance |-> y]
dlmm(x) == [feeBips |-> 50, bins |-> <<bin(23, 3001, 5), bin(24, 0, 0), bin(25, x, 0)>>]

(* The bins pay best; then trades leave them with little, and a pool off.  *)
MCWorlds == << <<xyk(400000, TRUE), velar(350000), dlmm(90001)>>,
               <<xyk(400000, FALSE), velar(200000), dlmm(20001)>> >>

entry(amount, unit, tier, slippage) ==
  [amount |-> amount, unit |-> unit, tier |-> tier, slippage |-> slippage]

(* "30" sats; "0.00001301" BTC at 10.05 percent; and a ninth decimal.      *)
MCEntries == { entry(plain(30), "sats", None, None),
               entry(Text(0, "point", 1301, SatsPerBtc), "btc", "low", Text(10, "point", 5, 100)),
               entry(Text(None, "point", 301, 10 * SatsPerBtc), "btc", None, None) }
=============================================================================
