------------------------------- MODULE Quotes -------------------------------
(***************************************************************************)
(* sdk/src/quote: what each pool would pay in uSTX for an input in sats,   *)
(* computed from one read of its state, and the pool a swap goes through.  *)
(* The price impact, which is only shown, is left out.                     *)
(***************************************************************************)
EXTENDS Integers, Sequences, FiniteSetsExt

CONSTANTS
  PriceScale,     \* PRICE_SCALE: a bin's price is sats per uSTX times this
  DlmmMinOutput   \* DLMM_MIN_OUTPUT_USTX

ASSUME QuotesAssumption == PriceScale \in Nat \ {0} /\ DlmmMinOutput \in Nat

BPS           == 10000
RouterMaxBins == 350

lesser(a, b) == IF a <= b THEN a ELSE b

share(n, bips) == (n * bips) \div BPS

PoolQuote(pool, out, reserve, partial) ==
  [poolId |-> pool, out |-> out, reserveStx |-> reserve, partial |-> partial]

-----------------------------------------------------------------------------
(* What a read of each pool brings: balances of any size, fees that leave  *)
(* some of the input, the bins at rising prices and at most those a router *)
(* walks.                                                                  *)

XykState(s) ==
  /\ s \in [xBalance : Nat, yBalance : Nat, protocolFeeBips : Nat, providerFeeBips : Nat,
            enabled : BOOLEAN]
  /\ s.protocolFeeBips + s.providerFeeBips <= BPS

VelarState(s) == s \in [reserveStx : Nat, reserveSbtc : Nat, feeNum : Nat, feeDen : Nat \ {0}]

DlmmBin == [price : Nat \ {0}, xBalance : Nat, yBalance : Nat]

DlmmState(s) ==
  /\ s.feeBips \in 0 .. BPS - 1
  /\ s.bins \in Seq(DlmmBin) /\ Len(s.bins) <= RouterMaxBins
  /\ \A n \in 1 .. Len(s.bins) - 1 : s.bins[n].price <= s.bins[n + 1].price

-----------------------------------------------------------------------------
(* The constant-product pools: no output for no input, no reserves, or a   *)
(* pool that is off.                                                       *)

afterFees(s, inSats) ==
  inSats - share(inSats, s.protocolFeeBips) - share(inSats, s.providerFeeBips)

quoteXyk(s, inSats) ==
  LET dx     == afterFees(s, inSats)
      trades == s.enabled /\ inSats > 0 /\ s.xBalance > 0 /\ s.yBalance > 0
  IN  PoolQuote(1, IF trades THEN (s.yBalance * dx) \div (s.xBalance + dx) ELSE 0,
                s.yBalance, FALSE)

adjusted(s, inSats) == (inSats * s.feeNum) \div s.feeDen

quoteVelar(s, inSats) ==
  LET adj    == adjusted(s, inSats)
      trades == inSats > 0 /\ s.reserveStx > 0 /\ s.reserveSbtc > 0 /\ adj > 0
  IN  PoolQuote(2, IF trades THEN (s.reserveStx * adj) \div (s.reserveSbtc + adj) ELSE 0,
                s.reserveStx, FALSE)

-----------------------------------------------------------------------------
(* DLMM: the active bin and those read above it, at rising prices.         *)

(* Mutant: the sats that empty a bin are rounded down.                     *)
emptiesBin_Floors(s, bin) ==
  (((bin.xBalance * bin.price) \div PriceScale) * BPS) \div (BPS - s.feeBips)

(* The input that takes all the STX of a bin, fee included.                *)
emptiesBin(s, bin) ==
  (((bin.xBalance * bin.price + PriceScale - 1) \div PriceScale) * BPS) \div (BPS - s.feeBips)

fillBin(s, acc, bin) ==
  LET used == lesser(acc.remaining, emptiesBin(s, bin))
      dy   == used - share(used, s.feeBips)
  IN  IF acc.remaining = 0 \/ acc.binsUsed >= RouterMaxBins THEN acc
      ELSE IF bin.xBalance = 0 /\ bin.yBalance = 0 THEN [acc EXCEPT !.binsUsed = @ + 1]
      ELSE [remaining |-> acc.remaining - used, binsUsed |-> acc.binsUsed + 1,
            out |-> acc.out + lesser((dy * PriceScale) \div bin.price, bin.xBalance)]

(* The STX of the first n bins.                                            *)
reserve(s) ==
  LET sum[n \in 0 .. Len(s.bins)] == IF n = 0 THEN 0 ELSE sum[n - 1] + s.bins[n].xBalance
  IN  sum

dlmmReserve(s) == reserve(s)[Len(s.bins)]

(* The walk after the first n bins.                                        *)
walk(s, inSats) ==
  LET after[n \in 0 .. Len(s.bins)] ==
        IF n = 0 THEN [remaining |-> inSats, binsUsed |-> 0, out |-> 0]
        ELSE fillBin(s, after[n - 1], s.bins[n])
  IN  after

quoteDlmm(s, inSats) ==
  LET end == walk(s, inSats)[Len(s.bins)]
  IN  PoolQuote(3, end.out, dlmmReserve(s), end.remaining > 0)

-----------------------------------------------------------------------------
quotePool(pool, s, inSats) ==
  IF pool = 1 THEN quoteXyk(s, inSats)
  ELSE IF pool = 2 THEN quoteVelar(s, inSats)
  ELSE quoteDlmm(s, inSats)

live(quotes) == {q \in quotes : q.out > 0}

(* Mutant: the DLMM is always a candidate.                                 *)
eligible_AllLive(quotes) == live(quotes)

(* The DLMM's walk costs more than a small swap saves.                     *)
eligible(quotes) ==
  LET bestOther == Max({0} \union {q.out : q \in {o \in live(quotes) : o.poolId # 3}})
  IN  {q \in live(quotes) : q.poolId # 3 \/ bestOther = 0 \/ bestOther >= DlmmMinOutput}

better(a, b) ==
  \/ a.out > b.out
  \/ a.out = b.out /\ a.reserveStx > b.reserveStx
  \/ a.out = b.out /\ a.reserveStx = b.reserveStx /\ a.poolId < b.poolId

(* Where no quote is live selectPool throws.                               *)
selectPool(quotes) ==
  LET candidates == eligible(quotes)
  IN  CHOOSE q \in candidates : \A other \in candidates \ {q} : better(q, other)

-----------------------------------------------------------------------------
(* What a quote should be, without the code's formulas.                    *)

(* A constant-product pool pays d for dx: the most that does not lower the *)
(* product of its reserves.                                                *)
Pays(x, y, dx, d) ==
  (x + dx) * (y - d) >= x * y /\ (x + dx) * (y - d - 1) < x * y

(* What the n-th bin has part in out uSTX drawn cheapest first.            *)
drawn(s, out, n) ==
  LET left == out - reserve(s)[n - 1]
  IN  IF left > 0 THEN lesser(s.bins[n].xBalance, left) ELSE 0

(* What out uSTX cost at the prices of the bins, in sats times PriceScale: *)
(* the part of the first n.                                                *)
worth(s, out) ==
  LET sum[n \in 0 .. Len(s.bins)] ==
        IF n = 0 THEN 0 ELSE sum[n - 1] + drawn(s, out, n) * s.bins[n].price
  IN  sum

Worth(s, out) == worth(s, out)[Len(s.bins)]

(* A quote of the DLMM either takes all its STX, or is worth the input     *)
(* after fees to within two sats for each bin.                             *)
FairWalk(s, inSats, q) ==
  LET net == (inSats - share(inSats, s.feeBips)) * PriceScale
      gap == 2 * Len(s.bins) * PriceScale
  IN  IF q.partial THEN q.out = dlmmReserve(s) /\ Worth(s, q.out) <= net + gap
      ELSE Worth(s, q.out) \in (net - gap) .. (net + gap)

(* A pool that is paid inSats can pay d: the product of its reserves does  *)
(* not fall, or d is worth no more than the input and a sat for each bin.  *)
XykCanPay(s, inSats, d) ==
  LET dx == afterFees(s, inSats)
  IN  s.enabled /\ (s.xBalance + dx) * (s.yBalance - d) >= s.xBalance * s.yBalance

VelarCanPay(s, inSats, d) ==
  LET dx == adjusted(s, inSats)
  IN  (s.reserveSbtc + dx) * (s.reserveStx - d) >= s.reserveSbtc * s.reserveStx

DlmmCanPay(s, inSats, d) ==
  d <= dlmmReserve(s) /\ Worth(s, d) <= (inSats + Len(s.bins)) * PriceScale

CanPay(pool, s, inSats, d) ==
  IF pool = 1 THEN XykCanPay(s, inSats, d)
  ELSE IF pool = 2 THEN VelarCanPay(s, inSats, d)
  ELSE DlmmCanPay(s, inSats, d)

Fair(pool, s, inSats, q) ==
  IF pool = 1
    THEN IF s.enabled /\ s.xBalance > 0 /\ s.yBalance > 0
         THEN Pays(s.xBalance, s.yBalance, afterFees(s, inSats), q.out)
         ELSE q.out = 0
  ELSE IF pool = 2
    THEN IF s.reserveSbtc > 0 /\ s.reserveStx > 0
         THEN Pays(s.reserveSbtc, s.reserveStx, adjusted(s, inSats), q.out)
         ELSE q.out = 0
  ELSE FairWalk(s, inSats, q)
=============================================================================
