------------------------------- MODULE Amounts -------------------------------
(***************************************************************************)
(* app/src/amounts.js: amounts and slippages between numbers and the texts *)
(* of the page.  A text is what it says: [whole, mark, frac, scale], the   *)
(* number before the mark (None where there is no digit), the mark (none,  *)
(* a point or a comma), the number behind it and the power of ten that its *)
(* digits count in (100 for two digits, 1 where there are none).  Of the   *)
(* commas that group thousands the last one is kept.                       *)
(***************************************************************************)
EXTENDS Checks

SatsPerBtc == 100000000    \* SATS_PER_BTC

Text(whole, mark, frac, scale) == [whole |-> whole, mark |-> mark, frac |-> frac, scale |-> scale]

Texts == [whole : Nat \union {None}, mark : {"none", "point", "comma"},
          frac : Nat, scale : Nat \ {0}]

plain(n) == Text(n, "none", 0, 1)

digits(n) == IF n = None THEN 0 ELSE n

-----------------------------------------------------------------------------
(* Reading.  A text that is refused reads None.                            *)

(* Every comma is taken out, wherever it stands.                           *)
dropCommas(t) ==
  IF t.mark = "comma" THEN plain(digits(t.whole) * t.scale + t.frac) ELSE t

(* In units of which one whole has so many; zeros for the digits that miss.*)
scaled(t, units) == digits(t.whole) * units + t.frac * (units \div t.scale)

(* At most the digits that count in units.                                 *)
fits(t, units) == t.mark = "point" /\ t.scale > 1 /\ t.scale <= units

aboveZero(sats) == IF sats = 0 THEN None ELSE sats

parseAmount(text, unit) ==
  LET t     == dropCommas(text)
      whole == t.mark = "none" /\ t.whole # None
      btc   == whole \/ fits(t, SatsPerBtc)
  IN  IF unit = "sats" THEN IF whole THEN aboveZero(t.whole) ELSE None
      ELSE IF btc THEN aboveZero(scaled(t, SatsPerBtc)) ELSE None

(* Percent with at most two decimals, 0.1 to 99; no comma is taken out.    *)
pctToBips(t) == scaled(t, 100)

parseSlippagePct(t) ==
  LET bips == pctToBips(t)
  IN  IF /\ t.whole # None /\ (t.mark = "none" \/ fits(t, 100))
         /\ bips >= 10 /\ bips <= 9900
      THEN bips ELSE None

-----------------------------------------------------------------------------
(* Writing.                                                                *)

group(n) == IF n < 1000 THEN plain(n) ELSE Text(n \div 1000, "comma", n % 1000, 1000)

fmtSats(sats) == group(sats)

fmtBtc(sats) == Text(sats \div SatsPerBtc, "point", sats % SatsPerBtc, SatsPerBtc)

(* Mutant: the hundredths are not filled up with a zero in front.          *)
fmtBips_Unpadded(bips) ==
  LET frac == bips % 100
  IN  IF frac = 0 THEN plain(bips \div 100)
      ELSE Text(bips \div 100, "point", frac, IF frac < 10 THEN 10 ELSE 100)

(* Two places, without the zeros at the end.                               *)
fmtBips(bips) ==
  LET frac == bips % 100
  IN  IF frac = 0 THEN plain(bips \div 100)
      ELSE IF frac % 10 = 0 THEN Text(bips \div 100, "point", frac \div 10, 10)
      ELSE Text(bips \div 100, "point", frac, 100)

bipsToPct(bips) == fmtBips(bips)
=============================================================================
