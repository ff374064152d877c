--------------------------- MODULE SwapFormProofs ---------------------------
(***************************************************************************)
(* The form for any number of accounts, overlapping refreshes, worlds and  *)
(* failures, and any amounts, pools and bins.                              *)
(*                                                                         *)
(* First what the operators compute: texts that read back as what they     *)
(* were written from; what each pool pays, against what its reserves or    *)
(* its bins are worth; which pool is selected.  Then the page: the newest  *)
(* refresh is the only one that writes, and on a page that was not opened  *)
(* from a txid every new account starts one, so that the newest always     *)
(* reads for the account connected.  Last, the two joined: what is         *)
(* committed, what the wallet is asked for, and what the integrations      *)
(* would have built from the same reads.                                   *)
(***************************************************************************)
EXTENDS SwapForm, NatFacts

-----------------------------------------------------------------------------
(* Texts                                                                   *)

(* A whole number reads as itself.                                         *)
LEMMA NoneIsNoNumber == \A n \in Nat : n # None
BY FormAssumption

LEMMA DigitsOfNat == \A n \in Nat : digits(n) = n /\ n # None
BY NoneIsNoNumber DEF digits

LEMMA SatsReadBack ==
  ASSUME NEW n \in Nat \ {0}
  PROVE  parseAmount(fmtSats(n), "sats") = n
<1>1. CASE n < 1000
  <2>1. fmtSats(n) = Text(n, "none", 0, 1)
    BY <1>1 DEF fmtSats, group, plain
  <2> QED BY <2>1, DigitsOfNat DEF parseAmount, dropCommas, Text, aboveZero
<1>2. CASE ~(n < 1000)
  <2> DEFINE q == n \div 1000
             m == n % 1000
  <2>1. q \in Nat /\ m \in Nat /\ n = q * 1000 + m
    OBVIOUS
  <2>2. fmtSats(n) = Text(q, "comma", m, 1000)
    BY <1>2 DEF fmtSats, group
  <2> HIDE DEF q, m
  <2>3. dropCommas(Text(q, "comma", m, 1000)) = plain(q * 1000 + m)
    BY <2>1, DigitsOfNat DEF dropCommas, Text
  <2>4. dropCommas(fmtSats(n)) = Text(n, "none", 0, 1)
    BY <2>1, <2>2, <2>3 DEF plain
  <2> QED BY <2>4, DigitsOfNat DEF parseAmount, Text, aboveZero
<1> QED
  BY <1>1, <1>2

LEMMA BtcReadsBack ==
  ASSUME NEW n \in Nat \ {0}
  PROVE  parseAmount(fmtBtc(n), "btc") = n
<1> DEFINE q == n \div SatsPerBtc
           m == n % SatsPerBtc
           t == Text(q, "point", m, SatsPerBtc)
<1>1. q \in Nat /\ m \in Nat /\ n = q * SatsPerBtc + m
  BY DEF SatsPerBtc
<1>2. fmtBtc(n) = t
  BY DEF fmtBtc
<1> HIDE DEF q, m
<1>3. t.whole = q /\ t.mark = "point" /\ t.frac = m /\ t.scale = SatsPerBtc
  BY DEF Text
<1> HIDE DEF t
<1>4. dropCommas(t) = t /\ fits(t, SatsPerBtc)
  BY <1>3 DEF dropCommas, fits, SatsPerBtc
<1>5. scaled(t, SatsPerBtc) = n
  <2>1. SatsPerBtc \div SatsPerBtc = 1
    BY DEF SatsPerBtc
  <2>2. digits(t.whole) = q
    BY <1>1, <1>3, DigitsOfNat
  <2>3. scaled(t, SatsPerBtc) = q * SatsPerBtc + m * 1
    BY <1>3, <2>1, <2>2 DEF scaled
  <2> QED BY <1>1, <2>3
<1> QED
  BY <1>2, <1>4, <1>5 DEF parseAmount, aboveZero

SlippageRange == 10 .. 9900    \* in bips: 0.1 % to 99 %

LEMMA BipsReadBack ==
  ASSUME NEW b \in SlippageRange
  PROVE  parseSlippagePct(fmtBips(b)) = b
<1>9. b \in 10 .. 9900
  BY DEF SlippageRange
<1> DEFINE w == b \div 100
           f == b % 100
<1>1. w \in Nat /\ f \in Nat /\ f < 100 /\ b = w * 100 + f
  BY <1>9
<1>3. fmtBips(b) = IF f = 0 THEN plain(w)
                   ELSE IF f % 10 = 0 THEN Text(w, "point", f \div 10, 10)
                   ELSE Text(w, "point", f, 100)
  BY DEF fmtBips
<1> HIDE DEF w, f
<1>2. f % 10 = 0 => f = (f \div 10) * 10
  BY <1>1
<1>4. ASSUME NEW t, t.whole = w, scaled(t, 100) = b, t.mark = "none" \/ fits(t, 100)
      PROVE  parseSlippagePct(t) = b
  <2>1. t.whole # None
    BY <1>1, <1>4, DigitsOfNat
  <2>2. b >= 10 /\ b <= 9900
    BY <1>9
  <2> DEFINE n == scaled(t, 100)
             ok == t.whole # None /\ (t.mark = "none" \/ fits(t, 100))
  <2>3. n = b /\ ok
    BY <1>4, <2>1
  <2>4. parseSlippagePct(t) = IF ok /\ n >= 10 /\ n <= 9900 THEN n ELSE None
    BY DEF parseSlippagePct, pctToBips
  <2> HIDE DEF n, ok
  <2> QED BY <2>2, <2>3, <2>4
<1>5. digits(w) = w
  BY <1>1, DigitsOfNat
<1>6. CASE f = 0
  <2> DEFINE t == plain(w)
  <2>1. t.whole = w /\ t.mark = "none" /\ t.frac = 0 /\ t.scale = 1
    BY DEF plain, Text
  <2> HIDE DEF t
  <2>2. scaled(t, 100) = w * 100 + 0 * (100 \div 1)
    BY <1>5, <2>1 DEF scaled
  <2>3. scaled(t, 100) = b
    BY <1>1, <1>6, <2>2
  <2>4. parseSlippagePct(t) = b
    BY <1>4, <2>1, <2>3
  <2> QED BY <1>3, <1>6, <2>4 DEF t
<1>7. CASE f # 0 /\ f % 10 = 0
  <2> DEFINE t == Text(w, "point", f \div 10, 10)
  <2>1. t.whole = w /\ t.mark = "point" /\ t.frac = f \div 10 /\ t.scale = 10
    BY DEF Text
  <2> HIDE DEF t
  <2>2. scaled(t, 100) = w * 100 + (f \div 10) * (100 \div 10)
    BY <1>5, <2>1 DEF scaled
  <2>3. scaled(t, 100) = b /\ fits(t, 100)
    BY <1>1, <1>2, <1>7, <2>1, <2>2 DEF fits
  <2>4. parseSlippagePct(t) = b
    BY <1>4, <2>1, <2>3
  <2> QED BY <1>3, <1>7, <2>4 DEF t
<1>8. CASE f # 0 /\ f % 10 # 0
  <2> DEFINE t == Text(w, "point", f, 100)
  <2>1. t.whole = w /\ t.mark = "point" /\ t.frac = f /\ t.scale = 100
    BY DEF Text
  <2> HIDE DEF t
  <2>2. scaled(t, 100) = w * 100 + f * (100 \div 100)
    BY <1>5, <2>1 DEF scaled
  <2>3. scaled(t, 100) = b /\ fits(t, 100)
    BY <1>1, <2>1, <2>2 DEF fits
  <2>4. parseSlippagePct(t) = b
    BY <1>4, <2>1, <2>3
  <2> QED BY <1>3, <1>8, <2>4 DEF t
<1> QED
  BY <1>6, <1>7, <1>8

(* What is read is a positive number of sats, and a slippage within the    *)
(* page's limits.                                                          *)
LEMMA ReadAmount ==
  ASSUME NEW t \in Texts, NEW unit, parseAmount(t, unit) # None
  PROVE  parseAmount(t, unit) \in Nat \ {0}
<1> DEFINE d == dropCommas(t)
<1>1. d.whole \in Nat \union {None} /\ d.frac \in Nat /\ d.scale \in Nat \ {0}
  <2>1. t.whole \in Nat \union {None} /\ t.frac \in Nat /\ t.scale \in Nat \ {0}
    BY DEF Texts
  <2>2. CASE t.mark = "comma"
    <3> DEFINE n == digits(t.whole) * t.scale + t.frac
    <3>1. digits(t.whole) \in Nat
      BY <2>1 DEF digits
    <3>2. n \in Nat
      BY <2>1, <3>1
    <3>3. d = plain(n)
      BY <2>2 DEF dropCommas
    <3> HIDE DEF n, d
    <3> QED BY <3>2, <3>3 DEF plain, Text
  <2>3. CASE t.mark # "comma"
    <3>1. d = t
      BY <2>3 DEF dropCommas
    <3> HIDE DEF d
    <3> QED BY <2>1, <3>1
  <2> QED BY <2>2, <2>3
<1> HIDE DEF d
<1>2. scaled(d, SatsPerBtc) \in Nat
  <2>1. digits(d.whole) \in Nat
    BY <1>1 DEF digits
  <2>2. SatsPerBtc \in Nat
    BY DEF SatsPerBtc
  <2>3. SatsPerBtc \div d.scale \in Nat
    BY <1>1, <2>2
  <2> DEFINE k == SatsPerBtc \div d.scale
             n == digits(d.whole)
  <2>4. n * SatsPerBtc \in Nat /\ d.frac * k \in Nat
    <3> HIDE DEF k, n
    <3> QED BY <1>1, <2>1, <2>2, <2>3 DEF k, n
  <2> QED BY <2>4 DEF scaled
<1>3. \/ parseAmount(t, unit) = None
      \/ parseAmount(t, unit) = aboveZero(d.whole) /\ d.whole # None
      \/ parseAmount(t, unit) = aboveZero(scaled(d, SatsPerBtc))
  BY DEF parseAmount, d
<1> QED
  BY <1>1, <1>2, <1>3 DEF aboveZero

LEMMA ReadSlippage ==
  ASSUME NEW t \in Texts, parseSlippagePct(t) # None
  PROVE  parseSlippagePct(t) \in SlippageRange
<1> DEFINE n == scaled(t, 100)
<1>1. t.whole \in Nat \union {None} /\ t.frac \in Nat /\ t.scale \in Nat \ {0}
  BY DEF Texts
<1>2. digits(t.whole) \in Nat /\ 100 \div t.scale \in Nat
  BY <1>1 DEF digits
<1>3. n \in Nat
  <2> DEFINE k == 100 \div t.scale
             w == digits(t.whole)
  <2>1. k \in Nat /\ w \in Nat
    BY <1>2
  <2>2. n = w * 100 + t.frac * k
    BY DEF scaled
  <2> HIDE DEF k, w, n
  <2> QED BY <1>1, <2>1, <2>2
<1>4. parseSlippagePct(t) = n /\ n >= 10 /\ n <= 9900
  BY DEF parseSlippagePct, pctToBips
<1> HIDE DEF n
<1> QED
  BY <1>3, <1>4, SMTT(60) DEF SlippageRange

LEMMA DefaultSlippage == \A sats : defaultSlippageBips(sats) \in SlippageRange
BY DEF defaultSlippageBips, SlippageRange

(* What an entry that may continue says.                                   *)
LEMMA EntryReads ==
  ASSUME NEW e \in Entries, satsOf(e) # None, slippageOf(e) # None
  PROVE  satsOf(e) \in Nat \ {0} /\ slippageOf(e) \in SlippageRange
<1>1. e.amount \in Texts /\ e.slippage \in Texts \union {None}
  BY FormAssumption
<1>2. satsOf(e) \in Nat \ {0}
  BY <1>1, ReadAmount DEF satsOf
<1>3. slippageOf(e) \in SlippageRange
  <2>1. CASE e.slippage = None
    BY <2>1, DefaultSlippage DEF slippageOf
  <2>2. CASE e.slippage # None
    <3> DEFINE t == e.slippage
    <3>1. t \in Texts /\ slippageOf(e) = parseSlippagePct(t)
      BY <1>1, <2>2 DEF slippageOf
    <3> HIDE DEF t
    <3> QED BY <3>1, ReadSlippage
  <2> QED BY <2>1, <2>2
<1> QED
  BY <1>2, <1>3
-----------------------------------------------------------------------------
(* Quotes                                                                  *)

LEMMA BpsIsNat == BPS \in Nat /\ BPS > 0
BY DEF BPS

(* Floor division, where a product is compared.                            *)
LEMMA FloorBounds ==
  ASSUME NEW n \in Nat, NEW m \in Nat \ {0}
  PROVE  n \div m \in Nat /\ (n \div m) * m <= n /\ n < (n \div m + 1) * m
<1> DEFINE q == n \div m
           r == n % m
<1>1. q \in Nat /\ r \in Nat /\ r < m /\ n = q * m + r
  OBVIOUS
<1> HIDE DEF q, r
<1>2. (q + 1) * m = q * m + m
  BY <1>1
<1>3. q * m \in Nat
  BY <1>1
<1>4. q * m <= n /\ n < (q + 1) * m
  BY <1>1, <1>2, <1>3
<1> QED
  BY <1>1, <1>4 DEF q

LEMMA ShareBounds ==
  ASSUME NEW n \in Nat, NEW b \in Nat, b <= BPS
  PROVE  share(n, b) \in Nat /\ share(n, b) * BPS <= n * b /\ share(n, b) <= n
<1> DEFINE x == share(n, b)
<1>1. n * b \in Nat /\ n * b <= n * BPS
  BY BpsIsNat
<1>2. x \in Nat /\ x * BPS <= n * b
  BY <1>1, BpsIsNat, FloorBounds DEF share
<1> HIDE DEF x
<1>3. x * BPS <= n * BPS
  BY <1>1, <1>2, BpsIsNat
<1>4. x <= n
  BY <1>2, <1>3, BpsIsNat
<1> QED
  BY <1>2, <1>4 DEF x

LEMMA AfterFeesIsNat ==
  ASSUME NEW s, XykState(s), NEW n \in Nat
  PROVE  afterFees(s, n) \in Nat
<1> DEFINE p == s.protocolFeeBips
           v == s.providerFeeBips
<1>1. p \in Nat /\ v \in Nat /\ p + v <= BPS
  BY DEF XykState
<1>2. afterFees(s, n) = n - share(n, p) - share(n, v)
  BY DEF afterFees
<1> HIDE DEF p, v
<1>3. p <= BPS /\ v <= BPS
  BY <1>1, BpsIsNat
<1> DEFINE x == share(n, p)
           y == share(n, v)
<1>4. x \in Nat /\ y \in Nat /\ x * BPS <= n * p /\ y * BPS <= n * v
  BY <1>1, <1>3, ShareBounds
<1> HIDE DEF x, y
<1>5. (x + y) * BPS = x * BPS + y * BPS /\ n * (p + v) = n * p + n * v
  BY <1>1, <1>4, BpsIsNat
<1>6. n * (p + v) <= n * BPS
  BY <1>1, BpsIsNat
<1>7. /\ x * BPS \in Nat /\ y * BPS \in Nat /\ n * p \in Nat /\ n * v \in Nat
      /\ (x + y) * BPS \in Nat /\ n * BPS \in Nat
  BY <1>1, <1>4, BpsIsNat
<1>8. (x + y) * BPS <= n * BPS
  BY <1>4, <1>5, <1>6, <1>7
<1>9. x + y <= n
  BY <1>4, <1>8, BpsIsNat
<1>10. n - x - y \in Nat
  BY <1>4, <1>9
<1> QED
  BY <1>2, <1>10 DEF x, y

LEMMA AdjustedIsNat ==
  ASSUME NEW s, VelarState(s), NEW n \in Nat
  PROVE  adjusted(s, n) \in Nat
<1>1. s.feeNum \in Nat /\ s.feeDen \in Nat \ {0}
  BY DEF VelarState
<1>2. n * s.feeNum \in Nat
  BY <1>1
<1> QED
  BY <1>1, <1>2, FloorBounds DEF adjusted

(* What a constant product pays, and all below it, do not lower the        *)
(* product.                                                                *)
LEMMA ProductIsKept ==
  ASSUME NEW x \in Nat, NEW y \in Nat, NEW dx \in Nat, NEW d \in Nat, x + dx > 0,
         d <= (y * dx) \div (x + dx)
  PROVE  (x + dx) * (y - d) >= x * y
<1> DEFINE t == x + dx
           out == (y * dx) \div t
<1>1. t \in Nat \ {0} /\ y * dx \in Nat
  OBVIOUS
<1>2. out \in Nat /\ out * t <= y * dx
  <2> HIDE DEF t
  <2> QED BY <1>1, FloorBounds
<1>3. d <= out
  OBVIOUS
<1> HIDE DEF out
<1>4. d * t <= out * t
  BY <1>1, <1>2, <1>3
<1>5. d * t <= y * dx
  BY <1>1, <1>2, <1>4
<1>6. t * (y - d) = t * y - d * t
  BY <1>1
<1>7. t * y = x * y + y * dx
  BY DEF t
<1> HIDE DEF t
<1>8. t * y \in Nat /\ d * t \in Nat /\ x * y \in Nat
  BY <1>1
<1>9. t * (y - d) >= x * y
  BY <1>1, <1>5, <1>6, <1>7, <1>8
<1> QED
  BY <1>9 DEF t

LEMMA XykIsPayable ==
  ASSUME NEW s, XykState(s), NEW n \in Nat, NEW d \in Nat,
         quoteXyk(s, n).out # 0, d <= quoteXyk(s, n).out
  PROVE  XykCanPay(s, n, d)
<1> DEFINE x == s.xBalance
           y == s.yBalance
           dx == afterFees(s, n)
           deals == s.enabled /\ n > 0 /\ x > 0 /\ y > 0
           out == IF deals THEN (y * dx) \div (x + dx) ELSE 0
<1>1. x \in Nat /\ y \in Nat /\ dx \in Nat
  BY AfterFeesIsNat DEF XykState
<1>2. quoteXyk(s, n).out = out
  BY DEF quoteXyk, PoolQuote
<1>3. deals /\ out = (y * dx) \div (x + dx)
  BY <1>2
<1>4. x + dx > 0 /\ d <= (y * dx) \div (x + dx)
  <2> HIDE DEF dx, x, y
  <2> QED BY <1>1, <1>2, <1>3
<1>5. (x + dx) * (y - d) >= x * y
  <2> HIDE DEF dx, x, y
  <2> QED BY <1>1, <1>4, ProductIsKept
<1> QED
  BY <1>3, <1>5 DEF XykCanPay

LEMMA VelarIsPayable ==
  ASSUME NEW s, VelarState(s), NEW n \in Nat, NEW d \in Nat,
         quoteVelar(s, n).out # 0, d <= quoteVelar(s, n).out
  PROVE  VelarCanPay(s, n, d)
<1> DEFINE x == s.reserveSbtc
           y == s.reserveStx
           dx == adjusted(s, n)
           deals == n > 0 /\ y > 0 /\ x > 0 /\ dx > 0
           out == IF deals THEN (y * dx) \div (x + dx) ELSE 0
<1>1. x \in Nat /\ y \in Nat /\ dx \in Nat
  BY AdjustedIsNat DEF VelarState
<1>2. quoteVelar(s, n).out = out
  BY DEF quoteVelar, PoolQuote
<1>3. deals /\ out = (y * dx) \div (x + dx)
  BY <1>2
<1>4. x + dx > 0 /\ d <= (y * dx) \div (x + dx)
  <2> HIDE DEF dx, x, y
  <2> QED BY <1>1, <1>2, <1>3
<1>5. (x + dx) * (y - d) >= x * y
  <2> HIDE DEF dx, x, y
  <2> QED BY <1>1, <1>4, ProductIsKept
<1> QED
  BY <1>5 DEF VelarCanPay

-----------------------------------------------------------------------------
LEMMA BinsTyped ==
  ASSUME NEW s, DlmmState(s)
  PROVE  /\ Len(s.bins) \in Nat /\ Len(s.bins) <= RouterMaxBins
         /\ \A n \in 1 .. Len(s.bins) :
              /\ s.bins[n].price \in Nat \ {0}
              /\ s.bins[n].xBalance \in Nat /\ s.bins[n].yBalance \in Nat
         /\ s.feeBips \in Nat /\ BPS - s.feeBips \in Nat \ {0} /\ s.feeBips <= BPS
<1>1. s.bins \in Seq(DlmmBin)
  BY DEF DlmmState
<1>2. \A n \in 1 .. Len(s.bins) : s.bins[n] \in DlmmBin
  BY <1>1
<1>3. Len(s.bins) \in Nat /\ Len(s.bins) <= RouterMaxBins
  BY <1>1 DEF DlmmState
<1>4. \A n \in 1 .. Len(s.bins) :
        /\ s.bins[n].price \in Nat \ {0}
        /\ s.bins[n].xBalance \in Nat /\ s.bins[n].yBalance \in Nat
  BY <1>2 DEF DlmmBin
<1>5. s.feeBips \in 0 .. BPS - 1
  BY DEF DlmmState
<1> DEFINE f == s.feeBips
<1>6. f \in Nat /\ BPS - f \in Nat \ {0} /\ f <= BPS
  <2> HIDE DEF f
  <2> QED BY <1>5, BpsIsNat DEF f
<1> QED
  BY <1>3, <1>4, <1>6

LEMMA ReserveDef ==
  ASSUME NEW s, DlmmState(s)
  PROVE  /\ reserve(s)[0] = 0
         /\ \A n \in 1 .. Len(s.bins) : reserve(s)[n] = reserve(s)[n - 1] + s.bins[n].xBalance
<1> DEFINE L == Len(s.bins)
           Is(g) == g = [n \in 0 .. L |-> IF n = 0 THEN 0 ELSE g[n - 1] + s.bins[n].xBalance]
           step == [p \in (1 .. L) \X Nat |-> p[2] + s.bins[p[1]].xBalance]
<1>1. L \in Nat /\ step \in [(1 .. L) \X Nat -> Nat]
  <2>1. L \in Nat /\ \A n \in 1 .. L : s.bins[n].xBalance \in Nat
    BY BinsTyped
  <2>2. \A p \in (1 .. L) \X Nat : p[1] \in 1 .. L /\ p[2] \in Nat
    OBVIOUS
  <2>3. \A p \in (1 .. L) \X Nat : p[2] + s.bins[p[1]].xBalance \in Nat
    BY <2>1, <2>2
  <2> QED BY <2>1, <2>3
<1>2. \A n \in 1 .. L, v \in Nat : step[<<n, v>>] = v + s.bins[n].xBalance
  OBVIOUS
<1> HIDE DEF step
<1>3. PICK g \in [0 .. L -> Nat] : g[0] = 0 /\ \A n \in 1 .. L : g[n] = step[<<n, g[n - 1]>>]
  <2> HIDE DEF L
  <2>1. 0 \in Nat /\ step \in Steps(L, Nat)
    BY <1>1 DEF Steps
  <2>2. PICK g : Follows(L, Nat, 0, step, g)
    BY <1>1, <2>1, Recursion, Zenon
  <2> QED BY <2>2 DEF Follows
<1>4. Is(g)
  <2>1. \A n \in 0 .. L : g[n] = IF n = 0 THEN 0 ELSE g[n - 1] + s.bins[n].xBalance
    <3> SUFFICES ASSUME NEW n \in 0 .. L, n # 0 PROVE g[n] = g[n - 1] + s.bins[n].xBalance
      BY <1>3
    <3>1. n \in 1 .. L /\ n - 1 \in 0 .. L
      BY <1>1
    <3> QED BY <1>2, <1>3, <3>1
  <2> QED BY <2>1, <1>3
<1>5. Is(CHOOSE h : Is(h))
  <2> HIDE DEF Is
  <2> QED BY <1>4
<1>6. reserve(s) = CHOOSE h : Is(h)
  BY DEF reserve
<1>7. Is(reserve(s))
  BY <1>5, <1>6
<1> DEFINE r == reserve(s)
<1> HIDE DEF r
<1>8. r = [n \in 0 .. L |-> IF n = 0 THEN 0 ELSE r[n - 1] + s.bins[n].xBalance]
  BY <1>7 DEF r
<1> HIDE DEF L
<1>9. 0 \in 0 .. L /\ \A n \in 1 .. L : n \in 0 .. L /\ n # 0
  BY <1>1
<1>10. r[0] = 0
  BY <1>8, <1>9
<1>11. \A n \in 1 .. L : r[n] = r[n - 1] + s.bins[n].xBalance
  BY <1>8, <1>9
<1> QED
  BY <1>10, <1>11 DEF r, L

LEMMA ReserveType ==
  ASSUME NEW s, DlmmState(s)
  PROVE  \A n \in 0 .. Len(s.bins) : reserve(s)[n] \in Nat
<1> DEFINE L == Len(s.bins)
           r == reserve(s)
           S == {n \in 0 .. L : r[n] \in Nat}
<1>1. L \in Nat /\ \A n \in 1 .. L : s.bins[n].xBalance \in Nat
  BY BinsTyped
<1>2. r[0] = 0 /\ \A n \in 1 .. L : r[n] = r[n - 1] + s.bins[n].xBalance
  BY ReserveDef
<1> HIDE DEF L, r
<1>3. 0 \in S
  BY <1>1, <1>2
<1>4. ASSUME NEW n \in 0 .. L, n < L, n \in S PROVE n + 1 \in S
  <2>1. n + 1 \in 1 .. L /\ (n + 1) - 1 = n
    BY <1>1, <1>4
  <2>2. r[n + 1] = r[n] + s.bins[n + 1].xBalance
    BY <1>2, <2>1
  <2> QED BY <1>1, <1>4, <2>1, <2>2
<1>5. \A n \in 0 .. L : n \in S
  <2> HIDE DEF S
  <2> QED BY <1>1, <1>3, <1>4, UpTo
<1> QED
  BY <1>5 DEF L, r

LEMMA DrawnType ==
  ASSUME NEW s, DlmmState(s), NEW out \in Nat, NEW n \in 1 .. Len(s.bins)
  PROVE  drawn(s, out, n) \in Nat /\ drawn(s, out, n) * s.bins[n].price \in Nat
<1> DEFINE x == s.bins[n].xBalance
           p == s.bins[n].price
           r == reserve(s)[n - 1]
           d == drawn(s, out, n)
<1>1. x \in Nat /\ p \in Nat /\ n - 1 \in 0 .. Len(s.bins)
  BY BinsTyped
<1>2. r \in Nat
  BY <1>1, ReserveType
<1>3. d = IF out - r > 0 THEN lesser(x, out - r) ELSE 0
  BY DEF drawn
<1> HIDE DEF x, p, r, d
<1>4. d \in Nat
  BY <1>1, <1>2, <1>3 DEF lesser
<1>5. d * p \in Nat
  BY <1>1, <1>4
<1> QED
  BY <1>4, <1>5 DEF d, p

LEMMA WorthDef ==
  ASSUME NEW s, DlmmState(s), NEW out \in Nat
  PROVE  /\ worth(s, out)[0] = 0
         /\ \A n \in 1 .. Len(s.bins) :
              worth(s, out)[n] = worth(s, out)[n - 1] + drawn(s, out, n) * s.bins[n].price
<1> DEFINE L == Len(s.bins)
           w(n) == drawn(s, out, n) * s.bins[n].price
           Is(g) == g = [n \in 0 .. L |-> IF n = 0 THEN 0 ELSE g[n - 1] + w(n)]
           step == [p \in (1 .. L) \X Nat |-> p[2] + w(p[1])]
<1>12. worth(s, out) = CHOOSE h : Is(h)
  BY DEF worth
<1>13. L \in Nat /\ \A n \in 1 .. L : w(n) \in Nat
  BY BinsTyped, DrawnType
<1> HIDE DEF w, L
<1>1. L \in Nat /\ step \in [(1 .. L) \X Nat -> Nat]
  <2>2. \A p \in (1 .. L) \X Nat : p[1] \in 1 .. L /\ p[2] \in Nat
    OBVIOUS
  <2>3. \A p \in (1 .. L) \X Nat : p[2] + w(p[1]) \in Nat
    BY <1>13, <2>2
  <2> QED BY <1>13, <2>3
<1>2. \A n \in 1 .. L, v \in Nat : step[<<n, v>>] = v + w(n)
  OBVIOUS
<1> HIDE DEF step
<1>3. PICK g \in [0 .. L -> Nat] : g[0] = 0 /\ \A n \in 1 .. L : g[n] = step[<<n, g[n - 1]>>]
  <2>1. 0 \in Nat /\ step \in Steps(L, Nat)
    BY <1>1 DEF Steps
  <2>2. PICK g : Follows(L, Nat, 0, step, g)
    BY <1>1, <2>1, Recursion, Zenon
  <2> QED BY <2>2 DEF Follows
<1>4. Is(g)
  <2>1. \A n \in 0 .. L : g[n] = IF n = 0 THEN 0 ELSE g[n - 1] + w(n)
    <3> SUFFICES ASSUME NEW n \in 0 .. L, n # 0 PROVE g[n] = g[n - 1] + w(n)
      BY <1>3
    <3>1. n \in 1 .. L /\ n - 1 \in 0 .. L
      BY <1>1
    <3> QED BY <1>2, <1>3, <3>1
  <2> QED BY <2>1, <1>3
<1>5. Is(CHOOSE h : Is(h))
  <2> HIDE DEF Is
  <2> QED BY <1>4
<1> DEFINE r == worth(s, out)
<1>7. Is(r)
  BY <1>5, <1>12
<1> HIDE DEF r
<1>8. r = [n \in 0 .. L |-> IF n = 0 THEN 0 ELSE r[n - 1] + w(n)]
  BY <1>7
<1>9. 0 \in 0 .. L /\ \A n \in 1 .. L : n \in 0 .. L /\ n # 0
  BY <1>1
<1>10. r[0] = 0
  BY <1>8, <1>9
<1>11. \A n \in 1 .. L : r[n] = r[n - 1] + w(n)
  BY <1>8, <1>9
<1> QED
  BY <1>10, <1>11 DEF r, L, w

(* What a walk has after each bin, and how it goes on.                     *)
Walks == [remaining : Nat, binsUsed : Nat, out : Nat]

LEMMA FillType ==
  ASSUME NEW s, DlmmState(s), NEW n \in 1 .. Len(s.bins), NEW acc \in Walks
  PROVE  LET next == fillBin(s, acc, s.bins[n])
         IN  \E used \in 0 .. acc.remaining, y \in 0 .. s.bins[n].xBalance :
               /\ next \in Walks
               /\ next.out = acc.out + y /\ next.remaining = acc.remaining - used
               /\ y * s.bins[n].price <= used * PriceScale
<1> DEFINE bin == s.bins[n]
           r == acc.remaining
           x == bin.xBalance
           p == bin.price
           most == emptiesBin(s, bin)
           next == fillBin(s, acc, bin)
<1>1. /\ r \in Nat /\ acc.binsUsed \in Nat /\ acc.out \in Nat
      /\ x \in Nat /\ p \in Nat \ {0} /\ PriceScale \in Nat \ {0}
  BY BinsTyped, QuotesAssumption DEF Walks
<1>2. most \in Nat
  <2> DEFINE a == x * p + PriceScale - 1
             b == a \div PriceScale
             c == BPS - s.feeBips
  <2>1. c \in Nat \ {0}
    BY BinsTyped
  <2>2. most = (b * BPS) \div c
    BY DEF emptiesBin
  <2> HIDE DEF c, x, p
  <2>3. a \in Nat
    <3>1. x * p \in Nat
      BY <1>1
    <3> QED BY <1>1, <3>1
  <2> HIDE DEF a
  <2>4. b \in Nat
    BY <1>1, <2>3, FloorBounds
  <2> HIDE DEF b
  <2>5. b * BPS \in Nat
    BY <2>4, BpsIsNat
  <2> HIDE DEF most
  <2> QED BY <2>1, <2>2, <2>5, FloorBounds
<1> DEFINE used == lesser(r, most)
           dy == used - share(used, s.feeBips)
           y == lesser((dy * PriceScale) \div p, x)
<1>3. used \in 0 .. r
  <2> HIDE DEF r, most
  <2> QED BY <1>1, <1>2 DEF lesser
<1>4. dy \in 0 .. used
  <2> DEFINE f == s.feeBips
             h == share(used, f)
  <2>1. f \in Nat /\ f <= BPS
    BY BinsTyped
  <2> HIDE DEF f, used
  <2>2. used \in Nat
    BY <1>1, <1>3
  <2>3. h \in Nat /\ h <= used
    BY <2>1, <2>2, ShareBounds
  <2> HIDE DEF h
  <2>4. used - h \in 0 .. used
    BY <2>2, <2>3
  <2> QED BY <2>4 DEF h, f
<1> HIDE DEF dy, r, most, x, p
<1>5. y \in 0 .. x /\ y * p <= used * PriceScale
  <2> HIDE DEF used
  <2> DEFINE q == (dy * PriceScale) \div p
  <2>0. used \in Nat /\ dy \in Nat /\ dy <= used
    BY <1>1, <1>3, <1>4
  <2>1. dy * PriceScale \in Nat /\ dy * PriceScale <= used * PriceScale
    BY <1>1, <2>0
  <2>2. q \in Nat /\ q * p <= dy * PriceScale
    BY <1>1, <2>1, FloorBounds
  <2> HIDE DEF q
  <2>3. y \in 0 .. x /\ y <= q
    BY <1>1, <2>2 DEF lesser, q
  <2> HIDE DEF y
  <2>4. y * p <= q * p /\ y * p \in Nat /\ q * p \in Nat /\ used * PriceScale \in Nat
    BY <1>1, <2>0, <2>2, <2>3
  <2> QED BY <2>1, <2>2, <2>3, <2>4
<1> HIDE DEF used, y
<1>6. \/ next = acc
      \/ next = [acc EXCEPT !.binsUsed = @ + 1]
      \/ next = [remaining |-> r - used, binsUsed |-> acc.binsUsed + 1, out |-> acc.out + y]
  BY DEF fillBin, used, y, dy, r, most, x, p
<1> HIDE DEF next
<1>7. ASSUME next \in Walks, next.out = acc.out, next.remaining = acc.remaining
      PROVE  \E u \in 0 .. r, z \in 0 .. x :
               /\ next \in Walks
               /\ next.out = acc.out + z /\ next.remaining = r - u
               /\ z * p <= u * PriceScale
  <2>1. 0 \in 0 .. r /\ 0 \in 0 .. x /\ 0 * p <= 0 * PriceScale
    BY <1>1
  <2>2. next.out = acc.out + 0 /\ next.remaining = r - 0
    BY <1>1, <1>7 DEF r
  <2> QED BY <1>7, <2>1, <2>2
<1>8. \E u \in 0 .. r, z \in 0 .. x :
               /\ next \in Walks
               /\ next.out = acc.out + z /\ next.remaining = r - u
               /\ z * p <= u * PriceScale
  <2>1. CASE next = acc
    BY <1>7, <2>1
  <2>2. CASE next = [acc EXCEPT !.binsUsed = @ + 1]
    <3>1. acc.binsUsed + 1 \in Nat
      BY <1>1
    <3>2. next \in Walks /\ next.out = acc.out /\ next.remaining = acc.remaining
      BY <2>2, <3>1 DEF Walks
    <3> QED BY <1>7, <3>2
  <2>3. CASE next = [remaining |-> r - used, binsUsed |-> acc.binsUsed + 1, out |-> acc.out + y]
    <3>1. r - used \in Nat /\ acc.binsUsed + 1 \in Nat /\ acc.out + y \in Nat
      BY <1>1, <1>3, <1>5
    <3>2. next \in Walks /\ next.out = acc.out + y /\ next.remaining = r - used
      BY <2>3, <3>1 DEF Walks
    <3> QED BY <1>3, <1>5, <3>2
  <2> QED BY <1>6, <2>1, <2>2, <2>3
<1> QED
  BY <1>8 DEF next, r, x, p

LEMMA WalkDef ==
  ASSUME NEW s, DlmmState(s), NEW inSats \in Nat
  PROVE  /\ walk(s, inSats)[0] = [remaining |-> inSats, binsUsed |-> 0, out |-> 0]
         /\ \A n \in 1 .. Len(s.bins) :
              walk(s, inSats)[n] = fillBin(s, walk(s, inSats)[n - 1], s.bins[n])
<1> DEFINE L == Len(s.bins)
           start == [remaining |-> inSats, binsUsed |-> 0, out |-> 0]
           fill(n, acc) == fillBin(s, acc, s.bins[n])
           Is(g) == g = [n \in 0 .. L |-> IF n = 0 THEN start ELSE fill(n, g[n - 1])]
           step == [p \in (1 .. L) \X Walks |-> fill(p[1], p[2])]
<1>1. walk(s, inSats) = CHOOSE h : Is(h)
  BY DEF walk
<1>2. L \in Nat /\ start \in Walks /\ \A n \in 1 .. L, acc \in Walks : fill(n, acc) \in Walks
  BY BinsTyped, FillType DEF Walks
<1> HIDE DEF fill, L, start
<1>3. step \in [(1 .. L) \X Walks -> Walks]
  <2>1. \A p \in (1 .. L) \X Walks : p[1] \in 1 .. L /\ p[2] \in Walks
    OBVIOUS
  <2> QED BY <1>2, <2>1
<1>4. \A n \in 1 .. L, v \in Walks : step[<<n, v>>] = fill(n, v)
  OBVIOUS
<1> HIDE DEF step
<1>5. PICK g \in [0 .. L -> Walks] : g[0] = start /\ \A n \in 1 .. L : g[n] = step[<<n, g[n - 1]>>]
  <2>1. step \in Steps(L, Walks)
    BY <1>3 DEF Steps
  <2>2. PICK g : Follows(L, Walks, start, step, g)
    BY <1>2, <2>1, Recursion, Zenon
  <2> QED BY <2>2 DEF Follows
<1>6. Is(g)
  <2>1. \A n \in 0 .. L : g[n] = IF n = 0 THEN start ELSE fill(n, g[n - 1])
    <3> SUFFICES ASSUME NEW n \in 0 .. L, n # 0 PROVE g[n] = fill(n, g[n - 1])
      BY <1>5
    <3>1. n \in 1 .. L /\ n - 1 \in 0 .. L
      BY <1>2
    <3> QED BY <1>4, <1>5, <3>1
  <2> QED BY <2>1, <1>5
<1>7. Is(CHOOSE h : Is(h))
  <2> HIDE DEF Is
  <2> QED BY <1>6
<1> DEFINE r == walk(s, inSats)
<1>8. Is(r)
  BY <1>1, <1>7
<1> HIDE DEF r
<1>9. r = [n \in 0 .. L |-> IF n = 0 THEN start ELSE fill(n, r[n - 1])]
  BY <1>8
<1>10. 0 \in 0 .. L /\ \A n \in 1 .. L : n \in 0 .. L /\ n # 0
  BY <1>2
<1>11. r[0] = start
  BY <1>9, <1>10
<1>12. \A n \in 1 .. L : r[n] = fill(n, r[n - 1])
  BY <1>9, <1>10
<1> QED
  BY <1>11, <1>12 DEF r, L, fill, start

(* Drawn cheapest first, the first bins have what they can of the output.  *)
LEMMA DrawnIs ==
  ASSUME NEW s, DlmmState(s), NEW d \in Nat, NEW n \in 1 .. Len(s.bins)
  PROVE  drawn(s, d, n) = lesser(d, reserve(s)[n]) - lesser(d, reserve(s)[n - 1])
<1> DEFINE x == s.bins[n].xBalance
           r == reserve(s)[n - 1]
           t == reserve(s)[n]
<1>1. x \in Nat /\ n - 1 \in 0 .. Len(s.bins)
  BY BinsTyped
<1>2. r \in Nat /\ t = r + x
  BY <1>1, ReserveType, ReserveDef
<1>3. drawn(s, d, n) = IF d - r > 0 THEN lesser(x, d - r) ELSE 0
  BY DEF drawn
<1> HIDE DEF x, r, t
<1>4. drawn(s, d, n) = lesser(d, t) - lesser(d, r)
  BY <1>1, <1>2, <1>3 DEF lesser
<1> QED
  BY <1>4 DEF r, t

LEMMA DrawnRises ==
  ASSUME NEW s, DlmmState(s), NEW d \in Nat, NEW y \in Nat, NEW n \in 1 .. Len(s.bins)
  PROVE  drawn(s, d, n) <= drawn(s, d + y, n)
<1> DEFINE x == s.bins[n].xBalance
           r == reserve(s)[n - 1]
           z(e) == IF e - r > 0 THEN lesser(x, e - r) ELSE 0
<1>1. x \in Nat /\ n - 1 \in 0 .. Len(s.bins)
  BY BinsTyped
<1>2. r \in Nat
  BY <1>1, ReserveType
<1>3. drawn(s, d, n) = z(d) /\ drawn(s, d + y, n) = z(d + y)
  BY DEF drawn
<1> HIDE DEF x, r
<1>4. z(d) <= z(d + y)
  BY <1>1, <1>2 DEF lesser
<1> QED
  BY <1>3, <1>4

LEMMA WorthType ==
  ASSUME NEW s, DlmmState(s), NEW d \in Nat
  PROVE  \A n \in 0 .. Len(s.bins) : worth(s, d)[n] \in Nat
<1> DEFINE L == Len(s.bins)
           r == worth(s, d)
           w(n) == drawn(s, d, n) * s.bins[n].price
           S == {n \in 0 .. L : r[n] \in Nat}
<1>1. L \in Nat /\ \A n \in 1 .. L : w(n) \in Nat
  BY BinsTyped, DrawnType
<1>2. r[0] = 0 /\ \A n \in 1 .. L : r[n] = r[n - 1] + w(n)
  BY WorthDef
<1> HIDE DEF L, r, w
<1>3. 0 \in S
  BY <1>1, <1>2
<1>4. ASSUME NEW n \in 0 .. L, n < L, n \in S PROVE n + 1 \in S
  <2>1. n + 1 \in 1 .. L /\ (n + 1) - 1 = n
    BY <1>1, <1>4
  <2>2. r[n + 1] = r[n] + w(n + 1)
    BY <1>2, <2>1
  <2> QED BY <1>1, <1>4, <2>1, <2>2
<1>5. \A n \in 0 .. L : n \in S
  <2> HIDE DEF S
  <2> QED BY <1>1, <1>3, <1>4, UpTo
<1> QED
  BY <1>5 DEF L, r

(* y more cost no less than nothing, and no more than they would at a      *)
(* price that no bin exceeds.                                              *)
LEMMA WorthGrows ==
  ASSUME NEW s, DlmmState(s), NEW d \in Nat, NEW y \in Nat, NEW m \in 0 .. Len(s.bins),
         NEW P \in Nat, \A n \in 1 .. m : s.bins[n].price <= P
  PROVE  \A n \in 0 .. m :
           /\ worth(s, d)[n] <= worth(s, d + y)[n]
           /\ worth(s, d + y)[n]
                <= worth(s, d)[n] + (lesser(d + y, reserve(s)[n]) - lesser(d, reserve(s)[n])) * P
<1> DEFINE e == d + y
           R == reserve(s)
           U == worth(s, d)
           V == worth(s, e)
           g(n) == lesser(e, R[n]) - lesser(d, R[n])
           S == {n \in 0 .. m : U[n] <= V[n] /\ V[n] <= U[n] + g(n) * P}
<1>1. /\ m \in Nat /\ e \in Nat
      /\ \A n \in 1 .. m : n \in 1 .. Len(s.bins)
      /\ \A n \in 0 .. m : n \in 0 .. Len(s.bins)
  BY BinsTyped
<1>2. \A n \in 0 .. m : R[n] \in Nat /\ U[n] \in Nat /\ V[n] \in Nat /\ g(n) \in Int
  <2> HIDE DEF e, R, U, V
  <2>1. \A n \in 0 .. m : R[n] \in Nat /\ U[n] \in Nat /\ V[n] \in Nat
    BY <1>1, ReserveType, WorthType DEF R, U, V
  <2> QED BY <1>1, <2>1 DEF lesser
<1>3. 0 \in S
  <2>1. U[0] = 0 /\ V[0] = 0 /\ R[0] = 0
    BY <1>1, WorthDef, ReserveDef
  <2> HIDE DEF e, R, U, V
  <2>2. g(0) = 0
    BY <1>1, <2>1 DEF lesser
  <2> HIDE DEF g
  <2> QED BY <1>1, <2>1, <2>2
<1>4. ASSUME NEW n \in 0 .. m, n < m, n \in S PROVE n + 1 \in S
  <2> DEFINE k == n + 1
             p == s.bins[k].price
             a == drawn(s, d, k)
             b == drawn(s, e, k)
  <2>1. k \in 1 .. m /\ k \in 0 .. m /\ k - 1 = n /\ n \in 0 .. m
    BY <1>1, <1>4
  <2>2. k \in 1 .. Len(s.bins)
    BY <1>1, <2>1
  <2>3. p \in Nat /\ p <= P
    BY <2>1, <2>2, BinsTyped
  <2>4. U[k] = U[n] + a * p /\ V[k] = V[n] + b * p
    <3> HIDE DEF k, e
    <3> QED BY <1>1, <2>1, <2>2, WorthDef DEF U, V, a, b, p
  <2>5. a \in Nat /\ b \in Nat /\ a <= b
    <3> HIDE DEF k
    <3> QED BY <1>1, <2>2, DrawnType, DrawnRises
  <2>6. a = lesser(d, R[k]) - lesser(d, R[n]) /\ b = lesser(e, R[k]) - lesser(e, R[n])
    <3> HIDE DEF k, e
    <3> QED BY <1>1, <2>1, <2>2, DrawnIs
  <2>7. R[k] \in Nat /\ R[n] \in Nat
    BY <1>2, <2>1
  <2> DEFINE dk == lesser(d, R[k])
             dn == lesser(d, R[n])
             ek == lesser(e, R[k])
             en == lesser(e, R[n])
  <2> HIDE DEF a, b, p, R, U, V, e, k
  <2>8. g(k) = g(n) + (b - a)
    <3>1. dk \in Nat /\ dn \in Nat /\ ek \in Nat /\ en \in Nat
      BY <1>1, <2>7 DEF lesser
    <3>2. g(k) = ek - dk /\ g(n) = en - dn /\ a = dk - dn /\ b = ek - en
      BY <2>6
    <3> HIDE DEF dk, dn, ek, en, g
    <3> QED BY <3>1, <3>2
  <2>9. U[n] <= V[n] /\ V[n] <= U[n] + g(n) * P
    BY <1>4
  <2>10. U[n] \in Nat /\ V[n] \in Nat /\ g(n) \in Int
    BY <1>2, <2>1
  <2> HIDE DEF g
  <2>11. b * p = a * p + (b - a) * p /\ (b - a) * p <= (b - a) * P /\ (b - a) * p >= 0
    BY <2>3, <2>5
  <2>12. g(k) * P = g(n) * P + (b - a) * P
    BY <2>5, <2>8, <2>10
  <2>13. /\ a * p \in Int /\ b * p \in Int /\ (b - a) * p \in Int /\ (b - a) * P \in Int
         /\ g(n) * P \in Int
    BY <2>3, <2>5, <2>10
  <2> DEFINE ap == a * p
             bp == b * p
             dp == (b - a) * p
             dP == (b - a) * P
             gP == g(n) * P
  <2>14. U[k] <= V[k] /\ V[k] <= U[k] + g(k) * P
    <3>1. /\ ap \in Int /\ bp \in Int /\ dp \in Int /\ dP \in Int /\ gP \in Int
          /\ bp = ap + dp /\ dp <= dP /\ dp >= 0 /\ g(k) * P = gP + dP
          /\ U[k] = U[n] + ap /\ V[k] = V[n] + bp /\ V[n] <= U[n] + gP /\ U[n] <= V[n]
      BY <2>4, <2>9, <2>11, <2>12, <2>13
    <3>2. U[n] \in Nat /\ V[n] \in Nat
      BY <2>10
    <3> DEFINE G == g(k) * P
    <3>3. G = gP + dP
      BY <3>1
    <3> HIDE DEF ap, bp, dp, dP, gP, G
    <3>4. U[k] <= V[k] /\ V[k] <= U[k] + G
      BY <3>1, <3>2, <3>3, SMTT(60)
    <3> QED BY <3>4 DEF G
  <2> QED BY <2>1, <2>14 DEF k
<1>5. \A n \in 0 .. m : n \in S
  <2> HIDE DEF S
  <2> QED BY <1>1, <1>3, <1>4, UpTo
<1> QED
  BY <1>5 DEF e, R, U, V

LEMMA PricesRise ==
  ASSUME NEW s, DlmmState(s)
  PROVE  \A n \in 1 .. Len(s.bins) : \A k \in 1 .. n : s.bins[k].price <= s.bins[n].price
<1> DEFINE L == Len(s.bins)
           p(n) == s.bins[n].price
           S == {n \in 0 .. L : \A k \in 1 .. n : p(k) <= p(n)}
<1>1. L \in Nat /\ \A n \in 1 .. L : p(n) \in Nat
  BY BinsTyped
<1>2. \A n \in 1 .. L - 1 : p(n) <= p(n + 1)
  BY DEF DlmmState
<1> HIDE DEF L, p
<1>3. 0 \in S
  BY <1>1
<1>4. ASSUME NEW n \in 0 .. L, n < L, n \in S PROVE n + 1 \in S
  <2>1. n + 1 \in 0 .. L /\ n + 1 \in 1 .. L
    BY <1>1, <1>4
  <2>2. ASSUME NEW k \in 1 .. n + 1 PROVE p(k) <= p(n + 1)
    <3>1. CASE k = n + 1
      BY <1>1, <2>1, <3>1
    <3>2. CASE k # n + 1
      <4>1. k \in 1 .. n /\ n \in 1 .. L - 1 /\ k \in 1 .. L /\ n \in 1 .. L
        BY <1>1, <1>4, <3>2
      <4>2. p(k) <= p(n) /\ p(n) <= p(n + 1)
        BY <1>2, <1>4, <4>1
      <4> QED BY <1>1, <2>1, <4>1, <4>2
    <3> QED BY <3>1, <3>2
  <2> QED BY <2>1, <2>2
<1>5. \A n \in 0 .. L : n \in S
  <2> HIDE DEF S
  <2> QED BY <1>1, <1>3, <1>4, UpTo
<1>6. \A n \in 1 .. L : n \in 0 .. L
  BY <1>1
<1> QED
  BY <1>5, <1>6 DEF L, p

(* What the walk has taken in by a bin pays for what it has drawn by then, *)
(* were that drawn cheapest first.                                         *)
LEMMA WalkIsPaid ==
  ASSUME NEW s, DlmmState(s), NEW inSats \in Nat
  PROVE  \A n \in 0 .. Len(s.bins) :
           /\ walk(s, inSats)[n] \in Walks
           /\ walk(s, inSats)[n].remaining <= inSats
           /\ walk(s, inSats)[n].out <= reserve(s)[n]
           /\ worth(s, walk(s, inSats)[n].out)[n]
                <= (inSats - walk(s, inSats)[n].remaining) * PriceScale
<1> DEFINE L == Len(s.bins)
           a == walk(s, inSats)
           R == reserve(s)
           Paid(n) == /\ a[n] \in Walks /\ a[n].remaining <= inSats /\ a[n].out <= R[n]
                      /\ worth(s, a[n].out)[n] <= (inSats - a[n].remaining) * PriceScale
           S == {n \in 0 .. L : Paid(n)}
<1>1. L \in Nat /\ PriceScale \in Nat
  BY BinsTyped, QuotesAssumption
<1>2. /\ a[0] = [remaining |-> inSats, binsUsed |-> 0, out |-> 0]
      /\ \A n \in 1 .. L : a[n] = fillBin(s, a[n - 1], s.bins[n])
  BY WalkDef
<1>3. \A n \in 0 .. L : R[n] \in Nat
  BY ReserveType
<1> HIDE DEF a, R
<1>4. 0 \in S
  <2>1. a[0] \in Walks /\ a[0].remaining = inSats /\ a[0].out = 0
    BY <1>2 DEF Walks
  <2>2. worth(s, 0)[0] = 0 /\ R[0] = 0
    BY WorthDef, ReserveDef DEF R
  <2>3. (inSats - inSats) * PriceScale = 0
    BY <1>1
  <2>4. 0 \in 0 .. L
    BY <1>1
  <2> QED BY <2>1, <2>2, <2>3, <2>4
<1>5. ASSUME NEW n \in 0 .. L, n < L, n \in S PROVE n + 1 \in S
  <2> DEFINE k == n + 1
             o == a[n].out
             r == a[n].remaining
             x == s.bins[k].xBalance
             p == s.bins[k].price
  <2>1. k \in 1 .. L /\ k \in 0 .. L /\ k - 1 = n
    BY <1>1, <1>5
  <2> HIDE DEF k
  <2>2. Paid(n)
    BY <1>5
  <2>3. a[n] \in Walks /\ o \in Nat /\ r \in Nat /\ r <= inSats /\ o <= R[n]
    BY <2>2 DEF Walks
  <2>4. PICK used \in 0 .. r, y \in 0 .. x :
          /\ a[k] \in Walks /\ a[k].out = o + y /\ a[k].remaining = r - used
          /\ y * p <= used * PriceScale
    <3> DEFINE next == fillBin(s, a[n], s.bins[k])
    <3>1. a[k] = next
      BY <1>2, <2>1
    <3>2. \E used \in 0 .. r, y \in 0 .. x :
            /\ next \in Walks /\ next.out = o + y /\ next.remaining = r - used
            /\ y * p <= used * PriceScale
      BY <2>1, <2>3, FillType
    <3> HIDE DEF next, o, r, x, p
    <3> QED BY <3>1, <3>2
  <2>5. x \in Nat /\ p \in Nat /\ R[k] = R[n] + x /\ R[n] \in Nat /\ R[k] \in Nat
    BY <1>3, <2>1, BinsTyped, ReserveDef DEF R
  <2>6. y \in Nat /\ used \in Nat /\ used <= r /\ o + y <= R[k] /\ o + y \in Nat
    <3> HIDE DEF o, r, x, p
    <3> QED BY <2>3, <2>4, <2>5
  <2>7. worth(s, o)[k] = worth(s, o)[n] /\ worth(s, o)[n] \in Nat
    <3>1. drawn(s, o, k) = 0
      <4>1. o - R[n] <= 0
        BY <2>3, <2>5
      <4> QED BY <2>1, <2>3, <2>5, <4>1, SMTT(60) DEF drawn, R
    <3>2. worth(s, o)[k] = worth(s, o)[n] + 0 * p
      BY <2>1, <2>3, <3>1, WorthDef
    <3>3. worth(s, o)[n] \in Nat
      BY <2>3, WorthType
    <3> QED BY <2>5, <3>2, <3>3
  <2>8. worth(s, o + y)[k] <= worth(s, o)[k] + y * p /\ worth(s, o + y)[k] \in Nat
    <3>1. \A j \in 1 .. k : s.bins[j].price <= p
      BY <2>1, PricesRise
    <3>2. k \in 0 .. k
      BY <2>1
    <3>3. worth(s, o + y)[k] <= worth(s, o)[k] + (lesser(o + y, R[k]) - lesser(o, R[k])) * p
      <4> HIDE DEF p, o
      <4> QED BY <2>1, <2>3, <2>5, <2>6, <3>1, <3>2, WorthGrows DEF R
    <3>4. lesser(o + y, R[k]) - lesser(o, R[k]) = y
      <4> HIDE DEF o
      <4> QED BY <2>3, <2>5, <2>6, SMTT(60) DEF lesser
    <3> QED BY <2>1, <2>6, <3>3, <3>4, WorthType
  <2> DEFINE u == worth(s, o)[n]
             v == worth(s, o + y)[k]
  <2>9. v <= u + y * p /\ u \in Nat /\ v \in Nat
    BY <2>7, <2>8
  <2>10. u <= (inSats - r) * PriceScale
    BY <2>2
  <2>11. v <= (inSats - (r - used)) * PriceScale
    <3> HIDE DEF u, v, r, p
    <3>1. (inSats - (r - used)) * PriceScale = (inSats - r) * PriceScale + used * PriceScale
      BY <1>1, <2>3, <2>6
    <3>2. y * p \in Nat /\ used * PriceScale \in Nat /\ (inSats - r) * PriceScale \in Int
      BY <1>1, <2>3, <2>5, <2>6
    <3> QED BY <2>4, <2>9, <2>10, <3>1, <3>2
  <2>12. r - used <= inSats
    BY <2>3, <2>6
  <2>13. Paid(k)
    <3> HIDE DEF o, r
    <3> QED BY <2>4, <2>6, <2>11, <2>12 DEF v
  <2> QED BY <2>1, <2>13 DEF k
<1>6. \A n \in 0 .. L : n \in S
  <2> HIDE DEF S
  <2> QED BY <1>1, <1>4, <1>5, UpTo
<1> QED
  BY <1>6 DEF L, a, R

LEMMA DlmmIsPayable ==
  ASSUME NEW s, DlmmState(s), NEW n \in Nat, NEW d \in Nat, d <= quoteDlmm(s, n).out
  PROVE  DlmmCanPay(s, n, d)
<1> DEFINE L == Len(s.bins)
           o == walk(s, n)[L].out
           r == walk(s, n)[L].remaining
           R == reserve(s)[L]
           P == IF L = 0 THEN 0 ELSE s.bins[L].price
           t == worth(s, o)[L]
           w == worth(s, d)[L]
<1>1. L \in Nat /\ PriceScale \in Nat /\ L \in 0 .. L
  BY BinsTyped, QuotesAssumption
<1>2. quoteDlmm(s, n).out = o
  BY DEF quoteDlmm, PoolQuote
<1>3. o \in Nat /\ r \in Nat /\ r <= n /\ o <= R /\ t <= (n - r) * PriceScale /\ R \in Nat
  BY <1>1, WalkIsPaid, ReserveType DEF Walks
<1>4. d <= o /\ o = d + (o - d) /\ o - d \in Nat
  <2> HIDE DEF o
  <2> QED BY <1>2, <1>3
<1>5. P \in Nat /\ \A k \in 1 .. L : s.bins[k].price <= P
  <2>1. CASE L = 0
    BY <2>1
  <2>2. CASE L # 0
    <3>1. L \in 1 .. L
      BY <1>1, <2>2
    <3> QED BY <2>2, <3>1, BinsTyped, PricesRise
  <2> QED BY <2>1, <2>2
<1>6. w <= t /\ w \in Nat /\ t \in Nat
  <2> HIDE DEF o, P
  <2>1. w <= worth(s, d + (o - d))[L]
    BY <1>1, <1>4, <1>5, WorthGrows
  <2> QED BY <1>1, <1>3, <1>4, <2>1, WorthType
<1> HIDE DEF o, r, R, t, w, L
<1>7. w <= (n + L) * PriceScale
  <2>1. (n - r) * PriceScale <= (n + L) * PriceScale
    BY <1>1, <1>3
  <2>2. (n - r) * PriceScale \in Int /\ (n + L) * PriceScale \in Int
    BY <1>1, <1>3
  <2> QED BY <1>3, <1>6, <2>1, <2>2
<1>8. d <= R
  BY <1>3, <1>4
<1> QED
  BY <1>7, <1>8 DEF DlmmCanPay, dlmmReserve, Worth, w, L, R

(* Whatever a pool quotes it can pay, and so every part of it.             *)
LEMMA QuoteIsPayable ==
  ASSUME NEW pool \in 1 .. 3, NEW s, NEW n \in Nat, NEW d \in Nat,
         pool = 1 => XykState(s), pool = 2 => VelarState(s), pool = 3 => DlmmState(s),
         quotePool(pool, s, n).out # 0, d <= quotePool(pool, s, n).out
  PROVE  CanPay(pool, s, n, d)
<1>1. CASE pool = 1
  BY <1>1, XykIsPayable DEF quotePool, CanPay
<1>2. CASE pool = 2
  BY <1>2, VelarIsPayable DEF quotePool, CanPay
<1>3. CASE pool = 3
  BY <1>3, DlmmIsPayable DEF quotePool, CanPay
<1> QED
  BY <1>1, <1>2, <1>3

(* What a constant product pays is the most that keeps the product.        *)
LEMMA ProductPays ==
  ASSUME NEW x \in Nat \ {0}, NEW y \in Nat \ {0}, NEW dx \in Nat
  PROVE  Pays(x, y, dx, (y * dx) \div (x + dx))
<1> DEFINE t == x + dx
           d == (y * dx) \div t
<1>1. t \in Nat \ {0} /\ y * dx \in Nat
  OBVIOUS
<1>2. d \in Nat /\ y * dx < (d + 1) * t
  <2> HIDE DEF t
  <2> QED BY <1>1, FloorBounds
<1>3. t * (y - d) >= x * y
  BY <1>2, ProductIsKept
<1> HIDE DEF d
<1>4. t * (y - d - 1) = t * y - (d + 1) * t
  BY <1>1, <1>2
<1>5. t * y = x * y + y * dx
  BY DEF t
<1> HIDE DEF t
<1>6. t * y \in Nat /\ (d + 1) * t \in Nat /\ x * y \in Nat
  BY <1>1, <1>2
<1>7. t * (y - d - 1) < x * y
  BY <1>1, <1>2, <1>4, <1>5, <1>6
<1> QED
  BY <1>3, <1>7 DEF Pays, t, d

LEMMA XykIsFair ==
  ASSUME NEW s, XykState(s), NEW n \in Nat, s.enabled, s.xBalance > 0, s.yBalance > 0
  PROVE  Pays(s.xBalance, s.yBalance, afterFees(s, n), quoteXyk(s, n).out)
<1> DEFINE x == s.xBalance
           y == s.yBalance
           dx == afterFees(s, n)
           whole == (y * dx) \div (x + dx)
<1>1. x \in Nat \ {0} /\ y \in Nat \ {0} /\ dx \in Nat
  BY AfterFeesIsNat DEF XykState
<1>2. Pays(x, y, dx, whole)
  <2> HIDE DEF x, y, dx
  <2> QED BY <1>1, ProductPays
<1>3. quoteXyk(s, n).out = IF n > 0 THEN whole ELSE 0
  BY DEF quoteXyk, PoolQuote
<1>4. n = 0 => whole = 0
  <2> SUFFICES ASSUME n = 0 PROVE whole = 0
    OBVIOUS
  <2>1. dx <= 0
    <3> DEFINE p == s.protocolFeeBips
               v == s.providerFeeBips
    <3>1. p \in Nat /\ v \in Nat /\ p + v <= BPS
      BY DEF XykState
    <3>2. dx = n - share(n, p) - share(n, v)
      BY DEF afterFees
    <3> HIDE DEF p, v, dx
    <3>3. p <= BPS /\ v <= BPS
      BY <3>1, BpsIsNat
    <3>4. share(n, p) \in Nat /\ share(n, v) \in Nat
      BY <3>1, <3>3, ShareBounds
    <3> QED BY <3>2, <3>4
  <2> HIDE DEF x, y, dx
  <2>2. dx = 0 /\ y * 0 = 0 /\ x + 0 = x
    BY <1>1, <2>1
  <2>3. whole = 0 \div x
    BY <2>2
  <2> HIDE DEF whole
  <2> QED BY <1>1, <2>3
<1> QED
  BY <1>2, <1>3, <1>4

LEMMA VelarIsFair ==
  ASSUME NEW s, VelarState(s), NEW n \in Nat, s.reserveSbtc > 0, s.reserveStx > 0
  PROVE  Pays(s.reserveSbtc, s.reserveStx, adjusted(s, n), quoteVelar(s, n).out)
<1> DEFINE x == s.reserveSbtc
           y == s.reserveStx
           dx == adjusted(s, n)
           whole == (y * dx) \div (x + dx)
<1>1. x \in Nat \ {0} /\ y \in Nat \ {0} /\ dx \in Nat
  BY AdjustedIsNat DEF VelarState
<1>2. Pays(x, y, dx, whole)
  <2> HIDE DEF x, y, dx
  <2> QED BY <1>1, ProductPays
<1>3. quoteVelar(s, n).out = IF n > 0 /\ dx > 0 THEN whole ELSE 0
  BY DEF quoteVelar, PoolQuote
<1>4. n = 0 => dx = 0
  <2> SUFFICES ASSUME n = 0 PROVE dx = 0
    OBVIOUS
  <2>1. s.feeNum \in Nat /\ s.feeDen \in Nat \ {0}
    BY DEF VelarState
  <2>2. dx = (n * s.feeNum) \div s.feeDen
    BY DEF adjusted
  <2> DEFINE a == s.feeNum
             b == s.feeDen
  <2>3. 0 \div b = 0 /\ 0 * a = 0
    <3> HIDE DEF a, b
    <3> QED BY <2>1 DEF a, b
  <2> QED BY <2>2, <2>3
<1>5. dx = 0 => whole = 0
  <2> HIDE DEF x, y, dx
  <2> SUFFICES ASSUME dx = 0 PROVE whole = 0
    OBVIOUS
  <2>1. y * 0 = 0 /\ x + 0 = x
    BY <1>1
  <2>2. whole = 0 \div x
    BY <2>1
  <2> HIDE DEF whole
  <2> QED BY <1>1, <2>2
<1> QED
  <2> HIDE DEF whole, dx, x, y
  <2>1. quoteVelar(s, n).out = whole
    BY <1>1, <1>3, <1>4, <1>5
  <2> QED BY <1>2, <2>1 DEF dx, x, y

(* A bin that is sold y for used sats pays their worth after the fee, to a *)
(* sat more or less where a uSTX costs no more than a sat; and it is       *)
(* emptied unless nothing remains.                                         *)
BinIsFair(s, n, used, y) ==
  LET worthOf == y * s.bins[n].price * BPS
      net     == used * (BPS - s.feeBips)
  IN  worthOf <= (net + BPS) * PriceScale /\ worthOf >= (net - BPS) * PriceScale

LEMMA FillIsFair ==
  ASSUME NEW s, DlmmState(s), NEW n \in 1 .. Len(s.bins), s.bins[n].price <= PriceScale,
         NEW acc \in Walks, acc.binsUsed < RouterMaxBins,
         NEW next, next = fillBin(s, acc, s.bins[n])
  PROVE  \E used \in 0 .. acc.remaining, y \in 0 .. s.bins[n].xBalance :
           /\ next \in Walks /\ next.binsUsed <= acc.binsUsed + 1
           /\ next.out = acc.out + y /\ next.remaining = acc.remaining - used
           /\ BinIsFair(s, n, used, y)
           /\ acc.remaining = 0 => y = 0
           /\ next.remaining = 0 \/ y = s.bins[n].xBalance
<1> DEFINE bin == s.bins[n]
           r == acc.remaining
           x == bin.xBalance
           p == bin.price
           f == s.feeBips
           g == BPS - f
           a == x * p + PriceScale - 1
           c == a \div PriceScale
           most == emptiesBin(s, bin)
           used == lesser(r, most)
           h == share(used, f)
           dy == used - h
           q == (dy * PriceScale) \div p
           y == lesser(q, x)
           Sells(u, z) ==
             /\ next \in Walks /\ next.binsUsed <= acc.binsUsed + 1
             /\ next.out = acc.out + z /\ next.remaining = r - u
             /\ BinIsFair(s, n, u, z)
             /\ r = 0 => z = 0
             /\ next.remaining = 0 \/ z = x
<1>1. /\ r \in Nat /\ acc.binsUsed \in Nat /\ acc.out \in Nat
      /\ x \in Nat /\ p \in Nat \ {0} /\ PriceScale \in Nat \ {0} /\ p <= PriceScale
      /\ f \in Nat /\ g \in Nat \ {0} /\ f <= BPS
  BY BinsTyped, QuotesAssumption DEF Walks
<1>2. BPS \in Nat \ {0} /\ g = BPS - f
  BY BpsIsNat
<1>3. most = (c * BPS) \div g
  BY DEF emptiesBin
<1>4. next = IF r = 0 \/ acc.binsUsed >= RouterMaxBins THEN acc
             ELSE IF x = 0 /\ bin.yBalance = 0 THEN [acc EXCEPT !.binsUsed = @ + 1]
             ELSE [remaining |-> r - used, binsUsed |-> acc.binsUsed + 1, out |-> acc.out + y]
  BY DEF fillBin
<1>5. \A u \in Nat, z \in Nat :
        BinIsFair(s, n, u, z) <=> /\ z * p * BPS <= (u * g + BPS) * PriceScale
                                  /\ z * p * BPS >= (u * g - BPS) * PriceScale
  BY DEF BinIsFair
<1> HIDE DEF r, x, p, f, g
<1>6. c \in Nat /\ x * p <= c * PriceScale /\ c * PriceScale <= x * p + PriceScale - 1
  <2>1. x * p \in Nat /\ a \in Nat
    <3>1. x * p \in Nat
      BY <1>1
    <3> QED BY <1>1, <3>1
  <2> DEFINE xp == x * p
  <2> HIDE DEF c
  <2>2. c \in Nat /\ c * PriceScale <= a /\ a < (c + 1) * PriceScale
    <3> HIDE DEF a
    <3> QED BY <1>1, <2>1, FloorBounds DEF c
  <2>3. (c + 1) * PriceScale = c * PriceScale + PriceScale /\ c * PriceScale \in Nat
    BY <1>1, <2>2
  <2>4. a = xp + PriceScale - 1 /\ xp \in Nat
    BY <2>1
  <2> HIDE DEF a, xp
  <2>5. xp <= c * PriceScale /\ c * PriceScale <= xp + PriceScale - 1
    BY <1>1, <2>2, <2>3, <2>4
  <2> QED BY <2>2, <2>5 DEF xp
<1> HIDE DEF a, c
<1>7. most \in Nat /\ most * g <= c * BPS /\ c * BPS < most * g + g
  <2>1. c * BPS \in Nat
    BY <1>2, <1>6
  <2>2. most \in Nat /\ most * g <= c * BPS /\ c * BPS < (most + 1) * g
    <3> HIDE DEF most
    <3> QED BY <1>1, <1>3, <2>1, FloorBounds
  <2> HIDE DEF most
  <2>3. (most + 1) * g = most * g + g
    BY <1>1, <2>2
  <2> QED BY <2>2, <2>3
<1> HIDE DEF most
<1>8. used \in Nat /\ used <= r /\ used <= most /\ (used = r \/ used = most)
  BY <1>1, <1>7 DEF lesser
<1> HIDE DEF used
<1>9. h \in Nat /\ h <= used /\ h * BPS <= used * f /\ used * f < h * BPS + BPS
  <2>1. used * f \in Nat /\ h = (used * f) \div BPS
    BY <1>1, <1>8 DEF share
  <2>2. h \in Nat /\ h <= used /\ h * BPS <= used * f
    <3> HIDE DEF h
    <3> QED BY <1>1, <1>8, ShareBounds DEF h
  <2>3. used * f < (h + 1) * BPS
    BY <1>2, <2>1, FloorBounds
  <2> HIDE DEF h
  <2>4. (h + 1) * BPS = h * BPS + BPS
    BY <1>2, <2>2
  <2> QED BY <2>2, <2>3, <2>4
<1> HIDE DEF h
<1>10. dy \in Nat /\ dy * BPS >= used * g /\ dy * BPS < used * g + BPS
  <2>1. dy \in Nat
    BY <1>8, <1>9
  <2>2. dy * BPS = used * BPS - h * BPS /\ used * g = used * BPS - used * f
    BY <1>1, <1>2, <1>8, <1>9
  <2>3. h * BPS \in Nat /\ used * BPS \in Nat /\ used * f \in Nat
    BY <1>1, <1>2, <1>8, <1>9
  <2> HIDE DEF dy
  <2> QED BY <1>2, <1>9, <2>1, <2>2, <2>3, SMTT(60)
<1> HIDE DEF dy
<1>11. dy <= c
  <2>1. used * g <= most * g
    BY <1>1, <1>7, <1>8
  <2>2. used * g \in Nat /\ most * g \in Nat /\ c * BPS \in Nat /\ dy * BPS \in Nat
    BY <1>1, <1>2, <1>6, <1>7, <1>8, <1>10
  <2>3. dy * BPS < c * BPS + BPS
    BY <1>2, <1>7, <1>10, <2>1, <2>2
  <2>4. c * BPS + BPS = (c + 1) * BPS
    BY <1>2, <1>6
  <2>5. dy * BPS < (c + 1) * BPS
    BY <2>3, <2>4
  <2>6. dy < c + 1
    BY <1>2, <1>6, <1>10, <2>5
  <2> QED BY <1>6, <1>10, <2>6
<1>12. used = most => dy >= c
  <2> SUFFICES ASSUME used = most, dy <= c - 1 PROVE FALSE
    BY <1>6, <1>10
  <2>1. dy * BPS <= (c - 1) * BPS
    BY <1>2, <1>6, <1>10
  <2>2. (c - 1) * BPS = c * BPS - BPS
    BY <1>2, <1>6
  <2>3. most * g \in Nat /\ c * BPS \in Nat /\ dy * BPS \in Nat
    BY <1>1, <1>2, <1>6, <1>7, <1>10
  <2>4. dy * BPS >= most * g /\ g <= BPS
    BY <1>1, <1>2, <1>10
  <2> QED BY <1>1, <1>2, <1>7, <2>1, <2>2, <2>3, <2>4
<1>13. q \in Nat /\ q * p <= dy * PriceScale /\ dy * PriceScale < q * p + p
  <2>1. dy * PriceScale \in Nat
    BY <1>1, <1>10
  <2>2. q \in Nat /\ q * p <= dy * PriceScale /\ dy * PriceScale < (q + 1) * p
    BY <1>1, <2>1, FloorBounds
  <2> HIDE DEF q
  <2>3. (q + 1) * p = q * p + p
    BY <1>1, <2>2
  <2> QED BY <2>2, <2>3
<1> HIDE DEF q
<1>14. y \in 0 .. x /\ y <= q /\ (y = q \/ y = x)
  BY <1>1, <1>13 DEF lesser
<1>15. used = most => y = x
  <2> SUFFICES ASSUME used = most, q <= x - 1 PROVE FALSE
    BY <1>1, <1>13 DEF lesser
  <2>1. c * PriceScale <= dy * PriceScale
    BY <1>1, <1>6, <1>10, <1>12
  <2>2. q * p + p = (q + 1) * p /\ (q + 1) * p <= x * p
    BY <1>1, <1>13
  <2> DEFINE cP == c * PriceScale
             dP == dy * PriceScale
             qp == q * p
             xp == x * p
  <2>3. cP \in Nat /\ dP \in Nat /\ qp \in Nat /\ xp \in Nat
    BY <1>1, <1>6, <1>10, <1>13
  <2>4. cP <= dP /\ qp + p <= xp /\ xp <= cP /\ dP < qp + p
    BY <1>6, <1>13, <2>1, <2>2
  <2> HIDE DEF cP, dP, qp, xp
  <2> QED BY <1>1, <2>3, <2>4
<1> HIDE DEF y
<1>16. y * p <= dy * PriceScale /\ y * p >= dy * PriceScale - PriceScale
  <2>1. y * p <= q * p
    BY <1>1, <1>13, <1>14
  <2>2. y * p \in Nat /\ q * p \in Nat /\ dy * PriceScale \in Nat /\ c * PriceScale \in Nat
    BY <1>1, <1>6, <1>10, <1>13, <1>14
  <2>3. dy * PriceScale <= c * PriceScale
    BY <1>1, <1>6, <1>10, <1>11
  <2> DEFINE yp == y * p
             qp == q * p
             xp == x * p
             cP == c * PriceScale
             dP == dy * PriceScale
  <2>4. /\ yp <= qp /\ qp <= dP /\ dP < qp + p /\ dP <= cP /\ cP <= xp + PriceScale - 1
        /\ yp = qp \/ yp = xp
    BY <1>6, <1>13, <1>14, <2>1, <2>3
  <2>5. xp \in Nat
    BY <1>1
  <2> HIDE DEF yp, qp, xp, cP, dP
  <2>6. yp <= dP /\ yp >= dP - PriceScale
    <3>1. yp \in Nat /\ qp \in Nat /\ cP \in Nat /\ dP \in Nat
      BY <2>2 DEF yp, qp, cP, dP
    <3> QED BY <1>1, <2>4, <2>5, <3>1
  <2> QED BY <2>6 DEF yp, dP
<1>17. BinIsFair(s, n, used, y)
  <2> DEFINE yp == y * p
             dP == dy * PriceScale
             ug == used * g
             dB == dy * BPS
  <2>1. yp \in Nat /\ dP \in Nat /\ ug \in Nat /\ dB \in Nat
    BY <1>1, <1>2, <1>8, <1>10, <1>14
  <2>2. yp <= dP /\ yp >= dP - PriceScale /\ dB >= ug /\ dB < ug + BPS
    BY <1>10, <1>16
  <2>3. dP * BPS = dB * PriceScale
    BY <1>1, <1>2, <1>10
  <2> HIDE DEF yp, dP, ug, dB
  <2>4. yp * BPS <= dP * BPS /\ yp * BPS >= (dP - PriceScale) * BPS
    BY <1>1, <1>2, <2>1, <2>2
  <2>5. dB * PriceScale <= (ug + BPS) * PriceScale /\ dB * PriceScale >= ug * PriceScale
    BY <1>1, <1>2, <2>1, <2>2
  <2>6. /\ (dP - PriceScale) * BPS = dP * BPS - BPS * PriceScale
        /\ (ug - BPS) * PriceScale = ug * PriceScale - BPS * PriceScale
    BY <1>1, <1>2, <2>1
  <2> DEFINE A == yp * BPS
             B == dB * PriceScale
             C == (ug + BPS) * PriceScale
             D == ug * PriceScale
             E == BPS * PriceScale
  <2>7. A \in Int /\ B \in Int /\ C \in Int /\ D \in Int /\ E \in Int
    BY <1>1, <1>2, <2>1
  <2>8. A <= B /\ A >= B - E /\ B <= C /\ B >= D /\ (ug - BPS) * PriceScale = D - E
    BY <2>3, <2>4, <2>5, <2>6
  <2> HIDE DEF A, B, C, D, E
  <2>9. A <= C /\ A >= (ug - BPS) * PriceScale
    <3>1. A >= D - E /\ A <= C
      BY <2>7, <2>8
    <3> QED BY <2>8, <3>1
  <2>10. y \in Nat /\ used \in Nat
    BY <1>1, <1>8, <1>14
  <2> QED BY <1>5, <2>9, <2>10 DEF A, C, yp, ug
<1>18. BinIsFair(s, n, 0, 0)
  <2>1. /\ 0 * p * BPS = 0 /\ 0 * g = 0 /\ (0 + BPS) * PriceScale \in Nat
        /\ (0 - BPS) * PriceScale = 0 - BPS * PriceScale /\ BPS * PriceScale \in Nat
    BY <1>1, <1>2
  <2> DEFINE E == BPS * PriceScale
             C == (0 + BPS) * PriceScale
  <2>2. 0 <= C /\ 0 >= 0 - E
    <3> HIDE DEF E, C
    <3> QED BY <2>1 DEF E, C
  <2>3. 0 \in Nat
    OBVIOUS
  <2> QED BY <1>5, <2>1, <2>2, <2>3
<1>19. 0 \in 0 .. r /\ 0 \in 0 .. x /\ acc.out + 0 = acc.out /\ r - 0 = r
  BY <1>1
<1>20. CASE r = 0
  <2>1. next = acc
    BY <1>4, <1>20
  <2>2. next \in Walks /\ next.binsUsed <= acc.binsUsed + 1
        /\ next.out = acc.out + 0 /\ next.remaining = r - 0 /\ next.remaining = 0
    BY <1>1, <1>19, <1>20, <2>1 DEF r
  <2>3. Sells(0, 0)
    BY <1>18, <2>2
  <2> HIDE DEF Sells
  <2>4. \E u \in 0 .. r, z \in 0 .. x : Sells(u, z)
    BY <1>19, <2>3
  <2> QED BY <2>4 DEF Sells, r, x
<1>21. CASE r # 0 /\ x = 0 /\ bin.yBalance = 0
  <2>1. ~ (acc.binsUsed >= RouterMaxBins)
    BY <1>1 DEF RouterMaxBins
  <2>2. next = [acc EXCEPT !.binsUsed = @ + 1]
    BY <1>4, <1>21, <2>1
  <2>3. next \in Walks /\ next.binsUsed <= acc.binsUsed + 1
        /\ next.out = acc.out + 0 /\ next.remaining = r - 0
    BY <1>1, <1>19, <2>2, SMTT(60) DEF r, Walks
  <2>4. Sells(0, 0)
    BY <1>18, <1>21, <2>3
  <2> HIDE DEF Sells
  <2>5. \E u \in 0 .. r, z \in 0 .. x : Sells(u, z)
    BY <1>19, <2>4
  <2> QED BY <2>5 DEF Sells, r, x
<1>22. CASE r # 0 /\ ~ (x = 0 /\ bin.yBalance = 0)
  <2>1. ~ (acc.binsUsed >= RouterMaxBins)
    BY <1>1 DEF RouterMaxBins
  <2>2. next = [remaining |-> r - used, binsUsed |-> acc.binsUsed + 1, out |-> acc.out + y]
    BY <1>4, <1>22, <2>1 DEF y
  <2>3. r - used \in Nat /\ acc.binsUsed + 1 \in Nat /\ acc.out + y \in Nat
    BY <1>1, <1>8, <1>14, SMTT(60)
  <2>4. next \in Walks /\ next.binsUsed <= acc.binsUsed + 1
        /\ next.out = acc.out + y /\ next.remaining = r - used
    BY <2>2, <2>3 DEF Walks
  <2>5. next.remaining = 0 \/ y = x
    BY <1>1, <1>8, <1>15, <2>4
  <2>6. Sells(used, y)
    BY <1>17, <1>22, <2>4, <2>5
  <2> HIDE DEF Sells
  <2>7. \E u \in 0 .. r, z \in 0 .. x : Sells(u, z)
    BY <1>1, <1>8, <1>14, <2>6
  <2> QED BY <2>7 DEF Sells, r, x
<1> QED
  BY <1>20, <1>21, <1>22

(* By each bin what was drawn is worth what was taken in, after the fee,   *)
(* to a sat for each bin; and it was drawn cheapest first.                 *)
Drawn(s, inSats, n) ==
  LET now     == walk(s, inSats)[n]
      taken   == (inSats - now.remaining) * (BPS - s.feeBips)
      worthOf == worth(s, now.out)[n] * BPS
  IN  /\ now \in Walks /\ now.remaining <= inSats /\ now.binsUsed <= n
      /\ now.out <= reserve(s)[n]
      /\ now.remaining = 0 \/ now.out = reserve(s)[n]
      /\ worthOf <= (taken + n * BPS) * PriceScale
      /\ worthOf >= (taken - n * BPS) * PriceScale

LEMMA DrawnStarts ==
  ASSUME NEW s, DlmmState(s), NEW inSats \in Nat
  PROVE  Drawn(s, inSats, 0)
<1> DEFINE now == walk(s, inSats)[0]
           g == BPS - s.feeBips
           w == worth(s, 0)[0]
<1>1. now = [remaining |-> inSats, binsUsed |-> 0, out |-> 0]
  BY WalkDef
<1>2. now \in Walks /\ now.remaining = inSats /\ now.binsUsed = 0 /\ now.out = 0
  BY <1>1 DEF Walks
<1> HIDE DEF now
<1>3. w = 0 /\ reserve(s)[0] = 0
  BY WorthDef, ReserveDef
<1>4. g \in Nat /\ BPS \in Nat /\ PriceScale \in Nat
  BY BinsTyped, BpsIsNat, QuotesAssumption
<1> DEFINE taken == (inSats - now.remaining) * g
<1>5. taken = 0
  <2> HIDE DEF g
  <2> QED BY <1>2, <1>4
<1> HIDE DEF w, g, taken
<1>6. /\ w * BPS <= (taken + 0 * BPS) * PriceScale
      /\ w * BPS >= (taken - 0 * BPS) * PriceScale
  <2>1. w * BPS = 0 /\ 0 * BPS = 0 /\ taken + 0 = 0 /\ taken - 0 = 0 /\ 0 * PriceScale = 0
    BY <1>3, <1>4, <1>5
  <2> QED BY <2>1
<1>7. worth(s, now.out)[0] = w
  BY <1>2 DEF w
<1> QED
  BY <1>2, <1>3, <1>6, <1>7 DEF Drawn, now, taken, g

LEMMA DrawnGoesOn ==
  ASSUME NEW s, DlmmState(s), NEW inSats \in Nat, NEW k \in 1 .. Len(s.bins),
         s.bins[k].price <= PriceScale, Drawn(s, inSats, k - 1)
  PROVE  Drawn(s, inSats, k)
<1> DEFINE n == k - 1
           now == walk(s, inSats)[n]
           next == walk(s, inSats)[k]
           o == now.out
           r == now.remaining
           x == s.bins[k].xBalance
           p == s.bins[k].price
           g == BPS - s.feeBips
           R == reserve(s)
           w == worth(s, o)[n]
<1>1. /\ n \in Nat /\ n \in 0 .. Len(s.bins) /\ k \in 0 .. Len(s.bins) /\ k = n + 1
      /\ n < RouterMaxBins /\ k \in Nat /\ k \in 0 .. k
  BY BinsTyped DEF RouterMaxBins
<1>2. now \in Walks /\ o \in Nat /\ r \in Nat /\ r <= inSats /\ now.binsUsed \in Nat
      /\ now.binsUsed <= n /\ o <= R[n] /\ (r = 0 \/ o = R[n])
  BY DEF Drawn, Walks
<1>3. x \in Nat /\ p \in Nat /\ g \in Nat /\ BPS \in Nat /\ PriceScale \in Nat
      /\ R[k] = R[n] + x /\ R[n] \in Nat /\ R[k] \in Nat
  BY <1>1, BinsTyped, BpsIsNat, QuotesAssumption, ReserveDef, ReserveType
<1>4. PICK used \in 0 .. r, y \in 0 .. x :
        /\ next \in Walks /\ next.binsUsed <= now.binsUsed + 1
        /\ next.out = o + y /\ next.remaining = r - used
        /\ BinIsFair(s, k, used, y)
        /\ r = 0 => y = 0
        /\ next.remaining = 0 \/ y = x
  <2>1. next = fillBin(s, now, s.bins[k])
    BY WalkDef
  <2>2. now.binsUsed < RouterMaxBins
    BY <1>1, <1>2 DEF RouterMaxBins
  <2> HIDE DEF now, next, o, r, x
  <2>3. \E used \in 0 .. now.remaining, y \in 0 .. s.bins[k].xBalance :
           /\ next \in Walks /\ next.binsUsed <= now.binsUsed + 1
           /\ next.out = now.out + y /\ next.remaining = now.remaining - used
           /\ BinIsFair(s, k, used, y)
           /\ now.remaining = 0 => y = 0
           /\ next.remaining = 0 \/ y = s.bins[k].xBalance
    <3>1. now \in Walks
      BY <1>2
    <3> QED BY <2>1, <2>2, <3>1, FillIsFair
  <2> QED BY <2>3 DEF o, r, x
<1> HIDE DEF now, next, o, r, x, p, g, R, n
<1>5. y \in Nat /\ used \in Nat /\ used <= r /\ y <= x /\ o + y \in Nat /\ o + y <= R[k]
  <2>1. r \in Nat /\ x \in Nat /\ o \in Nat /\ o <= R[n] /\ R[k] = R[n] + x /\ R[n] \in Nat
    BY <1>2, <1>3
  <2>2. y \in Nat /\ used \in Nat /\ used <= r /\ y <= x
    BY <2>1
  <2> QED BY <2>1, <2>2, SMTT(30)
<1>6. r - used = 0 \/ o + y = R[k]
  <2>1. CASE r = 0
    <3>1. used = 0
      BY <1>5, <2>1
    <3> QED BY <2>1, <3>1
  <2>2. CASE o = R[n] /\ y = x
    BY <1>3, <2>2
  <2> QED BY <1>2, <1>4, <2>1, <2>2
<1>7. w \in Nat
  BY <1>1, <1>2, WorthType
(* What the earlier bins have in it has not changed.                       *)
<1>8. worth(s, o + y)[n] = w
  <2>1. CASE y = 0
    BY <1>2, <2>1
  <2>2. CASE y # 0
    <3>1. o = R[n]
      BY <1>2, <1>4, <2>2
    <3>2. \A j \in 1 .. n : s.bins[j].price <= p
      BY <1>1, PricesRise DEF p
    <3>3. n \in 0 .. n
      BY <1>1
    <3>4. /\ w <= worth(s, o + y)[n]
          /\ worth(s, o + y)[n] <= w + (lesser(o + y, R[n]) - lesser(o, R[n])) * p
      BY <1>1, <1>2, <1>3, <1>5, <3>2, <3>3, WorthGrows DEF R
    <3>5. lesser(o + y, R[n]) - lesser(o, R[n]) = 0
      BY <1>2, <1>3, <1>5, <3>1, SMTT(60) DEF lesser
    <3>6. worth(s, o + y)[n] \in Nat
      BY <1>1, <1>5, WorthType
    <3> HIDE DEF w
    <3> QED BY <1>3, <1>7, <3>4, <3>5, <3>6
  <2> QED BY <2>1, <2>2
<1>9. drawn(s, o + y, k) = y
  <2> DEFINE z == o + y
  <2>4. reserve(s)[k - 1] = R[n]
    BY DEF R, n
  <2> HIDE DEF z
  <2>5. drawn(s, z, k) = IF z - R[n] > 0 THEN lesser(x, z - R[n]) ELSE 0
    BY <2>4 DEF drawn, x
  <2>1. drawn(s, o + y, k) = IF (o + y) - R[n] > 0 THEN lesser(x, (o + y) - R[n]) ELSE 0
    BY <2>5 DEF z
  <2>2. CASE y = 0
    BY <1>2, <1>3, <2>1, <2>2 DEF lesser
  <2>3. CASE y # 0
    <3>1. (o + y) - R[n] = y
      BY <1>2, <1>3, <1>4, <1>5, <2>3
    <3> QED BY <1>3, <1>5, <2>1, <2>3, <3>1 DEF lesser
  <2> QED BY <2>2, <2>3
<1>10. worth(s, o + y)[k] = w + y * p
  <2>1. worth(s, o + y)[k] = worth(s, o + y)[n] + drawn(s, o + y, k) * p
    BY <1>1, <1>5, WorthDef DEF p, n
  <2> QED BY <1>8, <1>9, <2>1
<1> DEFINE A == w * BPS
           B == (y * p) * BPS
           T == (inSats - r) * g
           u == used * g
           N == n * BPS
<1>11. A \in Nat /\ B \in Nat /\ T \in Nat /\ u \in Nat /\ N \in Nat
  <2> HIDE DEF w
  <2> DEFINE yp == y * p
             left == inSats - r
  <2>1. yp \in Nat /\ left \in Nat
    <3>1. r \in Nat /\ r <= inSats /\ y \in Nat /\ p \in Nat
      BY <1>2, <1>3, <1>5
    <3> QED BY <3>1
  <2> HIDE DEF yp, left
  <2>2. w * BPS \in Nat /\ yp * BPS \in Nat /\ left * g \in Nat /\ used * g \in Nat
        /\ n * BPS \in Nat
    BY <1>1, <1>3, <1>5, <1>7, <2>1
  <2> QED BY <2>2 DEF yp, left
<1>12. A <= (T + N) * PriceScale /\ A >= (T - N) * PriceScale
  BY DEF Drawn, now, r, g, o, n
<1>13. B <= (u + BPS) * PriceScale /\ B >= (u - BPS) * PriceScale
  BY <1>4 DEF BinIsFair, p, g
<1>14. /\ (w + y * p) * BPS = A + B
       /\ (inSats - (r - used)) * g = T + u
       /\ k * BPS = N + BPS
  <2> HIDE DEF w
  <2> DEFINE yp == y * p
  <2>1. yp \in Nat
    BY <1>3, <1>5, SMTT(60)
  <2> HIDE DEF yp
  <2>2. (w + yp) * BPS = w * BPS + yp * BPS
    BY <1>3, <1>7, <2>1
  <2>3. (inSats - (r - used)) * g = T + u /\ k * BPS = N + BPS
    BY <1>1, <1>2, <1>3, <1>5
  <2> QED BY <2>2, <2>3 DEF yp
<1> HIDE DEF A, B, T, u, N
<1>15. /\ A + B <= (T + u + (N + BPS)) * PriceScale
       /\ A + B >= ((T + u) - (N + BPS)) * PriceScale
  <2> DEFINE a1 == (T + N) * PriceScale
             a2 == (T - N) * PriceScale
             b1 == (u + BPS) * PriceScale
             b2 == (u - BPS) * PriceScale
  <2>1. a1 \in Int /\ a2 \in Int /\ b1 \in Int /\ b2 \in Int
    BY <1>3, <1>11
  <2>2. /\ (T + u + (N + BPS)) * PriceScale = a1 + b1
        /\ ((T + u) - (N + BPS)) * PriceScale = a2 + b2
    BY <1>3, <1>11
  <2>3. A <= a1 /\ A >= a2 /\ B <= b1 /\ B >= b2
    BY <1>12, <1>13
  <2> HIDE DEF a1, a2, b1, b2
  <2>4. A + B <= a1 + b1 /\ A + B >= a2 + b2
    BY <1>11, <2>1, <2>3
  <2> QED BY <2>2, <2>4
<1>16. /\ next.remaining <= inSats /\ next.binsUsed <= k
  <2>1. next.binsUsed \in Nat
    BY <1>4 DEF Walks
  <2> QED BY <1>1, <1>2, <1>4, <1>5, <2>1
<1> DEFINE worthOf == worth(s, next.out)[k] * BPS
           taken == (inSats - next.remaining) * g
<1>17. worthOf = A + B /\ taken = T + u
  BY <1>4, <1>10, <1>14
<1>18. /\ worthOf <= (taken + k * BPS) * PriceScale
       /\ worthOf >= (taken - k * BPS) * PriceScale
  <2> DEFINE kB == k * BPS
  <2>2. kB = N + BPS
    BY <1>14
  <2> HIDE DEF worthOf, taken, kB
  <2>1. taken + kB = T + u + (N + BPS) /\ taken - kB = (T + u) - (N + BPS)
    BY <1>17, <2>2
  <2> USE DEF kB
  <2> QED BY <1>15, <1>17, <2>1
<1>19. next.out <= R[k] /\ (next.remaining = 0 \/ next.out = R[k])
  BY <1>4, <1>5, <1>6
<1> QED
  BY <1>4, <1>16, <1>18, <1>19 DEF Drawn, next, R, g

LEMMA WalkIsFair ==
  ASSUME NEW s, DlmmState(s), NEW inSats \in Nat,
         \A n \in 1 .. Len(s.bins) : s.bins[n].price <= PriceScale
  PROVE  Drawn(s, inSats, Len(s.bins))
<1> DEFINE L == Len(s.bins)
           S == {n \in 0 .. L : Drawn(s, inSats, n)}
<1>1. L \in Nat
  BY BinsTyped
<1>2. 0 \in S
  BY <1>1, DrawnStarts
<1>3. ASSUME NEW n \in 0 .. L, n < L, n \in S PROVE n + 1 \in S
  <2>1. n + 1 \in 1 .. L /\ n + 1 \in 0 .. L /\ (n + 1) - 1 = n
    BY <1>1, <1>3
  <2>2. Drawn(s, inSats, (n + 1) - 1)
    BY <1>3, <2>1
  <2>3. Drawn(s, inSats, n + 1)
    BY <2>1, <2>2, DrawnGoesOn
  <2> QED BY <2>1, <2>3
<1>4. L \in S
  <2> HIDE DEF S, L
  <2>1. \A n \in 0 .. L : n \in S
    BY <1>1, <1>2, <1>3, UpTo
  <2>2. L \in 0 .. L
    BY <1>1
  <2> QED BY <2>1, <2>2
<1> QED
  BY <1>4

LEMMA DlmmIsFair ==
  ASSUME NEW s, DlmmState(s), NEW inSats \in Nat,
         \A n \in 1 .. Len(s.bins) : s.bins[n].price <= PriceScale
  PROVE  FairWalk(s, inSats, quoteDlmm(s, inSats))
<1> DEFINE L == Len(s.bins)
           end == walk(s, inSats)[L]
           q == quoteDlmm(s, inSats)
           r == end.remaining
           o == end.out
           f == s.feeBips
           g == BPS - f
           h == share(inSats, f)
           w == Worth(s, o)
           R == dlmmReserve(s)
           net == (inSats - h) * PriceScale
           gap == 2 * L * PriceScale
<1>1. L \in Nat /\ f \in Nat /\ f <= BPS /\ g \in Nat /\ BPS \in Nat \ {0}
      /\ PriceScale \in Nat \ {0} /\ L \in 0 .. L
  BY BinsTyped, BpsIsNat, QuotesAssumption
<1>2. /\ r \in Nat /\ o \in Nat /\ r <= inSats
      /\ r = 0 \/ o = R
      /\ w * BPS <= ((inSats - r) * g + L * BPS) * PriceScale
      /\ w * BPS >= ((inSats - r) * g - L * BPS) * PriceScale
  BY WalkIsFair DEF Drawn, Walks, Worth, dlmmReserve
<1>3. q.out = o /\ q.partial = (r > 0)
  BY DEF quoteDlmm, PoolQuote
<1>4. w \in Nat
  BY <1>1, <1>2, WorthType DEF Worth
<1>5. L = 0 => w = 0 /\ r = inSats
  <2>1. worth(s, o)[0] = 0
    BY <1>2, WorthDef
  <2>2. walk(s, inSats)[0] = [remaining |-> inSats, binsUsed |-> 0, out |-> 0]
    BY WalkDef
  <2>3. L = 0 => end.remaining = inSats
    BY <2>2
  <2> QED BY <2>1, <2>3 DEF Worth
<1>6. h \in Nat /\ h * BPS <= inSats * f /\ h <= inSats /\ inSats * f < h * BPS + BPS
  <2> HIDE DEF f
  <2>1. h \in Nat /\ h * BPS <= inSats * f /\ h <= inSats
    BY <1>1, ShareBounds
  <2>2. inSats * f \in Nat
    BY <1>1
  <2>3. inSats * f < (h + 1) * BPS
    BY <1>1, <2>2, FloorBounds DEF share
  <2> HIDE DEF h
  <2>4. (h + 1) * BPS = h * BPS + BPS
    BY <1>1, <2>1
  <2> QED BY <2>1, <2>3, <2>4
<1> HIDE DEF r, o, h, w, f, L, R, q, end
<1> DEFINE m == inSats - h
           t == (inSats - r) * g
           ig == inSats * g
           mB == m * BPS
           LB == L * BPS
<1>7. m \in Nat /\ t \in Nat /\ ig \in Nat /\ mB \in Nat /\ LB \in Nat
  <2> HIDE DEF g
  <2>1. m \in Nat /\ inSats - r \in Nat
    BY <1>2, <1>6
  <2> HIDE DEF m
  <2> QED BY <1>1, <2>1
<1>8. t <= ig /\ (r = 0 => t = ig) /\ mB >= ig /\ mB < ig + BPS
  <2>1. mB = inSats * BPS - h * BPS /\ ig = inSats * BPS - inSats * f
    BY <1>1, <1>6
  <2>2. h * BPS \in Nat /\ inSats * f \in Nat /\ inSats * BPS \in Nat
    BY <1>1, <1>6
  <2>3. mB >= ig /\ mB < ig + BPS
    <3> HIDE DEF mB, ig
    <3> QED BY <1>1, <1>6, <1>7, <2>1, <2>2
  <2> HIDE DEF mB, g
  <2>4. t <= ig /\ (r = 0 => t = ig)
    BY <1>1, <1>2
  <2> QED BY <2>3, <2>4
<1> HIDE DEF t, ig, mB, LB, g
<1>9. net \in Nat /\ gap \in Nat /\ net = m * PriceScale
      /\ net + gap = (m + 2 * L) * PriceScale /\ net - gap = (m - 2 * L) * PriceScale
  <2> HIDE DEF m
  <2>1. m * PriceScale \in Nat /\ 2 * L * PriceScale \in Nat
    BY <1>1, <1>7
  <2>2. (m + 2 * L) * PriceScale = m * PriceScale + 2 * L * PriceScale
        /\ (m - 2 * L) * PriceScale = m * PriceScale - 2 * L * PriceScale
    BY <1>1, <1>7
  <2> QED BY <2>1, <2>2 DEF m
<1> HIDE DEF net, gap
<1>10. w <= net + gap
  <2> SUFFICES ASSUME w > net + gap PROVE FALSE
    BY <1>4, <1>9
  <2>1. w * BPS > (net + gap) * BPS
    BY <1>1, <1>4, <1>9
  <2>2. w * BPS <= (t + LB) * PriceScale
    BY <1>2 DEF t, LB
  <2>3. (t + LB) * PriceScale <= (mB + LB + LB) * PriceScale
    BY <1>1, <1>7, <1>8
  <2>4. (net + gap) * BPS = (mB + LB + LB) * PriceScale
    <3> HIDE DEF m
    <3> QED BY <1>1, <1>7, <1>9 DEF mB, LB
  <2>5. w * BPS \in Int /\ (t + LB) * PriceScale \in Int /\ (mB + LB + LB) * PriceScale \in Int
    BY <1>1, <1>4, <1>7
  <2> QED BY <2>1, <2>2, <2>3, <2>4, <2>5
<1>11. r = 0 => w >= net - gap
  <2> SUFFICES ASSUME r = 0, w < net - gap PROVE FALSE
    BY <1>4, <1>9
  <2>1. CASE L = 0
    <3>1. inSats = 0 /\ w = 0
      BY <1>5, <2>1
    <3>2. m = 0
      BY <1>6, <3>1
    <3> QED BY <1>1, <1>9, <2>1, <3>1, <3>2
  <2>2. CASE L # 0
    <3>1. w * BPS < (net - gap) * BPS
      BY <1>1, <1>4, <1>9, SMTT(30)
    <3>2. w * BPS >= (t - LB) * PriceScale
      BY <1>2 DEF t, LB
    <3>3. LB >= BPS
      BY <1>1, <2>2 DEF LB
    <3>4. t - LB >= mB - LB - LB
      BY <1>1, <1>7, <1>8, <3>3
    <3>5. (t - LB) * PriceScale >= (mB - LB - LB) * PriceScale
      BY <1>1, <1>7, <3>4
    <3>6. (net - gap) * BPS = (mB - LB - LB) * PriceScale
      <4> HIDE DEF m
      <4> QED BY <1>1, <1>7, <1>9 DEF mB, LB
    <3>7. w * BPS \in Int /\ (t - LB) * PriceScale \in Int /\ (mB - LB - LB) * PriceScale \in Int
      BY <1>1, <1>4, <1>7
    <3> QED BY <3>1, <3>2, <3>5, <3>6, <3>7
  <2> QED BY <2>1, <2>2
<1>12. IF q.partial THEN q.out = R /\ Worth(s, q.out) <= net + gap
       ELSE Worth(s, q.out) \in (net - gap) .. (net + gap)
  <2>1. Worth(s, q.out) = w
    BY <1>3 DEF w
  <2>2. CASE r > 0
    <3>1. r # 0
      BY <1>2, <2>2
    <3> QED BY <1>2, <1>3, <1>10, <2>1, <2>2, <3>1
  <2>3. CASE ~(r > 0)
    <3>1. r = 0
      BY <1>2, <2>3
    <3>2. w \in (net - gap) .. (net + gap)
      BY <1>4, <1>9, <1>10, <1>11, <3>1
    <3> QED BY <1>3, <2>1, <2>3, <3>2
  <2> QED BY <2>2, <2>3
<1> QED
  BY <1>12 DEF FairWalk, net, gap, L, h, f, q, R

-----------------------------------------------------------------------------
(* The pool that is selected                                               *)

(* Quotes of one read: at most one of each pool.                           *)
OnePerPool(quotes) ==
  /\ \A q \in quotes : q.out \in Nat /\ q.reserveStx \in Nat /\ q.poolId \in 1 .. 3
  /\ \A q \in quotes, r \in quotes : q.poolId = r.poolId => q = r

beats(a, b) == a = b \/ better(a, b)

LEMMA BeatsOrders ==
  ASSUME NEW quotes, OnePerPool(quotes), NEW a \in quotes, NEW b \in quotes
  PROVE  /\ beats(a, b) \/ beats(b, a)
         /\ better(a, b) => ~ better(b, a)
         /\ \A c \in quotes : beats(a, b) /\ beats(b, c) => beats(a, c)
<1>1. /\ a.out \in Nat /\ a.reserveStx \in Nat /\ a.poolId \in 1 .. 3
      /\ b.out \in Nat /\ b.reserveStx \in Nat /\ b.poolId \in 1 .. 3
  BY DEF OnePerPool
<1>2. a.poolId = b.poolId => a = b
  BY DEF OnePerPool
<1>3. beats(a, b) \/ beats(b, a)
  BY <1>1, <1>2 DEF beats, better
<1>4. better(a, b) => ~ better(b, a)
  BY <1>1 DEF better
<1>5. ASSUME NEW c \in quotes, beats(a, b), beats(b, c) PROVE beats(a, c)
  <2>1. c.out \in Nat /\ c.reserveStx \in Nat /\ c.poolId \in 1 .. 3
    BY DEF OnePerPool
  <2>2. ASSUME better(a, b), better(b, c) PROVE better(a, c)
    BY <1>1, <2>1, <2>2 DEF better
  <2> QED BY <1>5, <2>2 DEF beats
<1> QED
  BY <1>3, <1>4, <1>5

(* Among them there is one that beats all.                                 *)
LEMMA BestExists ==
  ASSUME NEW quotes, OnePerPool(quotes), quotes # {}
  PROVE  \E m \in quotes : \A q \in quotes : beats(m, q)
<1> DEFINE Best(k, m) == m \in quotes /\ \A q \in quotes : q.poolId <= k => beats(m, q)
           S == {k \in 0 .. 3 : \E m : Best(k, m)}
<1>1. \A q \in quotes : q.poolId \in Nat /\ q.poolId <= 3 /\ ~ (q.poolId <= 0)
  BY DEF OnePerPool
<1>2. 0 \in S
  <2>1. PICK m : m \in quotes
    OBVIOUS
  <2>2. Best(0, m)
    BY <1>1, <2>1
  <2> HIDE DEF Best
  <2> QED BY <2>2
<1>3. ASSUME NEW k \in 0 .. 3, k < 3, k \in S PROVE k + 1 \in S
  <2>1. PICK m : Best(k, m)
    BY <1>3
  <2>2. k + 1 \in 0 .. 3
    BY <1>3
  <2>3. \A q \in quotes : q.poolId <= k + 1 => q.poolId <= k \/ q.poolId = k + 1
    BY <1>1
  <2>4. ASSUME NEW c, Best(k + 1, c) PROVE k + 1 \in S
    <3> HIDE DEF Best
    <3> QED BY <2>2, <2>4
  <2>5. CASE \A q \in quotes : q.poolId # k + 1
    <3>1. Best(k + 1, m)
      BY <2>1, <2>3, <2>5
    <3> HIDE DEF Best, S
    <3> QED BY <2>4, <3>1
  <2>6. CASE \E q \in quotes : q.poolId = k + 1
    <3>1. PICK r \in quotes : r.poolId = k + 1
      BY <2>6
    <3>2. \A q \in quotes : q.poolId = k + 1 => q = r
      BY <3>1 DEF OnePerPool
    <3>3. CASE beats(m, r)
      <4>1. Best(k + 1, m)
        BY <2>1, <2>3, <3>2, <3>3
      <4> HIDE DEF Best, S
      <4> QED BY <2>4, <4>1
    <3>4. CASE beats(r, m)
      <4>1. \A q \in quotes : q.poolId <= k => beats(r, q)
        BY <2>1, <3>1, <3>4, BeatsOrders
      <4>2. beats(r, r)
        BY DEF beats
      <4>3. Best(k + 1, r)
        BY <2>3, <3>1, <3>2, <4>1, <4>2
      <4> HIDE DEF Best, S
      <4> QED BY <2>4, <4>3
    <3>5. m \in quotes
      BY <2>1
    <3> QED BY <3>1, <3>3, <3>4, <3>5, BeatsOrders
  <2> QED BY <2>5, <2>6
<1>4. 3 \in S
  <2> HIDE DEF S
  <2>1. \A k \in 0 .. 3 : k < 3 /\ k \in S => k + 1 \in S
    BY <1>3
  <2>2. \A k \in 0 .. 3 : k \in S
    BY <1>2, <2>1, UpTo
  <2> QED BY <2>2
<1>5. PICK m : Best(3, m)
  <2> HIDE DEF Best
  <2> QED BY <1>4
<1> QED
  BY <1>1, <1>5

(* selectPool finds it.                                                    *)
LEMMA SelectsTheBest ==
  ASSUME NEW quotes, OnePerPool(quotes), eligible(quotes) # {}
  PROVE  /\ selectPool(quotes) \in eligible(quotes)
         /\ \A q \in eligible(quotes) : beats(selectPool(quotes), q)
<1> DEFINE E == eligible(quotes)
           Best(q) == \A other \in E \ {q} : better(q, other)
<1>1. E \subseteq quotes
  BY DEF eligible, live
<1>2. selectPool(quotes) = CHOOSE q \in E : Best(q)
  BY DEF selectPool
<1> HIDE DEF E
<1>3. OnePerPool(E)
  BY <1>1 DEF OnePerPool
<1>4. E # {}
  BY DEF E
<1>5. PICK m \in E : \A q \in E : beats(m, q)
  BY <1>3, <1>4, BestExists
<1>6. Best(m)
  BY <1>5 DEF beats
<1>7. (CHOOSE q \in E : Best(q)) \in E /\ Best(CHOOSE q \in E : Best(q))
  <2> HIDE DEF Best
  <2> QED BY <1>6
<1>8. selectPool(quotes) \in E /\ Best(selectPool(quotes))
  BY <1>2, <1>7
<1> QED
  BY <1>8 DEF E, beats

(* Of the others, and 0, the most is paid by one of them or is 0.          *)
LEMMA BestOther ==
  ASSUME NEW quotes, OnePerPool(quotes)
  PROVE  LET outs == {0} \union {q.out : q \in {o \in live(quotes) : o.poolId # 3}}
         IN  Max(outs) \in outs /\ \A v \in outs : v <= Max(outs)
<1> DEFINE L == live(quotes)
           O == {o \in L : o.poolId # 3}
           outs == {0} \union {q.out : q \in O}
<1>1. L \subseteq quotes
  BY DEF live
<1> HIDE DEF L
<1>2. OnePerPool(O) /\ \A q \in O : q.out \in Nat
  BY <1>1 DEF OnePerPool
<1> HIDE DEF O
<1>3. outs \in SUBSET Nat /\ outs # {}
  BY <1>2
<1>4. \E b \in Nat : \A v \in outs : v <= b
  <2>1. CASE O = {}
    <3>1. \A v \in outs : v <= 0
      BY <2>1
    <3> HIDE DEF outs
    <3>2. 0 \in Nat
      OBVIOUS
    <3> QED BY <3>1, <3>2
  <2>2. CASE O # {}
    <3>1. PICK m \in O : \A q \in O : beats(m, q)
      BY <1>2, <2>2, BestExists
    <3>2. \A q \in O : q.out <= m.out
      BY <1>2, <3>1 DEF beats, better
    <3>3. m.out \in Nat /\ \A v \in outs : v <= m.out
      BY <1>2, <3>2
    <3> HIDE DEF outs
    <3> QED BY <3>3
  <2> QED BY <2>1, <2>2
<1>5. PICK b \in Nat : \A v \in outs : v <= b
  <2> HIDE DEF outs
  <2> QED BY <1>4
<1> HIDE DEF outs
<1>6. Max(outs) \in outs /\ \A v \in outs : v <= Max(outs)
  BY <1>3, <1>5, GreatestNat
<1> QED
  BY <1>6 DEF outs, O, L

(* It pays the most, but for a DLMM that is passed over.                   *)
LEMMA SelectedPaysMost ==
  ASSUME NEW quotes, OnePerPool(quotes), eligible(quotes) # {}
  PROVE  LET mine   == selectPool(quotes)
             others == {q \in quotes : q.poolId # 3}
             small  == /\ \A q \in others : q.out < DlmmMinOutput
                       /\ \E q \in others : q.out > 0
         IN  /\ mine \in quotes /\ mine.out > 0
             /\ \A q \in quotes : q.out > mine.out => q.poolId = 3 /\ small
             /\ mine.poolId = 3 => ~small
<1> DEFINE mine == selectPool(quotes)
           E == eligible(quotes)
           O == {o \in live(quotes) : o.poolId # 3}
           outs == {0} \union {q.out : q \in O}
           most == Max(outs)
           others == {q \in quotes : q.poolId # 3}
           small == /\ \A q \in others : q.out < DlmmMinOutput
                    /\ \E q \in others : q.out > 0
<1>1. mine \in E /\ \A q \in E : beats(mine, q)
  BY SelectsTheBest
<1>2. E = {q \in live(quotes) : q.poolId # 3 \/ most = 0 \/ most >= DlmmMinOutput}
  BY DEF eligible
<1>3. most \in outs /\ \A v \in outs : v <= most
  BY BestOther
<1>4. \A q \in quotes : q.out \in Nat
  BY DEF OnePerPool
<1>5. \A q : q \in live(quotes) <=> q \in quotes /\ q.out > 0
  BY DEF live
<1> HIDE DEF mine, E, most
<1>6. mine \in quotes /\ mine.out > 0
  BY <1>1, <1>2, <1>5
<1>7. O = {q \in others : q.out > 0}
  BY <1>5
<1>8. most \in Nat /\ (most = 0 \/ \E q \in O : most = q.out) /\ \A q \in O : q.out <= most
  BY <1>3, <1>4, <1>5
<1> HIDE DEF outs, O
<1>9. small <=> most # 0 /\ most < DlmmMinOutput
  <2>1. DlmmMinOutput \in Nat
    BY QuotesAssumption
  <2>2. \A q \in others : q.out \in Nat
    BY <1>4
  <2> HIDE DEF others
  <2>3. (\E q \in others : q.out > 0) <=> most # 0
    BY <1>7, <1>8, <2>2
  <2>4. ASSUME most # 0, most < DlmmMinOutput, NEW q \in others PROVE q.out < DlmmMinOutput
    <3>1. q.out > 0 => q.out <= most
      BY <1>7, <1>8
    <3> QED BY <1>8, <2>1, <2>2, <2>4, <3>1
  <2>5. ASSUME most # 0, \A q \in others : q.out < DlmmMinOutput PROVE most < DlmmMinOutput
    BY <1>7, <1>8, <2>5
  <2> QED BY <2>3, <2>4, <2>5
<1>10. ASSUME NEW q \in quotes, q.out > mine.out PROVE q.poolId = 3 /\ small
  <2>1. q \in live(quotes)
    BY <1>4, <1>5, <1>6, <1>10
  <2>2. q \notin E
    <3> SUFFICES ASSUME beats(mine, q) PROVE FALSE
      BY <1>1
    <3> QED BY <1>4, <1>6, <1>10 DEF beats, better
  <2>3. q.poolId = 3 /\ most # 0 /\ ~ (most >= DlmmMinOutput)
    BY <1>2, <2>1, <2>2
  <2> QED BY <1>8, <1>9, <2>3, QuotesAssumption
<1>11. mine.poolId = 3 => ~small
  BY <1>1, <1>2, <1>8, <1>9, QuotesAssumption
<1> QED
  BY <1>6, <1>10, <1>11 DEF mine

-----------------------------------------------------------------------------
(* The form                                                                *)

USE FormAssumption

(* Without the call and the press, which no refresh depends on.            *)
FormTypes ==
  /\ account \in Accounts \union {None} /\ fromUrl \in BOOLEAN
  /\ refreshSeq \in RefreshIds
  /\ refreshes \in [RefreshIds -> Reading \union {None}]
  /\ refreshing = (refreshes[refreshSeq] # None)
  /\ \A k \in RefreshIds : refreshes[k] # None => k <= refreshSeq
  /\ form \in [verified : BOOLEAN, relays : (SUBSET Relays) \union {None},
               snapshot : Snapshots \union {None}]
  /\ world \in DOMAIN Worlds

NewestReadsForAccount ==
  (refreshes[refreshSeq] # None /\ account # None /\ ~fromUrl)
    => refreshes[refreshSeq].account = account

FormInv == FormTypes /\ NewestReadsForAccount /\ BalanceIsOfAccount

LEMMA NoneIsNone ==
  /\ \A r \in Reading : r # None
  /\ \A s \in Snapshots : s # None
  /\ \A s \in States : s # None
  /\ \A a \in Accounts : a # None
OBVIOUS

LEMMA ReadsType == \A a \in Accounts \union {None} : Reads(a) \in Reading /\ Reads(a).account = a
BY DEF Reads, Reading

LEMMA InitForm == Init => FormInv
<1> SUFFICES ASSUME Init PROVE FormInv
  OBVIOUS
<1>1. Reads(None) \in Reading /\ Reads(None) # None
  BY ReadsType, NoneIsNone
<1>2. FormTypes
  <2>1. 1 \in RefreshIds /\ 1 \in DOMAIN Worlds
    BY DEF RefreshIds
  <2>2. refreshes = [k \in RefreshIds |-> IF k = 1 THEN Reads(None) ELSE None]
    BY DEF Init
  <2>3. /\ refreshes \in [RefreshIds -> Reading \union {None}] /\ refreshes[1] # None
        /\ \A k \in RefreshIds : refreshes[k] # None => k <= 1
    BY <1>1, <2>1, <2>2
  <2>4. form \in [verified : BOOLEAN, relays : (SUBSET Relays) \union {None},
                  snapshot : Snapshots \union {None}]
    BY DEF Init, NoForm
  <2> QED
    BY <2>1, <2>3, <2>4 DEF Init, FormTypes
<1> QED
  BY <1>2 DEF Init, FormInv, NewestReadsForAccount, BalanceIsOfAccount

(* A refresh that starts is the newest, and reads for the account it finds.*)
LEMMA RefreshStarts ==
  ASSUME FormTypes, NEW a \in Accounts \union {None}, refreshAll(a), account' = a,
         UNCHANGED <<fromUrl, world>>
  PROVE  FormInv'
<1>1. /\ refreshSeq' \in RefreshIds /\ refreshSeq' = refreshSeq + 1
      /\ refreshes' = [refreshes EXCEPT ![refreshSeq'] = Reads(a)]
      /\ refreshing' = TRUE /\ form' = form
  BY DEF refreshAll, FormTypes, RefreshIds
<1>2. Reads(a) \in Reading /\ Reads(a).account = a /\ Reads(a) # None
  BY ReadsType, NoneIsNone
<1>3. refreshes'[refreshSeq'] = Reads(a)
  BY <1>1 DEF FormTypes
<1>4. \A k \in RefreshIds : refreshes'[k] # None => k <= refreshSeq'
  BY <1>1 DEF FormTypes, RefreshIds
<1>5. FormTypes'
  BY <1>1, <1>2, <1>3, <1>4 DEF FormTypes
<1> QED
  BY <1>1, <1>2, <1>3, <1>5 DEF FormInv, NewestReadsForAccount, BalanceIsOfAccount

(* The steps that start a refresh, or leave everything here alone.         *)
LEMMA FlowKeepsForm ==
  ASSUME FormInv,
         \/ \E a \in Accounts : Connect(a)
         \/ Disconnect \/ Refresh \/ onRetry \/ Trade
         \/ \E e \in Entries : Continue(e)
         \/ Press \/ FreshQuote \/ Refused \/ onSponsored
         \/ UNCHANGED vars
  PROVE  FormInv'
<1>1. FormTypes
  BY DEF FormInv
<1>2. ASSUME NEW a \in Accounts, Connect(a) PROVE FormInv'
  <2>1. CASE ~fromUrl
    BY <1>1, <1>2, <2>1, RefreshStarts DEF Connect, worldVars
  <2>2. CASE fromUrl
    <3>1. UNCHANGED <<refreshSeq, refreshes, refreshing, form, fromUrl, world>> /\ account' = a
      BY <1>2, <2>2 DEF Connect, formVars, worldVars
    <3> QED
      BY <1>1, <2>2, <3>1 DEF FormInv, FormTypes, NewestReadsForAccount, BalanceIsOfAccount
  <2> QED
    BY <1>1, <2>1, <2>2 DEF FormTypes
<1>3. CASE Disconnect
  <2>1. UNCHANGED <<refreshSeq, refreshes, refreshing, form, fromUrl, world>> /\ account' = None
    BY <1>3 DEF Disconnect, formVars, worldVars
  <2> QED
    BY <1>1, <2>1 DEF FormInv, FormTypes, NewestReadsForAccount, BalanceIsOfAccount
<1>4. CASE Refresh \/ onRetry
  <2>1. refreshAll(account) /\ account \in Accounts \union {None} /\ account' = account
        /\ UNCHANGED <<fromUrl, world>>
    BY <1>1, <1>4 DEF Refresh, onRetry, worldVars, FormTypes
  <2> QED
    BY <1>1, <2>1, RefreshStarts
<1>5. ASSUME UNCHANGED <<refreshSeq, refreshes, refreshing, form, fromUrl, account>>,
             world' \in DOMAIN Worlds
      PROVE  FormInv'
  BY <1>1, <1>5 DEF FormInv, FormTypes, NewestReadsForAccount, BalanceIsOfAccount
<1>6. world \in DOMAIN Worlds
  BY <1>1 DEF FormTypes
<1>7. CASE Trade
  BY <1>5, <1>7 DEF Trade, formVars
<1>8. ASSUME NEW e \in Entries, Continue(e) PROVE FormInv'
  BY <1>5, <1>6, <1>8 DEF Continue, formVars, worldVars
<1>9. CASE Press \/ FreshQuote \/ Refused \/ onSponsored
  BY <1>5, <1>6, <1>9 DEF Press, FreshQuote, Requotes, Refused, onSponsored, formVars, worldVars
<1>10. CASE UNCHANGED vars
  BY <1>5, <1>6, <1>10 DEF vars, formVars, worldVars
<1> QED
  BY <1>2, <1>3, <1>4, <1>7, <1>8, <1>9, <1>10

(* What a refresh writes has the balance of the account it read for.       *)
LEMMA AnswersAreOfAccount ==
  ASSUME NEW r \in Reading, r.states # None,
         NEW answer \in {ReadInFull(r)} \union ReadInPart(r)
  PROVE  /\ answer \in [verified : BOOLEAN, relays : (SUBSET Relays) \union {None},
                         snapshot : Snapshots]
         /\ answer.snapshot.balance \in {None, Balance(r.account)}
<1>1. r.states \in States /\ r.account \in Accounts \union {None}
  BY DEF Reading
<1>2. Balance(r.account) \in Nat \union {None}
  BY <1>1 DEF Balance
<1>3. PICK verified \in BOOLEAN, up \in SUBSET Relays, balance \in {None, Balance(r.account)} :
        answer = Answer(verified, up, balance, r.states)
  BY DEF ReadInFull, ReadInPart, Unverified, NoBalance, SomeRelays
<1>4. [states |-> r.states, balance |-> balance] \in Snapshots
  BY <1>1, <1>2 DEF Snapshots
<1> HIDE DEF Snapshots
<1> QED
  BY <1>3, <1>4 DEF Answer

LEMMA PoolsEndKeepsForm ==
  ASSUME FormInv, NEW k \in RefreshIds, PoolsEnd(k)
  PROVE  FormInv'
<1>1. FormTypes /\ refreshes[k] \in Reading /\ refreshes[k] # None
  BY DEF FormInv, FormTypes, PoolsEnd
<1>2. PICK up \in SUBSET AllPools : refreshes' = [refreshes EXCEPT ![k].states = statesRead(up)]
  BY DEF PoolsEnd
<1> DEFINE r == [refreshes[k] EXCEPT !.states = statesRead(up)]
<1>3. statesRead(up) \in States
  BY <1>1 DEF statesRead, States, FormTypes
<1>4. r \in Reading /\ r.account = refreshes[k].account
  BY <1>1, <1>3 DEF Reading
<1>5. refreshes' = [refreshes EXCEPT ![k] = r]
  BY <1>2
<1>6. r # None
  BY <1>4, NoneIsNone
<1> HIDE DEF r
<1>7. UNCHANGED <<account, fromUrl, refreshSeq, refreshing, form, world>>
  BY DEF PoolsEnd, worldVars
<1>8. FormTypes' /\ NewestReadsForAccount'
  BY <1>1, <1>4, <1>5, <1>6, <1>7 DEF FormInv, FormTypes, NewestReadsForAccount
<1> QED
  BY <1>7, <1>8 DEF FormInv, BalanceIsOfAccount

LEMMA RefreshEndsKeepsForm ==
  ASSUME FormInv, NEW k \in RefreshIds, RefreshEnds(k)
  PROVE  FormInv'
<1>1. FormTypes /\ refreshes[k] \in Reading /\ refreshes[k] # None /\ refreshes[k].states # None
  BY DEF FormInv, FormTypes, RefreshEnds
<1>2. PICK answer \in {ReadInFull(refreshes[k])} \union ReadInPart(refreshes[k]) : Writes(k, answer)
  BY DEF RefreshEnds
<1>3. UNCHANGED <<account, fromUrl, refreshSeq, world>> /\ refreshes' = [refreshes EXCEPT ![k] = None]
  BY DEF RefreshEnds, worldVars
<1>4. CASE k # refreshSeq
  <2>1. UNCHANGED <<form, refreshing>> /\ refreshes'[refreshSeq] = refreshes[refreshSeq]
    BY <1>1, <1>2, <1>3, <1>4 DEF Writes, FormTypes
  <2> QED
    BY <1>1, <1>3, <2>1 DEF FormInv, FormTypes, NewestReadsForAccount, BalanceIsOfAccount
<1>5. CASE k = refreshSeq
  <2>1. form' = answer /\ refreshing' = FALSE /\ refreshes'[refreshSeq] = None
    BY <1>1, <1>2, <1>3, <1>5 DEF Writes, FormTypes
  <2>2. /\ form' \in [verified : BOOLEAN, relays : (SUBSET Relays) \union {None},
                      snapshot : Snapshots]
        /\ form'.snapshot.balance \in {None, Balance(refreshes[k].account)}
    BY <1>1, <2>1, AnswersAreOfAccount
  <2>3. form'.snapshot \in Snapshots /\ form'.snapshot # None
    BY <2>2, NoneIsNone
  <2>4. FormTypes'
    BY <1>1, <1>3, <2>1, <2>2 DEF FormTypes
  <2>5. NewestReadsForAccount'
    BY <1>3, <2>1 DEF NewestReadsForAccount
  <2>6. BalanceIsOfAccount'
    <3>1. SUFFICES ASSUME account # None, ~fromUrl
                   PROVE  form'.snapshot.balance \in {None, BalanceOf[account]}
      BY <1>3, <2>3 DEF BalanceIsOfAccount
    <3>2. refreshes[k].account = account
      BY <1>1, <1>5, <3>1 DEF FormInv, NewestReadsForAccount
    <3> QED
      BY <2>2, <3>1, <3>2 DEF Balance
  <2> QED
    BY <2>4, <2>5, <2>6 DEF FormInv
<1> QED
  BY <1>4, <1>5

-----------------------------------------------------------------------------
(* The call and the press.                                                 *)

FlowTypes ==
  /\ following \in BOOLEAN
  /\ committed # None => committed.call.user \in Accounts /\ committed.pool \in DOMAIN SdkPools
  /\ press.pc \in {"idle", "requoting", "signing"}

(* A call that builds names a pool of the SDK.                             *)
LEMMA BuiltPool ==
  ASSUME NEW input, NEW out, Built(input, out).builds
  PROVE  input.pool \in DOMAIN SdkPools
<1> DEFINE checks == BuildChecks(input, out)
<1>1. Failing(checks) = {}
  BY DEF Built, Passes
<1>2. 4 \in DOMAIN checks
  <2>1. DOMAIN checks = 1..6
    BY DEF BuildChecks
  <2> QED
    BY <2>1
<1>4. checks[4] = Check(input.pool \in DOMAIN SdkPools, "UNKNOWN_POOL")
  BY DEF BuildChecks
<1>5. checks[4].holds => input.pool \in DOMAIN SdkPools
  <2>1. checks[4].holds = (input.pool \in DOMAIN SdkPools)
    BY <1>4 DEF Check
  <2> QED
    BY <2>1
<1> HIDE DEF checks
<1>3. checks[4].holds
  BY <1>1, <1>2, Zenon DEF Failing
<1> QED
  BY <1>3, <1>5

LEMMA ContinueTypesFlow ==
  ASSUME FlowTypes, NEW e \in Entries, account \in Accounts \union {None}, Continue(e)
  PROVE  FlowTypes'
<1> DEFINE best  == selectPool(quoteFromSnapshot(satsOf(e)))
           input == inputOf(e, best.poolId)
           built == Built(input, best.out)
<1>1. /\ account # None /\ built.builds
      /\ committed' = [amount |-> input.amount, tier |-> input.tier, slippage |-> input.slippage,
                       pool |-> best.poolId, call |-> built.call]
      /\ following' = following /\ press' = press
  BY DEF Continue
<1>2. best.poolId \in DOMAIN SdkPools
  <2>1. input.pool \in DOMAIN SdkPools
    BY <1>1, BuiltPool
  <2> QED
    BY <2>1 DEF inputOf
<1>3. built.call.user \in Accounts
  <2>1. built.call.user = account
    BY DEF Built, buildSwapCall, inputOf
  <2> QED
    BY <1>1, <2>1
<1> HIDE DEF best, input, built
<1> QED
  BY <1>1, <1>2, <1>3 DEF FlowTypes

LEMMA StepsTypeFlow ==
  ASSUME FlowTypes, account \in Accounts \union {None}, [Next]_vars
  PROVE  FlowTypes'
<1>1. ASSUME UNCHANGED <<following, committed, press>> PROVE FlowTypes'
  BY <1>1 DEF FlowTypes
<1>2. ASSUME NEW k \in RefreshIds, PoolsEnd(k) \/ RefreshEnds(k) PROVE FlowTypes'
  BY <1>1, <1>2 DEF PoolsEnd, RefreshEnds, flowVars
<1>3. ASSUME NEW a \in Accounts, Connect(a) PROVE FlowTypes'
  BY <1>1, <1>3 DEF Connect, flowVars
<1>4. CASE Disconnect \/ Refresh \/ Trade \/ UNCHANGED vars
  BY <1>1, <1>4 DEF Disconnect, Refresh, Trade, flowVars, vars
<1>5. ASSUME NEW e \in Entries, Continue(e) PROVE FlowTypes'
  BY <1>5, ContinueTypesFlow
<1>6. CASE Press \/ Refused
  <2>1. UNCHANGED <<following, committed>> /\ press'.pc \in {"idle", "requoting"}
    BY <1>6 DEF Press, Refused, NoPress, flowVars
  <2> QED
    BY <2>1 DEF FlowTypes
<1>9. CASE onSponsored
  <2>1. following' = TRUE /\ committed' = committed /\ press'.pc = "idle"
    BY <1>9 DEF onSponsored, NoPress
  <2> QED
    BY <2>1 DEF FlowTypes
<1>10. CASE onRetry
  <2>1. following' = FALSE /\ committed' = None /\ press' = press
    BY <1>10 DEF onRetry
  <2> QED
    BY <2>1 DEF FlowTypes
<1>7. ASSUME NEW up, Requotes(up) PROVE FlowTypes'
  BY <1>7 DEF FlowTypes, Requotes, NoPress, flowVars
<1>8. CASE FreshQuote
  BY <1>7, <1>8 DEF FreshQuote
<1> QED
  BY <1>2, <1>3, <1>4, <1>5, <1>6, <1>8, <1>9, <1>10 DEF Next

-----------------------------------------------------------------------------
(* Once nothing is refreshing the form shows the balance of the account    *)
(* that is connected, or none (app.jsx:94, app.jsx:112).                   *)
THEOREM BalanceBelongsToAccount == Spec => []BalanceIsOfAccount
<1>1. FormInv /\ [Next]_vars => FormInv'
  BY FlowKeepsForm, PoolsEndKeepsForm, RefreshEndsKeepsForm DEF Next
<1>2. FormInv => BalanceIsOfAccount
  BY DEF FormInv
<1> QED
  BY <1>1, <1>2, InitForm, PTL DEF Spec

(* The form's state keeps its types, and says that it refreshes exactly    *)
(* while the newest refresh reads (app.jsx:94).                            *)
THEOREM FormTypeCorrect == Spec => []TypeOK
<1> DEFINE Inv == FormInv /\ FlowTypes
<1>1. Init => Inv
  BY InitForm DEF Init, FlowTypes, NoPress
<1>2. Inv /\ [Next]_vars => Inv'
  <2>1. FormInv /\ [Next]_vars => FormInv'
    BY FlowKeepsForm, PoolsEndKeepsForm, RefreshEndsKeepsForm DEF Next
  <2>2. FormInv => account \in Accounts \union {None}
    BY DEF FormInv, FormTypes
  <2> QED
    BY <2>1, <2>2, StepsTypeFlow
<1>3. Inv => TypeOK
  <2> SUFFICES ASSUME FormTypes, FlowTypes PROVE TypeOK
    BY DEF FormInv
  <2>1. \A k \in RefreshIds : refreshes[k] # None => refreshes[k] \in Reading
    BY DEF FormTypes
  <2> QED
    BY <2>1 DEF FormTypes, FlowTypes, TypeOK
<1> QED
  BY <1>1, <1>2, <1>3, PTL DEF Spec

HIDE FormAssumption


(* Only Continue commits a call.                                           *)
LEMMA CommittedByContinue ==
  ASSUME [Next]_vars, committed' # committed, committed' # None
  PROVE  \E e \in Entries : Continue(e)
<1>1. ASSUME UNCHANGED committed PROVE FALSE
  BY <1>1
<1>2. ASSUME NEW k \in RefreshIds, PoolsEnd(k) \/ RefreshEnds(k) PROVE FALSE
  BY <1>1, <1>2 DEF PoolsEnd, RefreshEnds, flowVars
<1>3. ASSUME NEW a \in Accounts, Connect(a) PROVE FALSE
  BY <1>1, <1>3 DEF Connect, flowVars
<1>4. ASSUME NEW up, Requotes(up) PROVE FALSE
  BY <1>1, <1>4 DEF Requotes, flowVars
<1>5. ASSUME \/ Disconnect \/ Refresh \/ Trade \/ Press \/ Refused \/ onSponsored \/ onRetry
             \/ UNCHANGED vars
      PROVE  FALSE
  BY <1>1, <1>5 DEF Disconnect, Refresh, Trade, Press, Refused, onSponsored, onRetry, flowVars, vars
<1> QED
  BY <1>2, <1>3, <1>4, <1>5 DEF Next, FreshQuote

(* What the page shows of a committed call reads back as that call, in     *)
(* either unit (steps.jsx:64), and so does the slippage it proposes        *)
(* (steps.jsx:84), for every amount and slippage.                          *)
THEOREM ShownTextsReadBack == Spec => ShownReadsBack
<1> DEFINE Reads_(c) ==
      /\ parseAmount(Shown(c).sats, "sats") = c.amount
      /\ parseAmount(Shown(c).btc, "btc") = c.amount
      /\ parseSlippagePct(Shown(c).slippage) = c.slippage
      /\ parseSlippagePct(proposedSlippage(c.amount)) = defaultSlippageBips(c.amount)
<1>1. ASSUME NEW c, c.amount \in Nat \ {0}, c.slippage \in SlippageRange PROVE Reads_(c)
  <2>1. Shown(c).sats = fmtSats(c.amount) /\ Shown(c).btc = fmtBtc(c.amount)
        /\ Shown(c).slippage = fmtBips(c.slippage)
    BY DEF Shown
  <2>2. proposedSlippage(c.amount) = fmtBips(defaultSlippageBips(c.amount))
    BY DEF proposedSlippage, bipsToPct
  <2> DEFINE sats == c.amount
             bips == c.slippage
             default == defaultSlippageBips(sats)
  <2>3. sats \in Nat \ {0} /\ bips \in SlippageRange
    BY <1>1, Zenon
  <2>9. default \in SlippageRange
    BY DefaultSlippage, Zenon
  <2> HIDE DEF sats, bips, default
  <2>10. \A b \in SlippageRange : parseSlippagePct(fmtBips(b)) = b
    BY BipsReadBack, Zenon
  <2>4. parseAmount(fmtSats(sats), "sats") = sats
    BY <2>3, SatsReadBack
  <2>5. parseAmount(fmtBtc(sats), "btc") = sats
    BY <2>3, BtcReadsBack
  <2>6. parseSlippagePct(fmtBips(bips)) = bips
    BY <2>3, <2>10, Zenon
  <2>7. parseSlippagePct(fmtBips(default)) = default
    BY <2>9, <2>10, Zenon
  <2>8. /\ parseAmount(Shown(c).sats, "sats") = sats
        /\ parseAmount(Shown(c).btc, "btc") = sats
        /\ parseSlippagePct(Shown(c).slippage) = bips
        /\ parseSlippagePct(proposedSlippage(sats)) = default
    BY <2>1, <2>2, <2>4, <2>5, <2>6, <2>7, Zenon DEF sats, bips, default
  <2> QED BY <2>8, Zenon DEF sats, bips, default
<1>2. ASSUME [Next]_vars, committed' # committed, committed' # None
      PROVE  committed'.amount \in Nat \ {0} /\ committed'.slippage \in SlippageRange
  <2>1. PICK e \in Entries : Continue(e)
    BY <1>2, CommittedByContinue
  <2>2. satsOf(e) # None /\ slippageOf(e) # None
    BY <2>1 DEF Continue
  <2>3. committed'.amount = satsOf(e) /\ committed'.slippage = slippageOf(e)
    BY <2>1 DEF Continue, inputOf
  <2> QED BY <2>2, <2>3, EntryReads
<1>3. [Next]_vars /\ committed' # committed /\ committed' # None => Reads_(committed')
  BY <1>1, <1>2
<1> QED
  BY <1>3, PTL DEF Spec, ShownReadsBack

-----------------------------------------------------------------------------
(* The call that is committed                                              *)

LEMMA NetIsNat == \A amount \in Nat : netOf(amount) \in Nat
<1> SUFFICES ASSUME NEW amount \in Nat PROVE netOf(amount) \in Nat
  OBVIOUS
<1> DEFINE x == (amount * 50) \div 10000
           y == (amount * IntegratorBips) \div 10000
<1>1. netOf(amount) = amount - x - y
  BY DEF netOf, splitFees, SdkFeeBips, SdkBipsDenom
<1>2. IntegratorBips \in Nat /\ IntegratorBips <= 100
  BY FormAssumption DEF SdkMaxIntegratorBips
<1>3. amount * 50 \in Nat /\ amount * IntegratorBips \in Nat
  BY <1>2
<1>4. x \in Nat /\ x * 10000 <= amount * 50
  BY <1>3, FloorBounds
<1>5. y \in Nat /\ y * 10000 <= amount * IntegratorBips
  BY <1>3, FloorBounds
<1>6. amount * IntegratorBips <= amount * 100
  BY <1>2
<1> DEFINE ab == amount * IntegratorBips
<1> HIDE DEF x, y
<1>7. y * 10000 <= amount * 100
  <2> HIDE DEF ab
  <2> QED BY <1>3, <1>5, <1>6 DEF ab
<1>8. x + y <= amount
  BY <1>4, <1>5, <1>7
<1> QED
  BY <1>1, <1>4, <1>5, <1>8

LEMMA QuoteTypes ==
  ASSUME NEW p \in 1 .. 3, NEW s, NEW n \in Nat,
         p = 1 => XykState(s), p = 2 => VelarState(s), p = 3 => DlmmState(s)
  PROVE  LET q == quotePool(p, s, n)
         IN  q.poolId = p /\ q.out \in Nat /\ q.reserveStx \in Nat
<1>1. CASE p = 1
  <2> DEFINE y == s.yBalance
             dx == afterFees(s, n)
             t == s.xBalance + dx
             deals == s.enabled /\ n > 0 /\ s.xBalance > 0 /\ y > 0
  <2>1. y \in Nat /\ dx \in Nat /\ s.xBalance \in Nat
    BY <1>1, AfterFeesIsNat DEF XykState
  <2>2. quotePool(p, s, n) = PoolQuote(1, IF deals THEN (y * dx) \div t ELSE 0, y, FALSE)
    BY <1>1 DEF quotePool, quoteXyk
  <2>3. deals => (y * dx) \div t \in Nat
    <3> SUFFICES ASSUME deals PROVE (y * dx) \div t \in Nat
      OBVIOUS
    <3>1. t \in Nat \ {0} /\ y * dx \in Nat
      <4> HIDE DEF y, dx
      <4> QED BY <2>1
    <3> HIDE DEF y, dx, t, deals
    <3> QED BY <3>1, FloorBounds
  <2> HIDE DEF deals, t, dx, y
  <2> QED BY <1>1, <2>1, <2>2, <2>3 DEF PoolQuote
<1>2. CASE p = 2
  <2> DEFINE y == s.reserveStx
             dx == adjusted(s, n)
             t == s.reserveSbtc + dx
             deals == n > 0 /\ y > 0 /\ s.reserveSbtc > 0 /\ dx > 0
  <2>1. y \in Nat /\ dx \in Nat /\ s.reserveSbtc \in Nat
    BY <1>2, AdjustedIsNat DEF VelarState
  <2>2. quotePool(p, s, n) = PoolQuote(2, IF deals THEN (y * dx) \div t ELSE 0, y, FALSE)
    BY <1>2 DEF quotePool, quoteVelar
  <2>3. deals => (y * dx) \div t \in Nat
    <3> SUFFICES ASSUME deals PROVE (y * dx) \div t \in Nat
      OBVIOUS
    <3>1. t \in Nat \ {0} /\ y * dx \in Nat
      <4> HIDE DEF y, dx
      <4> QED BY <2>1
    <3> HIDE DEF y, dx, t, deals
    <3> QED BY <3>1, FloorBounds
  <2> HIDE DEF deals, t, dx, y
  <2> QED BY <1>2, <2>1, <2>2, <2>3 DEF PoolQuote
<1>3. CASE p = 3
  <2> DEFINE L == Len(s.bins)
             end == walk(s, n)[L]
  <2>1. L \in Nat /\ L \in 0 .. L
    BY <1>3, BinsTyped
  <2>2. end.out \in Nat /\ dlmmReserve(s) \in Nat
    BY <1>3, <2>1, WalkIsPaid, ReserveType DEF Walks, dlmmReserve
  <2>3. quotePool(p, s, n) = PoolQuote(3, end.out, dlmmReserve(s), end.remaining > 0)
    BY <1>3 DEF quotePool, quoteDlmm
  <2> HIDE DEF end, L
  <2> QED BY <1>3, <2>2, <2>3 DEF PoolQuote
<1> QED
  BY <1>1, <1>2, <1>3

(* The pools of a world are in states that the quotes are for.             *)
LEMMA WorldIsTyped ==
  ASSUME NEW w \in DOMAIN Worlds
  PROVE  XykState(Worlds[w][1]) /\ VelarState(Worlds[w][2]) /\ DlmmState(Worlds[w][3])
BY FormAssumption

LEMMA PoolsAreThree == AllPools = 1 .. 3
<1>1. Len(SdkPools) = 3
  BY DEF SdkPools
<1>2. DOMAIN SdkPools = 1 .. 3
  BY DEF SdkPools
<1> QED
  BY <1>2 DEF AllPools

(* What a read's quotes are.                                               *)
LEMMA QuotesOfRead ==
  ASSUME NEW states \in States, NEW amount \in Nat
  PROVE  LET quotes == quoteFromStates(statesOf(states), netOf(amount))
         IN  /\ OnePerPool(quotes)
             /\ \A q \in quotes : /\ q.poolId \in states.read
                                  /\ q = quotePool(q.poolId, Worlds[states.at][q.poolId], netOf(amount))
<1> DEFINE n == netOf(amount)
           up == states.read
           w == states.at
           quote(p) == quotePool(p, Worlds[w][p], n)
           quotes == quoteFromStates(statesOf(states), n)
<1>1. up \subseteq 1 .. 3 /\ w \in DOMAIN Worlds /\ n \in Nat
  BY NetIsNat, PoolsAreThree DEF States
<1>2. quotes = {quote(p) : p \in up}
  <2>1. DOMAIN statesOf(states) = up /\ \A p \in up : statesOf(states)[p] = Worlds[w][p]
    BY DEF statesOf
  <2> QED BY <2>1 DEF quoteFromStates
<1>3. ASSUME NEW p \in up
      PROVE  quote(p).poolId = p /\ quote(p).out \in Nat /\ quote(p).reserveStx \in Nat
  <2>1. p \in 1 .. 3
    BY <1>1
  <2>2. XykState(Worlds[w][1]) /\ VelarState(Worlds[w][2]) /\ DlmmState(Worlds[w][3])
    BY <1>1, WorldIsTyped
  <2> DEFINE s == Worlds[w][p]
  <2>3. p = 1 => XykState(s)
    BY <2>2
  <2>4. p = 2 => VelarState(s)
    BY <2>2
  <2>5. p = 3 => DlmmState(s)
    BY <2>2
  <2> HIDE DEF s, n
  <2>6. LET q == quotePool(p, s, n)
        IN  q.poolId = p /\ q.out \in Nat /\ q.reserveStx \in Nat
    BY <1>1, <2>1, <2>3, <2>4, <2>5, QuoteTypes
  <2> QED BY <2>6 DEF s
<1> HIDE DEF quotes, n, up, w
<1>4. \A q \in quotes : q.poolId \in up /\ q = quote(q.poolId)
  <2> HIDE DEF quote
  <2> QED BY <1>2, <1>3
<1>5. OnePerPool(quotes)
  <2>1. \A q \in quotes : q.out \in Nat /\ q.reserveStx \in Nat /\ q.poolId \in 1 .. 3
    <3> HIDE DEF quote
    <3> QED BY <1>1, <1>2, <1>3
  <2>2. \A q \in quotes, r \in quotes : q.poolId = r.poolId => q = r
    <3> HIDE DEF quote
    <3> QED BY <1>4
  <2> QED BY <2>1, <2>2 DEF OnePerPool
<1> QED
  BY <1>4, <1>5 DEF quotes, n, up, w

(* A call that builds has a minimum that covers its tier.                  *)
LEMMA BuiltMinimum ==
  ASSUME NEW input, NEW out, Built(input, out).builds
  PROVE  minOutFor(out, input.slippage) >= SdkTiers[input.tier]
<1> DEFINE checks == BuildChecks(input, out)
           ok == minOutFor(out, input.slippage) >= SdkTiers[input.tier]
<1>1. Failing(checks) = {}
  BY DEF Built, Passes
<1>2. 6 \in DOMAIN checks
  <2>1. DOMAIN checks = 1 .. 6
    BY DEF BuildChecks
  <2> QED
    BY <2>1
<1>3. checks[6] = Check(ok, "MIN_OUT_BELOW_TIER")
  BY DEF BuildChecks
<1>4. checks[6].holds = ok
  BY <1>3 DEF Check
<1> HIDE DEF checks
<1>5. checks[6].holds
  BY <1>1, <1>2, Zenon DEF Failing
<1> QED
  BY <1>4, <1>5

(* A committed call: its pool is the one selected from the form's snapshot,*)
(* and its minimum covers its tier.                                        *)
LEMMA CommittedFromSnapshot ==
  ASSUME FormTypes, NEW e \in Entries, Continue(e)
  PROVE  LET states == form.snapshot.states
             quotes == quoteFromSnapshot(committed'.amount)
         IN  /\ states \in States
             /\ committed'.amount \in Nat \ {0}
             /\ quotes = quoteFromStates(statesOf(states), netOf(committed'.amount))
             /\ eligible(quotes) # {}
             /\ committed'.pool = selectPool(quotes).poolId
             /\ committed'.call.minOut = minOutFor(selectPool(quotes).out, committed'.slippage)
             /\ committed'.slippage \in SlippageRange
             /\ committed'.call.minOut >= SdkTiers[committed'.tier]
<1> DEFINE sats == satsOf(e)
           quotes == quoteFromSnapshot(sats)
           best == selectPool(quotes)
           input == inputOf(e, best.poolId)
           built == Built(input, best.out)
<1>1. /\ form.snapshot # None /\ sats # None /\ slippageOf(e) # None
      /\ eligible(quotes) # {} /\ built.builds
      /\ committed' = [amount |-> input.amount, tier |-> input.tier, slippage |-> input.slippage,
                       pool |-> best.poolId, call |-> built.call]
  BY DEF Continue
<1>2. form.snapshot \in Snapshots
  BY <1>1 DEF FormTypes
<1>3. form.snapshot.states \in States
  BY <1>2 DEF Snapshots
<1>4. sats \in Nat \ {0} /\ slippageOf(e) \in SlippageRange
  BY <1>1, EntryReads
<1>5. input.amount = sats /\ input.slippage = slippageOf(e)
  BY DEF inputOf
<1>6. built.call.minOut = minOutFor(best.out, input.slippage)
  BY DEF Built, buildSwapCall
<1>7. minOutFor(best.out, input.slippage) >= SdkTiers[input.tier]
  <2> HIDE DEF input
  <2> QED BY <1>1, BuiltMinimum
<1>8. quotes = quoteFromStates(statesOf(form.snapshot.states), netOf(sats))
  BY DEF quoteFromSnapshot
<1> HIDE DEF sats, quotes, best, input, built
<1>9. /\ committed'.amount = sats /\ committed'.tier = input.tier
      /\ committed'.slippage = input.slippage /\ committed'.pool = best.poolId
      /\ committed'.call = built.call
  BY <1>1, <1>5
<1>10. quoteFromSnapshot(committed'.amount) = quotes
  BY <1>9 DEF quotes
<1> QED
  BY <1>1, <1>3, <1>4, <1>5, <1>6, <1>7, <1>8, <1>9, <1>10 DEF best

(* The pool committed to pays the most of those that answered, the DLMM    *)
(* passed over only when the others pay little but something               *)
(* (sdk/src/quote/select.ts:6), for pools in any state.                    *)
THEOREM BestPoolIsCommitted == Spec => BestIsCommitted
<1> DEFINE Best ==
      LET quotes == quoteFromSnapshot(committed'.amount)
          mine   == CHOOSE q \in quotes : q.poolId = committed'.pool
          others == {q \in quotes : q.poolId # 3}
          small  == /\ \A q \in others : q.out < DlmmMinOutput
                    /\ \E q \in others : q.out > 0
      IN  /\ mine.out > 0
          /\ \A q \in quotes : q.out > mine.out => q.poolId = 3 /\ small
          /\ mine.poolId = 3 => ~small
<1>1. ASSUME FormTypes, [Next]_vars, committed' # committed, committed' # None PROVE Best
  <2>1. PICK e \in Entries : Continue(e)
    BY <1>1, CommittedByContinue
  <2> DEFINE amount == committed'.amount
             quotes == quoteFromSnapshot(amount)
             states == form.snapshot.states
             best   == selectPool(quotes)
             mine   == CHOOSE q \in quotes : q.poolId = committed'.pool
  <2>2. /\ states \in States /\ amount \in Nat
        /\ quotes = quoteFromStates(statesOf(states), netOf(amount))
        /\ eligible(quotes) # {} /\ committed'.pool = best.poolId
    BY <1>1, <2>1, CommittedFromSnapshot
  <2>3. OnePerPool(quotes)
    <3> HIDE DEF amount, states, quotes
    <3> QED BY <2>2, QuotesOfRead
  <2>4. best \in quotes
    <3> HIDE DEF quotes
    <3> QED BY <2>2, <2>3, SelectedPaysMost
  <2>5. mine = best
    <3> DEFINE id == committed'.pool
    <3>1. mine = CHOOSE q \in quotes : q.poolId = id
      OBVIOUS
    <3> HIDE DEF quotes, best, mine, id
    <3>2. \A q \in quotes : q.poolId = id => q = best
      BY <2>2, <2>3, <2>4 DEF OnePerPool, id
    <3>3. best.poolId = id
      BY <2>2 DEF id
    <3>4. \E q \in quotes : q.poolId = id
      BY <2>4, <3>3
    <3> QED BY <3>1, <3>2, <3>4
  <2> HIDE DEF quotes, mine
  <2>6. LET others == {q \in quotes : q.poolId # 3}
            small  == /\ \A q \in others : q.out < DlmmMinOutput
                      /\ \E q \in others : q.out > 0
        IN  /\ mine.out > 0
            /\ \A q \in quotes : q.out > mine.out => q.poolId = 3 /\ small
            /\ mine.poolId = 3 => ~small
    BY <2>2, <2>3, <2>5, SelectedPaysMost
  <2> QED BY <2>6 DEF quotes, mine
<1>2. FormInv /\ [Next]_vars => FormInv'
  BY FlowKeepsForm, PoolsEndKeepsForm, RefreshEndsKeepsForm DEF Next
<1>3. FormInv /\ [Next]_vars => (committed' # committed /\ committed' # None => Best)
  BY <1>1 DEF FormInv
<1> QED
  BY <1>2, <1>3, InitForm, PTL DEF Spec, BestIsCommitted

(* What each pool that answered is quoted to pay is what it pays           *)
(* (sdk/src/quote/types.ts:4), for pools in any state, as long as a uSTX   *)
(* costs no more than a sat (sdk/src/quote/dlmm.ts:3).                     *)
THEOREM QuotesArePaid ==
  ASSUME \A w \in DOMAIN Worlds :
           \A n \in 1 .. Len(Worlds[w][3].bins) : Worlds[w][3].bins[n].price <= PriceScale
  PROVE  Spec => QuotesAreFair
<1> DEFINE AreFair ==
      LET at == form.snapshot.states.at
      IN  \A q \in quoteFromSnapshot(committed'.amount) :
            Fair(q.poolId, Worlds[at][q.poolId], netOf(committed'.amount), q)
<1>1. ASSUME NEW w \in DOMAIN Worlds, NEW p \in 1 .. 3, NEW n \in Nat
      PROVE  Fair(p, Worlds[w][p], n, quotePool(p, Worlds[w][p], n))
  <2> DEFINE s == Worlds[w][p]
  <2>1. XykState(Worlds[w][1]) /\ VelarState(Worlds[w][2]) /\ DlmmState(Worlds[w][3])
    BY WorldIsTyped
  <2>2. CASE p = 1
    <3>1. XykState(s)
      BY <2>1, <2>2
    <3> HIDE DEF s
    <3>2. CASE s.enabled /\ s.xBalance > 0 /\ s.yBalance > 0
      <4>1. Pays(s.xBalance, s.yBalance, afterFees(s, n), quoteXyk(s, n).out)
        BY <3>1, <3>2, XykIsFair
      <4>2. Fair(p, s, n, quotePool(p, s, n))
        BY <2>2, <3>2, <4>1 DEF Fair, quotePool
      <4> QED BY <4>2 DEF s
    <3>3. CASE ~ (s.enabled /\ s.xBalance > 0 /\ s.yBalance > 0)
      <4>1. quoteXyk(s, n).out = 0
        BY <3>3 DEF quoteXyk, PoolQuote
      <4>2. Fair(p, s, n, quotePool(p, s, n))
        BY <2>2, <3>3, <4>1 DEF Fair, quotePool
      <4> QED BY <4>2 DEF s
    <3> QED BY <3>2, <3>3
  <2>3. CASE p = 2
    <3>1. VelarState(s)
      BY <2>1, <2>3
    <3> HIDE DEF s
    <3>2. CASE s.reserveSbtc > 0 /\ s.reserveStx > 0
      <4>1. Pays(s.reserveSbtc, s.reserveStx, adjusted(s, n), quoteVelar(s, n).out)
        BY <3>1, <3>2, VelarIsFair
      <4>2. Fair(p, s, n, quotePool(p, s, n))
        BY <2>3, <3>2, <4>1 DEF Fair, quotePool
      <4> QED BY <4>2 DEF s
    <3>3. CASE ~ (s.reserveSbtc > 0 /\ s.reserveStx > 0)
      <4>1. quoteVelar(s, n).out = 0
        BY <3>3 DEF quoteVelar, PoolQuote
      <4>2. Fair(p, s, n, quotePool(p, s, n))
        BY <2>3, <3>3, <4>1 DEF Fair, quotePool
      <4> QED BY <4>2 DEF s
    <3> QED BY <3>2, <3>3
  <2>4. CASE p = 3
    <3>1. DlmmState(s) /\ \A j \in 1 .. Len(s.bins) : s.bins[j].price <= PriceScale
      BY <2>1, <2>4
    <3> HIDE DEF s
    <3>2. FairWalk(s, n, quoteDlmm(s, n))
      BY <3>1, DlmmIsFair
    <3>3. Fair(p, s, n, quotePool(p, s, n))
      BY <2>4, <3>2 DEF Fair, quotePool
    <3> QED BY <3>3 DEF s
  <2> QED BY <2>2, <2>3, <2>4
<1>2. ASSUME FormTypes, [Next]_vars, committed' # committed, committed' # None PROVE AreFair
  <2>1. PICK e \in Entries : Continue(e)
    BY <1>2, CommittedByContinue
  <2> DEFINE amount == committed'.amount
             n == netOf(amount)
             quotes == quoteFromSnapshot(amount)
             states == form.snapshot.states
             w == states.at
  <2>2. states \in States /\ amount \in Nat /\ quotes = quoteFromStates(statesOf(states), n)
    BY <1>2, <2>1, CommittedFromSnapshot
  <2>3. w \in DOMAIN Worlds /\ states.read \subseteq 1 .. 3 /\ n \in Nat
    BY <2>2, NetIsNat, PoolsAreThree DEF States
  <2>4. \A q \in quotes : q.poolId \in states.read /\ q = quotePool(q.poolId, Worlds[w][q.poolId], n)
    <3> HIDE DEF amount, states, quotes
    <3> QED BY <2>2, QuotesOfRead
  <2> HIDE DEF quotes, n, w, amount
  <2>5. ASSUME NEW q \in quotes PROVE Fair(q.poolId, Worlds[w][q.poolId], n, q)
    <3> DEFINE p == q.poolId
    <3>1. p \in 1 .. 3 /\ q = quotePool(p, Worlds[w][p], n)
      BY <2>3, <2>4
    <3> HIDE DEF p
    <3>2. Fair(p, Worlds[w][p], n, quotePool(p, Worlds[w][p], n))
      BY <1>1, <2>3, <3>1
    <3>3. Fair(p, Worlds[w][p], n, q)
      BY <3>1, <3>2, Zenon
    <3> QED BY <3>3 DEF p
  <2> QED BY <2>5 DEF quotes, n, w, amount
<1>3. FormInv /\ [Next]_vars => FormInv'
  BY FlowKeepsForm, PoolsEndKeepsForm, RefreshEndsKeepsForm DEF Next
<1>4. FormInv /\ [Next]_vars => (committed' # committed /\ committed' # None => AreFair)
  BY <1>2 DEF FormInv
<1> QED
  BY <1>3, <1>4, InitForm, PTL DEF Spec, QuotesAreFair

(* A call whose minimum covers its tier; and before the wallet opens, the  *)
(* fresh read's quote of its pool covers the minimum.                      *)
Asks(c) ==
  /\ c.pool \in 1 .. 3 /\ c.amount \in Nat
  /\ c.call.minOut \in Nat /\ c.call.minOut >= SdkTiers[c.tier]

FreshOut == quotePool(press.call.pool, Worlds[press.fresh][press.call.pool],
                      netOf(press.call.amount)).out

AskInv ==
  /\ press.pc \in {"idle", "requoting", "signing"}
  /\ committed # None => Asks(committed)
  /\ press.pc # "idle" => Asks(press.call)
  /\ press.pc = "signing" => /\ press.fresh \in DOMAIN Worlds
                             /\ FreshOut # 0 /\ FreshOut >= press.call.call.minOut

LEMMA MinimumIsNat ==
  ASSUME NEW out \in Nat, NEW slippage \in SlippageRange
  PROVE  minOutFor(out, slippage) \in Nat
<1>1. 10000 - slippage \in Nat
  BY DEF SlippageRange
<1>2. out * (10000 - slippage) \in Nat
  BY <1>1
<1> QED
  BY <1>2 DEF minOutFor

LEMMA ContinueAsks ==
  ASSUME FormTypes, NEW e \in Entries, Continue(e)
  PROVE  Asks(committed')
<1> DEFINE amount == committed'.amount
           quotes == quoteFromSnapshot(amount)
           states == form.snapshot.states
           best   == selectPool(quotes)
<1>1. /\ states \in States /\ amount \in Nat
      /\ quotes = quoteFromStates(statesOf(states), netOf(amount))
      /\ eligible(quotes) # {} /\ committed'.pool = best.poolId
      /\ committed'.call.minOut = minOutFor(best.out, committed'.slippage)
      /\ committed'.slippage \in SlippageRange
      /\ committed'.call.minOut >= SdkTiers[committed'.tier]
  BY CommittedFromSnapshot
<1>2. OnePerPool(quotes)
  <2> HIDE DEF amount, states, quotes
  <2> QED BY <1>1, QuotesOfRead
<1>3. best \in quotes
  <2> HIDE DEF quotes
  <2> QED BY <1>1, <1>2, SelectedPaysMost
<1> HIDE DEF quotes, best
<1>4. best.out \in Nat /\ best.poolId \in 1 .. 3
  BY <1>2, <1>3 DEF OnePerPool
<1> DEFINE slippage == committed'.slippage
           out == best.out
<1>5. slippage \in SlippageRange /\ out \in Nat
  BY <1>1, <1>4
<1> HIDE DEF slippage, out
<1>6. minOutFor(out, slippage) \in Nat
  BY <1>5, MinimumIsNat
<1> QED
  BY <1>1, <1>4, <1>6 DEF Asks, slippage, out

LEMMA RequoteAsks ==
  ASSUME FormTypes, AskInv, NEW up, Requotes(up)
  PROVE  AskInv'
<1> DEFINE c == press.call
           out == freshQuoteFor(up, c.amount, c.pool)
<1>1. press.pc = "requoting" /\ committed' = committed /\ Asks(c)
  BY DEF Requotes, AskInv, flowVars
<1>2. press' = IF out = 0 \/ out < c.call.minOut THEN NoPress
               ELSE [pc |-> "signing", call |-> c, fresh |-> world]
  BY DEF Requotes
<1>3. world \in DOMAIN Worlds
  BY DEF FormTypes
<1>4. CASE out = 0 \/ out < c.call.minOut
  <2>1. press'.pc = "idle"
    BY <1>2, <1>4 DEF NoPress
  <2> QED BY <1>1, <2>1 DEF AskInv
<1>5. CASE ~ (out = 0 \/ out < c.call.minOut)
  <2> DEFINE q == quotePool(c.pool, Worlds[world][c.pool], netOf(c.amount))
  <2>1. out = IF c.pool \in up THEN q.out ELSE 0
    BY DEF freshQuoteFor
  <2>2. out = q.out /\ out # 0 /\ ~ (out < c.call.minOut)
    BY <1>5, <2>1
  <2>3. press'.pc = "signing" /\ press'.call = c /\ press'.fresh = world
    BY <1>2, <1>5
  <2>4. q.out \in Nat
    <3> DEFINE p == c.pool
               s == Worlds[world][p]
               n == netOf(c.amount)
    <3>1. p \in 1 .. 3 /\ n \in Nat
      BY <1>1, NetIsNat DEF Asks
    <3>2. XykState(Worlds[world][1]) /\ VelarState(Worlds[world][2]) /\ DlmmState(Worlds[world][3])
      BY <1>3, WorldIsTyped
    <3>3. p = 1 => XykState(s)
      BY <3>2
    <3>4. p = 2 => VelarState(s)
      BY <3>2
    <3>5. p = 3 => DlmmState(s)
      BY <3>2
    <3>6. q = quotePool(p, s, n)
      OBVIOUS
    <3> HIDE DEF p, s, n, q
    <3>7. quotePool(p, s, n).out \in Nat
      BY <3>1, <3>3, <3>4, <3>5, QuoteTypes
    <3> QED BY <3>6, <3>7
  <2>5. c.call.minOut \in Nat
    BY <1>1 DEF Asks
  <2>6. FreshOut' = q.out
    BY <2>3 DEF FreshOut
  <2> HIDE DEF q, out
  <2>7. FreshOut' # 0 /\ FreshOut' >= c.call.minOut
    BY <2>2, <2>4, <2>5, <2>6
  <2>8. press'.call.call.minOut = c.call.minOut
    BY <2>3
  <2>9. Asks(press'.call)
    BY <1>1, <2>3
  <2> HIDE DEF c
  <2> QED BY <1>1, <1>3, <2>3, <2>7, <2>8, <2>9 DEF AskInv, Asks, c
<1> QED
  BY <1>4, <1>5

LEMMA StepsKeepAsks ==
  ASSUME FormTypes, AskInv, [Next]_vars
  PROVE  AskInv'
<1>1. ASSUME UNCHANGED <<press, committed>> PROVE AskInv'
  BY <1>1 DEF AskInv, Asks, FreshOut
<1>2. ASSUME NEW k \in RefreshIds, PoolsEnd(k) \/ RefreshEnds(k) PROVE AskInv'
  BY <1>1, <1>2 DEF PoolsEnd, RefreshEnds, flowVars
<1>3. ASSUME NEW a \in Accounts, Connect(a) PROVE AskInv'
  BY <1>1, <1>3 DEF Connect, flowVars
<1>4. ASSUME Disconnect \/ Refresh \/ Trade \/ UNCHANGED vars PROVE AskInv'
  BY <1>1, <1>4 DEF Disconnect, Refresh, Trade, flowVars, vars
<1>5. ASSUME NEW e \in Entries, Continue(e) PROVE AskInv'
  <2>1. Asks(committed')
    BY <1>5, ContinueAsks
  <2>2. press' = press
    BY <1>5 DEF Continue
  <2> QED BY <2>1, <2>2 DEF AskInv, Asks, FreshOut
<1>6. CASE Press
  <2>1. press'.pc = "requoting" /\ press'.call = committed /\ committed' = committed
        /\ committed # None
    BY <1>6 DEF Press, flowVars
  <2> QED BY <2>1 DEF AskInv, Asks
<1>7. CASE Refused \/ onSponsored
  <2>1. press'.pc = "idle" /\ committed' = committed
    BY <1>7 DEF Refused, onSponsored, NoPress, flowVars
  <2> QED BY <2>1 DEF AskInv, Asks
<1>8. CASE onRetry
  <2>1. press' = press /\ committed' = None
    BY <1>8 DEF onRetry
  <2> QED BY <2>1 DEF AskInv, Asks, FreshOut
<1>9. CASE FreshQuote
  BY <1>9, RequoteAsks DEF FreshQuote
<1> QED
  BY <1>2, <1>3, <1>4, <1>5, <1>6, <1>7, <1>8, <1>9 DEF Next

(* The call the wallet is asked to sign is one that its pool, as the fresh *)
(* read found it, can pay the minimum of, and the minimum covers the       *)
(* sponsor's fee (steps.jsx:237), for pools in any state.                  *)
THEOREM AskedCallsArePayable == Spec => []AskedIsPayable
<1> DEFINE Inv == FormInv /\ AskInv
<1>1. Init => Inv
  BY InitForm DEF Init, AskInv, NoPress
<1>2. Inv /\ [Next]_vars => Inv'
  <2>1. FormInv /\ [Next]_vars => FormInv'
    BY FlowKeepsForm, PoolsEndKeepsForm, RefreshEndsKeepsForm DEF Next
  <2> QED BY <2>1, StepsKeepAsks DEF FormInv
<1>3. Inv => AskedIsPayable
  <2> SUFFICES ASSUME AskInv, press.pc = "signing" PROVE AskedIsPayable
    BY DEF AskedIsPayable
  <2> DEFINE c == press.call
             p == c.pool
             s == Worlds[press.fresh][p]
             n == netOf(c.amount)
             d == c.call.minOut
  <2>1. /\ p \in 1 .. 3 /\ n \in Nat /\ d \in Nat /\ d >= SdkTiers[c.tier]
        /\ press.fresh \in DOMAIN Worlds /\ FreshOut # 0 /\ FreshOut >= d
    BY NetIsNat DEF AskInv, Asks
  <2>2. FreshOut = quotePool(p, s, n).out
    BY DEF FreshOut
  <2>3. /\ XykState(Worlds[press.fresh][1]) /\ VelarState(Worlds[press.fresh][2])
        /\ DlmmState(Worlds[press.fresh][3])
    BY <2>1, WorldIsTyped
  <2>4. p = 1 => XykState(s)
    BY <2>3
  <2>5. p = 2 => VelarState(s)
    BY <2>3
  <2>6. p = 3 => DlmmState(s)
    BY <2>3
  <2> HIDE DEF p, s, n, d
  <2>7. quotePool(p, s, n).out \in Nat
    BY <2>1, <2>4, <2>5, <2>6, QuoteTypes
  <2>8. quotePool(p, s, n).out # 0 /\ d <= quotePool(p, s, n).out
    BY <2>1, <2>2, <2>7
  <2>9. CanPay(p, s, n, d)
    BY <2>1, <2>4, <2>5, <2>6, <2>8, QuoteIsPayable
  <2> QED BY <2>1, <2>9 DEF AskedIsPayable, p, s, n, d
<1> QED
  BY <1>1, <1>2, <1>3, PTL DEF Spec

-----------------------------------------------------------------------------
(* The surfaces of the SDK                                                 *)

LEMMA TiersAreThree ==
  /\ TierNames = {"low", "mid", "high"}
  /\ TierRank["low"] = 1 /\ TierRank["mid"] = 2 /\ TierRank["high"] = 3
BY DEF TierNames, SdkTiers, TierRank

(* The lowest of some tiers is one of them, and there is only one.         *)
LEMMA LowestOf ==
  ASSUME NEW tiers \in SUBSET TierNames, tiers # {}
  PROVE  /\ lowest(tiers) \in tiers
         /\ \A other \in tiers : TierRank[lowest(tiers)] <= TierRank[other]
<1>1. \A t \in tiers : t = "low" \/ t = "mid" \/ t = "high"
  BY TiersAreThree
<1>2. ASSUME NEW t \in tiers, \A other \in tiers : TierRank[t] <= TierRank[other]
      PROVE  \E m \in tiers : \A other \in tiers : TierRank[m] <= TierRank[other]
  BY <1>2
<1>3. CASE "low" \in tiers
  <2>1. \A other \in tiers : TierRank["low"] <= TierRank[other]
    BY <1>1, TiersAreThree
  <2> QED BY <1>3, <2>1 DEF lowest
<1>4. CASE "low" \notin tiers /\ "mid" \in tiers
  <2>1. \A other \in tiers : TierRank["mid"] <= TierRank[other]
    BY <1>1, <1>4, TiersAreThree
  <2> QED BY <1>4, <2>1 DEF lowest
<1>5. CASE "low" \notin tiers /\ "mid" \notin tiers
  <2>1. "high" \in tiers
    BY <1>1, <1>5
  <2>2. \A other \in tiers : TierRank["high"] <= TierRank[other]
    BY <1>1, <1>5, TiersAreThree
  <2> QED BY <2>1, <2>2 DEF lowest
<1> QED
  BY <1>3, <1>4, <1>5

LEMMA LowestIs ==
  ASSUME NEW tiers \in SUBSET TierNames, NEW t \in tiers,
         \A other \in tiers : TierRank[t] <= TierRank[other]
  PROVE  lowest(tiers) = t
<1> DEFINE m == lowest(tiers)
<1>1. m \in tiers /\ \A other \in tiers : TierRank[m] <= TierRank[other]
  BY LowestOf
<1> HIDE DEF m
<1>2. m \in {"low", "mid", "high"} /\ t \in {"low", "mid", "high"}
  BY <1>1, TiersAreThree
<1>3. TierRank[m] <= TierRank[t] /\ TierRank[t] <= TierRank[m]
  BY <1>1
<1>4. m = t
  BY <1>2, <1>3, TiersAreThree
<1> QED
  BY <1>4 DEF m

(* The page, Leather and Bitflow find the same minimum of the relays that  *)
(* answered: one looks for a tier, one folds from the highest, one from    *)
(* the relays.                                                             *)
LEMMA MinimaAgree ==
  ASSUME NEW up \in SUBSET Relays, up # {}
  PROVE  LET mins == {MinTier[r] : r \in up}
         IN  /\ minTier(up) = lowest(mins)
             /\ lowestMinTier(up) = lowest(mins)
             /\ lowest(mins) \in TierNames
<1> DEFINE mins == {MinTier[r] : r \in up}
           m == lowest(mins)
<1>1. mins \in SUBSET TierNames /\ mins # {}
  BY IntegrationsAssumption
<1>2. m \in mins /\ \A other \in mins : TierRank[m] <= TierRank[other]
  <2> HIDE DEF mins
  <2> QED BY <1>1, LowestOf
<1>3. m \in TierNames /\ m \in {"low", "mid", "high"}
  BY <1>1, <1>2, TiersAreThree
<1>4. lowestMinTier(up) = m
  <2> DEFINE more == {"high"} \union mins
  <2>1. lowestMinTier(up) = lowest(more)
    BY DEF lowestMinTier
  <2> HIDE DEF m, mins
  <2>2. more \in SUBSET TierNames /\ m \in more
    BY <1>1, <1>2, TiersAreThree
  <2>3. TierRank[m] <= TierRank["high"]
    BY <1>3, TiersAreThree
  <2>4. \A other \in more : TierRank[m] <= TierRank[other]
    BY <1>2, <2>3
  <2> HIDE DEF more
  <2>5. lowest(more) = m
    BY <2>2, <2>4, LowestIs
  <2> QED BY <2>1, <2>5
<1>5. minTier(up) = m
  <2> DEFINE Least(t) == /\ \E r \in up : MinTier[r] = t
                         /\ \A r \in up : TierRank[t] <= TierRank[MinTier[r]]
             c == CHOOSE t \in TierNames : Least(t)
  <2>1. Least(m)
    <3> HIDE DEF m
    <3> QED BY <1>2
  <2>2. \A t : Least(t) => t \in mins /\ \A other \in mins : TierRank[t] <= TierRank[other]
    OBVIOUS
  <2>3. minTier(up) = c
    BY DEF minTier
  <2>4. c \in TierNames /\ Least(c)
    <3> HIDE DEF Least, m
    <3> QED BY <1>3, <2>1
  <2>5. c \in mins /\ \A other \in mins : TierRank[c] <= TierRank[other]
    <3> HIDE DEF mins, c
    <3> QED BY <2>2, <2>4
  <2> HIDE DEF mins, c, Least
  <2>6. m = c
    BY <1>1, <2>5, LowestIs
  <2> QED BY <2>3, <2>6
<1> QED
  BY <1>3, <1>4, <1>5

LEMMA DefaultTierType ==
  \A sats : \A least \in TierNames : defaultTier(sats, least) \in TierNames
BY TiersAreThree DEF defaultTier, byAmount

(* Once there is a snapshot, it is known which relays answered.            *)
RelaysRead == form.snapshot # None => form.relays \in SUBSET Relays

LEMMA StepsReadRelays ==
  ASSUME RelaysRead, [Next]_vars
  PROVE  RelaysRead'
<1>1. ASSUME UNCHANGED form PROVE RelaysRead'
  BY <1>1 DEF RelaysRead
<1>2. ASSUME NEW k \in RefreshIds, PoolsEnd(k) PROVE RelaysRead'
  BY <1>1, <1>2 DEF PoolsEnd
<1>3. ASSUME NEW k \in RefreshIds, RefreshEnds(k) PROVE RelaysRead'
  <2>1. ASSUME NEW answer, answer.relays \in SUBSET Relays, Writes(k, answer)
        PROVE  RelaysRead'
    BY <1>1, <2>1 DEF Writes, RelaysRead
  <2>2. ReadInFull(refreshes[k]).relays \in SUBSET Relays
    BY DEF ReadInFull, Answer
  <2>3. \A answer \in ReadInPart(refreshes[k]) : answer.relays \in SUBSET Relays
    BY DEF ReadInPart, Unverified, NoBalance, SomeRelays, Answer
  <2> QED BY <1>3, <2>1, <2>2, <2>3 DEF RefreshEnds
<1>4. ASSUME NEW a, refreshAll(a) PROVE RelaysRead'
  BY <1>1, <1>4 DEF refreshAll
<1>5. ASSUME NEW a \in Accounts, Connect(a) PROVE RelaysRead'
  BY <1>1, <1>4, <1>5 DEF Connect, formVars
<1>6. ASSUME NEW e \in Entries, Continue(e) PROVE RelaysRead'
  BY <1>1, <1>6 DEF Continue, formVars
<1>7. ASSUME NEW up, Requotes(up) PROVE RelaysRead'
  BY <1>1, <1>7 DEF Requotes, formVars
<1>8. ASSUME \/ Disconnect \/ Refresh \/ Trade \/ Press \/ Refused \/ onSponsored \/ onRetry
             \/ UNCHANGED vars
      PROVE  RelaysRead'
  BY <1>1, <1>4, <1>8
  DEF Disconnect, Refresh, Trade, Press, Refused, onSponsored, onRetry, formVars, vars
<1> QED
  BY <1>2, <1>3, <1>5, <1>6, <1>7, <1>8 DEF Next, FreshQuote

(* A minimum that covers the tier is less than the quote it is of: every   *)
(* slippage of the page is at least a tenth of a percent.                  *)
LEMMA QuoteAboveTier ==
  ASSUME NEW out \in Nat, NEW slippage \in SlippageRange, NEW tier \in TierNames,
         minOutFor(out, slippage) >= SdkTiers[tier]
  PROVE  ~ (out <= SdkTiers[tier])
<1> DEFINE v == SdkTiers[tier]
           keep == 10000 - slippage
           paid == out * keep
           m == minOutFor(out, slippage)
<1>1. v \in Nat /\ v > 0
  BY TiersAreThree DEF SdkTiers
<1>2. keep \in Nat /\ keep <= 9990
  BY DEF SlippageRange
<1>3. paid \in Nat /\ m = paid \div 10000
  BY <1>2 DEF minOutFor
<1> HIDE DEF keep
<1>4. paid <= out * 9990
  BY <1>2
<1> HIDE DEF paid
<1>5. m \in Nat /\ m * 10000 <= paid
  BY <1>3
<1> HIDE DEF m, v
<1>6. m >= v
  BY DEF m, v
<1>7. ~ (out <= v)
  BY <1>1, <1>3, <1>4, <1>5, <1>6
<1> QED
  BY <1>7 DEF v

(* The tier of an entry that may continue.                                 *)
LEMMA TierOfEntry ==
  ASSUME NEW e \in Entries, form.relays \in SUBSET Relays
  PROVE  tierOf(e) \in TierNames /\ tierOf(e) # None
<1>1. e.tier \in TierNames \union {None}
  BY FormAssumption
<1>2. autoTier(satsOf(e), form.relays) \in TierNames
  <2>1. CASE form.relays = {}
    BY <2>1, TiersAreThree DEF autoTier
  <2>2. CASE form.relays # {}
    BY <2>2, MinimaAgree, DefaultTierType DEF autoTier
  <2> QED BY <2>1, <2>2
<1>3. None \notin TierNames
  BY FormAssumption
<1> QED
  BY <1>1, <1>2, <1>3 DEF tierOf

(* The integrator's fee is the page's in every surface, so that the same   *)
(* pools are quoted for the same amount.                                   *)
LEMMA SameQuotes ==
  ASSUME NEW amount
  PROVE  quoteAllPools(Provider(Integrator, IntegratorBips), amount, statesOf(form.snapshot.states))
           = quoteFromSnapshot(amount)
<1>1. bipsOf(Provider(Integrator, IntegratorBips)) = IntegratorBips
  BY FormAssumption DEF bipsOf, Provider
<1> QED
  BY <1>1 DEF quoteAllPools, quoteFromSnapshot, netOf

LEMMA SameInput ==
  ASSUME NEW user, NEW amount, NEW tier, NEW pool, NEW slippage
  PROVE  inputFor(Provider(Integrator, IntegratorBips), user, amount, tier, pool, slippage)
           = [user |-> user, amount |-> amount, tier |-> tier, pool |-> pool,
              slippage |-> slippage, integrator |-> Integrator, bips |-> IntegratorBips]
<1>1. bipsOf(Provider(Integrator, IntegratorBips)) = IntegratorBips
  BY FormAssumption DEF bipsOf, Provider
<1>2. Provider(Integrator, IntegratorBips).integrator = Integrator
  BY DEF Provider
<1> QED
  BY <1>1, <1>2 DEF inputFor

(* What Continue commits, with the input it builds the call from.          *)
LEMMA CommittedIsBuilt ==
  ASSUME FormTypes, RelaysRead, NEW e \in Entries, Continue(e)
  PROVE  LET c      == committed'
             best   == selectPool(quoteFromSnapshot(c.amount))
             input  == [user |-> account, amount |-> c.amount, tier |-> c.tier,
                        pool |-> best.poolId, slippage |-> c.slippage,
                        integrator |-> Integrator, bips |-> IntegratorBips]
         IN  /\ Built(input, best.out) = [builds |-> TRUE, call |-> c.call]
             /\ form.relays \in SUBSET Relays /\ rank(form.relays, c.tier) # {}
             /\ c.tier \in TierNames /\ c.tier # None
<1> DEFINE sats  == satsOf(e)
           quotes == quoteFromSnapshot(sats)
           best  == selectPool(quotes)
           input == inputOf(e, best.poolId)
           built == Built(input, best.out)
<1>1. /\ form.snapshot # None /\ built.builds
      /\ rank(form.relays, tierOf(e)) # {}
      /\ committed' = [amount |-> input.amount, tier |-> input.tier, slippage |-> input.slippage,
                       pool |-> best.poolId, call |-> built.call]
  BY DEF Continue
<1>2. form.relays \in SUBSET Relays
  BY <1>1 DEF RelaysRead
<1>3. tierOf(e) \in TierNames /\ tierOf(e) # None
  BY <1>2, TierOfEntry
<1>4. input = [user |-> account, amount |-> sats, tier |-> tierOf(e),
               pool |-> best.poolId, slippage |-> slippageOf(e),
               integrator |-> Integrator, bips |-> IntegratorBips]
  BY DEF inputOf
<1>5. built = [builds |-> TRUE, call |-> built.call]
  <2>1. built.builds \in BOOLEAN
    BY DEF Built, Passes
  <2>2. built = [builds |-> built.builds, call |-> built.call]
    BY DEF Built
  <2> HIDE DEF built, input
  <2>3. built.builds = TRUE
    BY <1>1, <2>1
  <2> QED BY <2>2, <2>3
<1> HIDE DEF sats, best, input, built
<1>6. committed'.amount = sats /\ committed'.tier = tierOf(e) /\ committed'.slippage = slippageOf(e)
      /\ committed'.call = built.call
  BY <1>1, <1>4
<1>7. selectPool(quoteFromSnapshot(committed'.amount)) = best
  BY <1>6 DEF best
<1> QED
  BY <1>1, <1>2, <1>3, <1>4, <1>5, <1>6, <1>7 DEF built

LEMMA SlippageIsPositive == \A b \in SlippageRange : b > 0 /\ b # None
BY NoneIsNoNumber DEF SlippageRange

(* Bitflow's route, for the tier and slippage of the call.                 *)
BitflowAgrees(c) ==
  LET me      == Provider(Integrator, IntegratorBips)
      auto    == autoTier(c.amount, form.relays)
      bitflow == getSponsoredRoute(me, account, c.amount, IF c.tier = auto THEN None ELSE c.tier,
                                   c.slippage, statesOf(form.snapshot.states), form.relays)
  IN  bitflow.route = [builds |-> TRUE, call |-> c.call] /\ bitflow.relays # {}

(* Leather's quote, where the call's tier is the one by default.           *)
LeatherAgrees(c) ==
  LET me      == Provider(Integrator, IntegratorBips)
      auto    == autoTier(c.amount, form.relays)
      leather == getSwapQuotes(me, c.amount, statesOf(form.snapshot.states), form.relays)
  IN  /\ leather # {}
      /\ c.tier = auto => \A q \in leather :
           /\ q.isExecutable
           /\ getSwapExecutionData(me, q, account, c.slippage) = [builds |-> TRUE, call |-> c.call]

(* A call as Continue commits it, named best the quote it is built from.   *)
CommittedOn(c, best) ==
  /\ Built([user |-> account, amount |-> c.amount, tier |-> c.tier,
            pool |-> best.poolId, slippage |-> c.slippage,
            integrator |-> Integrator, bips |-> IntegratorBips], best.out)
       = [builds |-> TRUE, call |-> c.call]
  /\ best = selectPool(quoteFromSnapshot(c.amount))
  /\ form.relays \in SUBSET Relays /\ rank(form.relays, c.tier) # {}
  /\ c.tier \in TierNames /\ c.tier # None
  /\ c.amount \in Nat \ {0} /\ c.slippage \in SlippageRange /\ c.slippage # None

(* The tier each surface takes by default is the page's.                   *)
LEMMA DefaultsAgree ==
  ASSUME NEW sats, NEW up \in SUBSET Relays, up # {}
  PROVE  /\ defaultTier(sats, lowestMinTier(up)) = autoTier(sats, up)
         /\ defaultTier(sats, lowest({MinTier[r] : r \in up})) = autoTier(sats, up)
<1>1. autoTier(sats, up) = defaultTier(sats, minTier(up))
  BY DEF autoTier
<1>2. /\ minTier(up) = lowest({MinTier[r] : r \in up})
      /\ lowestMinTier(up) = lowest({MinTier[r] : r \in up})
  BY MinimaAgree
<1> QED
  BY <1>1, <1>2

LEMMA BitflowBuildsTheSame ==
  ASSUME NEW c, NEW best, CommittedOn(c, best)
  PROVE  BitflowAgrees(c)
<1> DEFINE me     == Provider(Integrator, IntegratorBips)
           up     == form.relays
           states == statesOf(form.snapshot.states)
           given  == IF c.tier = autoTier(c.amount, up) THEN None ELSE c.tier
           other  == selectPool(quoteAllPools(me, c.amount, states))
           least  == IF up = {} THEN "low" ELSE lowest({MinTier[r] : r \in up})
           tier   == IF given # None THEN given ELSE defaultTier(c.amount, least)
           slippage == IF c.slippage # None THEN c.slippage ELSE defaultSlippageBips(c.amount)
           route  == getSponsoredRoute(me, account, c.amount, given, c.slippage, states, up)
<1>1. up \in SUBSET Relays /\ up # {}
  BY DEF CommittedOn, rank
<1>2. other = best
  BY SameQuotes DEF CommittedOn
<1>3. tier = c.tier
  <2>1. least = lowest({MinTier[r] : r \in up})
    BY <1>1
  <2>2. defaultTier(c.amount, least) = autoTier(c.amount, up)
    BY <1>1, <2>1, DefaultsAgree
  <2> HIDE DEF up, least
  <2> QED BY <2>2 DEF CommittedOn
<1>4. slippage = c.slippage
  BY DEF CommittedOn
<1>5. route = [route  |-> Built(inputFor(me, account, c.amount, tier, other.poolId, slippage),
                                other.out),
               relays |-> rank(up, tier)]
  BY DEF getSponsoredRoute
<1>6. inputFor(me, account, c.amount, tier, other.poolId, slippage)
        = [user |-> account, amount |-> c.amount, tier |-> tier, pool |-> other.poolId,
           slippage |-> slippage, integrator |-> Integrator, bips |-> IntegratorBips]
  BY SameInput
<1> HIDE DEF tier, other, slippage, route, me, given, least
<1>7. route.route = [builds |-> TRUE, call |-> c.call] /\ route.relays # {}
  BY <1>2, <1>3, <1>4, <1>5, <1>6 DEF CommittedOn
<1> QED
  BY <1>7 DEF BitflowAgrees, route, me, given

LEMMA LeatherBuildsTheSame ==
  ASSUME NEW c, NEW best, CommittedOn(c, best), ~ (best.out <= SdkTiers[c.tier])
  PROVE  LeatherAgrees(c)
<1> DEFINE me     == Provider(Integrator, IntegratorBips)
           up     == form.relays
           states == statesOf(form.snapshot.states)
           other  == selectPool(quoteAllPools(me, c.amount, states))
           tier   == defaultTier(c.amount, lowestMinTier(up))
           relays == rank(up, tier)
           against == {x \in {"no-sponsor", "amount-too-small"} :
                         \/ x = "no-sponsor" /\ relays = {}
                         \/ x = "amount-too-small" /\ other.out <= SdkTiers[tier]}
           quote  == [amount |-> c.amount, pool |-> other.poolId, tier |-> tier, out |-> other.out,
                      relays |-> relays, isExecutable |-> against = {}]
           leather == getSwapQuotes(me, c.amount, states, up)
<1>1. up \in SUBSET Relays /\ up # {}
  BY DEF CommittedOn, rank
<1>2. other = best
  BY SameQuotes DEF CommittedOn
<1>3. tier = autoTier(c.amount, up)
  BY <1>1, DefaultsAgree
<1>4. leather = {q \in {quote} : c.amount > 0}
  BY DEF getSwapQuotes
<1>5. leather = {quote}
  BY <1>4 DEF CommittedOn
<1>6. ASSUME c.tier = autoTier(c.amount, up)
      PROVE  /\ quote.isExecutable
             /\ getSwapExecutionData(me, quote, account, c.slippage)
                  = [builds |-> TRUE, call |-> c.call]
  <2>1. tier = c.tier
    BY <1>3, <1>6
  <2>2. relays # {} /\ ~ (other.out <= SdkTiers[tier])
    BY <1>2, <2>1 DEF CommittedOn
  <2>3. against = {}
    BY <2>2
  <2> DEFINE slippage == IF c.slippage > 0 THEN c.slippage ELSE defaultSlippageBips(quote.amount)
  <2>4. slippage = c.slippage
    <3>1. c.slippage > 0
      BY SlippageIsPositive, Zenon DEF CommittedOn
    <3> QED BY <3>1
  <2>5. getSwapExecutionData(me, quote, account, c.slippage)
          = Built(inputFor(me, account, quote.amount, quote.tier, quote.pool, slippage), quote.out)
    BY DEF getSwapExecutionData
  <2>6. /\ quote.amount = c.amount /\ quote.tier = tier /\ quote.pool = other.poolId
        /\ quote.out = other.out /\ quote.isExecutable = (against = {})
    OBVIOUS
  <2> DEFINE data == getSwapExecutionData(me, quote, account, c.slippage)
  <2> HIDE DEF quote, slippage, against, tier, relays, other, me
  <2>7. inputFor(me, account, c.amount, c.tier, best.poolId, c.slippage)
          = [user |-> account, amount |-> c.amount, tier |-> c.tier, pool |-> best.poolId,
             slippage |-> c.slippage, integrator |-> Integrator, bips |-> IntegratorBips]
    BY SameInput DEF me
  <2>8. data = Built(inputFor(me, account, c.amount, c.tier, best.poolId, c.slippage), best.out)
    BY <1>2, <2>1, <2>4, <2>5, <2>6, Zenon
  <2> HIDE DEF data
  <2>9. data = [builds |-> TRUE, call |-> c.call]
    BY <2>7, <2>8, Zenon DEF CommittedOn
  <2> QED BY <2>3, <2>6, <2>9 DEF data
<1> HIDE DEF leather, quote
<1>7. /\ leather # {}
      /\ c.tier = autoTier(c.amount, up) => \A q \in leather :
           /\ q.isExecutable
           /\ getSwapExecutionData(me, q, account, c.slippage) = [builds |-> TRUE, call |-> c.call]
  BY <1>5, <1>6
<1> QED
  BY <1>7 DEF LeatherAgrees, leather

(* The call the page commits is the one that Bitflow's route is built for, *)
(* and, at the tier by default, Leather's quote, which can be executed     *)
(* (app/src/chain.js:57, leather/index.ts:138, bitflow/index.ts:31),       *)
(* whatever the relays ask and the pools pay.                              *)
THEOREM SurfacesBuildTheSame == Spec => SurfacesAgree
<1>1. ASSUME FormTypes, RelaysRead, [Next]_vars, committed' # committed, committed' # None
      PROVE  BitflowAgrees(committed') /\ LeatherAgrees(committed')
  <2>1. PICK e \in Entries : Continue(e)
    BY <1>1, CommittedByContinue
  <2> DEFINE c == committed'
             quotes == quoteFromSnapshot(c.amount)
             states == form.snapshot.states
             best == selectPool(quotes)
  <2>2. /\ states \in States /\ c.amount \in Nat \ {0}
        /\ quotes = quoteFromStates(statesOf(states), netOf(c.amount))
        /\ eligible(quotes) # {}
        /\ c.call.minOut = minOutFor(best.out, c.slippage)
        /\ c.slippage \in SlippageRange
        /\ c.call.minOut >= SdkTiers[c.tier]
    BY <1>1, <2>1, CommittedFromSnapshot
  <2>3. c.slippage # None
    BY <2>2, SlippageIsPositive, Zenon
  <2>4. CommittedOn(c, best)
    <3>1. /\ Built([user |-> account, amount |-> c.amount, tier |-> c.tier,
                    pool |-> best.poolId, slippage |-> c.slippage,
                    integrator |-> Integrator, bips |-> IntegratorBips], best.out)
               = [builds |-> TRUE, call |-> c.call]
          /\ form.relays \in SUBSET Relays /\ rank(form.relays, c.tier) # {}
          /\ c.tier \in TierNames /\ c.tier # None
      BY <1>1, <2>1, CommittedIsBuilt
    <3> HIDE DEF c
    <3> QED BY <2>2, <2>3, <3>1 DEF CommittedOn
  <2>5. best.out \in Nat
    <3> DEFINE amount == c.amount
    <3>1. OnePerPool(quotes)
      <4>1. amount \in Nat /\ quotes = quoteFromStates(statesOf(states), netOf(amount))
        BY <2>2
      <4> HIDE DEF amount, states, quotes
      <4> QED BY <2>2, <4>1, QuotesOfRead
    <3> HIDE DEF quotes
    <3>2. best \in quotes
      BY <2>2, <3>1, SelectedPaysMost
    <3> QED BY <3>1, <3>2 DEF OnePerPool
  <2>6. ~ (best.out <= SdkTiers[c.tier])
    <3> DEFINE out == best.out
               slippage == c.slippage
               tier == c.tier
    <3>1. /\ out \in Nat /\ slippage \in SlippageRange /\ tier \in TierNames
          /\ minOutFor(out, slippage) >= SdkTiers[tier]
      BY <2>2, <2>4, <2>5 DEF CommittedOn
    <3> HIDE DEF out, slippage, tier
    <3>2. ~ (out <= SdkTiers[tier])
      BY <3>1, QuoteAboveTier
    <3> QED BY <3>2 DEF out, tier
  <2> HIDE DEF best, c
  <2>7. BitflowAgrees(c) /\ LeatherAgrees(c)
    BY <2>4, <2>6, BitflowBuildsTheSame, LeatherBuildsTheSame
  <2> QED BY <2>7 DEF c
<1> DEFINE Inv == FormInv /\ RelaysRead
<1>2. Init => Inv
  BY InitForm DEF Init, NoForm, RelaysRead
<1>3. Inv /\ [Next]_vars => Inv'
  BY FlowKeepsForm, PoolsEndKeepsForm, RefreshEndsKeepsForm, StepsReadRelays DEF Next
<1> DEFINE Agrees == LET c == committed'
                         states  == statesOf(form.snapshot.states)
                         me      == Provider(Integrator, IntegratorBips)
                         auto    == autoTier(c.amount, form.relays)
                         bitflow == getSponsoredRoute(me, account, c.amount,
                                      IF c.tier = auto THEN None ELSE c.tier,
                                      c.slippage, states, form.relays)
                         leather == getSwapQuotes(me, c.amount, states, form.relays)
                     IN  /\ bitflow.route = [builds |-> TRUE, call |-> c.call] /\ bitflow.relays # {}
                         /\ leather # {}
                         /\ c.tier = auto => \A q \in leather :
                              /\ q.isExecutable
                              /\ getSwapExecutionData(me, q, account, c.slippage)
                                   = [builds |-> TRUE, call |-> c.call]
<1>4. Inv /\ [Next]_vars => (committed' # committed /\ committed' # None => Agrees)
  <2>1. BitflowAgrees(committed') /\ LeatherAgrees(committed') => Agrees
    BY DEF BitflowAgrees, LeatherAgrees
  <2> HIDE DEF Agrees
  <2> QED BY <1>1, <2>1 DEF FormInv
<1> QED
  BY <1>2, <1>3, <1>4, PTL DEF Spec, SurfacesAgree
=============================================================================
