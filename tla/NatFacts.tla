------------------------------ MODULE NatFacts ------------------------------
(***************************************************************************)
(* Facts about naturals for the other proof modules: least and greatest    *)
(* elements (the least reported gap, the greatest nonce, the first check   *)
(* that fails), and induction and recursion up to a bound, for walks over  *)
(* the bins of a pool.  A property is a set of numbers here.               *)
(***************************************************************************)
EXTENDS Integers, FiniteSetsExt, TLAPS, WellFoundedInduction

(* A set of naturals has a least element (`Math.min` of the reported       *)
(* gaps).                                                                  *)
LEMMA LeastNat ==
  ASSUME NEW S \in SUBSET Nat, S # {}
  PROVE  Min(S) \in S /\ \A y \in S : Min(S) <= y
<1> DEFINE Less == {ss \in Nat \X Nat : ss[1] < ss[2]}
<1>1. IsWellFoundedOn(Less, Nat)
  BY NatLessThanWellFounded DEF OpToRel
<1>2. \E x \in S : \A y \in S : ~ (<<y, x>> \in Less)
  <2> HIDE DEF Less
  <2> QED BY <1>1, WFMin
<1>3. PICK x \in S : \A y \in S : ~ (<<y, x>> \in Less)
  BY <1>2
<1>4. \A y \in S : x <= y
  <2> SUFFICES ASSUME NEW y \in S PROVE x <= y
    OBVIOUS
  <2>1. <<y, x>> \in Nat \X Nat /\ ~ (<<y, x>> \in Less)
    BY <1>3
  <2>2. ~ (y < x)
    BY <2>1
  <2> QED BY <2>2
<1> QED
  BY <1>4 DEF Min

(* A non-empty set of naturals below a bound has a greatest element.       *)
LEMMA GreatestNat ==
  ASSUME NEW S \in SUBSET Nat, S # {}, NEW b \in Nat, \A y \in S : y <= b
  PROVE  Max(S) \in S /\ \A y \in S : y <= Max(S)
<1> DEFINE U == {n \in Nat : \A y \in S : y <= n}
<1>1. U \in SUBSET Nat /\ U # {}
  OBVIOUS
<1> HIDE DEF U
<1>2. Min(U) \in U /\ \A n \in U : Min(U) <= n
  BY <1>1, LeastNat
<1> DEFINE m == Min(U)
<1>3. m \in Nat /\ \A y \in S : y <= m
  BY <1>2 DEF U
<1> HIDE DEF m
<1>4. m \in S
  <2> SUFFICES ASSUME m \notin S PROVE FALSE
    OBVIOUS
  <2>1. \A y \in S : y \in Nat /\ y <= m - 1
    BY <1>3
  <2>2. m - 1 \in Nat
    <3>1. PICK y \in S : TRUE
      OBVIOUS
    <3> QED BY <1>3, <2>1, <3>1
  <2>3. m - 1 \in U
    BY <2>1, <2>2 DEF U
  <2> QED
    BY <1>2, <1>3, <2>3 DEF m
<1> QED
  BY <1>3, <1>4 DEF Max

(* Induction up to a bound, over a set rather than a predicate: the steps  *)
(* of a walk over the bins of a pool.                                      *)
LEMMA UpTo ==
  ASSUME NEW L \in Nat, NEW S, 0 \in S, \A n \in 0 .. L : n < L /\ n \in S => n + 1 \in S
  PROVE  \A n \in 0 .. L : n \in S
<1> DEFINE Miss == {n \in 0 .. L : n \notin S}
<1> SUFFICES ASSUME Miss # {} PROVE FALSE
  OBVIOUS
<1>1. Miss \in SUBSET Nat
  OBVIOUS
<1>2. Min(Miss) \in Miss /\ \A y \in Miss : Min(Miss) <= y
  <2> HIDE DEF Miss
  <2> QED BY <1>1, LeastNat
<1> DEFINE m == Min(Miss)
<1>3. m \in 0 .. L /\ m \notin S /\ m # 0
  BY <1>2
<1>4. m - 1 \in 0 .. L /\ m - 1 < L
  <2> HIDE DEF m
  <2> QED BY <1>3
<1>5. m - 1 \in S
  <2> SUFFICES ASSUME m - 1 \notin S PROVE FALSE
    OBVIOUS
  <2>1. m - 1 \in Miss
    BY <1>4
  <2>2. m <= m - 1
    BY <1>2, <2>1
  <2> HIDE DEF m, Miss
  <2> QED BY <1>3, <2>2
<1> HIDE DEF m, Miss
<1>6. (m - 1) + 1 \in S
  BY <1>4, <1>5
<1> QED
  BY <1>3, <1>6

(* A function that is given by its value at 0 and by each from the one     *)
(* before exists.                                                          *)
Steps(L, A) == [(1 .. L) \X A -> A]

Follows(L, A, a, step, g) ==
  /\ g \in [0 .. L -> A]
  /\ g[0] = a /\ \A n \in 1 .. L : g[n] = step[<<n, g[n - 1]>>]

LEMMA Recursion ==
  ASSUME NEW L, NEW A, NEW a, NEW step, L \in Nat, a \in A, step \in Steps(L, A)
  PROVE  \E g : Follows(L, A, a, step, g)
<1>5. step \in [(1 .. L) \X A -> A]
  BY DEF Steps
<1> DEFINE Goes(m, g) == g[0] = a /\ \A n \in 1 .. m : g[n] = step[<<n, g[n - 1]>>]
           S == {m \in 0 .. L : \E g \in [0 .. m -> A] : Goes(m, g)}
<1>1. 0 \in S
  <2> DEFINE g == [n \in 0 .. 0 |-> a]
  <2>1. g \in [0 .. 0 -> A] /\ g[0] = a
    OBVIOUS
  <2>2. Goes(0, g)
    BY <2>1
  <2> HIDE DEF g, Goes
  <2>3. \E k \in [0 .. 0 -> A] : Goes(0, k)
    BY <2>1, <2>2
  <2> QED BY <2>3
<1>2. ASSUME NEW m \in 0 .. L, m < L, m \in S PROVE m + 1 \in S
  <2>1. PICK g \in [0 .. m -> A] : Goes(m, g)
    BY <1>2
  <2>2. m + 1 \in 1 .. L /\ m \in 0 .. m
    BY <1>2
  <2>3. step[<<m + 1, g[m]>>] \in A
    BY <1>5, <2>2
  <2> DEFINE h == [n \in 0 .. m + 1 |-> IF n = m + 1 THEN step[<<m + 1, g[m]>>] ELSE g[n]]
  <2>4. ASSUME NEW n \in 0 .. m + 1 PROVE h[n] \in A
    BY <2>3
  <2>5. h \in [0 .. m + 1 -> A]
    BY <2>4
  <2>6. \A n \in 0 .. m : h[n] = g[n]
    <3> SUFFICES ASSUME NEW n \in 0 .. m PROVE h[n] = g[n]
      OBVIOUS
    <3>1. n \in 0 .. m + 1 /\ n # m + 1
      OBVIOUS
    <3> QED BY <3>1
  <2>7. h[m + 1] = step[<<m + 1, g[m]>>]
    OBVIOUS
  <2> HIDE DEF h
  <2>8. ASSUME NEW n \in 1 .. m + 1 PROVE h[n] = step[<<n, h[n - 1]>>]
    <3>1. CASE n = m + 1
      <4>1. n - 1 = m
        BY <3>1
      <4> QED BY <2>2, <2>6, <2>7, <3>1, <4>1
    <3>2. CASE n # m + 1
      <4>1. n \in 1 .. m /\ n \in 0 .. m /\ n - 1 \in 0 .. m
        BY <3>2
      <4> QED BY <2>1, <2>6, <4>1
    <3> QED BY <3>1, <3>2
  <2>9. h[0] = a
    BY <2>1, <2>6
  <2>10. Goes(m + 1, h)
    BY <2>8, <2>9
  <2>11. m + 1 \in 0 .. L
    BY <2>2
  <2> QED BY <2>5, <2>10, <2>11
<1>3. L \in S
  <2> HIDE DEF S
  <2>1. \A n \in 0 .. L : n < L /\ n \in S => n + 1 \in S
    BY <1>2
  <2>2. \A n \in 0 .. L : n \in S
    BY <1>1, <2>1, UpTo
  <2> QED BY <2>2
<1>4. PICK g \in [0 .. L -> A] : Goes(L, g)
  BY <1>3
<1> QED
  BY <1>4 DEF Follows
=============================================================================
