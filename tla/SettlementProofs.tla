-------------------------- MODULE SettlementProofs --------------------------
(***************************************************************************)
(* What holds of a settlement for every set of swaps, accounts, prices and *)
(* hand-made transactions.  The relay's verification, the SDK's builder    *)
(* and the contract check the same call in three places: the lemmas say    *)
(* what each list of checks gives, and that each implies the next; the     *)
(* theorems carry that through the interleavings.  That what the relay     *)
(* read still covers the call at the block needs two things more: that     *)
(* nothing it read has fallen, and that no amount held overflows, because  *)
(* a commit makes no sats; balances are counted as sets of sats for that.  *)
(***************************************************************************)
EXTENDS Settlement, NatFacts, FunctionTheorems, FiniteSetTheorems

WellTyped(t) ==
  /\ t.user \in Accounts
  /\ t.integrator \in Accounts \union {None}
  /\ t.nonce \in Nat /\ t.amount \in Nat /\ t.tier \in Nat
  /\ t.minOut \in Nat /\ t.pool \in Nat /\ t.bips \in Nat

-----------------------------------------------------------------------------
(* Checks *)

(* A list of checks that does not pass is decided by its first failure.    *)
LEMMA FirstFailure ==
  ASSUME NEW checks, DOMAIN checks \subseteq Nat, ~Passes(checks)
  PROVE  \E i \in DOMAIN checks :
           /\ ~checks[i].holds
           /\ \A j \in DOMAIN checks : j < i => checks[j].holds
           /\ Verdict(checks) = checks[i].error
<1> DEFINE F == Failing(checks)
<1>1. F \in SUBSET Nat /\ F # {}
  BY DEF Failing, Passes
<1>2. Min(F) \in F /\ \A y \in F : Min(F) <= y
  BY <1>1, LeastNat
<1>3. Min(F) \in DOMAIN checks /\ ~checks[Min(F)].holds
  BY <1>2 DEF Failing
<1>4. ASSUME NEW j \in DOMAIN checks, j < Min(F)
      PROVE  checks[j].holds
  <2>1. ~(Min(F) <= j)
    BY <1>1, <1>2, <1>4
  <2>2. j \notin F
    BY <1>2, <2>1
  <2> QED BY <2>2 DEF Failing
<1>5. Verdict(checks) = checks[Min(F)].error
  BY DEF Verdict
<1> QED
  BY <1>3, <1>4, <1>5

(* The contract's and the relay's fees, in the bounds the code allows,     *)
(* leave something to swap.                                                *)
LEMMA NetIsPositive ==
  ASSUME NEW amount \in Nat, amount > 0, NEW bips \in Nat, bips <= 100
  PROVE  /\ FeeAt(amount, 50) \in Nat /\ FeeAt(amount, bips) \in Nat
         /\ amount - (FeeAt(amount, 50) + FeeAt(amount, bips)) > 0
<1> DEFINE p == amount * bips
<1>1. p \in Nat /\ p <= amount * 100
  BY SMT
<1> HIDE DEF p
<1>2. p \div 10000 \in Nat /\ (amount * 50) \div 10000 \in Nat
  BY <1>1
<1>3. 10000 * (p \div 10000) <= p
  BY <1>1
<1>4. 10000 * ((amount * 50) \div 10000) <= amount * 50
  OBVIOUS
<1>5. amount - ((amount * 50) \div 10000 + p \div 10000) > 0
  BY <1>1, <1>2, <1>3, <1>4
<1> QED
  BY <1>2, <1>5 DEF FeeAt, BIPS_DENOM, p

(* What a verified call satisfies.                                         *)
LEMMA VerifiedCall ==
  ASSUME NEW t, WellTyped(t), verifySponsoredSwap(t) = "ok"
  PROVE  /\ \E n \in TierName : TIERS[n] = t.tier
         /\ t.minOut >= t.tier
         /\ t.pool \in {1, 2, 3}
         /\ t.bips <= 100
         /\ t.amount > 0
         /\ t.integrator # t.user
         /\ t.mode = "deny"
         /\ t.conditions = expectedPostConditions(t)
<1>1. Passes(EnvelopeChecks(t))
  <2> SUFFICES ASSUME ~Passes(EnvelopeChecks(t)) PROVE FALSE
    OBVIOUS
  <2>1. DOMAIN EnvelopeChecks(t) = 1..8
    BY DEF EnvelopeChecks, Defects
  <2>2. PICK i \in 1..8 : Verdict(EnvelopeChecks(t)) = EnvelopeChecks(t)[i].error
    BY <2>1, FirstFailure
  <2>3. EnvelopeChecks(t)[i].error = CodeOf(Defects[i])
    BY <2>1 DEF EnvelopeChecks, Check, Defects
  <2>4. CodeOf(Defects[i]) # "ok"
    BY <2>2 DEF Defects, CodeOf
  <2> QED
    BY <2>2, <2>3, <2>4 DEF verifySponsoredSwap
<1>2. Verdict(CallChecks(t)) = "ok"
  BY <1>1 DEF verifySponsoredSwap
<1> DEFINE c == CallChecks(t)
<1>3. DOMAIN c = 1..9
  BY DEF CallChecks
<1>4. \A i \in 1..9 : c[i].error # "ok"
  BY DEF CallChecks, Check
<1>5. Passes(c)
  BY <1>2, <1>3, <1>4, FirstFailure
<1>6. \A i \in 1..9 : c[i].holds
  BY <1>3, <1>5 DEF Passes, Failing
<1>7. /\ c[2].holds => (\E n \in TierName : TIERS[n] = t.tier)
      /\ c[3].holds => (t.minOut >= t.tier)
      /\ c[4].holds => (t.pool \in DOMAIN RelayPools)
      /\ c[5].holds => (t.bips <= 100)
      /\ c[6].holds => (t.amount # 0)
      /\ c[7].holds => (t.integrator # t.user)
      /\ c[8].holds => (t.mode = "deny")
      /\ c[9].holds => (t.pool \in DOMAIN RelayPools /\ t.conditions = expectedPostConditions(t))
  BY DEF CallChecks, Check, RelayMaxIntegratorBips
<1>8. DOMAIN RelayPools = {1, 2, 3}
  BY DEF RelayPools
<1> HIDE DEF c
<1>9. \E n \in TierName : TIERS[n] = t.tier
  BY <1>6, <1>7
<1>10. t.minOut >= t.tier /\ t.bips <= 100 /\ t.amount > 0 /\ t.pool \in {1, 2, 3}
  BY <1>6, <1>7, <1>8 DEF WellTyped
<1>11. t.integrator # t.user /\ t.mode = "deny" /\ t.conditions = expectedPostConditions(t)
  BY <1>6, <1>7
<1> QED
  BY <1>9, <1>10, <1>11

-----------------------------------------------------------------------------
(* The contract *)

(* The key of a verified transaction's tier is an account, and repays it.  *)
LEMMA TierOfVerified ==
  ASSUME NEW t, WellTyped(t), verifySponsoredSwap(t) = "ok"
  PROVE  /\ tierNameOf(t) \in TierName /\ TIERS[tierNameOf(t)] = t.tier
         /\ t.tier \in TierValues
<1>1. tierNameOf(t) \in TierName /\ TIERS[tierNameOf(t)] = t.tier
  BY VerifiedCall DEF tierNameOf
<1>2. tierNameOf(t) \in {"low", "mid", "high"} /\ SdkTiers[tierNameOf(t)] = t.tier
  BY <1>1, SettlementAssumption
<1> QED
  BY <1>1, <1>2 DEF SdkTiers, TierValues

(* Arguments the relay verified fail no check of the contract but that the *)
(* sponsor is not the user, or a multiplication overflows.                 *)
LEMMA VerifiedArguments ==
  ASSUME NEW t, WellTyped(t), verifySponsoredSwap(t) = "ok", NEW s \in Accounts,
         ~Passes(ArgumentChecks(t, s))
  PROVE  \/ Verdict(ArgumentChecks(t, s)) = "u109"
         \/ Verdict(ArgumentChecks(t, s)) = "runtime" /\ Overflows(t)
<1> DEFINE c == ArgumentChecks(t, s)
<1>1. DOMAIN c = 1..9
  BY DEF ArgumentChecks
<1>2. PICK i \in 1..9 : ~c[i].holds /\ Verdict(c) = c[i].error
  BY <1>1, FirstFailure
<1>3. /\ t.amount > 0 /\ t.minOut >= t.tier /\ t.pool \in {1, 2, 3} /\ t.bips <= 100
      /\ t.tier \in TierValues
  BY VerifiedCall, TierOfVerified
<1>4. CallBips(t) \in Nat /\ CallBips(t) <= 100
  BY <1>3 DEF CallBips, WellTyped
<1>5. Net(t) > 0 /\ Net(t) >= 0
  <2>1. t.amount \in Nat
    BY DEF WellTyped
  <2> DEFINE a == FeeAt(t.amount, 50)
             b == FeeAt(t.amount, CallBips(t))
  <2>2. a \in Nat /\ b \in Nat /\ t.amount - (a + b) > 0
    BY <1>3, <1>4, <2>1, NetIsPositive
  <2>3. Net(t) = t.amount - (a + b)
    BY DEF Net, ServiceFee, IntegratorFee, FEE_BIPS
  <2> HIDE DEF a, b
  <2> QED BY <2>1, <2>2, <2>3
<1>6. s # None
  BY SettlementAssumption
<1>7. /\ (s # None) => c[1].holds
      /\ ~Overflows(t) /\ Net(t) >= 0 => c[2].holds
      /\ t.amount > 0 => c[3].holds
      /\ t.tier \in TierValues => c[4].holds
      /\ t.minOut >= t.tier => c[5].holds
      /\ t.pool \in PoolIds => c[6].holds
      /\ t.bips <= 100 => c[7].holds
      /\ Net(t) > 0 => c[8].holds
      /\ c[2].error = "runtime" /\ c[9].error = "u109"
  BY DEF ArgumentChecks, Check, MAX_INTEGRATOR_BIPS
<1>8. PoolIds = {1, 2, 3}
  BY DEF PoolIds
<1> HIDE DEF c
<1>9. i = 9 \/ (i = 2 /\ Overflows(t))
  BY <1>2, <1>3, <1>5, <1>6, <1>7, <1>8
<1> QED
  BY <1>2, <1>7, <1>9 DEF c

(* What the contract has made sure of once its asserts pass.               *)
LEMMA AcceptedArguments ==
  ASSUME NEW t, WellTyped(t), NEW s, Passes(ArgumentChecks(t, s))
  PROVE  /\ Net(t) > 0 /\ t.amount > 0
         /\ t.tier \in TierValues /\ t.minOut >= t.tier
         /\ t.pool \in PoolIds /\ t.bips <= 100
         /\ t.user # s
<1> DEFINE c == ArgumentChecks(t, s)
<1>1. DOMAIN c = 1..9
  BY DEF ArgumentChecks
<1>2. \A i \in 1..9 : c[i].holds
  BY <1>1 DEF Passes, Failing
<1>3. /\ c[3].holds => t.amount > 0
      /\ c[4].holds => t.tier \in TierValues
      /\ c[5].holds => t.minOut >= t.tier
      /\ c[6].holds => t.pool \in PoolIds
      /\ c[7].holds => t.bips <= 100
      /\ c[8].holds => Net(t) > 0
      /\ c[9].holds => t.user # s
  BY DEF ArgumentChecks, Check, MAX_INTEGRATOR_BIPS
<1> HIDE DEF c
<1> QED
  BY <1>2, <1>3

(* The fees of an accepted call, and what the pool takes and pays.         *)
LEMMA AmountsOfAccepted ==
  ASSUME NEW t, WellTyped(t), NEW s, Passes(ArgumentChecks(t, s)),
         NEW w, w.market \in [PoolIds -> Pool]
  PROVE  /\ ServiceFee(t) \in Nat /\ IntegratorFee(t) \in Nat /\ Net(t) \in Nat
         /\ t.amount = ServiceFee(t) + IntegratorFee(t) + Net(t)
         /\ Taken(t, w) \in Nat /\ Taken(t, w) <= Net(t)
         /\ t.pool # DLMM => Taken(t, w) = Net(t)
         /\ Out(t, w) \in Nat
         /\ Spent(t, w) \in Nat /\ Spent(t, w) <= t.amount
         /\ t.pool # DLMM => Spent(t, w) = t.amount
<1>1. /\ Net(t) > 0 /\ t.amount > 0 /\ t.pool \in PoolIds /\ t.bips <= 100
  BY AcceptedArguments
<1>2. t.amount \in Nat /\ CallBips(t) \in Nat /\ CallBips(t) <= 100
  BY <1>1 DEF WellTyped, CallBips
<1>3. ServiceFee(t) \in Nat /\ IntegratorFee(t) \in Nat
  BY <1>1, <1>2, NetIsPositive DEF ServiceFee, IntegratorFee, FEE_BIPS
<1>4. Net(t) \in Nat /\ t.amount = ServiceFee(t) + IntegratorFee(t) + Net(t)
  BY <1>1, <1>2, <1>3 DEF Net
<1>5. w.market[t.pool].rate \in Nat /\ w.market[t.pool].depth \in Nat
  <2>1. w.market[t.pool] \in Pool
    BY <1>1
  <2>2. Rates \subseteq Nat /\ Depths \subseteq Nat
    BY SettlementAssumption
  <2> QED BY <2>1, <2>2 DEF Pool
<1>6. /\ Taken(t, w) \in Nat /\ Taken(t, w) <= Net(t)
      /\ t.pool # DLMM => Taken(t, w) = Net(t)
  BY <1>4, <1>5 DEF Taken, Filled
<1>7. Out(t, w) = Taken(t, w) * w.market[t.pool].rate
  BY DEF Out, Taken, Received
<1>8. Out(t, w) \in Nat
  BY <1>5, <1>6, <1>7
<1> QED
  BY <1>3, <1>4, <1>6, <1>8 DEF Spent

(* There are nine checks among the transfers, none of which errs with ok.  *)
LEMMA TransferIndices ==
  ASSUME NEW t, NEW w
  PROVE  /\ DOMAIN TransferChecks(t, w) = 1..9
         /\ \A j \in 1..9 : TransferChecks(t, w)[j].error # "ok"
<1>1. DOMAIN TransferChecks(t, w) = 1..9
  BY DEF TransferChecks
<1> DEFINE c == TransferChecks(t, w)
<1>2. /\ c[1].error # "ok" /\ c[2].error # "ok" /\ c[3].error # "ok"
      /\ c[4].error # "ok" /\ c[5].error # "ok" /\ c[6].error # "ok"
      /\ c[7].error # "ok" /\ c[8].error # "ok" /\ c[9].error # "ok"
  BY DEF TransferChecks, Check
<1> HIDE DEF c
<1>3. ASSUME NEW j \in 1..9 PROVE c[j].error # "ok"
  <2>1. \/ j = 1 \/ j = 2 \/ j = 3 \/ j = 4 \/ j = 5 \/ j = 6 \/ j = 7
        \/ j = 8 \/ j = 9
    OBVIOUS
  <2> QED BY <1>2, <2>1, Zenon
<1> QED BY <1>1, <1>3 DEF c

(* What a passed run of transfers needed.                                  *)
LEMMA AcceptedTransfers ==
  ASSUME NEW t, NEW w, Passes(TransferChecks(t, w))
  PROVE  /\ ServiceFee(t) > 0 => t.user # w.feeRecipient
         /\ IntegratorFee(t) > 0 => t.user # t.integrator
         /\ Out(t, w) >= t.minOut
         /\ w.sbtc[t.user] >= Spent(t, w)
<1> DEFINE c == TransferChecks(t, w)
<1>1. DOMAIN c = 1..9
  BY TransferIndices
<1>2. \A i \in 1..9 : c[i].holds
  BY <1>1 DEF Passes, Failing
<1>3. /\ c[1].holds => (ServiceFee(t) > 0 => t.user # w.feeRecipient)
      /\ c[3].holds => (IntegratorFee(t) > 0 => t.user # t.integrator)
      /\ c[6].holds => Out(t, w) >= t.minOut
      /\ c[7].holds => w.sbtc[t.user] >= Spent(t, w)
  BY DEF TransferChecks, Check
<1> HIDE DEF c
<1> QED
  BY <1>2, <1>3

(* A failed run of transfers: a short balance, a transfer to oneself or    *)
(* the pool's minimum, for a call whose min-out covers its tier.           *)
LEMMA FailedTransfers ==
  ASSUME NEW t, WellTyped(t), NEW s, Passes(ArgumentChecks(t, s)),
         NEW w, w.market \in [PoolIds -> Pool], w.stx[t.user] \in Nat,
         ~Passes(TransferChecks(t, w))
  PROVE  Verdict(TransferChecks(t, w)) \in {"sbtc u1", "sbtc u2", "pool"}
<1> DEFINE c == TransferChecks(t, w)
<1>1. DOMAIN c = 1..9
  BY TransferIndices
<1>2. PICK i \in 1..9 : /\ ~c[i].holds /\ \A j \in 1..9 : j < i => c[j].holds
                        /\ Verdict(c) = c[i].error
  BY <1>1, FirstFailure
<1>3. /\ c[6].holds => Out(t, w) >= t.minOut
      /\ Out(t, w) >= t.minOut => c[8].holds
      /\ w.stx[t.user] + Out(t, w) >= t.tier => c[9].holds
      /\ c[1].error = "sbtc u2" /\ c[2].error = "sbtc u1" /\ c[3].error = "sbtc u2"
      /\ c[4].error = "sbtc u1" /\ c[5].error = "pool" /\ c[6].error = "pool"
      /\ c[7].error = "sbtc u1"
  BY DEF TransferChecks, Check
<1>4. Out(t, w) \in Nat /\ t.tier \in Nat /\ t.minOut \in Nat /\ t.minOut >= t.tier
  BY AmountsOfAccepted, AcceptedArguments DEF WellTyped
<1>5. Out(t, w) >= t.minOut => w.stx[t.user] + Out(t, w) >= t.tier
  BY <1>4
<1> HIDE DEF c
<1>6. i \in 1..7
  <2>1. i # 8 /\ i # 9
    <3>1. i > 6 => c[6].holds
      BY <1>2
    <3>2. i > 6 => c[8].holds /\ c[9].holds
      BY <1>3, <1>5, <3>1
    <3> QED BY <1>2, <3>2
  <2> QED BY <2>1
<1>7. c[i].error \in {"sbtc u1", "sbtc u2", "pool"}
  <2>1. i = 1 \/ i = 2 \/ i = 3 \/ i = 4 \/ i = 5 \/ i = 6 \/ i = 7
    BY <1>6
  <2> QED BY <1>3, <2>1, Zenon
<1> QED
  BY <1>2, <1>7 DEF c

(* The post-conditions the relay demands hold of every call the contract   *)
(* accepts, partial fills included.                                        *)
LEMMA VerifiedConditionsHold ==
  ASSUME NEW t, WellTyped(t), verifySponsoredSwap(t) = "ok",
         NEW s, Passes(ArgumentChecks(t, s)),
         NEW w, w.market \in [PoolIds -> Pool], Passes(TransferChecks(t, w))
  PROVE  PostConditionsHold(t, w)
<1>1. /\ t.mode = "deny" /\ t.conditions = expectedPostConditions(t)
      /\ t.pool \in {1, 2, 3}
  BY VerifiedCall
<1>2. t.user \notin {"xyk-pool", "velar-pool", "dlmm-pool"}
  BY SettlementAssumption DEF WellTyped
<1> DEFINE pool == PoolSends[t.pool]
           k1 == Condition(t.user, "sbtc", RelayPools[t.pool].sbtcCondition, t.amount)
           k2 == Condition(t.user, "stx", "eq", t.tier)
           k3 == Condition(pool, "stx", "gte", t.minOut)
<1>3. pool \in {"xyk-pool", "velar-pool", "dlmm-pool"} /\ RelayPools[t.pool].stxSender = pool
  BY <1>1 DEF PoolSends, RelayPools
<1>4. t.conditions = {k1, k2, k3}
  BY <1>1, <1>3 DEF expectedPostConditions
<1>5. pool # t.user
  BY <1>2, <1>3
<1> HIDE DEF pool
<1>6. /\ Sends(t, w, t.user, "sbtc") = Spent(t, w)
      /\ Sends(t, w, t.user, "stx") = t.tier
  BY <1>5 DEF Sends, pool
<1>7. Sends(t, w, pool, "stx") = Out(t, w)
  BY <1>5 DEF Sends, pool
<1>8. /\ Spent(t, w) \in Nat /\ Spent(t, w) <= t.amount
      /\ t.pool # DLMM => Spent(t, w) = t.amount
      /\ Out(t, w) \in Nat /\ Out(t, w) >= t.minOut
  BY AmountsOfAccepted, AcceptedTransfers
<1>9. Meets(k1, Sends(t, w, k1.principal, k1.asset))
  <2>1. k1.principal = t.user /\ k1.asset = "sbtc" /\ k1.amount = t.amount
    BY DEF Condition
  <2>2. k1.condition = RelayPools[t.pool].sbtcCondition
    BY DEF Condition
  <2> HIDE DEF k1
  <2>3. CASE t.pool = 3
    <3>1. k1.condition = "lte"
      BY <2>2, <2>3 DEF RelayPools
    <3> QED BY <1>6, <1>8, <2>1, <3>1 DEF Meets
  <2>4. CASE t.pool \in {1, 2}
    <3>1. k1.condition = "eq"
      BY <2>2, <2>4 DEF RelayPools
    <3>2. Spent(t, w) = t.amount
      BY <1>8, <2>4 DEF DLMM
    <3> QED BY <1>6, <2>1, <3>1, <3>2 DEF Meets
  <2> QED BY <1>1, <2>3, <2>4
<1>10. Meets(k2, Sends(t, w, k2.principal, k2.asset))
  BY <1>6 DEF Condition, Meets
<1>11. Meets(k3, Sends(t, w, k3.principal, k3.asset))
  BY <1>7, <1>8 DEF Condition, Meets
<1>12. /\ Covered(t, t.user, "sbtc") /\ Covered(t, t.user, "stx")
       /\ Covered(t, PoolSends[t.pool], "stx")
  <2>1. k1.principal = t.user /\ k1.asset = "sbtc" /\ k2.principal = t.user
        /\ k2.asset = "stx" /\ k3.principal = pool /\ k3.asset = "stx"
    BY DEF Condition
  <2> HIDE DEF k1, k2, k3
  <2> QED BY <1>4, <2>1 DEF Covered, pool
<1> HIDE DEF k1, k2, k3
<1>13. \A k \in t.conditions : Meets(k, Sends(t, w, k.principal, k.asset))
  BY <1>4, <1>9, <1>10, <1>11
<1> QED
  BY <1>12, <1>13 DEF PostConditionsHold

(* Altogether: what becomes of a verified call.                            *)
LEMMA OutcomeOfVerified ==
  ASSUME NEW t, WellTyped(t), verifySponsoredSwap(t) = "ok", NEW s \in Accounts,
         NEW w, w.market \in [PoolIds -> Pool], w.stx[t.user] \in Nat
  PROVE  \/ swapSbtcForGas(t, s, w) \in WorldlyAborts \union {"ok"}
         \/ swapSbtcForGas(t, s, w) = "runtime" /\ Overflows(t)
<1>1. CASE ~Passes(ArgumentChecks(t, s))
  BY <1>1, VerifiedArguments DEF swapSbtcForGas, WorldlyAborts
<1>2. CASE Passes(ArgumentChecks(t, s)) /\ ~Passes(TransferChecks(t, w))
  BY <1>2, FailedTransfers DEF swapSbtcForGas, WorldlyAborts
<1>3. CASE Passes(ArgumentChecks(t, s)) /\ Passes(TransferChecks(t, w))
  BY <1>3, VerifiedConditionsHold DEF swapSbtcForGas, WorldlyAborts
<1> QED
  BY <1>1, <1>2, <1>3

(* Nothing else commits: "ok" means every check of the contract passed.    *)
LEMMA CommittedPassed ==
  ASSUME NEW t, NEW s, NEW w, swapSbtcForGas(t, s, w) = "ok"
  PROVE  Passes(ArgumentChecks(t, s)) /\ Passes(TransferChecks(t, w))
<1>1. ASSUME ~Passes(ArgumentChecks(t, s)) PROVE FALSE
  <2>1. DOMAIN ArgumentChecks(t, s) = 1..9
    BY DEF ArgumentChecks
  <2>2. PICK i \in 1..9 : Verdict(ArgumentChecks(t, s)) = ArgumentChecks(t, s)[i].error
    BY <1>1, <2>1, FirstFailure
  <2>3. \A j \in 1..9 : ArgumentChecks(t, s)[j].error # "ok"
    BY DEF ArgumentChecks, Check
  <2> QED BY <1>1, <2>2, <2>3 DEF swapSbtcForGas
<1>2. ASSUME Passes(ArgumentChecks(t, s)), ~Passes(TransferChecks(t, w)) PROVE FALSE
  <2>1. /\ DOMAIN TransferChecks(t, w) = 1..9
        /\ \A j \in 1..9 : TransferChecks(t, w)[j].error # "ok"
    BY TransferIndices
  <2>2. PICK i \in 1..9 : Verdict(TransferChecks(t, w)) = TransferChecks(t, w)[i].error
    BY <1>2, <2>1, FirstFailure
  <2> QED BY <1>2, <2>1, <2>2 DEF swapSbtcForGas
<1> QED
  BY <1>1, <1>2

-----------------------------------------------------------------------------
(* The SDK *)

(* A slippage below 100 % leaves a natural number.                         *)
LEMMA MinOutIsNat ==
  ASSUME NEW q \in Nat, NEW x \in Nat, validSlippage(x)
  PROVE  minOutFor(q, x) \in Nat
<1> DEFINE f == 10000 - x
           p == q * f
<1>1. f \in Nat
  BY DEF validSlippage
<1> HIDE DEF f
<1>2. p \in Nat
  BY <1>1
<1>3. minOutFor(q, x) = p \div 10000
  BY DEF minOutFor, f
<1> HIDE DEF p
<1> QED
  BY <1>2, <1>3

(* What the SDK has made sure of once its checks pass.                     *)
LEMMA AcceptedBuild ==
  ASSUME NEW i, NEW q, Passes(BuildChecks(i, q))
  PROVE  /\ i.amount > 0 /\ i.bips <= 100 /\ i.integrator # i.user
         /\ i.pool \in DOMAIN SdkPools /\ validSlippage(i.slippage)
         /\ minOutFor(q, i.slippage) >= SdkTiers[i.tier]
<1> DEFINE c == BuildChecks(i, q)
<1>1. DOMAIN c = 1..6
  BY DEF BuildChecks
<1>2. \A j \in 1..6 : c[j].holds
  BY <1>1 DEF Passes, Failing
<1>3. /\ c[1].holds => i.amount > 0
      /\ c[2].holds => i.bips <= 100
      /\ c[3].holds => i.integrator # i.user
      /\ c[4].holds => i.pool \in DOMAIN SdkPools
      /\ c[5].holds => validSlippage(i.slippage)
      /\ c[6].holds => minOutFor(q, i.slippage) >= SdkTiers[i.tier]
  BY DEF BuildChecks, Check, SdkMaxIntegratorBips
<1> HIDE DEF c
<1> QED
  BY <1>2, <1>3

(* What it asks a quote for is what the pool will be sent.                 *)
LEMMA BuiltNet ==
  ASSUME NEW i \in BuildInputs, NEW q, Passes(BuildChecks(i, q))
  PROVE  quoteInput(i) \in Nat
<1> DEFINE bips == IF i.integrator = None THEN 0 ELSE i.bips
           a == FeeAt(i.amount, 50)
           b == FeeAt(i.amount, bips)
<1>1. i.amount \in Nat /\ i.bips \in Nat
  BY SettlementAssumption
<1>2. i.amount > 0 /\ bips \in Nat /\ bips <= 100
  BY <1>1, AcceptedBuild
<1> HIDE DEF bips
<1>3. a \in Nat /\ b \in Nat /\ i.amount - (a + b) > 0
  BY <1>1, <1>2, NetIsPositive
<1>4. quoteInput(i) = i.amount - a - b
  BY DEF quoteInput, splitFees, FeeAt, SdkFeeBips, SdkBipsDenom, BIPS_DENOM, bips
<1> HIDE DEF a, b
<1> QED
  BY <1>1, <1>3, <1>4

(* What the SDK builds, the relay verifies.                                *)
LEMMA BuiltCall ==
  ASSUME NEW i \in BuildInputs, NEW q \in Nat, NEW n \in Nat, Passes(BuildChecks(i, q))
  PROVE  /\ WellTyped(buildSwapCall(i, q, n))
         /\ verifySponsoredSwap(buildSwapCall(i, q, n)) = "ok"
<1> DEFINE t == buildSwapCall(i, q, n)
           m == minOutFor(q, i.slippage)
<1>1. i \in [user : Users, amount : Nat, tier : TierName, pool : Nat, slippage : Nat,
             integrator : Accounts \union {None}, bips : Nat]
  BY SettlementAssumption
<1>6. /\ i.amount > 0 /\ i.bips <= 100 /\ i.integrator # i.user /\ i.pool \in DOMAIN SdkPools
      /\ validSlippage(i.slippage) /\ m >= SdkTiers[i.tier]
  BY AcceptedBuild
<1>7. m \in Nat
  BY <1>1, <1>6, MinOutIsNat
<1> HIDE DEF m
<1>8. /\ t.defects = {} /\ t.user = i.user /\ t.nonce = n /\ t.amount = i.amount
      /\ t.tier = SdkTiers[i.tier] /\ t.minOut = m /\ t.pool = i.pool
      /\ t.integrator = i.integrator /\ t.bips = i.bips /\ t.mode = "deny"
      /\ t.conditions = sdkPostConditions(i, m)
  BY DEF buildSwapCall, m
<1>9. i.tier \in TierName /\ TIERS[i.tier] = SdkTiers[i.tier] /\ SdkTiers[i.tier] \in Nat
  <2>1. i.tier \in {"low", "mid", "high"} /\ i.tier \in TierName /\ TIERS = SdkTiers
    BY <1>1, SettlementAssumption
  <2> QED BY <2>1 DEF SdkTiers
<1> HIDE DEF t
<1>10. WellTyped(t)
  BY <1>1, <1>7, <1>8, <1>9 DEF WellTyped, Accounts
<1>11. Passes(EnvelopeChecks(t))
  BY <1>8 DEF EnvelopeChecks, Check, Passes, Failing
<1>12. t.pool \in DOMAIN RelayPools /\ t.conditions = expectedPostConditions(t)
  <2>1. SdkPools = RelayPools
    BY DEF SdkPools, RelayPools
  <2> QED
    BY <1>6, <1>8, <2>1
    DEF sdkPostConditions, expectedPostConditions, SdkCondition, Condition
<1> DEFINE d == CallChecks(t)
<1>13. DOMAIN d = 1..9
  BY DEF CallChecks
<1>14. /\ t.pool <= 1000 => d[1].holds
       /\ (\E k \in TierName : TIERS[k] = t.tier) => d[2].holds
       /\ t.minOut >= t.tier => d[3].holds
       /\ t.pool \in DOMAIN RelayPools => d[4].holds
       /\ t.bips <= 100 => d[5].holds
       /\ t.amount # 0 => d[6].holds
       /\ t.integrator # t.user => d[7].holds
       /\ t.mode = "deny" => d[8].holds
       /\ t.pool \in DOMAIN RelayPools /\ t.conditions = expectedPostConditions(t) => d[9].holds
  BY ZenonT(60) DEF CallChecks, Check, RelayMaxIntegratorBips
<1> HIDE DEF d
<1> DEFINE known == DOMAIN RelayPools
<1>15. t.pool <= 1000
  <2>1. known = {1, 2, 3}
    BY DEF RelayPools
  <2> HIDE DEF known
  <2>2. t.pool \in known
    BY <1>12 DEF known
  <2> QED BY <2>1, <2>2
<1>16. d[1].holds /\ d[2].holds /\ d[3].holds /\ d[4].holds /\ d[5].holds
  BY <1>15, <1>6, <1>8, <1>9, <1>12, <1>14
<1>17. d[6].holds /\ d[7].holds /\ d[8].holds /\ d[9].holds
  BY <1>6, <1>8, <1>12, <1>14
<1>18. Passes(d)
  <2>1. \A j \in 1..9 : d[j].holds
    <3> SUFFICES ASSUME NEW j \in 1..9 PROVE d[j].holds
      OBVIOUS
    <3>1. j = 1 \/ j = 2 \/ j = 3 \/ j = 4 \/ j = 5 \/ j = 6 \/ j = 7
          \/ j = 8 \/ j = 9
      OBVIOUS
    <3> QED BY <1>16, <1>17, <3>1, Zenon
  <2> QED BY <1>13, <2>1 DEF Passes, Failing
<1>19. verifySponsoredSwap(t) = "ok"
  BY <1>11, <1>18 DEF verifySponsoredSwap, Verdict, d
<1> QED
  BY <1>10, <1>19 DEF t

-----------------------------------------------------------------------------
(* The inductive invariant *)

(* Some other account is held to send the STX of the tier.                 *)
ForAnother(t) ==
  t.tier > 0 /\ \E p \in Accounts : p # t.user /\ Condition(p, "stx", "eq", t.tier) \in t.conditions

(* What is known of a request by where it stands: signed by the SDK it     *)
(* would be verified; past verification it has been; sponsored by a tier's *)
(* key it was verified, the key is its own tier's, and the fee within it.  *)
Vetted(r) ==
  /\ pc[r] # "new" => WellTyped(tx[r])
  /\ pc[r] # "new" /\ maker[r] = "sdk" => verifySponsoredSwap(tx[r]) = "ok"
  /\ pc[r] # "new" /\ maker[r] = "mixed" => ForAnother(tx[r])
  /\ pc[r] \in {"balance", "nonce", "quote"} => verifySponsoredSwap(tx[r]) = "ok"
  /\ pc[r] \in {"mempool", "mined"} => sponsor[r] \in Accounts
  /\ Sponsored(r) => /\ verifySponsoredSwap(tx[r]) = "ok"
                     /\ sponsor[r] = tierNameOf(tx[r])
                     /\ fee[r] <= TIERS[sponsor[r]]

(* The same for one request.                                               *)
Good(r) ==
  /\ Vetted(r)
  /\ pc[r] = "refused" /\ maker[r] = "sdk" =>
       outcome[r] \in {"INSUFFICIENT_SBTC", "BAD_NONCE", "QUOTE_BELOW_MIN_OUT", "TIER_TOO_SMALL"}
  /\ pc[r] = "mined" /\ Sponsored(r) =>
       \/ outcome[r] \in WorldlyAborts \union {"ok"}
       \/ outcome[r] = "runtime" /\ Overflows(tx[r])

Shape ==
  DOMAIN tx = Requests /\ DOMAIN maker = Requests /\ DOMAIN sponsor = Requests
  /\ DOMAIN outcome = Requests

IInv == TypeOK /\ Shape /\ \A r \in Requests : Good(r)

LEMMA GoodIsSafe ==
  ASSUME IInv
  PROVE  TypeOK /\ BuiltIsVerified /\ OnlyTheWorldAborts
BY DEF IInv, Good, BuiltIsVerified, OnlyTheWorldAborts

LEMMA InitGood ==
  ASSUME Init
  PROVE  IInv
<1>1. TypeOK
  BY SettlementAssumption DEF Init, TypeOK
<1>2. Shape
  BY DEF Init, Shape
<1>3. \A r \in Requests : Good(r)
  BY DEF Init, Good, Vetted, Sponsored
<1> QED
  BY <1>1, <1>2, <1>3 DEF IInv

Same(q) ==
  /\ pc'[q] = pc[q] /\ tx'[q] = tx[q] /\ maker'[q] = maker[q]
  /\ sponsor'[q] = sponsor[q] /\ fee'[q] = fee[q] /\ outcome'[q] = outcome[q]

(* A request a step leaves as it was stays good.                           *)
LEMMA Untouched ==
  ASSUME NEW q \in Requests, Good(q), Same(q)
  PROVE  Good(q)'
BY DEF Good, Vetted, Sponsored, Same

(* A step of one request keeps the invariant if that request stays good.   *)
LEMMA OneRequest ==
  ASSUME IInv, NEW r \in Requests, \A q \in Requests : q # r => Same(q),
         TypeOK', Shape', Good(r)'
  PROVE  IInv'
BY Untouched DEF IInv

(* A step that touches no request keeps the invariant if the types hold.   *)
LEMMA NoRequest ==
  ASSUME IInv, UNCHANGED requestVars, TypeOK'
  PROVE  IInv'
<1>1. \A q \in Requests : Same(q)
  BY DEF requestVars, Same
<1>2. Shape'
  BY DEF IInv, Shape, requestVars
<1> QED
  BY <1>1, <1>2, Untouched DEF IInv

-----------------------------------------------------------------------------
(* The steps before the block *)

(* What pools and inputs make of a quote is a natural number.              *)
LEMMA QuoteTyped ==
  ASSUME TypeOK, NEW p \in PoolIds, NEW n \in Nat
  PROVE  Quote(p, n) \in Nat
<1>1. market[p].rate \in Nat /\ market[p].depth \in Nat
  <2>1. market[p] \in Pool
    BY DEF TypeOK
  <2> QED BY <2>1, SettlementAssumption DEF Pool
<1>2. Filled(p, n, market) \in Nat
  BY <1>1 DEF Filled
<1>3. Received(p, n, market) \in Nat
  BY <1>1, <1>2 DEF Received
<1> QED
  BY <1>3 DEF Quote

LEMMA BuildStep ==
  ASSUME IInv, NEW r \in Requests, Build(r)
  PROVE  IInv'
<1>1. PICK i \in BuildInputs :
        LET q == IF i.pool \in PoolIds THEN Quote(i.pool, quoteInput(i)) ELSE 0
        IN  /\ Passes(BuildChecks(i, q))
            /\ Signs(r, buildSwapCall(i, q, originNonce[i.user]), "sdk")
  BY DEF Build
<1> DEFINE q == IF i.pool \in PoolIds THEN Quote(i.pool, quoteInput(i)) ELSE 0
           t == buildSwapCall(i, q, originNonce[i.user])
<1>2. Passes(BuildChecks(i, q)) /\ Signs(r, t, "sdk")
  BY <1>1
<1>3. TypeOK /\ Shape
  BY DEF IInv
<1>4. originNonce[i.user] \in Nat
  <2>1. i.user \in Accounts
    BY SettlementAssumption DEF Accounts
  <2> QED BY <1>3, <2>1 DEF TypeOK
<1>5. q \in Nat
  <2>1. quoteInput(i) \in Nat
    BY <1>2, BuiltNet
  <2> QED BY <1>3, <2>1, QuoteTyped
<1> HIDE DEF q
<1>6. WellTyped(t) /\ verifySponsoredSwap(t) = "ok"
  BY <1>2, <1>4, <1>5, BuiltCall
<1> HIDE DEF t
<1>7. /\ pc'[r] = "signed" /\ tx'[r] = t /\ maker'[r] = "sdk"
      /\ \A p \in Requests : p # r => Same(p)
  BY <1>2, <1>3 DEF Build, Signs, TypeOK, Shape, Same
<1>8. Good(r)'
  BY <1>6, <1>7 DEF Good, Vetted, Sponsored
<1>9. TypeOK' /\ Shape'
  BY <1>2, <1>3 DEF Build, Signs, TypeOK, Shape, chainVars, contractVars
<1> QED
  BY <1>7, <1>8, <1>9, OneRequest

(* What is built for one account and signed by another names the first.    *)
LEMMA BuiltForAnother ==
  ASSUME NEW i \in BuildInputs, NEW q \in Nat, NEW n \in Nat, Passes(BuildChecks(i, q)),
         NEW u \in Users, u # i.user
  PROVE  LET t == [buildSwapCall(i, q, n) EXCEPT !.user = u]
         IN  WellTyped(t) /\ ForAnother(t)
<1> DEFINE c == buildSwapCall(i, q, n)
           m == minOutFor(q, i.slippage)
           t == [c EXCEPT !.user = u]
<1>1. i.user \in Accounts /\ i.tier \in {"low", "mid", "high"} /\ u \in Accounts
  BY SettlementAssumption DEF Accounts
<1>2. /\ t.user = u /\ t.nonce = c.nonce /\ t.amount = c.amount /\ t.tier = c.tier
      /\ t.minOut = c.minOut /\ t.pool = c.pool /\ t.integrator = c.integrator
      /\ t.bips = c.bips /\ t.conditions = c.conditions
      /\ c.tier = SdkTiers[i.tier] /\ c.conditions = sdkPostConditions(i, m)
  BY DEF buildSwapCall, m
<1>3. WellTyped(c)
  BY BuiltCall
<1>4. SdkTiers[i.tier] > 0
  BY <1>1 DEF SdkTiers
<1>5. Condition(i.user, "stx", "eq", SdkTiers[i.tier]) \in sdkPostConditions(i, m)
  BY DEF sdkPostConditions, SdkCondition, Condition
<1> HIDE DEF c, m, t
<1>6. WellTyped(t)
  BY <1>1, <1>2, <1>3 DEF WellTyped
<1>7. ForAnother(t)
  BY <1>1, <1>2, <1>4, <1>5 DEF ForAnother
<1> QED
  BY <1>6, <1>7 DEF t, c

LEMMA BuildForAnotherStep ==
  ASSUME IInv, NEW r \in Requests, BuildForAnother(r)
  PROVE  IInv'
<1>1. PICK i \in BuildInputs, u \in Users :
        LET q == IF i.pool \in PoolIds THEN Quote(i.pool, quoteInput(i)) ELSE 0
        IN  /\ u # i.user
            /\ Passes(BuildChecks(i, q))
            /\ Signs(r, [buildSwapCall(i, q, originNonce[u]) EXCEPT !.user = u], "mixed")
  BY DEF BuildForAnother
<1> DEFINE q == IF i.pool \in PoolIds THEN Quote(i.pool, quoteInput(i)) ELSE 0
           t == [buildSwapCall(i, q, originNonce[u]) EXCEPT !.user = u]
<1>2. u # i.user /\ Passes(BuildChecks(i, q)) /\ Signs(r, t, "mixed")
  BY <1>1
<1>3. TypeOK /\ Shape
  BY DEF IInv
<1>4. originNonce[u] \in Nat
  BY <1>3 DEF TypeOK, Accounts
<1>5. q \in Nat
  <2>1. quoteInput(i) \in Nat
    BY <1>2, BuiltNet
  <2> QED BY <1>3, <2>1, QuoteTyped
<1> HIDE DEF q
<1>6. WellTyped(t) /\ ForAnother(t)
  BY <1>2, <1>4, <1>5, BuiltForAnother
<1> HIDE DEF t
<1>7. /\ pc'[r] = "signed" /\ tx'[r] = t /\ maker'[r] = "mixed"
      /\ \A p \in Requests : p # r => Same(p)
  BY <1>2, <1>3 DEF BuildForAnother, Signs, TypeOK, Shape, Same
<1>8. Good(r)'
  BY <1>6, <1>7 DEF Good, Vetted, Sponsored
<1>9. TypeOK' /\ Shape'
  BY <1>2, <1>3 DEF BuildForAnother, Signs, TypeOK, Shape, chainVars, contractVars
<1> QED
  BY <1>7, <1>8, <1>9, OneRequest

LEMMA SignByHandStep ==
  ASSUME IInv, NEW r \in Requests, SignByHand(r)
  PROVE  IInv'
<1>1. PICK t \in HandMade : Signs(r, t, "hand")
  BY DEF SignByHand
<1>2. TypeOK /\ Shape
  BY DEF IInv
<1>3. WellTyped(t)
  BY SettlementAssumption DEF WellTyped
<1>4. /\ pc'[r] = "signed" /\ tx'[r] = t /\ maker'[r] = "hand"
      /\ \A p \in Requests : p # r => Same(p)
  BY <1>1, <1>2 DEF SignByHand, Signs, TypeOK, Shape, Same
<1>5. Good(r)'
  BY <1>3, <1>4 DEF Good, Vetted, Sponsored
<1>6. TypeOK' /\ Shape'
  BY <1>1, <1>2 DEF SignByHand, Signs, TypeOK, Shape, chainVars, contractVars
<1> QED
  BY <1>4, <1>5, <1>6, OneRequest

LEMMA VerifyTxStep ==
  ASSUME IInv, NEW r \in Requests, VerifyTx(r)
  PROVE  IInv'
<1>1. TypeOK /\ Shape /\ Good(r)
  BY DEF IInv
<1>2. /\ \/ pc'[r] = "balance" /\ verifySponsoredSwap(tx[r]) = "ok"
         \/ pc'[r] = "refused" /\ verifySponsoredSwap(tx[r]) # "ok"
      /\ tx'[r] = tx[r] /\ maker'[r] = maker[r]
      /\ \A p \in Requests : p # r => Same(p)
  BY <1>1 DEF VerifyTx, Goto, Refuses, TypeOK, Shape, Same
<1>3. pc[r] = "signed"
  BY DEF VerifyTx
<1>4. Good(r)'
  BY <1>1, <1>2, <1>3 DEF Good, Vetted, Sponsored
<1>5. TypeOK' /\ Shape'
  BY <1>1 DEF VerifyTx, Goto, Refuses, TypeOK, Shape, chainVars, contractVars
<1> QED
  BY <1>2, <1>4, <1>5, OneRequest

(* The two readings that follow: each goes on or refuses.                  *)
LEMMA CheckBalanceStep ==
  ASSUME IInv, NEW r \in Requests, CheckBalance(r)
  PROVE  IInv'
<1>1. TypeOK /\ Shape /\ Good(r)
  BY DEF IInv
<1>2. /\ \/ pc'[r] = "nonce"
         \/ pc'[r] = "refused" /\ outcome'[r] = "INSUFFICIENT_SBTC"
      /\ tx'[r] = tx[r] /\ maker'[r] = maker[r]
      /\ \A p \in Requests : p # r => Same(p)
  BY <1>1 DEF CheckBalance, Goto, Refuses, TypeOK, Shape, Same
<1>3. pc[r] = "balance"
  BY DEF CheckBalance
<1>4. Good(r)'
  BY <1>1, <1>2, <1>3 DEF Good, Vetted, Sponsored
<1>5. TypeOK' /\ Shape'
  BY <1>1 DEF CheckBalance, Goto, Refuses, TypeOK, Shape, chainVars, contractVars
<1> QED
  BY <1>2, <1>4, <1>5, OneRequest

LEMMA CheckNonceStep ==
  ASSUME IInv, NEW r \in Requests, CheckNonce(r)
  PROVE  IInv'
<1>1. TypeOK /\ Shape /\ Good(r)
  BY DEF IInv
<1>2. /\ \/ pc'[r] = "quote"
         \/ pc'[r] = "refused" /\ outcome'[r] = "BAD_NONCE"
      /\ tx'[r] = tx[r] /\ maker'[r] = maker[r]
      /\ \A p \in Requests : p # r => Same(p)
  BY <1>1 DEF CheckNonce, Goto, Refuses, TypeOK, Shape, Same
<1>3. pc[r] = "nonce"
  BY DEF CheckNonce
<1>4. Good(r)'
  BY <1>1, <1>2, <1>3 DEF Good, Vetted, Sponsored
<1>5. TypeOK' /\ Shape'
  BY <1>1 DEF CheckNonce, Goto, Refuses, TypeOK, Shape, chainVars, contractVars
<1> QED
  BY <1>2, <1>4, <1>5, OneRequest

(* The opening bid of a tier is a natural number within the tier.          *)
LEMMA OpeningFee ==
  ASSUME NEW n \in TierName, NEW b \in Nat
  PROVE  computeFee(n, b) \in Nat /\ computeFee(n, b) <= TIERS[n]
<1>1. TIERS[n] \in Nat /\ OpeningBid[n] \in Nat /\ MinFeePerByte \in Nat
  BY FeeAssumption
<1>2. admissionFloor(b) \in Nat
  BY <1>1 DEF admissionFloor
<1> QED
  BY <1>1, <1>2 DEF computeFee, AtLeast, AtMost

LEMMA CheckQuoteStep ==
  ASSUME IInv, NEW r \in Requests, CheckQuote(r)
  PROVE  IInv'
<1>1. TypeOK /\ Shape /\ Good(r)
  BY DEF IInv
<1> DEFINE n == tierNameOf(tx[r])
           f == computeFee(n, byteLength(tx[r]))
<1>2. pc[r] = "quote"
  BY DEF CheckQuote
<1>3. WellTyped(tx[r]) /\ verifySponsoredSwap(tx[r]) = "ok"
  BY <1>1, <1>2 DEF Good, Vetted
<1>4. n \in TierName /\ n \in Accounts
  BY <1>3, TierOfVerified DEF Accounts
<1>5. f \in Nat /\ f <= TIERS[n]
  <2>1. byteLength(tx[r]) \in Nat
    BY SettlementAssumption DEF byteLength
  <2> QED BY <1>4, <2>1, OpeningFee
<1>6. /\ \/ pc'[r] = "mempool" /\ sponsor'[r] = n /\ fee'[r] = f
         \/ /\ pc'[r] = "refused"
            /\ outcome'[r] \in {"QUOTE_BELOW_MIN_OUT", "TIER_TOO_SMALL"}
      /\ tx'[r] = tx[r] /\ maker'[r] = maker[r]
      /\ \A p \in Requests : p # r => Same(p)
  BY <1>1 DEF CheckQuote, Goto, Refuses, TypeOK, Shape, Same
<1>7. TypeOK' /\ Shape'
  BY <1>1, <1>5 DEF CheckQuote, Goto, Refuses, TypeOK, Shape, chainVars, contractVars
<1> HIDE DEF f
<1>8. Good(r)'
  BY <1>1, <1>2, <1>3, <1>4, <1>5, <1>6 DEF Good, Vetted, Sponsored
<1> QED
  BY <1>6, <1>7, <1>8, OneRequest


(* A bump stays within the tier.                                           *)
LEMMA BumpedFee ==
  ASSUME NEW n \in TierName, NEW current \in Nat
  PROVE  bumpFee(n, current) \in Nat /\ bumpFee(n, current) <= TIERS[n]
<1>1. TIERS[n] \in Nat /\ RbfBumpBips \in Nat
  BY FeeAssumption
<1> DEFINE p == current * RbfBumpBips
<1>2. p \in Nat
  BY <1>1
<1> HIDE DEF p
<1>3. p \div 10000 \in Nat
  BY <1>2
<1> QED
  BY <1>1, <1>3 DEF bumpFee, AtLeast, AtMost, p

LEMMA BumpStep ==
  ASSUME IInv, NEW r \in Requests, Bump(r)
  PROVE  IInv'
<1>1. TypeOK /\ Shape /\ Good(r)
  BY DEF IInv
<1> DEFINE f == bumpFee(sponsor[r], fee[r])
<1>2. pc[r] = "mempool" /\ sponsor[r] \in TierName /\ fee[r] \in Nat
  BY <1>1 DEF Bump, TypeOK
<1>3. f \in Nat /\ f <= TIERS[sponsor[r]]
  BY <1>2, BumpedFee
<1>4. /\ fee'[r] = f /\ pc'[r] = pc[r] /\ tx'[r] = tx[r] /\ maker'[r] = maker[r]
      /\ sponsor'[r] = sponsor[r]
      /\ \A p \in Requests : p # r => Same(p)
  BY <1>1 DEF Bump, TypeOK, Shape, Same
<1>5. TypeOK' /\ Shape'
  BY <1>1, <1>3 DEF Bump, TypeOK, Shape, chainVars, contractVars
<1> HIDE DEF f
<1>6. Good(r)'
  BY <1>1, <1>2, <1>3, <1>4 DEF Good, Vetted, Sponsored
<1> QED
  BY <1>4, <1>5, <1>6, OneRequest

LEMMA SponsorElsewhereStep ==
  ASSUME IInv, NEW r \in Requests, SponsorElsewhere(r)
  PROVE  IInv'
<1>1. TypeOK /\ Shape /\ Good(r)
  BY DEF IInv
<1>2. pc[r] = "signed"
  BY DEF SponsorElsewhere
<1>3. /\ pc'[r] = "mempool" /\ sponsor'[r] \in OtherSponsors
      /\ tx'[r] = tx[r] /\ maker'[r] = maker[r]
      /\ \A p \in Requests : p # r => Same(p)
  BY <1>1 DEF SponsorElsewhere, Goto, TypeOK, Shape, Same
<1>4. sponsor'[r] \in Accounts /\ sponsor'[r] \notin TierName
  BY <1>3, SettlementAssumption DEF Accounts
<1>5. TypeOK' /\ Shape'
  BY <1>1 DEF SponsorElsewhere, Goto, TypeOK, Shape, chainVars, contractVars
<1>6. Good(r)'
  BY <1>1, <1>2, <1>3, <1>4 DEF Good, Vetted, Sponsored
<1> QED
  BY <1>3, <1>5, <1>6, OneRequest

-----------------------------------------------------------------------------
(* The block *)

(* The world a call runs in.                                               *)
LEMMA WorldTyped ==
  ASSUME TypeOK
  PROVE  /\ World.market \in [PoolIds -> Pool]
         /\ World.sbtc = sbtc /\ World.stx = stx /\ World.feeRecipient = feeRecipient
BY DEF TypeOK, World

(* What is known of a committed call, by anyone and through any sponsor.   *)
LEMMA Committed ==
  ASSUME TypeOK, NEW t, WellTyped(t), NEW s, swapSbtcForGas(t, s, World) = "ok"
  PROVE  /\ t.user # s /\ t.pool \in PoolIds
         /\ ServiceFee(t) \in Nat /\ IntegratorFee(t) \in Nat
         /\ Spent(t, World) \in Nat /\ Spent(t, World) <= t.amount
         /\ Spent(t, World) <= sbtc[t.user]
         /\ t.pool # DLMM => Spent(t, World) = t.amount
         /\ Out(t, World) \in Nat /\ Out(t, World) >= t.minOut /\ t.minOut >= t.tier
         /\ ServiceFee(t) > 0 => t.user # feeRecipient
         /\ IntegratorFee(t) > 0 => t.user # t.integrator
<1>1. Passes(ArgumentChecks(t, s)) /\ Passes(TransferChecks(t, World))
  BY CommittedPassed
<1>2. t.user # s /\ t.pool \in PoolIds /\ t.minOut >= t.tier
  BY <1>1, AcceptedArguments
<1>3. /\ ServiceFee(t) \in Nat /\ IntegratorFee(t) \in Nat
      /\ Spent(t, World) \in Nat /\ Spent(t, World) <= t.amount
      /\ t.pool # DLMM => Spent(t, World) = t.amount
      /\ Out(t, World) \in Nat
  BY <1>1, WorldTyped, AmountsOfAccepted
<1>4. /\ ServiceFee(t) > 0 => t.user # World.feeRecipient
      /\ IntegratorFee(t) > 0 => t.user # t.integrator
      /\ Out(t, World) >= t.minOut
      /\ World.sbtc[t.user] >= Spent(t, World)
  BY <1>1, AcceptedTransfers
<1>5. sbtc[t.user] \in Nat
  BY DEF TypeOK, WellTyped
<1> QED
  BY <1>2, <1>3, <1>4, <1>5, WorldTyped

(* The books of a committed swap: nobody falls below zero, the user pays   *)
(* what it spent and no fee comes back to it, and gets the output less the *)
(* tier, which goes to the sponsor.                                        *)
LEMMA CommittedBooks ==
  ASSUME IInv, NEW r \in Requests, Mine(r), outcome'[r] = "ok"
  PROVE  LET t == tx[r]
         IN  /\ sbtc' \in [Accounts -> Nat] /\ stx' \in [Accounts -> Nat]
             /\ sbtc'[t.user] = sbtc[t.user] - Spent(t, World)
             /\ stx'[t.user] = stx[t.user] + (Out(t, World) - t.tier)
             /\ stx'[sponsor[r]] = (stx[sponsor[r]] - fee[r]) + t.tier
<1> DEFINE t == tx[r]
           s == sponsor[r]
           u == t.user
           spent == Spent(t, World)
           out == Out(t, World)
           a == ServiceFee(t)
           b == IntegratorFee(t)
<1>1. TypeOK /\ Shape /\ Good(r)
  BY DEF IInv
<1>2. WellTyped(t) /\ s \in Accounts
  BY <1>1 DEF Mine, Good, Vetted
<1>3. u \in Accounts /\ t.tier \in Nat /\ t.minOut \in Nat
  BY <1>2 DEF WellTyped
<1>4. swapSbtcForGas(t, s, World) = "ok" /\ sbtc' = SbtcAfter(t) /\ stx' = StxAfter(r, t)
  BY <1>1 DEF Mine, Shape
<1>5. /\ u # s /\ a \in Nat /\ b \in Nat
      /\ spent \in Nat /\ spent <= sbtc[u]
      /\ out \in Nat /\ out >= t.minOut /\ t.minOut >= t.tier
      /\ a > 0 => u # feeRecipient
      /\ b > 0 => u # t.integrator
  BY <1>1, <1>2, <1>4, Committed
<1>6. stx[s] >= fee[r] /\ fee[r] \in Nat /\ stx \in [Accounts -> Nat] /\ sbtc \in [Accounts -> Nat]
  BY <1>1 DEF Mine, TypeOK
<1>7. sbtc' = [x \in Accounts |-> sbtc[x] - If(x = u, spent)
                                    + If(x = feeRecipient, a) + If(x = t.integrator, b)]
  BY <1>4 DEF SbtcAfter
<1>8. stx' = [x \in Accounts |-> [stx EXCEPT ![s] = @ - fee[r]][x]
                                   + If(x = u, out - t.tier) + If(x = s, t.tier)]
  BY <1>4 DEF StxAfter, Charged
<1>9. t.tier \in Nat /\ out - t.tier \in Nat
  BY <1>3, <1>5
<1> HIDE DEF t, s, u, spent, out, a, b
<1>10. sbtc' \in [Accounts -> Nat] /\ sbtc'[u] = sbtc[u] - spent
  <2>1. ASSUME NEW x \in Accounts
        PROVE  sbtc[x] - If(x = u, spent) + If(x = feeRecipient, a) + If(x = t.integrator, b) \in Nat
    <3>1. sbtc[x] - If(x = u, spent) \in Nat
      BY <1>5, <1>6, <2>1 DEF If
    <3>2. If(x = feeRecipient, a) \in Nat /\ If(x = t.integrator, b) \in Nat
      BY <1>5 DEF If
    <3> QED BY <3>1, <3>2
  <2>2. sbtc[u] - If(u = u, spent) + If(u = feeRecipient, a) + If(u = t.integrator, b)
          = sbtc[u] - spent
    <3>1. If(u = feeRecipient, a) = 0 /\ If(u = t.integrator, b) = 0 /\ If(u = u, spent) = spent
      BY <1>5 DEF If
    <3>2. sbtc[u] \in Nat
      BY <1>3, <1>6 DEF u
    <3> QED BY <1>5, <3>1, <3>2
  <2>3. u \in Accounts
    BY <1>3 DEF u
  <2> QED BY <1>7, <2>1, <2>2, <2>3
<1>11. /\ stx' \in [Accounts -> Nat] /\ stx'[u] = stx[u] + (out - t.tier)
       /\ stx'[s] = (stx[s] - fee[r]) + t.tier
  <2> DEFINE charged == [stx EXCEPT ![s] = @ - fee[r]]
  <2>1. charged \in [Accounts -> Nat] /\ charged[u] = stx[u] /\ charged[s] = stx[s] - fee[r]
    BY <1>2, <1>3, <1>5, <1>6
  <2>2. stx' = [x \in Accounts |-> charged[x] + If(x = u, out - t.tier) + If(x = s, t.tier)]
    BY <1>8
  <2> HIDE DEF charged
  <2>3. ASSUME NEW x \in Accounts
        PROVE  charged[x] + If(x = u, out - t.tier) + If(x = s, t.tier) \in Nat
    BY <1>9, <2>1 DEF If
  <2>4. stx'[u] = charged[u] + (out - t.tier)
    <3>1. If(u = u, out - t.tier) = out - t.tier /\ If(u = s, t.tier) = 0
      BY <1>5 DEF If
    <3>2. charged[u] \in Nat
      BY <1>3, <2>1
    <3> QED BY <1>3, <1>9, <2>2, <3>1, <3>2
  <2>5. stx'[s] = charged[s] + t.tier
    <3>1. If(s = u, out - t.tier) = 0 /\ If(s = s, t.tier) = t.tier
      BY <1>5 DEF If
    <3>2. charged[s] \in Nat
      BY <1>2, <2>1
    <3> QED BY <1>2, <1>9, <2>2, <3>1, <3>2
  <2> QED BY <2>1, <2>2, <2>3, <2>4, <2>5
<1> QED
  BY <1>10, <1>11 DEF t, s, u, spent, out


(* The books after an aborted call: the sponsor pays the fee, no more.     *)
LEMMA AbortedBooks ==
  ASSUME IInv, NEW r \in Requests, Mine(r), outcome'[r] # "ok"
  PROVE  /\ sbtc' = sbtc /\ market' = market
         /\ stx' \in [Accounts -> Nat]
         /\ stx'[sponsor[r]] = stx[sponsor[r]] - fee[r]
         /\ \A a \in Accounts : a # sponsor[r] => stx'[a] = stx[a]
<1>1. TypeOK /\ Shape /\ Good(r)
  BY DEF IInv
<1>2. sponsor[r] \in Accounts
  BY <1>1 DEF Mine, Good, Vetted
<1>3. sbtc' = sbtc /\ market' = market /\ stx' = [stx EXCEPT ![sponsor[r]] = @ - fee[r]]
  BY <1>1 DEF Mine, Shape, Charged
<1>4. stx[sponsor[r]] >= fee[r] /\ fee[r] \in Nat /\ stx \in [Accounts -> Nat]
  BY <1>1 DEF Mine, TypeOK
<1> QED
  BY <1>2, <1>3, <1>4

LEMMA MineStep ==
  ASSUME IInv, NEW r \in Requests, Mine(r)
  PROVE  IInv'
<1>1. TypeOK /\ Shape /\ Good(r)
  BY DEF IInv
<1>2. pc[r] = "mempool"
  BY DEF Mine
<1>3. WellTyped(tx[r]) /\ sponsor[r] \in Accounts /\ tx[r].user \in Accounts
  BY <1>1, <1>2 DEF Good, Vetted, WellTyped
<1>4. /\ pc'[r] = "mined" /\ tx'[r] = tx[r] /\ maker'[r] = maker[r]
      /\ sponsor'[r] = sponsor[r] /\ fee'[r] = fee[r]
      /\ outcome'[r] = swapSbtcForGas(tx[r], sponsor[r], World)
      /\ \A p \in Requests : p # r => Same(p)
  BY <1>1 DEF Mine, Goto, TypeOK, Shape, Same
<1>5. ASSUME Sponsored(r)
      PROVE  \/ outcome'[r] \in WorldlyAborts \union {"ok"}
             \/ outcome'[r] = "runtime" /\ Overflows(tx[r])
  <2>1. verifySponsoredSwap(tx[r]) = "ok"
    BY <1>1, <1>5 DEF Good, Vetted
  <2>2. World.market \in [PoolIds -> Pool] /\ World.stx[tx[r].user] \in Nat
    <3>1. stx[tx[r].user] \in Nat
      BY <1>1, <1>3 DEF TypeOK
    <3> QED BY <1>1, <3>1, WorldTyped
  <2> QED BY <1>3, <1>4, <2>1, <2>2, OutcomeOfVerified
<1>6. Sponsored(r)' => Sponsored(r)
  BY <1>2, <1>4 DEF Sponsored
<1>7. Overflows(tx[r])' <=> Overflows(tx[r])
  BY <1>4 DEF Overflows, CallBips
<1>8. Good(r)'
  <2>1. Vetted(r)'
    BY <1>1, <1>2, <1>4 DEF Good, Vetted, Sponsored
  <2> QED BY <1>4, <1>5, <1>6, <1>7, <2>1 DEF Good
<1>9. /\ sbtc' \in [Accounts -> Nat] /\ stx' \in [Accounts -> Nat]
      /\ market' \in [PoolIds -> Pool]
  <2>1. CASE outcome'[r] = "ok"
    <3>1. sbtc' \in [Accounts -> Nat] /\ stx' \in [Accounts -> Nat]
      BY <2>1, CommittedBooks
    <3>2. MarketAfter(tx[r])
      BY <1>4, <2>1 DEF Mine
    <3>3. market' \in [PoolIds -> Pool]
      BY <1>1, <3>2 DEF MarketAfter, TypeOK
    <3> QED BY <3>1, <3>3
  <2>2. CASE outcome'[r] # "ok"
    BY <1>1, <2>2, AbortedBooks DEF TypeOK
  <2> QED BY <2>1, <2>2
<1>10. originNonce' \in [Accounts -> Nat]
  BY <1>1, <1>3 DEF Mine, TypeOK
<1>11. TypeOK' /\ Shape'
  BY <1>1, <1>9, <1>10 DEF Mine, Goto, TypeOK, Shape, contractVars
<1> QED
  BY <1>4, <1>8, <1>11, OneRequest

-----------------------------------------------------------------------------
(* The rest of the world *)

LEMMA PriceMovesStep ==
  ASSUME IInv, PriceMoves
  PROVE  IInv'
<1>1. TypeOK'
  BY DEF IInv, PriceMoves, Moves, TypeOK, contractVars, requestVars
<1> QED
  BY <1>1, NoRequest DEF PriceMoves

LEMMA SpendStep ==
  ASSUME IInv, NEW u \in Users, Spend(u)
  PROVE  IInv'
<1>1. TypeOK
  BY DEF IInv
<1>2. PICK a \in Others : a # u /\ sbtc' = [sbtc EXCEPT ![u] = 0, ![a] = @ + sbtc[u]]
  BY DEF Spend
<1>3. u \in Accounts /\ a \in Accounts
  BY DEF Accounts
<1>4. sbtc' \in [Accounts -> Nat]
  BY <1>1, <1>2, <1>3 DEF TypeOK
<1>5. TypeOK'
  BY <1>1, <1>3, <1>4 DEF Spend, Moves, TypeOK, contractVars, requestVars
<1> QED
  BY <1>5, NoRequest DEF Spend

LEMMA OwnerStep ==
  ASSUME IInv, NEW a \in Accounts, setFeeRecipient(a) \/ transferOwnership(a)
  PROVE  IInv'
<1>1. TypeOK'
  BY DEF IInv, setFeeRecipient, transferOwnership, Moves, TypeOK, requestVars
<1>2. UNCHANGED requestVars
  BY DEF setFeeRecipient, transferOwnership
<1> QED
  BY <1>1, <1>2, NoRequest

LEMMA StutterStep ==
  ASSUME IInv, UNCHANGED vars
  PROVE  IInv'
<1>1. TypeOK'
  BY DEF IInv, TypeOK, vars, chainVars, contractVars, requestVars
<1> QED
  BY <1>1, NoRequest DEF vars

(* Every step keeps the invariant.                                         *)
LEMMA StepGood ==
  ASSUME IInv, [Next]_vars
  PROVE  IInv'
<1>1. ASSUME NEW r \in Requests,
             \/ Build(r) \/ BuildForAnother(r) \/ SignByHand(r)
             \/ RelayStep(r) \/ SponsorElsewhere(r) \/ Mine(r)
      PROVE  IInv'
  <2>1. CASE Build(r) \/ BuildForAnother(r) \/ SignByHand(r) \/ SponsorElsewhere(r) \/ Mine(r)
    BY <2>1, BuildStep, BuildForAnotherStep, SignByHandStep, SponsorElsewhereStep, MineStep
  <2>2. CASE RelayStep(r)
    BY <2>2, VerifyTxStep, CheckBalanceStep, CheckNonceStep, CheckQuoteStep, BumpStep
    DEF RelayStep
  <2> QED BY <1>1, <2>1, <2>2
<1>2. CASE PriceMoves
  BY <1>2, PriceMovesStep
<1>3. CASE \E u \in Users : Spend(u)
  BY <1>3, SpendStep
<1>4. CASE \E a \in Accounts : setFeeRecipient(a) \/ transferOwnership(a)
  BY <1>4, OwnerStep
<1>5. CASE UNCHANGED vars
  BY <1>5, StutterStep
<1> QED
  BY <1>1, <1>2, <1>3, <1>4, <1>5 DEF Next

LEMMA AlwaysGood == Spec => []IInv
<1>1. IInv /\ [Next]_vars => IInv'
  BY StepGood
<1> QED
  BY <1>1, InitGood, PTL DEF Spec

-----------------------------------------------------------------------------
(* The theorems *)

(* No balance falls below zero and every variable has its type, whatever   *)
(* is signed and whoever sponsors it.                                      *)
THEOREM BooksStayTyped == Spec => []TypeOK
BY AlwaysGood, GoodIsSafe, PTL

(* What the SDK builds from any quote, the relay's verification accepts:   *)
(* a refusal of such a swap is always about the chain.                     *)
THEOREM ValidatorsAgree == Spec => []BuiltIsVerified
BY AlwaysGood, GoodIsSafe, PTL

(* A swap this relay sponsored never fails an argument check of the        *)
(* contract, never leaves the rebate uncovered and is never undone by its  *)
(* post-conditions.                                                        *)
THEOREM VerifiedAbortsAreWorldly == Spec => []OnlyTheWorldAborts
BY AlwaysGood, GoodIsSafe, PTL

(* Only a block mines a request.                                           *)
LEMMA MinedByMine ==
  ASSUME IInv, [Next]_vars, NEW r \in Requests, pc[r] = "mempool", pc'[r] = "mined"
  PROVE  Mine(r)
<1>1. DOMAIN pc = Requests
  BY DEF IInv, TypeOK
<1>2. ASSUME NEW q \in Requests,
             \/ Build(q) \/ BuildForAnother(q) \/ SignByHand(q)
             \/ RelayStep(q) \/ SponsorElsewhere(q)
      PROVE  FALSE
  BY <1>1, <1>2
  DEF Build, BuildForAnother, SignByHand, RelayStep, VerifyTx, CheckBalance, CheckNonce, CheckQuote, Bump,
      SponsorElsewhere, Signs, Goto, Refuses
<1>3. ASSUME NEW q \in Requests, Mine(q), q # r
      PROVE  FALSE
  BY <1>1, <1>3 DEF Mine, Goto
<1>4. ASSUME pc' = pc PROVE FALSE
  BY <1>4
<1>5. CASE \/ PriceMoves \/ (\E u \in Users : Spend(u))
           \/ (\E a \in Accounts : setFeeRecipient(a) \/ transferOwnership(a))
           \/ UNCHANGED vars
  BY <1>4, <1>5 DEF PriceMoves, Spend, setFeeRecipient, transferOwnership, vars, requestVars
<1> QED
  BY <1>2, <1>3, <1>5 DEF Next

(* However often it was bumped, a committed swap leaves its sponsor no     *)
(* poorer, and an aborted one costs it at most the tier.                   *)
THEOREM SponsorsBreakEven == Spec => SponsorBreaksEven
<1> DEFINE Even(r) ==
      pc[r] = "mempool" /\ pc'[r] = "mined" /\ sponsor[r] \in TierName =>
        LET s == sponsor[r]
        IN  IF outcome'[r] = "ok" THEN stx'[s] >= stx[s]
            ELSE stx'[s] >= stx[s] - TIERS[s]
<1>1. ASSUME IInv, [Next]_vars, NEW r \in Requests PROVE Even(r)
  <2> SUFFICES ASSUME pc[r] = "mempool", pc'[r] = "mined", sponsor[r] \in TierName
               PROVE  IF outcome'[r] = "ok" THEN stx'[sponsor[r]] >= stx[sponsor[r]]
                      ELSE stx'[sponsor[r]] >= stx[sponsor[r]] - TIERS[sponsor[r]]
    OBVIOUS
  <2>1. Mine(r)
    BY <1>1, MinedByMine
  <2>2. /\ WellTyped(tx[r]) /\ verifySponsoredSwap(tx[r]) = "ok"
        /\ sponsor[r] = tierNameOf(tx[r]) /\ fee[r] <= TIERS[sponsor[r]]
    BY <1>1 DEF IInv, Good, Vetted, Sponsored
  <2>3. TIERS[sponsor[r]] = tx[r].tier
    BY <2>2, TierOfVerified
  <2>4. /\ stx[sponsor[r]] \in Nat /\ fee[r] \in Nat /\ TIERS[sponsor[r]] \in Nat
    <3>1. sponsor[r] \in Accounts
      BY DEF Accounts
    <3>2. TIERS[sponsor[r]] \in Nat
      BY FeeAssumption
    <3> QED BY <1>1, <3>1, <3>2 DEF IInv, TypeOK
  <2>5. CASE outcome'[r] = "ok"
    <3>1. stx'[sponsor[r]] = (stx[sponsor[r]] - fee[r]) + tx[r].tier
      BY <1>1, <2>1, <2>5, CommittedBooks
    <3> QED BY <2>2, <2>3, <2>4, <2>5, <3>1
  <2>6. CASE outcome'[r] # "ok"
    <3>1. stx'[sponsor[r]] = stx[sponsor[r]] - fee[r]
      BY <1>1, <2>1, <2>6, AbortedBooks
    <3> QED BY <2>2, <2>4, <2>6, <3>1
  <2> QED BY <2>5, <2>6
<1>2. IInv /\ [Next]_vars => \A r \in Requests : Even(r)
  BY <1>1
<1> QED
  BY <1>2, AlwaysGood, PTL DEF Spec, SponsorBreaksEven

(* A call that holds another account to the tier's STX does not commit: in *)
(* deny mode or not, that account sends nothing.                           *)
LEMMA ForAnotherAborts ==
  ASSUME NEW t, WellTyped(t), ForAnother(t), NEW s, NEW w, swapSbtcForGas(t, s, w) = "ok"
  PROVE  FALSE
<1>1. Passes(ArgumentChecks(t, s)) /\ PostConditionsHold(t, w)
  BY CommittedPassed DEF swapSbtcForGas
<1>2. t.pool \in PoolIds
  BY <1>1, AcceptedArguments
<1>3. PICK p \in Accounts : p # t.user /\ Condition(p, "stx", "eq", t.tier) \in t.conditions
  BY DEF ForAnother
<1>4. p # PoolSends[t.pool]
  <2>1. PoolSends[t.pool] \in {"xyk-pool", "velar-pool", "dlmm-pool"}
    BY <1>2 DEF PoolIds, PoolSends
  <2> QED BY <2>1, SettlementAssumption
<1>5. Sends(t, w, p, "stx") = 0
  BY <1>3, <1>4 DEF Sends
<1> DEFINE k == Condition(p, "stx", "eq", t.tier)
<1>6. k.principal = p /\ k.asset = "stx" /\ k.condition = "eq" /\ k.amount = t.tier
  BY DEF Condition
<1>7. k \in t.conditions
  BY <1>3
<1> HIDE DEF k
<1>8. Meets(k, 0)
  BY <1>1, <1>5, <1>6, <1>7 DEF PostConditionsHold
<1>9. t.tier = 0
  BY <1>6, <1>8 DEF Meets
<1> QED
  BY <1>9 DEF ForAnother

(* What the Done page lists of a call.                                     *)
LEMMA Listed ==
  ASSUME NEW t, NEW w
  PROVE  LET lines == ledgerLines(OkTuple(t, w), t.amount)
         IN  /\ lines.stx.keep = Out(t, w) - t.tier
             /\ lines.sbtc.fees = ServiceFee(t) + IntegratorFee(t)
             /\ lines.sbtc.intoPool = t.amount - (ServiceFee(t) + IntegratorFee(t))
BY DEF ledgerLines, OkTuple

(* Whoever sponsors and whoever is the fee recipient by then, a committed  *)
(* swap costs the user what it signed and pays at least min-out less the   *)
(* tier; an aborted one costs it nothing.                                  *)
THEOREM UsersKeepTheBargain == Spec => UserKeepsTheBargain
<1> DEFINE lines(r) == ledgerLines(OkTuple(tx[r], World), tx[r].amount)
           Kept(r) ==
             pc[r] = "mempool" /\ pc'[r] = "mined" /\ tx[r].user # sponsor[r] =>
               LET t == tx[r]
               IN  IF outcome'[r] = "ok"
                   THEN /\ maker[r] # "mixed"
                        /\ stx'[t.user] = stx[t.user] + lines(r).stx.keep
                        /\ lines(r).stx.keep >= t.minOut - t.tier /\ lines(r).stx.keep >= 0
                        /\ sbtc'[t.user] >= sbtc[t.user] - t.amount
                        /\ t.pool # DLMM =>
                             sbtc'[t.user] = sbtc[t.user] - lines(r).sbtc.fees - lines(r).sbtc.intoPool
                   ELSE stx'[t.user] = stx[t.user] /\ sbtc'[t.user] = sbtc[t.user]
<1>1. ASSUME IInv, [Next]_vars, NEW r \in Requests PROVE Kept(r)
  <2> SUFFICES ASSUME pc[r] = "mempool", pc'[r] = "mined", tx[r].user # sponsor[r]
               PROVE  Kept(r)
    OBVIOUS
  <2> DEFINE t == tx[r]
  <2>1. Mine(r)
    BY <1>1, MinedByMine
  <2>2. TypeOK /\ WellTyped(t) /\ t.user \in Accounts
    BY <1>1 DEF IInv, Good, Vetted, WellTyped
  <2>3. stx[t.user] \in Nat /\ sbtc[t.user] \in Nat /\ t.minOut \in Nat /\ t.tier \in Nat
        /\ t.amount \in Nat
    BY <2>2 DEF TypeOK, WellTyped
  <2>4. CASE outcome'[r] = "ok"
    <3>1. swapSbtcForGas(t, sponsor[r], World) = "ok"
      BY <1>1, <2>1, <2>4 DEF Mine, IInv, Shape
    <3>2. maker[r] # "mixed"
      BY <1>1, <2>2, <3>1, ForAnotherAborts DEF IInv, Good, Vetted
    <3>3. /\ Spent(t, World) \in Nat /\ Spent(t, World) <= t.amount
          /\ t.pool # DLMM => Spent(t, World) = t.amount
          /\ Out(t, World) \in Nat /\ Out(t, World) >= t.minOut /\ t.minOut >= t.tier
          /\ ServiceFee(t) \in Nat /\ IntegratorFee(t) \in Nat
      BY <2>2, <3>1, Committed
    <3>4. /\ sbtc'[t.user] = sbtc[t.user] - Spent(t, World)
          /\ stx'[t.user] = stx[t.user] + (Out(t, World) - t.tier)
      BY <1>1, <2>1, <2>4, CommittedBooks
    <3>5. /\ lines(r).stx.keep = Out(t, World) - t.tier
          /\ lines(r).sbtc.fees = ServiceFee(t) + IntegratorFee(t)
          /\ lines(r).sbtc.intoPool = t.amount - (ServiceFee(t) + IntegratorFee(t))
      BY Listed
    <3> HIDE DEF t, lines
    <3>6. /\ stx'[t.user] = stx[t.user] + lines(r).stx.keep
          /\ lines(r).stx.keep >= t.minOut - t.tier /\ lines(r).stx.keep >= 0
      BY <2>3, <3>3, <3>4, <3>5
    <3>7. /\ sbtc'[t.user] >= sbtc[t.user] - t.amount
          /\ t.pool # DLMM =>
               sbtc'[t.user] = sbtc[t.user] - lines(r).sbtc.fees - lines(r).sbtc.intoPool
      BY <2>3, <3>3, <3>4, <3>5
    <3> QED BY <2>4, <3>2, <3>6, <3>7 DEF t
  <2>5. CASE outcome'[r] # "ok"
    BY <1>1, <2>1, <2>2, <2>5, AbortedBooks
  <2> QED BY <2>4, <2>5
<1>2. IInv /\ [Next]_vars => \A r \in Requests : Kept(r)
  BY <1>1
<1> QED
  BY <1>2, AlwaysGood, PTL DEF Spec, UserKeepsTheBargain

-----------------------------------------------------------------------------
(* The sBTC supply *)

(* The sats the accounts hold, each by its owner and its place there.      *)
Sats(f) == {c \in Accounts \X Nat : c[2] \in 1..f[c[1]]}

(* Where nobody holds more, there are no more sats.                        *)
LEMMA FewerSats ==
  ASSUME NEW f \in [Accounts -> Nat], NEW g \in [Accounts -> Nat],
         \A x \in Accounts : g[x] <= f[x]
  PROVE  ExistsInjection(Sats(g), Sats(f))
<1> DEFINE F == [c \in Sats(g) |-> c]
<1>1. ASSUME NEW c \in Sats(g) PROVE c \in Sats(f)
  <2>1. c \in Accounts \X Nat /\ c[1] \in Accounts /\ c[2] \in 1..g[c[1]]
    BY DEF Sats
  <2>2. g[c[1]] \in Nat /\ f[c[1]] \in Nat /\ g[c[1]] <= f[c[1]]
    BY <2>1
  <2>3. c[2] \in 1..f[c[1]]
    BY <2>1, <2>2
  <2> QED BY <2>1, <2>3 DEF Sats
<1>2. F \in [Sats(g) -> Sats(f)]
  BY <1>1
<1>3. \A c, d \in Sats(g) : F[c] = F[d] => c = d
  OBVIOUS
<1> HIDE DEF F
<1>4. F \in Injection(Sats(g), Sats(f))
  BY <1>2, <1>3, Fun_IsInj
<1> QED
  BY <1>4 DEF ExistsInjection

(* A payment of n from u to v makes no sats: those v has more are the last *)
(* n of u.                                                                 *)
LEMMA PaidSats ==
  ASSUME NEW f \in [Accounts -> Nat], NEW g \in [Accounts -> Nat],
         NEW u \in Accounts, NEW v \in Accounts, u # v,
         NEW n \in Nat, n <= f[u], g[u] <= f[u] - n, g[v] <= f[v] + n,
         \A x \in Accounts : x # u /\ x # v => g[x] <= f[x]
  PROVE  ExistsInjection(Sats(g), Sats(f))
<1> DEFINE paid(c) == c[1] = v /\ c[2] > f[v]
           image(c) == IF paid(c) THEN <<u, (f[u] - n) + (c[2] - f[v])>> ELSE c
           F == [c \in Sats(g) |-> image(c)]
<1>1. /\ f[u] \in Nat /\ g[u] \in Nat /\ f[v] \in Nat /\ g[v] \in Nat
  OBVIOUS
<1>2. ASSUME NEW c \in Sats(g)
      PROVE  /\ c[1] \in Accounts /\ c[2] \in Nat /\ c = <<c[1], c[2]>>
             /\ c[2] >= 1 /\ c[2] <= g[c[1]] /\ g[c[1]] \in Nat /\ f[c[1]] \in Nat
  <2>1. c \in Accounts \X Nat /\ c[2] \in 1..g[c[1]]
    BY DEF Sats
  <2>2. c[1] \in Accounts /\ c[2] \in Nat /\ c = <<c[1], c[2]>>
    BY <2>1
  <2>3. g[c[1]] \in Nat /\ f[c[1]] \in Nat
    BY <2>2
  <2> QED BY <2>1, <2>2, <2>3
<1>3. ASSUME NEW c \in Sats(g), paid(c)
      PROVE  /\ image(c) = <<u, (f[u] - n) + (c[2] - f[v])>>
             /\ (f[u] - n) + (c[2] - f[v]) \in Nat
             /\ (f[u] - n) + (c[2] - f[v]) > f[u] - n
             /\ (f[u] - n) + (c[2] - f[v]) <= f[u]
  BY <1>1, <1>2, <1>3
<1>4. ASSUME NEW c \in Sats(g), ~paid(c)
      PROVE  image(c) = c /\ c[2] <= f[c[1]] /\ (c[1] = u => c[2] <= f[u] - n)
  <2>1. CASE c[1] = u
    BY <1>1, <1>2, <1>4, <2>1
  <2>2. CASE c[1] = v
    BY <1>1, <1>2, <1>4, <2>2
  <2>3. CASE c[1] # u /\ c[1] # v
    <3>1. g[c[1]] <= f[c[1]]
      BY <1>2, <2>3
    <3> QED BY <1>2, <1>4, <2>3, <3>1
  <2> QED BY <2>1, <2>2, <2>3
<1>5. ASSUME NEW c \in Sats(g) PROVE image(c) \in Sats(f)
  <2>1. CASE paid(c)
    <3> DEFINE m == (f[u] - n) + (c[2] - f[v])
    <3>1. image(c) = <<u, m>> /\ m \in Nat /\ m > f[u] - n /\ m <= f[u]
      BY <1>3, <2>1
    <3> HIDE DEF m
    <3>2. m \in 1..f[u]
      BY <1>1, <3>1
    <3> QED BY <3>1, <3>2 DEF Sats
  <2>2. CASE ~paid(c)
    <3>1. image(c) = c /\ c[2] <= f[c[1]]
      BY <1>4, <2>2
    <3>2. c[2] \in 1..f[c[1]]
      BY <1>2, <3>1
    <3>3. c \in Accounts \X Nat
      BY DEF Sats
    <3> HIDE DEF image
    <3> QED BY <3>1, <3>2, <3>3 DEF Sats
  <2> QED BY <2>1, <2>2
<1>6. ASSUME NEW c \in Sats(g), NEW d \in Sats(g), image(c) = image(d) PROVE c = d
  <2>1. CASE paid(c) /\ paid(d)
    <3>1. (f[u] - n) + (c[2] - f[v]) = (f[u] - n) + (d[2] - f[v])
      BY <1>3, <1>6, <2>1
    <3>2. c[2] = d[2] /\ c[1] = d[1]
      BY <1>1, <1>2, <2>1, <3>1
    <3> QED BY <1>2, <3>2
  <2>2. CASE ~paid(c) /\ ~paid(d)
    BY <1>6, <2>2
  <2>3. ASSUME NEW a \in Sats(g), NEW b \in Sats(g), paid(a), ~paid(b), image(a) = image(b)
        PROVE  FALSE
    <3>1. image(a) = <<u, (f[u] - n) + (a[2] - f[v])>> /\ (f[u] - n) + (a[2] - f[v]) > f[u] - n
      BY <1>3, <2>3
    <3>2. image(b) = b /\ (b[1] = u => b[2] <= f[u] - n)
      BY <1>4, <2>3
    <3>3. b[1] = u /\ b[2] = (f[u] - n) + (a[2] - f[v])
      BY <2>3, <3>1, <3>2
    <3>4. a[2] \in Nat
      BY <1>2
    <3> QED BY <1>1, <3>1, <3>2, <3>3, <3>4
  <2> QED BY <1>6, <2>1, <2>2, <2>3
<1> HIDE DEF image, paid
<1>7. F \in [Sats(g) -> Sats(f)]
  BY <1>5
<1>8. \A c, d \in Sats(g) : F[c] = F[d] => c = d
  BY <1>6
<1> HIDE DEF F
<1>9. F \in Injection(Sats(g), Sats(f))
  BY <1>7, <1>8, Fun_IsInj
<1> QED
  BY <1>9 DEF ExistsInjection

(* Nobody holds more than there are sats.                                  *)
LEMMA HeldSats ==
  ASSUME NEW f \in [Accounts -> Nat], NEW u \in Accounts, NEW S, IsFiniteSet(S),
         ExistsInjection(Sats(f), S)
  PROVE  f[u] <= Cardinality(S) /\ Cardinality(S) \in Nat
<1> DEFINE own == 1..f[u]
           F == [k \in own |-> <<u, k>>]
<1>1. f[u] \in Nat
  OBVIOUS
<1>2. F \in [own -> Sats(f)]
  BY <1>1 DEF Sats
<1>3. \A j, k \in own : F[j] = F[k] => j = k
  OBVIOUS
<1> HIDE DEF F
<1>4. ExistsInjection(own, Sats(f))
  BY <1>2, <1>3, Fun_IsInj DEF ExistsInjection
<1> HIDE DEF own
<1>5. ExistsInjection(own, S)
  BY <1>4, Fun_ExistsInjTransitive
<1>6. PICK G \in Injection(own, S) : TRUE
  BY <1>5 DEF ExistsInjection
<1>7. Cardinality(own) <= Cardinality(S)
  BY <1>6, FS_Injection
<1>8. Cardinality(own) = f[u]
  <2>1. Cardinality(1..f[u]) = IF 1 > f[u] THEN 0 ELSE f[u] - 1 + 1
    BY <1>1, FS_Interval
  <2> QED BY <1>1, <2>1 DEF own
<1> QED
  BY <1>7, <1>8, FS_CardinalityType

(* A committed swap makes no sats: the fees it pays it takes from the user.*)
LEMMA CommitMakesNoSats ==
  ASSUME IInv, NEW r \in Requests, Mine(r), outcome'[r] = "ok"
  PROVE  ExistsInjection(Sats(sbtc'), Sats(sbtc))
<1> DEFINE t == tx[r]
           u == t.user
           to == t.integrator
           a == ServiceFee(t)
           b == IntegratorFee(t)
           e == Taken(t, World)
           h == [x \in Accounts |-> sbtc[x] - If(x = u, a) + If(x = feeRecipient, a)]
<1>1. TypeOK /\ Shape /\ Good(r)
  BY DEF IInv
<1>2. WellTyped(t) /\ u \in Accounts
  BY <1>1 DEF Mine, Good, Vetted, WellTyped
<1>3. swapSbtcForGas(t, sponsor[r], World) = "ok" /\ sbtc' = SbtcAfter(t)
  BY <1>1 DEF Mine, Shape
<1>4. /\ a \in Nat /\ b \in Nat
      /\ Spent(t, World) <= sbtc[u]
      /\ a > 0 => u # feeRecipient
      /\ b > 0 => u # to
  BY <1>1, <1>2, <1>3, Committed
<1>5. e \in Nat
  <2>1. Passes(ArgumentChecks(t, sponsor[r]))
    BY <1>3, CommittedPassed
  <2> QED BY <1>1, <1>2, <2>1, WorldTyped, AmountsOfAccepted
<1>6. Spent(t, World) = a + b + e
  BY DEF Spent
<1>7. sbtc \in [Accounts -> Nat] /\ feeRecipient \in Accounts
  BY <1>1 DEF TypeOK, Accounts
<1>8. sbtc' \in [Accounts -> Nat]
  BY <1>2, CommittedBooks
<1>9. sbtc' = [x \in Accounts |-> sbtc[x] - If(x = u, a + b + e)
                                    + If(x = feeRecipient, a) + If(x = to, b)]
  BY <1>3, <1>6 DEF SbtcAfter
<1>10. a + b + e <= sbtc[u]
  BY <1>4, <1>6
<1> HIDE DEF t, u, to, a, b, e
<1>11. sbtc[u] \in Nat
  BY <1>2, <1>7 DEF u
<1>12. ASSUME NEW x \in Accounts
       PROVE  /\ h[x] \in Nat
              /\ x # u /\ x # feeRecipient => h[x] = sbtc[x]
  <2>1. sbtc[x] \in Nat /\ h[x] = sbtc[x] - If(x = u, a) + If(x = feeRecipient, a)
    BY <1>7
  <2> HIDE DEF h
  <2> QED BY <1>4, <1>5, <1>10, <2>1 DEF If
<1>13. h[u] = sbtc[u] - a
  <2>1. h[u] = sbtc[u] - If(u = u, a) + If(u = feeRecipient, a)
    BY <1>2 DEF u
  <2> HIDE DEF h
  <2>2. If(u = feeRecipient, a) = 0 /\ If(u = u, a) = a
    BY <1>4 DEF If
  <2> QED BY <1>4, <1>11, <2>1, <2>2
<1>14. h[feeRecipient] <= sbtc[feeRecipient] + a
  <2>1. h[feeRecipient] = sbtc[feeRecipient] - If(feeRecipient = u, a) + If(feeRecipient = feeRecipient, a)
    BY <1>7
  <2>2. sbtc[feeRecipient] \in Nat
    BY <1>7
  <2> HIDE DEF h
  <2> QED BY <1>4, <2>1, <2>2 DEF If
<1>15. h \in [Accounts -> Nat]
  BY <1>12
<1>16. u \in Accounts
  BY <1>2
<1>17. ASSUME NEW x \in Accounts
       PROVE  /\ x # u /\ x # to => sbtc'[x] = h[x]
              /\ x # u => sbtc'[x] <= h[x] + b
              /\ b = 0 => sbtc'[x] <= h[x]
  <2>1. sbtc[x] \in Nat
    BY <1>7
  <2>2. h[x] = sbtc[x] - If(x = u, a) + If(x = feeRecipient, a)
    OBVIOUS
  <2>3. sbtc'[x] = sbtc[x] - If(x = u, a + b + e) + If(x = feeRecipient, a) + If(x = to, b)
    BY <1>9
  <2> HIDE DEF h
  <2> QED BY <1>4, <1>5, <2>1, <2>2, <2>3 DEF If
<1>18. sbtc'[u] = h[u] - (b + e)
  <2>1. sbtc'[u] = sbtc[u] - If(u = u, a + b + e) + If(u = feeRecipient, a) + If(u = to, b)
    BY <1>9, <1>16
  <2>2. If(u = feeRecipient, a) = 0 /\ If(u = u, a + b + e) = a + b + e /\ If(u = to, b) = 0
    BY <1>4 DEF If
  <2> HIDE DEF h
  <2> QED BY <1>4, <1>5, <1>11, <1>13, <2>1, <2>2
<1> HIDE DEF h
<1>19. ExistsInjection(Sats(h), Sats(sbtc))
  <2>1. CASE a = 0
    <3>1. \A x \in Accounts : h[x] <= sbtc[x]
      <4> SUFFICES ASSUME NEW x \in Accounts PROVE h[x] <= sbtc[x]
        OBVIOUS
      <4>1. sbtc[x] \in Nat
        BY <1>7
      <4> QED BY <1>12, <1>13, <1>14, <2>1, <4>1
    <3> QED BY <1>7, <1>15, <3>1, FewerSats
  <2>2. CASE a # 0
    <3>1. u # feeRecipient
      BY <1>4, <2>2
    <3>2. a <= sbtc[u]
      BY <1>4, <1>5, <1>10, <1>11
    <3>3. \A x \in Accounts : x # u /\ x # feeRecipient => h[x] <= sbtc[x]
      BY <1>7, <1>12
    <3>4. h[u] <= sbtc[u] - a
      BY <1>4, <1>11, <1>13
    <3> QED BY <1>4, <1>7, <1>14, <1>15, <1>16, <3>1, <3>2, <3>3, <3>4, PaidSats
  <2> QED BY <2>1, <2>2
<1>20. ExistsInjection(Sats(sbtc'), Sats(h))
  <2>1. h[u] \in Nat /\ b + e <= h[u] /\ b + e \in Nat
    BY <1>4, <1>5, <1>10, <1>11, <1>13
  <2>2. CASE b # 0 /\ to \in Accounts
    <3>1. u # to
      BY <1>4, <2>2
    <3>2. sbtc'[to] <= h[to] + (b + e)
      <4>1. h[to] \in Nat /\ sbtc'[to] \in Nat
        BY <1>8, <1>15, <2>2
      <4>2. sbtc'[to] <= h[to] + b
        BY <1>17, <2>2, <3>1
      <4> QED BY <1>4, <1>5, <4>1, <4>2
    <3>3. \A x \in Accounts : x # u /\ x # to => sbtc'[x] <= h[x]
      <4> SUFFICES ASSUME NEW x \in Accounts, x # u, x # to PROVE sbtc'[x] <= h[x]
        OBVIOUS
      <4>1. h[x] \in Nat
        BY <1>15
      <4> QED BY <1>17, <4>1
    <3>4. sbtc'[u] <= h[u] - (b + e)
      BY <1>18, <2>1
    <3> QED BY <1>8, <1>15, <1>16, <2>1, <2>2, <3>1, <3>2, <3>3, <3>4, PaidSats
  <2>3. CASE b = 0 \/ to \notin Accounts
    <3>1. \A x \in Accounts : sbtc'[x] <= h[x]
      <4> SUFFICES ASSUME NEW x \in Accounts PROVE sbtc'[x] <= h[x]
        OBVIOUS
      <4>1. h[x] \in Nat
        BY <1>15
      <4>2. CASE x = u
        BY <1>18, <2>1, <4>2
      <4>3. CASE x # u
        BY <1>17, <2>3, <4>1, <4>3
      <4> QED BY <4>2, <4>3
    <3> QED BY <1>8, <1>15, <3>1, FewerSats
  <2> QED BY <2>2, <2>3
<1> QED
  BY <1>19, <1>20, Fun_ExistsInjTransitive

(* Nor does any other step.                                                *)
LEMMA StepMakesNoSats ==
  ASSUME IInv, [Next]_vars
  PROVE  ExistsInjection(Sats(sbtc'), Sats(sbtc))
<1>1. CASE sbtc' = sbtc
  BY <1>1, Fun_ExistsInjReflexive
<1>2. ASSUME NEW r \in Requests, Mine(r)
      PROVE  ExistsInjection(Sats(sbtc'), Sats(sbtc))
  <2>1. CASE outcome'[r] = "ok"
    BY <1>2, <2>1, CommitMakesNoSats
  <2>2. CASE outcome'[r] # "ok"
    <3>1. sbtc' = sbtc
      BY <1>2, <2>2, AbortedBooks
    <3> QED BY <1>1, <3>1
  <2> QED BY <2>1, <2>2
<1>3. ASSUME NEW u \in Users, Spend(u)
      PROVE  ExistsInjection(Sats(sbtc'), Sats(sbtc))
  <2>1. PICK x \in Others : x # u /\ sbtc' = [sbtc EXCEPT ![u] = 0, ![x] = @ + sbtc[u]]
    BY <1>3 DEF Spend
  <2>2. u \in Accounts /\ x \in Accounts
    BY DEF Accounts
  <2>3. sbtc \in [Accounts -> Nat] /\ sbtc[u] \in Nat /\ sbtc[x] \in Nat
    BY <2>2 DEF IInv, TypeOK
  <2>4. /\ sbtc' \in [Accounts -> Nat] /\ sbtc'[u] = 0 /\ sbtc'[x] = sbtc[x] + sbtc[u]
        /\ \A y \in Accounts : y # u /\ y # x => sbtc'[y] = sbtc[y]
    BY <2>1, <2>2, <2>3
  <2>5. \A y \in Accounts : y # u /\ y # x => sbtc'[y] <= sbtc[y]
    BY <2>3, <2>4
  <2>6. sbtc[u] <= sbtc[u] /\ sbtc'[u] <= sbtc[u] - sbtc[u] /\ sbtc'[x] <= sbtc[x] + sbtc[u]
    BY <2>3, <2>4
  <2> QED BY <2>1, <2>2, <2>3, <2>4, <2>5, <2>6, PaidSats
<1>4. CASE \E r \in Requests : \/ Build(r) \/ BuildForAnother(r) \/ SignByHand(r)
                               \/ RelayStep(r) \/ SponsorElsewhere(r)
  <2>1. sbtc' = sbtc
    BY <1>4 DEF Build, BuildForAnother, SignByHand, RelayStep, VerifyTx, CheckBalance, CheckNonce,
                CheckQuote, Bump, SponsorElsewhere, chainVars
  <2> QED BY <1>1, <2>1
<1>5. CASE \/ PriceMoves \/ (\E a \in Accounts : setFeeRecipient(a) \/ transferOwnership(a))
           \/ UNCHANGED vars
  <2>1. sbtc' = sbtc
    BY <1>5 DEF PriceMoves, setFeeRecipient, transferOwnership, vars, chainVars
  <2> QED BY <1>1, <2>1
<1> QED
  BY <1>2, <1>3, <1>4, <1>5 DEF Next

(* There are never more sats than at first.                                *)
Supply == ExistsInjection(Sats(sbtc), Sats(InitialSbtc))

LEMMA SupplyIsKept == Spec => []Supply
<1>1. Init => Supply
  <2>1. ExistsInjection(Sats(InitialSbtc), Sats(InitialSbtc))
    BY Fun_ExistsInjReflexive
  <2> QED BY <2>1 DEF Init, Supply
<1>2. IInv /\ Supply /\ [Next]_vars => Supply'
  <2> SUFFICES ASSUME IInv, Supply, [Next]_vars PROVE Supply'
    OBVIOUS
  <2>1. ExistsInjection(Sats(sbtc'), Sats(sbtc))
    BY StepMakesNoSats
  <2>2. ExistsInjection(Sats(sbtc'), Sats(InitialSbtc))
    BY <2>1, Fun_ExistsInjTransitive DEF Supply
  <2> QED BY <2>2 DEF Supply
<1> QED
  BY <1>1, <1>2, AlwaysGood, PTL DEF Spec

-----------------------------------------------------------------------------
(* What the relay read *)

(* While a swap of this relay waits, the balance it read covers the amount *)
(* and the quote it read the min-out.                                      *)
Covers(r) ==
  /\ pc[r] \in {"nonce", "quote"} \/ (pc[r] = "mempool" /\ sponsor[r] \in TierName) =>
       seen[r].balance >= tx[r].amount
  /\ pc[r] = "mempool" /\ sponsor[r] \in TierName => seen[r].quote >= tx[r].minOut
  /\ pc[r] \notin {"refused", "mined"} => outcome[r] = "none"

SeenInv ==
  /\ seen \in [Requests -> [balance : Int, quote : Int]]
  /\ \A r \in Requests : Covers(r)

(* The relay asks a quote of what the pool will be sent.                   *)
LEMMA QuotedInput ==
  ASSUME NEW t, WellTyped(t), verifySponsoredSwap(t) = "ok"
  PROVE  swapInput(t) = Net(t) /\ Net(t) \in Nat /\ Net(t) > 0
<1> DEFINE a == FeeAt(t.amount, 50)
           b == FeeAt(t.amount, CallBips(t))
<1>1. t.amount \in Nat /\ t.amount > 0 /\ CallBips(t) \in Nat /\ CallBips(t) <= 100
  BY VerifiedCall DEF WellTyped, CallBips
<1>2. a \in Nat /\ b \in Nat /\ t.amount - (a + b) > 0
  BY <1>1, NetIsPositive
<1>3. Net(t) = t.amount - (a + b)
  BY DEF Net, ServiceFee, IntegratorFee, FEE_BIPS
<1>4. swapInput(t) = t.amount - a - b
  BY DEF swapInput, FeeAt, CallBips, RelayFeeBips, RelayBipsDenom, BIPS_DENOM
<1> HIDE DEF a, b
<1> QED
  BY <1>1, <1>2, <1>3, <1>4

Still(q) == Same(q) /\ seen'[q] = seen[q]

LEMMA StillCovers ==
  ASSUME NEW q \in Requests, Covers(q), Still(q)
  PROVE  Covers(q)'
BY DEF Covers, Still, Same

LEMMA BalanceCovers ==
  ASSUME IInv, SeenInv, NEW r \in Requests, CheckBalance(r)
  PROVE  SeenInv'
<1>1. TypeOK /\ Shape /\ Good(r)
  BY DEF IInv
<1>2. tx[r].user \in Accounts /\ tx[r].amount \in Nat
  BY <1>1 DEF CheckBalance, Good, Vetted, WellTyped
<1>3. sbtc[tx[r].user] \in Nat
  BY <1>1, <1>2 DEF TypeOK
<1> DEFINE n == sbtc[tx[r].user]
<1>4. /\ seen' = [seen EXCEPT ![r].balance = n]
      /\ \/ n >= tx[r].amount /\ pc'[r] = "nonce" /\ outcome'[r] = outcome[r]
         \/ pc'[r] = "refused"
      /\ tx'[r] = tx[r]
      /\ \A q \in Requests : q # r => Same(q)
  BY <1>1 DEF CheckBalance, Goto, Refuses, TypeOK, Shape, Same
<1>5. n \in Int
  BY <1>3
<1> HIDE DEF n
<1>6. /\ seen' \in [Requests -> [balance : Int, quote : Int]]
      /\ seen'[r].balance = n
      /\ \A q \in Requests : q # r => Still(q)
  BY <1>4, <1>5 DEF SeenInv, Still
<1>7. outcome[r] = "none"
  BY DEF SeenInv, Covers, CheckBalance
<1>8. Covers(r)'
  BY <1>4, <1>6, <1>7 DEF Covers
<1> QED
  BY <1>6, <1>8, StillCovers DEF SeenInv

LEMMA QuoteCovers ==
  ASSUME IInv, SeenInv, NEW r \in Requests, CheckQuote(r)
  PROVE  SeenInv'
<1>1. TypeOK /\ Shape /\ Good(r)
  BY DEF IInv
<1>2. pc[r] = "quote" /\ WellTyped(tx[r]) /\ verifySponsoredSwap(tx[r]) = "ok"
  BY <1>1 DEF CheckQuote, Good, Vetted
<1> DEFINE n == Quote(tx[r].pool, swapInput(tx[r]))
<1>3. n \in Int
  <2>1. tx[r].pool \in PoolIds
    BY <1>2, VerifiedCall DEF PoolIds
  <2>2. swapInput(tx[r]) \in Nat
    BY <1>2, QuotedInput
  <2>3. n \in Nat
    BY <1>1, <2>1, <2>2, QuoteTyped
  <2> HIDE DEF n
  <2> QED BY <2>3
<1>4. /\ seen' = [seen EXCEPT ![r].quote = n]
      /\ \/ n >= tx[r].minOut /\ pc'[r] = "mempool" /\ outcome'[r] = outcome[r]
         \/ pc'[r] = "refused"
      /\ tx'[r] = tx[r]
      /\ \A q \in Requests : q # r => Same(q)
  BY <1>1 DEF CheckQuote, Goto, Refuses, TypeOK, Shape, Same
<1> HIDE DEF n
<1>5. /\ seen' \in [Requests -> [balance : Int, quote : Int]]
      /\ seen'[r].balance = seen[r].balance /\ seen'[r].quote = n
      /\ \A q \in Requests : q # r => Still(q)
  BY <1>3, <1>4 DEF SeenInv, Still
<1>6. outcome[r] = "none" /\ seen[r].balance >= tx[r].amount
  BY <1>2 DEF SeenInv, Covers
<1>7. Covers(r)'
  BY <1>4, <1>5, <1>6 DEF Covers
<1> QED
  BY <1>5, <1>7, StillCovers DEF SeenInv

(* The steps of a request that read nothing.                               *)
LEMMA OtherStepCovers ==
  ASSUME IInv, SeenInv, NEW r \in Requests,
         \/ Build(r) \/ BuildForAnother(r) \/ SignByHand(r) \/ VerifyTx(r) \/ CheckNonce(r)
         \/ Bump(r) \/ SponsorElsewhere(r) \/ Mine(r)
  PROVE  SeenInv'
<1>1. TypeOK /\ Shape /\ Good(r) /\ Covers(r)
  BY DEF IInv, SeenInv
<1>2. seen' = seen
  BY DEF Build, BuildForAnother, SignByHand, VerifyTx, CheckNonce, Bump, SponsorElsewhere, Mine
<1>3. ASSUME NEW q \in Requests, q # r PROVE Still(q)
  BY <1>1, <1>2, <1>3
  DEF Build, BuildForAnother, SignByHand, VerifyTx, CheckNonce, Bump, SponsorElsewhere, Mine,
      Signs, Goto, Refuses, TypeOK, Shape, Still, Same
<1>4. ASSUME Build(r) \/ BuildForAnother(r) \/ SignByHand(r) PROVE Covers(r)'
  <2>1. pc[r] = "new" /\ pc'[r] = "signed" /\ outcome'[r] = outcome[r]
    BY <1>1, <1>4 DEF Build, BuildForAnother, SignByHand, Signs, TypeOK
  <2> QED BY <1>1, <2>1 DEF Covers
<1>5. ASSUME VerifyTx(r) PROVE Covers(r)'
  <2>1. /\ pc[r] = "signed"
        /\ \/ pc'[r] = "balance" /\ outcome'[r] = outcome[r]
           \/ pc'[r] = "refused"
    BY <1>1, <1>5 DEF VerifyTx, Goto, Refuses, TypeOK
  <2> QED BY <1>1, <2>1 DEF Covers
<1>6. ASSUME CheckNonce(r) PROVE Covers(r)'
  <2>1. /\ pc[r] = "nonce" /\ tx'[r] = tx[r]
        /\ \/ pc'[r] = "quote" /\ outcome'[r] = outcome[r]
           \/ pc'[r] = "refused"
    BY <1>1, <1>6 DEF CheckNonce, Goto, Refuses, TypeOK
  <2> QED BY <1>1, <1>2, <2>1 DEF Covers
<1>7. ASSUME Bump(r) PROVE Covers(r)'
  BY <1>1, <1>2, <1>7 DEF Bump, Covers
<1>8. ASSUME SponsorElsewhere(r) PROVE Covers(r)'
  <2>1. pc[r] = "signed" /\ pc'[r] = "mempool" /\ outcome'[r] = outcome[r]
        /\ sponsor'[r] \notin TierName
    BY <1>1, <1>8, SettlementAssumption DEF SponsorElsewhere, Goto, TypeOK, Shape
  <2> QED BY <1>1, <2>1 DEF Covers
<1>9. ASSUME Mine(r) PROVE Covers(r)'
  <2>1. pc'[r] = "mined"
    BY <1>1, <1>9 DEF Mine, Goto, TypeOK
  <2> QED BY <2>1 DEF Covers
<1>10. Covers(r)'
  BY <1>4, <1>5, <1>6, <1>7, <1>8, <1>9
<1> QED
  BY <1>2, <1>3, <1>10, StillCovers DEF SeenInv

LEMMA SeenCovers == Spec => []SeenInv
<1>1. Init => SeenInv
  BY DEF Init, SeenInv, Covers, Unread
<1>2. IInv /\ SeenInv /\ [Next]_vars => SeenInv'
  <2> SUFFICES ASSUME IInv, SeenInv, [Next]_vars PROVE SeenInv'
    OBVIOUS
  <2>1. ASSUME NEW r \in Requests,
               \/ Build(r) \/ BuildForAnother(r) \/ SignByHand(r)
               \/ RelayStep(r) \/ SponsorElsewhere(r) \/ Mine(r)
        PROVE  SeenInv'
    BY <2>1, BalanceCovers, QuoteCovers, OtherStepCovers DEF RelayStep
  <2>2. CASE \/ PriceMoves \/ (\E u \in Users : Spend(u))
             \/ (\E a \in Accounts : setFeeRecipient(a) \/ transferOwnership(a))
             \/ UNCHANGED vars
    <3>1. UNCHANGED requestVars
      BY <2>2 DEF PriceMoves, Spend, setFeeRecipient, transferOwnership, vars
    <3>2. seen' = seen /\ \A q \in Requests : Still(q)
      BY <3>1 DEF requestVars, Still, Same
    <3> QED BY <3>2, StillCovers DEF SeenInv
  <2> QED BY <2>1, <2>2 DEF Next
<1> QED
  BY <1>1, <1>2, AlwaysGood, PTL DEF Spec

-----------------------------------------------------------------------------
(* Aborts *)

(* Arguments the relay verified, a user that is not the sponsor and an     *)
(* amount whose fees do not overflow: every argument check holds.          *)
LEMMA VerifiedArgumentsPass ==
  ASSUME NEW t, WellTyped(t), verifySponsoredSwap(t) = "ok", NEW s \in Accounts,
         t.user # s, ~Overflows(t)
  PROVE  Passes(ArgumentChecks(t, s))
<1> SUFFICES ASSUME ~Passes(ArgumentChecks(t, s)) PROVE FALSE
  OBVIOUS
<1> DEFINE c == ArgumentChecks(t, s)
<1>1. DOMAIN c = 1..9
  BY DEF ArgumentChecks
<1>2. PICK i \in 1..9 : ~c[i].holds /\ Verdict(c) = c[i].error
  BY <1>1, FirstFailure
<1>3. Verdict(c) = "u109"
  BY VerifiedArguments
<1>4. /\ c[1].error # "u109" /\ c[2].error # "u109" /\ c[3].error # "u109"
      /\ c[4].error # "u109" /\ c[5].error # "u109" /\ c[6].error # "u109"
      /\ c[7].error # "u109" /\ c[8].error # "u109"
      /\ t.user # s => c[9].holds
  BY DEF ArgumentChecks, Check
<1> HIDE DEF c
<1>5. \/ i = 1 \/ i = 2 \/ i = 3 \/ i = 4 \/ i = 5 \/ i = 6 \/ i = 7
      \/ i = 8 \/ i = 9
  OBVIOUS
<1> QED
  BY <1>2, <1>3, <1>4, <1>5, Zenon

(* A world that still has what the relay read accepts every transfer.      *)
LEMMA ReadWorldAccepts ==
  ASSUME TypeOK, NEW t, WellTyped(t), verifySponsoredSwap(t) = "ok",
         NEW s, Passes(ArgumentChecks(t, s)), t.user # feeRecipient,
         sbtc[t.user] >= t.amount, Quote(t.pool, swapInput(t)) >= t.minOut
  PROVE  Passes(TransferChecks(t, World))
<1> DEFINE c == TransferChecks(t, World)
<1>1. World.market = market /\ World.sbtc = sbtc /\ World.stx = stx
      /\ World.feeRecipient = feeRecipient /\ World.market \in [PoolIds -> Pool]
  BY WorldTyped DEF World
<1>2. /\ ServiceFee(t) \in Nat /\ IntegratorFee(t) \in Nat /\ Net(t) \in Nat
      /\ t.amount = ServiceFee(t) + IntegratorFee(t) + Net(t)
      /\ Out(t, World) \in Nat
      /\ Spent(t, World) \in Nat /\ Spent(t, World) <= t.amount
  BY <1>1, AmountsOfAccepted
<1>3. /\ t.user \in Accounts /\ t.amount \in Nat /\ t.minOut \in Nat /\ t.tier \in Nat
      /\ t.minOut >= t.tier /\ t.integrator # t.user /\ t.tier > 0
  <2>1. t.tier > 0
    BY TierOfVerified DEF TierValues
  <2> QED BY <2>1, VerifiedCall DEF WellTyped
<1>4. sbtc[t.user] \in Nat /\ stx[t.user] \in Nat
  BY <1>3 DEF TypeOK
<1>5. swapInput(t) = Net(t)
  BY QuotedInput
<1>6. (t.pool = VELAR => VelarTakes(Net(t))) /\ Out(t, World) >= t.minOut
  <2>1. CASE t.pool = VELAR /\ ~VelarTakes(Net(t))
    <3>1. Quote(t.pool, swapInput(t)) = 0
      BY <1>5, <2>1 DEF Quote
    <3>2. 0 >= t.minOut
      BY <3>1
    <3> QED BY <1>3, <3>2
  <2>2. CASE ~(t.pool = VELAR /\ ~VelarTakes(Net(t)))
    <3>1. Quote(t.pool, swapInput(t)) = Out(t, World)
      BY <1>1, <1>5, <2>2 DEF Quote, Out
    <3> QED BY <2>2, <3>1
  <2> QED BY <2>1, <2>2
<1>7. /\ sbtc[t.user] >= ServiceFee(t) /\ sbtc[t.user] >= ServiceFee(t) + IntegratorFee(t)
      /\ sbtc[t.user] >= Spent(t, World)
      /\ stx[t.user] + Out(t, World) >= t.tier
  BY <1>2, <1>3, <1>4, <1>6
<1>8. DOMAIN c = 1..9
  BY TransferIndices
<1>9. /\ t.user # feeRecipient => c[1].holds
      /\ sbtc[t.user] >= ServiceFee(t) => c[2].holds
      /\ t.user # t.integrator => c[3].holds
      /\ sbtc[t.user] >= ServiceFee(t) + IntegratorFee(t) => c[4].holds
      /\ (t.pool = VELAR => VelarTakes(Net(t))) => c[5].holds
      /\ Out(t, World) >= t.minOut => c[6].holds /\ c[8].holds
      /\ sbtc[t.user] >= Spent(t, World) => c[7].holds
      /\ stx[t.user] + Out(t, World) >= t.tier => c[9].holds
  BY <1>1 DEF TransferChecks, Check
<1> HIDE DEF c
<1>10. /\ c[1].holds /\ c[2].holds /\ c[3].holds /\ c[4].holds /\ c[5].holds
       /\ c[6].holds /\ c[7].holds /\ c[8].holds /\ c[9].holds
  BY <1>3, <1>6, <1>7, <1>9
<1>11. ASSUME NEW j \in 1..9 PROVE c[j].holds
  <2>1. \/ j = 1 \/ j = 2 \/ j = 3 \/ j = 4 \/ j = 5 \/ j = 6 \/ j = 7
        \/ j = 8 \/ j = 9
    OBVIOUS
  <2> QED BY <1>10, <2>1, Zenon
<1> QED
  BY <1>8, <1>11 DEF Passes, Failing, c

(* A verified amount that someone holds overflows nothing, if the supply   *)
(* does not.                                                               *)
LEMMA HeldDoesNotOverflow ==
  ASSUME IsFiniteSet(Sats(InitialSbtc)),
         Cardinality(Sats(InitialSbtc)) * MAX_INTEGRATOR_BIPS <= MaxUint,
         TypeOK, Supply, NEW t, WellTyped(t), verifySponsoredSwap(t) = "ok",
         sbtc[t.user] >= t.amount
  PROVE  ~Overflows(t)
<1> DEFINE n == Cardinality(Sats(InitialSbtc))
<1>1. sbtc \in [Accounts -> Nat] /\ t.user \in Accounts /\ t.amount \in Nat
  BY DEF TypeOK, WellTyped
<1>2. sbtc[t.user] <= n /\ n \in Nat
  BY <1>1, HeldSats DEF Supply
<1>3. CallBips(t) \in Nat /\ CallBips(t) <= 100
  BY VerifiedCall DEF WellTyped, CallBips
<1>4. n * 100 <= MaxUint /\ MaxUint \in Nat
  BY SettlementAssumption DEF MAX_INTEGRATOR_BIPS
<1> HIDE DEF n
<1>5. t.amount <= n
  <2>1. sbtc[t.user] \in Nat
    BY <1>1
  <2> QED BY <1>1, <1>2, <2>1
<1>6. t.amount * 50 <= n * 100
  BY <1>1, <1>2, <1>5
<1>7. t.amount * CallBips(t) <= n * 100
  <2> DEFINE k == CallBips(t)
             m == t.amount
  <2>1. k \in Nat /\ k <= 100 /\ m \in Nat /\ m <= n
    BY <1>1, <1>3, <1>5
  <2> HIDE DEF k, m
  <2>2. m * k <= m * 100
    BY <2>1
  <2>3. m * 100 <= n * 100
    BY <1>2, <2>1
  <2>4. m * k \in Nat
    BY <2>1
  <2>5. m * k <= n * 100
    BY <1>2, <2>1, <2>2, <2>3, <2>4
  <2> QED BY <2>5 DEF k, m
<1>8. t.amount * 50 \in Nat /\ t.amount * CallBips(t) \in Nat /\ n * 100 \in Nat
  BY <1>1, <1>2, <1>3
<1> QED
  BY <1>4, <1>6, <1>7, <1>8 DEF Overflows, FEE_BIPS

(* A swap of this relay gets an outcome from a block and from nothing else.*)
LEMMA AbortedByMine ==
  ASSUME IInv, SeenInv, [Next]_vars, NEW r \in Requests, Aborts(r)
  PROVE  Mine(r)
<1>1. pc[r] = "mempool" /\ outcome'[r] # outcome[r]
  BY DEF Aborts, SeenInv, Covers
<1>2. DOMAIN outcome = Requests
  BY DEF IInv, Shape
<1>3. ASSUME NEW q \in Requests,
             \/ Build(q) \/ BuildForAnother(q) \/ SignByHand(q)
             \/ RelayStep(q) \/ SponsorElsewhere(q)
      PROVE  FALSE
  BY <1>1, <1>2, <1>3
  DEF Build, BuildForAnother, SignByHand, RelayStep, VerifyTx, CheckBalance, CheckNonce, CheckQuote, Bump,
      SponsorElsewhere, Signs, Goto, Refuses
<1>4. ASSUME NEW q \in Requests, Mine(q), q # r
      PROVE  FALSE
  BY <1>1, <1>2, <1>4 DEF Mine
<1>5. ASSUME \/ PriceMoves \/ (\E u \in Users : Spend(u))
             \/ (\E a \in Accounts : setFeeRecipient(a) \/ transferOwnership(a))
             \/ UNCHANGED vars
      PROVE  FALSE
  BY <1>1, <1>5 DEF PriceMoves, Spend, setFeeRecipient, transferOwnership, vars, requestVars
<1> QED
  BY <1>3, <1>4, <1>5 DEF Next

(* Preflight is honoured (relay.ts:64): if nothing fell since the relay    *)
(* read it and the user is neither the fee recipient nor the sponsor, the  *)
(* block commits the swap.  The supply is assumed to be one whose fees fit *)
(* a Clarity uint; sBTC's is below 21e14, and 2^128 is above 3e38.         *)
THEOREM PreflightIsHonoured ==
  ASSUME IsFiniteSet(Sats(InitialSbtc)),
         Cardinality(Sats(InitialSbtc)) * MAX_INTEGRATOR_BIPS <= MaxUint
  PROVE  Spec => AbortsAreExplained
<1> DEFINE Explained(r) ==
      Aborts(r) => Fell(r) \/ tx[r].user \in {feeRecipient, sponsor[r]}
<1>1. ASSUME IInv, SeenInv, Supply, [Next]_vars, NEW r \in Requests PROVE Explained(r)
  <2> SUFFICES ASSUME Aborts(r), ~Fell(r), tx[r].user \notin {feeRecipient, sponsor[r]}
               PROVE  FALSE
    OBVIOUS
  <2> DEFINE t == tx[r]
             s == sponsor[r]
  <2>1. Mine(r)
    BY <1>1, AbortedByMine
  <2>2. pc[r] = "mempool" /\ s \in TierName /\ s \in Accounts /\ outcome'[r] # "ok"
    BY DEF Aborts, Accounts
  <2>3. TypeOK /\ WellTyped(t) /\ verifySponsoredSwap(t) = "ok"
    BY <1>1, <2>2 DEF IInv, Good, Vetted, Sponsored
  <2>4. outcome'[r] = swapSbtcForGas(t, s, World)
    BY <1>1, <2>1 DEF Mine, IInv, Shape
  <2>5. /\ sbtc[t.user] \in Nat /\ Quote(t.pool, swapInput(t)) \in Nat
        /\ t.amount \in Nat /\ t.minOut \in Nat
    <3>1. t.pool \in PoolIds
      BY <2>3, VerifiedCall DEF PoolIds
    <3>2. swapInput(t) \in Nat
      BY <2>3, QuotedInput
    <3>3. Quote(t.pool, swapInput(t)) \in Nat
      BY <2>3, <3>1, <3>2, QuoteTyped
    <3> QED BY <2>3, <3>3 DEF TypeOK, WellTyped
  <2>6. /\ seen[r].balance \in Int /\ seen[r].quote \in Int
        /\ seen[r].balance >= t.amount /\ seen[r].quote >= t.minOut
    BY <1>1, <2>2 DEF SeenInv, Covers
  <2>7. sbtc[t.user] >= t.amount /\ Quote(t.pool, swapInput(t)) >= t.minOut
    <3> DEFINE a == sbtc[t.user]
               q == Quote(t.pool, swapInput(t))
    <3>1. ~(a < seen[r].balance) /\ ~(q < seen[r].quote)
      BY DEF Fell
    <3>2. a \in Nat /\ q \in Nat
      BY <2>5
    <3> HIDE DEF a, q, t
    <3>3. a >= t.amount /\ q >= t.minOut
      BY <2>5, <2>6, <3>1, <3>2
    <3> QED BY <3>3 DEF a, q
  <2>8. ~Overflows(t)
    BY <1>1, <2>3, <2>7, HeldDoesNotOverflow
  <2>9. Passes(ArgumentChecks(t, s))
    BY <2>2, <2>3, <2>8, VerifiedArgumentsPass
  <2>10. Passes(TransferChecks(t, World))
    BY <2>3, <2>7, <2>9, ReadWorldAccepts
  <2>11. PostConditionsHold(t, World)
    BY <2>3, <2>9, <2>10, WorldTyped, VerifiedConditionsHold
  <2> QED BY <2>2, <2>4, <2>9, <2>10, <2>11 DEF swapSbtcForGas
<1>2. IInv /\ SeenInv /\ Supply /\ [Next]_vars => \A r \in Requests : Explained(r)
  BY <1>1
<1> QED
  BY <1>2, AlwaysGood, SeenCovers, SupplyIsKept, PTL DEF Spec, AbortsAreExplained
=============================================================================
