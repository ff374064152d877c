-------------------------- MODULE SponsorCallProofs --------------------------
(***************************************************************************)
(* Sponsor calls for every number of requests, retries, limits and bad     *)
(* replies.  Three results: the retries and windows are invisible to the   *)
(* rest of the relay (SponsorAttempt), the sleeps of one call stay under   *)
(* the caller's timeout, and a window lets through in any hour no more     *)
(* than its limit and one for each request that read it while another was  *)
(* handling it, or within a minute of a put.                               *)
(***************************************************************************)
EXTENDS SponsorCall, FunctionTheorems, FiniteSetTheorems, TLAPS

USE CallAssumption

-----------------------------------------------------------------------------
(* The powers of two of the doubling sleeps, as what they count: 2^n is    *)
(* the number of subsets of 1..n.                                          *)
LEMMA PowerIsCount ==
  ASSUME NEW n \in Nat
  PROVE  /\ IsFiniteSet(SUBSET (1..n)) /\ Cardinality(SUBSET (1..n)) = 2^n
         /\ 2^n \in Nat
<1>1. IsFiniteSet(1..n) /\ Cardinality(1..n) = n
  BY FS_Interval
<1>2. IsFiniteSet(SUBSET (1..n)) /\ Cardinality(SUBSET (1..n)) = 2^n
  BY <1>1, FS_SUBSET
<1> QED
  BY <1>2, FS_CardinalityType

(* A later sleep is no shorter.                                            *)
LEMMA PowerGrows ==
  ASSUME NEW m \in Nat, NEW n \in Nat, m <= n
  PROVE  2^m <= 2^n
<1>1. SUBSET (1..m) \in SUBSET (SUBSET (1..n))
  OBVIOUS
<1>2. /\ IsFiniteSet(SUBSET (1..n)) /\ Cardinality(SUBSET (1..n)) = 2^n
      /\ Cardinality(SUBSET (1..m)) = 2^m
  BY PowerIsCount
<1>3. Cardinality(SUBSET (1..m)) <= Cardinality(SUBSET (1..n))
  BY <1>1, <1>2, FS_Subset
<1> QED
  BY <1>2, <1>3

(* The next sleep is as long again.                                        *)
LEMMA PowerDoubles ==
  ASSUME NEW n \in Nat
  PROVE  2^(n + 1) = 2 * 2^n
<1> DEFINE Old == SUBSET (1..n)
           New == {T \in SUBSET (1..n + 1) : n + 1 \in T}
           add == [T \in Old |-> T \union {n + 1}]
<1>1. SUBSET (1..n + 1) = Old \union New /\ Old \intersect New = {}
  <2>1. 1..n + 1 = (1..n) \union {n + 1} /\ n + 1 \notin 1..n
    OBVIOUS
  <2> QED
    BY <2>1
<1>2. add \in Bijection(Old, New)
  <2>1. 1..n + 1 = (1..n) \union {n + 1} /\ n + 1 \notin 1..n
    OBVIOUS
  <2>2. add \in [Old -> New]
    BY <2>1
  <2>3. \A S, T \in Old : add[S] = add[T] => S = T
    <3> SUFFICES ASSUME NEW S \in Old, NEW T \in Old, S \union {n + 1} = T \union {n + 1}
                 PROVE  S = T
      OBVIOUS
    <3>1. \A x : x \in S <=> x \in T
      BY <2>1
    <3> QED
      BY <3>1
  <2>4. \A T \in New : \E S \in Old : add[S] = T
    <3> SUFFICES ASSUME NEW T \in New PROVE \E S \in Old : add[S] = T
      OBVIOUS
    <3>1. T \ {n + 1} \in Old /\ (T \ {n + 1}) \union {n + 1} = T
      BY <2>1
    <3>2. add[T \ {n + 1}] = T
      BY <3>1
    <3> QED
      BY <3>1, <3>2
  <2> HIDE DEF add, New, Old
  <2> QED
    BY <2>2, <2>3, <2>4, Fun_IsBij
<1> HIDE DEF New, add
<1>3. IsFiniteSet(Old) /\ Cardinality(Old) = 2^n /\ 2^n \in Nat
  BY PowerIsCount
<1>4. IsFiniteSet(New) /\ Cardinality(New) = 2^n
  <2>1. ExistsBijection(Old, New)
    BY <1>2 DEF ExistsBijection
  <2> HIDE DEF Old
  <2> QED
    BY <2>1, <1>3, FS_Bijection
<1>5. Cardinality(SUBSET (1..n + 1)) = 2^(n + 1)
  <2>1. n + 1 \in Nat
    OBVIOUS
  <2> QED
    BY <2>1, PowerIsCount
<1>6. Cardinality(Old \union New) = 2^n + 2^n
  <2> HIDE DEF Old
  <2>1. Cardinality(Old \union New)
          = Cardinality(Old) + Cardinality(New) - Cardinality(Old \intersect New)
    BY <1>3, <1>4, FS_Union
  <2>2. Cardinality(Old \intersect New) = 0
    BY <1>1, FS_EmptySet
  <2> QED
    BY <1>3, <1>4, <2>1, <2>2
<1>7. 2^(n + 1) = 2^n + 2^n
  BY <1>1, <1>5, <1>6
<1>8. \A p \in Nat : p + p = 2 * p
  OBVIOUS
<1> QED
  BY <1>3, <1>7, <1>8

-----------------------------------------------------------------------------
(* Types, and what the control state says of the chain calls.              *)

CallNames == {"balance", "originNonces", "originAccount", "quote", "sponsorNonces",
              "sponsorAccount", "broadcast"}
Labels    == {"new", "origin", "originPut", "global", "globalPut", "reserving", "calling",
              "asleep", "answered"}
Windowing == {"origin", "originPut", "global", "globalPut"}

(* The calls that a request makes to send its transaction once more.       *)
Sending == {"sponsorNonces", "sponsorAccount", "broadcast"}

FlowTypes ==
  /\ day \in Days /\ now \in Nat
  /\ pc \in [Requests -> Labels] /\ start \in [Requests -> Nat]
  /\ answer \in [Requests -> {"none", "OK", "BROADCAST_FAILED"} \union Verdicts \union ChainErrors]

ChainTypes ==
  /\ call \in [Requests -> CallNames \union {"none"}]
  /\ left \in [Requests -> Nat] /\ attempt \in [Requests -> Nat]
  /\ status \in [Requests -> {"none", "429", "5xx", "lost", "4xx"}]
  /\ wake \in [Requests -> Nat] /\ again \in [Requests -> BOOLEAN]
  /\ taken \subseteq Requests
  /\ hurt \in [Requests -> Nat]

(* A request is in a chain call exactly while it calls or sleeps; once it  *)
(* is in its retry it makes no call but those of the retry.                *)
InCall(r) ==
  /\ pc[r] \in {"calling", "asleep"} <=> call[r] # "none"
  /\ pc[r] \in {"calling", "asleep"} /\ again[r] => call[r] \in Sending
  /\ pc[r] \notin {"calling", "asleep", "answered"} => ~again[r]
  /\ call[r] = "none" => attempt[r] = 0

CallInv == FlowTypes /\ ChainTypes /\ \A r \in Requests : InCall(r)

(* Every step of a request leaves the others where they are.               *)
Only(r) ==
  \A q \in Requests \ {r} :
    /\ pc'[q] = pc[q] /\ start'[q] = start[q] /\ answer'[q] = answer[q]
    /\ call'[q] = call[q] /\ left'[q] = left[q] /\ attempt'[q] = attempt[q]
    /\ status'[q] = status[q] /\ wake'[q] = wake[q] /\ again'[q] = again[q]
    /\ hurt'[q] = hurt[q] /\ seen'[q] = seen[q]

LEMMA InitCall == Init => CallInv
<1> SUFFICES ASSUME Init PROVE CallInv
  OBVIOUS
<1>1. FlowTypes
  BY DEF Init, FlowTypes, Labels
<1>2. ChainTypes
  BY DEF Init, ChainTypes
<1>3. \A r \in Requests : InCall(r)
  BY DEF Init, InCall
<1> QED
  BY <1>1, <1>2, <1>3 DEF CallInv

(* The three ways a call goes on, as they leave the request.               *)
LEMMA CallsOn ==
  ASSUME CallInv, NEW r \in Requests, NEW name \in CallNames, NEW times \in Nat \ {0},
         Calls(r, name, times)
  PROVE  /\ pc' = [pc EXCEPT ![r] = "calling"] /\ answer' = answer
         /\ call' = [call EXCEPT ![r] = name] /\ attempt' = [attempt EXCEPT ![r] = 0]
         /\ call' \in [Requests -> CallNames \union {"none"}]
         /\ left' \in [Requests -> Nat] /\ attempt' \in [Requests -> Nat]
         /\ status' \in [Requests -> {"none", "429", "5xx", "lost", "4xx"}]
         /\ \A q \in Requests \ {r} : left'[q] = left[q] /\ status'[q] = status[q]
<1>1. times - 1 \in Nat
  OBVIOUS
<1> QED
  BY <1>1 DEF Calls, Goto, CallInv, ChainTypes

LEMMA CallsStop ==
  ASSUME CallInv, NEW r \in Requests, StopsCalling(r)
  PROVE  /\ call' = [call EXCEPT ![r] = "none"] /\ attempt' = [attempt EXCEPT ![r] = 0]
         /\ call' \in [Requests -> CallNames \union {"none"}]
         /\ left' \in [Requests -> Nat] /\ attempt' \in [Requests -> Nat]
         /\ status' \in [Requests -> {"none", "429", "5xx", "lost", "4xx"}]
         /\ \A q \in Requests \ {r} : left'[q] = left[q] /\ status'[q] = status[q]
BY DEF StopsCalling, CallInv, ChainTypes

LEMMA OnlyKeeps ==
  ASSUME CallInv, NEW r \in Requests, Only(r), FlowTypes', ChainTypes', InCall(r)'
  PROVE  CallInv'
<1>1. \A q \in Requests \ {r} : InCall(q)'
  BY DEF CallInv, InCall, Only
<1> QED
  BY <1>1 DEF CallInv

StepKeeps(r) == CallInv' /\ Only(r) /\ now' = now /\ day' = day

LEMMA ArriveKeeps ==
  ASSUME CallInv, NEW r \in Requests, Arrive(r)
  PROVE  StepKeeps(r)
<1>1. FlowTypes'
  <2>1. start' \in [Requests -> Nat] /\ day' = day /\ now' = now
    BY DEF Arrive, CallInv, FlowTypes
  <2>2. ASSUME NEW code \in Verdicts, Answers(r, code) PROVE FlowTypes'
    BY <2>1, <2>2 DEF Answers, CallInv, FlowTypes, Labels
  <2>3. CASE Goto(r, "origin")
    BY <2>1, <2>3 DEF Goto, CallInv, FlowTypes, Labels
  <2> QED
    BY <2>2, <2>3 DEF Arrive, Verdicts
<1>2. ChainTypes' /\ Only(r)
  BY DEF Arrive, Answers, Goto, chainVars, windowVars, CallInv, FlowTypes, ChainTypes, Only
<1>3. InCall(r)'
  BY DEF Arrive, Answers, Goto, chainVars, CallInv, FlowTypes, ChainTypes, InCall
<1> QED
  BY <1>1, <1>2, <1>3, OnlyKeeps DEF Arrive, StepKeeps

LEMMA WindowsKeep ==
  ASSUME CallInv, NEW r \in Requests,
         RateLimited(r) \/ CountAtOnce(r) \/ GetWindow(r) \/ PutWindow(r)
  PROVE  /\ FlowTypes' /\ ChainTypes' /\ InCall(r)'
         /\ \A q \in Requests \ {r} : pc'[q] = pc[q] /\ answer'[q] = answer[q]
         /\ UNCHANGED <<now, day, start, chainVars>>
<1> USE DEF CallInv, FlowTypes, Answers, Goto, AfterKey
<1>1. UNCHANGED <<now, day, start, chainVars>>
  BY DEF RateLimited, CountAtOnce, GetWindow, PutWindow
<1>2. CASE RateLimited(r)
  <2>1. FlowTypes' /\ \A q \in Requests \ {r} : pc'[q] = pc[q] /\ answer'[q] = answer[q]
    BY <1>1, <1>2 DEF RateLimited, Labels, Verdicts
  <2>2. InCall(r)'
    BY <1>1, <1>2 DEF RateLimited, InCall, chainVars
  <2> QED
    BY <1>1, <2>1, <2>2 DEF chainVars, ChainTypes
<1>3. CASE CountAtOnce(r) \/ GetWindow(r) \/ PutWindow(r)
  <2>1. PICK l \in {"reserving", "global", "originPut", "globalPut"} : Goto(r, l)
    BY <1>3 DEF CountAtOnce, GetWindow, PutWindow
  <2>2. pc[r] \in Windowing
    BY <1>3 DEF CountAtOnce, GetWindow, PutWindow, InPut, Windowing
  <2>3. FlowTypes' /\ \A q \in Requests \ {r} : pc'[q] = pc[q] /\ answer'[q] = answer[q]
    BY <1>1, <2>1 DEF Labels
  <2>4. InCall(r)'
    BY <1>1, <2>1, <2>2 DEF InCall, chainVars, Windowing
  <2> QED
    BY <1>1, <2>3, <2>4 DEF chainVars, ChainTypes
<1> QED
  BY <1>2, <1>3

LEMMA WindowStepKeeps ==
  ASSUME CallInv, NEW r \in Requests, DOMAIN seen = Requests,
         RateLimited(r) \/ CountAtOnce(r) \/ GetWindow(r) \/ PutWindow(r)
  PROVE  StepKeeps(r)
<1>1. \A q \in Requests \ {r} : seen'[q] = seen[q]
  BY DEF RateLimited, CountAtOnce, GetWindow, PutWindow, windowVars
<1>2. Only(r)
  BY <1>1, WindowsKeep DEF Only, chainVars
<1> QED
  BY <1>2, WindowsKeep, OnlyKeeps DEF StepKeeps

(* Throws and AfterRead, as they leave the request: another call, or the   *)
(* end with one of a few answers.                                          *)
GoesOn(r, name) ==
  /\ name \in CallNames
  /\ pc' = [pc EXCEPT ![r] = "calling"] /\ call' = [call EXCEPT ![r] = name] /\ answer' = answer

EndsWith(r, codes) ==
  /\ pc' = [pc EXCEPT ![r] = "answered"] /\ call' = [call EXCEPT ![r] = "none"]
  /\ \E code \in codes : answer' = [answer EXCEPT ![r] = code]

KeepsCalls(r) ==
  /\ attempt' = [attempt EXCEPT ![r] = 0]
  /\ left' \in [Requests -> Nat]
  /\ status' \in [Requests -> {"none", "429", "5xx", "lost", "4xx"}]
  /\ \A q \in Requests \ {r} : left'[q] = left[q] /\ status'[q] = status[q]

LEMMA CallsGoOn ==
  ASSUME CallInv, NEW r \in Requests, NEW name \in CallNames, NEW times \in Nat \ {0},
         Calls(r, name, times)
  PROVE  GoesOn(r, name) /\ KeepsCalls(r)
BY CallsOn DEF GoesOn, KeepsCalls

LEMMA CallsOnce ==
  ASSUME CallInv, NEW r \in Requests, NEW name, name \in CallNames, Calls(r, name, 1)
  PROVE  GoesOn(r, name) /\ KeepsCalls(r)
BY CallsGoOn

LEMMA ThrowsEffect ==
  ASSUME CallInv, NEW r \in Requests, NEW reply, Throws(r, reply)
  PROVE  /\ KeepsCalls(r)
         /\ \/ call[r] = "originNonces" /\ GoesOn(r, "originAccount")
            \/ call[r] = "sponsorNonces" /\ GoesOn(r, "sponsorAccount")
            \/ /\ call[r] \notin {"originNonces", "sponsorNonces"}
               /\ EndsWith(r, ChainErrors)
<1>1. CASE call[r] = "originNonces" /\ Calls(r, "originAccount", 1)
  BY <1>1, CallsOnce DEF CallNames
<1>2. CASE call[r] = "sponsorNonces" /\ Calls(r, "sponsorAccount", 1)
  BY <1>2, CallsOnce DEF CallNames
<1>3. CASE /\ call[r] \notin {"originNonces", "sponsorNonces"}
           /\ StopsCalling(r) /\ Answers(r, CodeOf(reply))
  <2>1. CodeOf(reply) \in ChainErrors
    BY DEF CodeOf, ChainErrors
  <2> QED
    BY <1>3, <2>1, CallsStop DEF Answers, EndsWith, KeepsCalls
<1> QED
  BY <1>1, <1>2, <1>3 DEF Throws

LEMMA ReadEffect ==
  ASSUME CallInv, NEW r \in Requests, AfterRead(r), call[r] # "none", call[r] # "broadcast"
  PROVE  /\ KeepsCalls(r)
         /\ \/ \E name \in CallNames :
                 /\ GoesOn(r, name)
                 /\ call[r] \in Sending => name \in Sending
                 /\ name = "broadcast" => call[r] \in Sending
            \/ EndsWith(r, IF call[r] \in Sending THEN {"SPONSOR_BUSY"} ELSE {"PREFLIGHT"})
<1> USE DEF Sending
<1>1. call[r] \in CallNames \ {"broadcast"} /\ left[r] \in Nat
  BY DEF CallInv, ChainTypes
<1>2. CASE left[r] > 0 /\ Calls(r, call[r], left[r])
  <2>1. GoesOn(r, call[r]) /\ KeepsCalls(r)
    BY <1>1, <1>2, CallsGoOn
  <2> QED
    BY <1>1, <2>1
<1>3. CASE call[r] = "balance" /\ Calls(r, "originNonces", 1)
  BY <1>3, CallsOnce DEF CallNames
<1>4. ASSUME call[r] \in {"originNonces", "originAccount"}, NEW pool \in Pools,
             Calls(r, "quote", QuoteReads(pool))
      PROVE  GoesOn(r, "quote") /\ KeepsCalls(r)
  <2>1. QuoteReads(pool) \in Nat \ {0}
    <3>0. 2 # 1 /\ 3 # 1 /\ 3 # 2 /\ 1 # 2 /\ 1 # 3
      OBVIOUS
    <3>1. pool = 1 => QuoteReads(pool) = 1
      BY <3>0, Zenon DEF QuoteReads
    <3>2. pool = 2 => QuoteReads(pool) = 2
      BY <3>0, Zenon DEF QuoteReads
    <3>3. pool = 3 => QuoteReads(pool) = 6
      BY <3>0, Zenon DEF QuoteReads
    <3> QED
      BY <3>1, <3>2, <3>3
  <2> QED
    BY <1>4, <2>1, CallsGoOn DEF CallNames
<1>5. CASE call[r] = "quote" /\ Calls(r, "sponsorNonces", 1)
  BY <1>5, CallsOnce DEF CallNames
<1>6. CASE call[r] \in {"sponsorNonces", "sponsorAccount"} /\ Calls(r, "broadcast", 1)
  BY <1>6, CallsOnce DEF CallNames
<1>7. CASE /\ StopsCalling(r)
           /\ Answers(r, IF call[r] \in {"sponsorNonces", "sponsorAccount"}
                         THEN "SPONSOR_BUSY" ELSE "PREFLIGHT")
  BY <1>1, <1>7, CallsStop DEF Answers, EndsWith, KeepsCalls
<1> QED
  BY <1>2, <1>3, <1>4, <1>5, <1>6, <1>7 DEF AfterRead, CallNames

(* What the steps of a chain call leave alone.                             *)
Quiet(r) ==
  /\ UNCHANGED <<day, now, start, wake, seen>>
  /\ again' \in [Requests -> BOOLEAN] /\ hurt' \in [Requests -> Nat] /\ taken' \subseteq Requests
  /\ \A q \in Requests \ {r} : again'[q] = again[q] /\ hurt'[q] = hurt[q]

Codes == {"OK", "BROADCAST_FAILED"} \union Verdicts \union ChainErrors

LEMMA GoesOnKeeps ==
  ASSUME CallInv, NEW r \in Requests, NEW name, GoesOn(r, name), KeepsCalls(r), Quiet(r),
         again'[r] => name \in Sending
  PROVE  StepKeeps(r)
<1> USE DEF CallInv, FlowTypes, ChainTypes, GoesOn, KeepsCalls, Quiet
<1>1. FlowTypes'
  BY DEF Labels
<1>2. ChainTypes'
  OBVIOUS
<1>3. Only(r)
  BY DEF Only
<1>4. InCall(r)'
  BY DEF InCall, CallNames
<1> QED
  BY <1>1, <1>2, <1>3, <1>4, OnlyKeeps DEF StepKeeps

LEMMA EndsKeeps ==
  ASSUME CallInv, NEW r \in Requests, NEW codes \in SUBSET Codes, EndsWith(r, codes),
         KeepsCalls(r), Quiet(r)
  PROVE  StepKeeps(r)
<1> USE DEF CallInv, FlowTypes, ChainTypes, EndsWith, KeepsCalls, Quiet
<1>1. FlowTypes'
  <2>1. PICK code \in codes : answer' = [answer EXCEPT ![r] = code]
    OBVIOUS
  <2>2. code \in Codes
    OBVIOUS
  <2>3. answer' \in [Requests -> {"none", "OK", "BROADCAST_FAILED"} \union Verdicts \union ChainErrors]
    BY <2>1, <2>2 DEF Codes
  <2>4. pc' \in [Requests -> Labels]
    BY DEF Labels
  <2> QED
    BY <2>3, <2>4
<1>2. ChainTypes'
  OBVIOUS
<1>3. Only(r)
  BY DEF Only
<1>4. InCall(r)'
  BY DEF InCall, CallNames
<1> QED
  BY <1>1, <1>2, <1>3, <1>4, OnlyKeeps DEF StepKeeps

(* What each step of a chain call does to its request.                     *)
LEMMA ReserveEffect ==
  ASSUME CallInv, NEW r \in Requests, ReserveOrigin(r)
  PROVE  /\ StepKeeps(r)
         /\ pc[r] = "reserving" /\ taken' = taken /\ again' = again /\ hurt' = hurt
         /\ \/ GoesOn(r, "balance") /\ KeepsCalls(r)
            \/ /\ pc' = [pc EXCEPT ![r] = "answered"] /\ UNCHANGED call
               /\ answer' = [answer EXCEPT ![r] = "ORIGIN_NONCE_IN_FLIGHT"]
<1>1. pc[r] = "reserving" /\ taken' = taken /\ again' = again /\ hurt' = hurt /\ Quiet(r)
  BY DEF ReserveOrigin, windowVars, Quiet, CallInv, ChainTypes
<1>2. ~again[r] /\ call[r] = "none"
  BY <1>1 DEF CallInv, InCall, ChainTypes
<1>3. CASE Calls(r, "balance", 1)
  <2>1. GoesOn(r, "balance") /\ KeepsCalls(r)
    BY <1>3, CallsOnce DEF CallNames
  <2> QED
    BY <1>1, <1>2, <2>1, GoesOnKeeps
<1>4. CASE Answers(r, "ORIGIN_NONCE_IN_FLIGHT") /\ UNCHANGED <<call, left, attempt, status>>
  <2> USE DEF CallInv, FlowTypes, ChainTypes, Quiet
  <2>1. FlowTypes'
    BY <1>1, <1>4 DEF Answers, Labels, Verdicts
  <2>2. ChainTypes'
    BY <1>1, <1>4
  <2>3. Only(r)
    BY <1>1, <1>4 DEF Answers, Only
  <2>4. InCall(r)'
    BY <1>1, <1>2, <1>4 DEF InCall, Answers
  <2>5. StepKeeps(r)
    BY <1>1, <2>1, <2>2, <2>3, <2>4, OnlyKeeps DEF StepKeeps
  <2> QED
    BY <1>1, <1>4, <2>5 DEF Answers
<1> QED
  BY <1>3, <1>4 DEF ReserveOrigin

LEMMA GoodReadEffect ==
  ASSUME CallInv, NEW r \in Requests, GoodRead(r)
  PROVE  /\ StepKeeps(r) /\ KeepsCalls(r)
         /\ pc[r] = "calling" /\ taken' = taken /\ again' = again /\ hurt' = hurt
         /\ \/ \E name \in CallNames :
                 /\ GoesOn(r, name)
                 /\ call[r] \in Sending => name \in Sending
                 /\ name = "broadcast" => call[r] \in Sending
            \/ EndsWith(r, IF call[r] \in Sending THEN {"SPONSOR_BUSY"} ELSE {"PREFLIGHT"})
<1>1. pc[r] = "calling" /\ call[r] # "broadcast" /\ taken' = taken /\ again' = again
      /\ hurt' = hurt /\ Quiet(r)
  BY DEF GoodRead, windowVars, Quiet, CallInv, ChainTypes
<1>2. call[r] # "none" /\ (again[r] => call[r] \in Sending)
  BY <1>1 DEF CallInv, InCall
<1>3. /\ KeepsCalls(r)
      /\ \/ \E name \in CallNames :
              /\ GoesOn(r, name)
              /\ call[r] \in Sending => name \in Sending
              /\ name = "broadcast" => call[r] \in Sending
         \/ EndsWith(r, IF call[r] \in Sending THEN {"SPONSOR_BUSY"} ELSE {"PREFLIGHT"})
  BY <1>1, <1>2, ReadEffect DEF GoodRead
<1>4. ASSUME NEW name \in CallNames, GoesOn(r, name), call[r] \in Sending => name \in Sending
      PROVE  StepKeeps(r)
  BY <1>1, <1>2, <1>3, <1>4, GoesOnKeeps
<1>5. ASSUME NEW codes \in {{"SPONSOR_BUSY"}, {"PREFLIGHT"}}, EndsWith(r, codes)
      PROVE  StepKeeps(r)
  <2>1. codes \in SUBSET Codes
    BY DEF Codes, Verdicts
  <2> QED
    BY <1>1, <1>3, <1>5, <2>1, EndsKeeps
<1> QED
  BY <1>1, <1>3, <1>4, <1>5

LEMMA BroadcastEffect ==
  ASSUME CallInv, NEW r \in Requests, BroadcastReply(r)
  PROVE  /\ StepKeeps(r) /\ KeepsCalls(r)
         /\ pc[r] = "calling" /\ call[r] = "broadcast" /\ hurt' = hurt
         /\ \/ EndsWith(r, {"OK"}) /\ taken' = taken \union {r}
            \/ GoesOn(r, "sponsorNonces") /\ again' = [again EXCEPT ![r] = TRUE] /\ taken' = taken
            \/ EndsWith(r, {"BROADCAST_FAILED"}) /\ taken' = taken
<1>1. pc[r] = "calling" /\ call[r] = "broadcast" /\ hurt' = hurt
  BY DEF BroadcastReply
<1>2. CASE taken' = taken \union {r} /\ StopsCalling(r) /\ Answers(r, "OK") /\ UNCHANGED again
  <2>1. EndsWith(r, {"OK"}) /\ KeepsCalls(r) /\ {"OK"} \in SUBSET Codes
    BY <1>2, CallsStop DEF Answers, EndsWith, KeepsCalls, Codes
  <2>2. Quiet(r)
    BY <1>2 DEF BroadcastReply, windowVars, Quiet, CallInv, ChainTypes
  <2> QED
    BY <1>1, <1>2, <2>1, <2>2, EndsKeeps
<1>3. CASE /\ again' = [again EXCEPT ![r] = TRUE] /\ Calls(r, "sponsorNonces", 1)
           /\ UNCHANGED taken
  <2>1. GoesOn(r, "sponsorNonces") /\ KeepsCalls(r)
    BY <1>3, CallsOnce DEF CallNames
  <2>2. Quiet(r)
    BY <1>3 DEF BroadcastReply, windowVars, Quiet, CallInv, ChainTypes
  <2> QED
    BY <1>1, <1>3, <2>1, <2>2, GoesOnKeeps DEF Sending
<1>4. CASE /\ StopsCalling(r) /\ Answers(r, "BROADCAST_FAILED") /\ UNCHANGED <<taken, again>>
  <2>1. EndsWith(r, {"BROADCAST_FAILED"}) /\ KeepsCalls(r) /\ {"BROADCAST_FAILED"} \in SUBSET Codes
    BY <1>4, CallsStop DEF Answers, EndsWith, KeepsCalls, Codes
  <2>2. Quiet(r)
    BY <1>4 DEF BroadcastReply, windowVars, Quiet, CallInv, ChainTypes
  <2> QED
    BY <1>1, <1>4, <2>1, <2>2, EndsKeeps
<1> QED
  BY <1>2, <1>3, <1>4 DEF BroadcastReply

LEMMA UnusableEffect ==
  ASSUME CallInv, NEW r \in Requests, Unusable(r)
  PROVE  /\ StepKeeps(r) /\ KeepsCalls(r)
         /\ pc[r] = "calling" /\ taken' = taken /\ again' = again
         /\ hurt' = [hurt EXCEPT ![r] = @ + 1]
         /\ \/ call[r] = "originNonces" /\ GoesOn(r, "originAccount")
            \/ call[r] = "sponsorNonces" /\ GoesOn(r, "sponsorAccount")
            \/ EndsWith(r, ChainErrors)
<1>1. /\ pc[r] = "calling" /\ taken' = taken /\ again' = again
      /\ hurt' = [hurt EXCEPT ![r] = @ + 1] /\ Throws(r, "4xx")
  BY DEF Unusable
<1>2. hurt[r] + 1 \in Nat
  BY DEF CallInv, ChainTypes
<1>3. Quiet(r)
  BY <1>1, <1>2 DEF Unusable, windowVars, Quiet, CallInv, ChainTypes
<1>4. again[r] => call[r] \in Sending
  BY <1>1 DEF CallInv, InCall
<1>5. CASE call[r] = "originNonces" /\ GoesOn(r, "originAccount") /\ KeepsCalls(r)
  BY <1>1, <1>3, <1>4, <1>5, GoesOnKeeps DEF Sending
<1>6. CASE call[r] = "sponsorNonces" /\ GoesOn(r, "sponsorAccount") /\ KeepsCalls(r)
  BY <1>1, <1>3, <1>6, GoesOnKeeps DEF Sending
<1>7. CASE EndsWith(r, ChainErrors) /\ KeepsCalls(r)
  <2>1. ChainErrors \in SUBSET Codes
    BY DEF Codes
  <2> QED
    BY <1>1, <1>3, <1>7, <2>1, EndsKeeps
<1> QED
  BY <1>1, <1>5, <1>6, <1>7, ThrowsEffect

LEMMA SleepIsNat ==
  ASSUME NEW reply, NEW n \in Nat
  PROVE  Sleep(reply, n) \in Nat
<1>1. 2^n \in Nat
  BY PowerIsCount
<1>2. \A a, b \in Nat : a * b \in Nat
  OBVIOUS
<1> QED
  BY <1>1, <1>2 DEF Sleep, Second

LEMMA BadReplyEffect ==
  ASSUME CallInv, NEW r \in Requests, BadReply(r)
  PROVE  /\ StepKeeps(r)
         /\ pc[r] = "calling" /\ pc' = [pc EXCEPT ![r] = "asleep"]
         /\ UNCHANGED <<start, answer, call, attempt, again>>
         /\ hurt' = [hurt EXCEPT ![r] = IF attempt[r] = 0 THEN @ + 1 ELSE @]
         /\ \E reply \in {"429", "5xx", "lost"} :
              wake' = [wake EXCEPT ![r] = now + Sleep(reply, attempt[r])]
         /\ \/ taken' = taken
            \/ call[r] = "broadcast" /\ taken' = taken \union {r}
<1> USE DEF CallInv, FlowTypes, ChainTypes
<1>1. PICK reply \in {"429", "5xx", "lost"} :
        /\ status' = [status EXCEPT ![r] = reply]
        /\ wake' = [wake EXCEPT ![r] = now + Sleep(reply, attempt[r])]
  BY DEF BadReply
<1>2. /\ pc[r] = "calling" /\ pc' = [pc EXCEPT ![r] = "asleep"]
      /\ UNCHANGED <<day, now, start, answer, seen, call, left, attempt, again>>
      /\ hurt' = [hurt EXCEPT ![r] = IF attempt[r] = 0 THEN @ + 1 ELSE @]
      /\ \/ taken' = taken
         \/ call[r] = "broadcast" /\ taken' = taken \union {r}
  BY DEF BadReply, Goto, windowVars
<1>3. hurt[r] + 1 \in Nat /\ hurt[r] \in Nat
  OBVIOUS
<1>4. now + Sleep(reply, attempt[r]) \in Nat
  <2>1. Sleep(reply, attempt[r]) \in Nat
    BY SleepIsNat
  <2> QED
    BY <2>1
<1>5. FlowTypes'
  BY <1>2 DEF Labels
<1>6. ChainTypes'
  <2>1. hurt' \in [Requests -> Nat]
    BY <1>2, <1>3
  <2>2. wake' \in [Requests -> Nat]
    BY <1>1, <1>4
  <2>3. status' \in [Requests -> {"none", "429", "5xx", "lost", "4xx"}]
    BY <1>1
  <2> QED
    BY <1>2, <2>1, <2>2, <2>3
<1>7. Only(r)
  BY <1>1, <1>2 DEF Only
<1>8. InCall(r)'
  BY <1>2 DEF InCall
<1>9. StepKeeps(r)
  BY <1>2, <1>5, <1>6, <1>7, <1>8, OnlyKeeps DEF StepKeeps
<1> QED
  BY <1>1, <1>2, <1>9

LEMMA WakesEffect ==
  ASSUME CallInv, NEW r \in Requests, Wakes(r)
  PROVE  /\ StepKeeps(r)
         /\ pc[r] = "asleep" /\ now >= wake[r]
         /\ taken' = taken /\ again' = again /\ hurt' = hurt
         /\ \/ /\ attempt[r] < Retries /\ attempt' = [attempt EXCEPT ![r] = @ + 1]
               /\ pc' = [pc EXCEPT ![r] = "calling"] /\ UNCHANGED <<call, answer>>
            \/ /\ attempt[r] = Retries /\ KeepsCalls(r)
               /\ \/ call[r] = "originNonces" /\ GoesOn(r, "originAccount")
                  \/ call[r] = "sponsorNonces" /\ GoesOn(r, "sponsorAccount")
                  \/ EndsWith(r, ChainErrors)
<1>1. pc[r] = "asleep" /\ now >= wake[r] /\ taken' = taken /\ again' = again /\ hurt' = hurt
  BY DEF Wakes
<1>2. Quiet(r)
  BY <1>1 DEF Wakes, windowVars, Quiet, CallInv, ChainTypes
<1>3. again[r] => call[r] \in Sending
  BY <1>1 DEF CallInv, InCall
<1>4. CASE /\ attempt[r] < Retries /\ attempt' = [attempt EXCEPT ![r] = @ + 1]
           /\ Goto(r, "calling") /\ UNCHANGED <<call, left, status>>
  <2> USE DEF CallInv, FlowTypes, ChainTypes, Quiet, Goto
  <2>1. FlowTypes'
    BY <1>2, <1>4 DEF Labels
  <2>2. ChainTypes'
    <3>1. attempt[r] + 1 \in Nat
      OBVIOUS
    <3> QED
      BY <1>2, <1>4, <3>1
  <2>3. Only(r)
    BY <1>2, <1>4 DEF Only
  <2>4. InCall(r)'
    BY <1>1, <1>4 DEF InCall
  <2>5. StepKeeps(r)
    BY <1>2, <2>1, <2>2, <2>3, <2>4, OnlyKeeps DEF StepKeeps
  <2> QED
    BY <1>1, <1>4, <2>5
<1>5. CASE attempt[r] = Retries /\ Throws(r, status[r])
  <2>1. CASE call[r] = "originNonces" /\ GoesOn(r, "originAccount") /\ KeepsCalls(r)
    BY <1>1, <1>2, <1>3, <1>5, <2>1, GoesOnKeeps DEF Sending
  <2>2. CASE call[r] = "sponsorNonces" /\ GoesOn(r, "sponsorAccount") /\ KeepsCalls(r)
    BY <1>1, <1>2, <1>5, <2>2, GoesOnKeeps DEF Sending
  <2>3. CASE EndsWith(r, ChainErrors) /\ KeepsCalls(r)
    <3>1. ChainErrors \in SUBSET Codes
      BY DEF Codes
    <3> QED
      BY <1>1, <1>2, <1>5, <2>3, <3>1, EndsKeeps
  <2> QED
    BY <1>5, <2>1, <2>2, <2>3, ThrowsEffect
<1> QED
  BY <1>4, <1>5 DEF Wakes

LEMMA TimeKeeps ==
  ASSUME CallInv, TimePasses
  PROVE  CallInv' /\ now <= now' /\ UNCHANGED <<day, pc, start, answer, windowVars, chainVars>>
<1>1. now' \in Nat /\ now <= now' /\ UNCHANGED <<day, pc, start, answer, windowVars, chainVars>>
  <2>1. CASE now' = now + 1
    BY <2>1 DEF TimePasses, CallInv, FlowTypes
  <2>2. CASE \E gap \in Gaps : now' = now + gap
    <3>1. PICK gap \in Gaps : now' = now + gap
      BY <2>2
    <3>2. gap \in Nat
      OBVIOUS
    <3> QED
      BY <3>1, <3>2 DEF TimePasses, CallInv, FlowTypes
  <2> QED
    BY <2>1, <2>2 DEF TimePasses
<1> QED
  BY <1>1 DEF CallInv, FlowTypes, ChainTypes, InCall, chainVars

-----------------------------------------------------------------------------
(* The windows' types, and the invariant over every step.                  *)

Entries == [at : Nat, by : Requests]

WindowTypes ==
  /\ window \in [Keys -> SUBSET Entries] /\ seen \in [Requests -> SUBSET Entries]
  /\ older \in [Keys -> SUBSET [until : Nat, entries : SUBSET Entries]]
  /\ admitted \subseteq Keys \X Entries /\ crowded \subseteq Keys \X Requests

LEMMA KeyIsKey == ASSUME NEW r \in Requests PROVE KeyOf(r) \in Keys
BY DEF KeyOf, Keys

LEMMA EntryIsEntry == ASSUME CallInv, NEW r \in Requests PROVE Entry(r) \in Entries
BY DEF Entry, Entries, CallInv, FlowTypes

LEMMA ReadableIs ==
  ASSUME WindowTypes, NEW key \in Keys, NEW V \in Readable(key)
  PROVE  /\ V \in SUBSET Entries
         /\ V = window[key] \/ \E o \in Replaced(key) : V = o.entries
BY DEF Readable, Replaced, WindowTypes

LEMMA WindowTypesKept ==
  ASSUME CallInv, WindowTypes, NEW r \in Requests, RequestStep(r)
  PROVE  WindowTypes'
<1> USE DEF WindowTypes
<1>1. KeyOf(r) \in Keys /\ Entry(r) \in Entries
  BY KeyIsKey, EntryIsEntry
<1>2. CASE UNCHANGED windowVars
  BY <1>2 DEF windowVars
<1>3. CASE CountAtOnce(r)
  <2>1. Recent(window[KeyOf(r)], start[r]) \union {Entry(r)} \in SUBSET Entries
    BY <1>1 DEF Recent
  <2>2. window' \in [Keys -> SUBSET Entries]
    BY <1>1, <1>3, <2>1 DEF CountAtOnce
  <2> QED
    BY <1>1, <1>3, <2>2 DEF CountAtOnce
<1>4. CASE GetWindow(r)
  <2>1. PICK V \in Readable(KeyOf(r)) : seen' = [seen EXCEPT ![r] = Recent(V, start[r])]
    BY <1>4 DEF GetWindow
  <2>2. V \in SUBSET Entries
    BY <1>1, ReadableIs
  <2>3. seen' \in [Requests -> SUBSET Entries]
    BY <2>1, <2>2 DEF Recent
  <2>4. crowded' \subseteq Keys \X Requests
    BY <1>1, <1>4 DEF GetWindow
  <2> QED
    BY <1>4, <2>3, <2>4 DEF GetWindow
<1>5. CASE PutWindow(r)
  <2>1. seen[r] \union {Entry(r)} \in SUBSET Entries
    BY <1>1
  <2>2. window' \in [Keys -> SUBSET Entries] /\ seen' \in [Requests -> SUBSET Entries]
    BY <1>5, <2>1 DEF PutWindow
  <2>3. admitted' = admitted \union {<<KeyOf(r), Entry(r)>>} /\ crowded' = crowded
    BY <1>5 DEF PutWindow
  <2>4. admitted' \subseteq Keys \X Entries
    BY <1>1, <2>3
  <2>5. Version(KeyOf(r)) \in [until : Nat, entries : SUBSET Entries]
    BY <1>1 DEF Version, CallInv, FlowTypes
  <2>6. older' \in [Keys -> SUBSET [until : Nat, entries : SUBSET Entries]]
    BY <1>1, <1>5, <2>5 DEF PutWindow
  <2> QED
    BY <2>2, <2>3, <2>4, <2>6
<1> QED
  BY <1>2, <1>3, <1>4, <1>5
  DEF RequestStep, Arrive, RateLimited, ReserveOrigin, GoodRead, BroadcastReply, Unusable,
      BadReply, Wakes

LEMMA RequestStepKeeps ==
  ASSUME CallInv, WindowTypes, NEW r \in Requests, RequestStep(r)
  PROVE  StepKeeps(r)
<1>1. DOMAIN seen = Requests
  BY DEF WindowTypes
<1> QED
  BY <1>1, ArriveKeeps, WindowStepKeeps, ReserveEffect, GoodReadEffect, BroadcastEffect,
     UnusableEffect, BadReplyEffect, WakesEffect
  DEF RequestStep

CallIInv == CallInv /\ WindowTypes

LEMMA CallIInvKept ==
  ASSUME CallIInv, [Next]_vars
  PROVE  CallIInv'
<1>1. CASE TimePasses
  BY <1>1, TimeKeeps DEF CallIInv, WindowTypes, windowVars
<1>2. ASSUME NEW r \in Requests, RequestStep(r) PROVE CallIInv'
  BY <1>2, RequestStepKeeps, WindowTypesKept DEF CallIInv, StepKeeps
<1>3. CASE UNCHANGED vars
  BY <1>3 DEF CallIInv, CallInv, FlowTypes, ChainTypes, InCall, WindowTypes, vars, windowVars, chainVars
<1> QED
  BY <1>1, <1>2, <1>3 DEF Next

(* Whatever the chain replies, the relay's own bookkeeping of a request    *)
(* stays in shape: its control state, its call, its windows.               *)
THEOREM CallTypes == Spec => []CallIInv
<1>1. Init => CallIInv
  <2>1. Init => WindowTypes
    BY DEF Init, WindowTypes
  <2> QED
    BY <2>1, InitCall DEF CallIInv
<1> QED
  BY <1>1, CallIInvKept, PTL DEF Spec

-----------------------------------------------------------------------------
(***************************************************************************)
(* The attempt the rest of the relay sees                                  *)
(***************************************************************************)
Stages == [r \in Requests |-> Stage(r)]

(* A step of r is a change of r's stage only.                              *)
LEMMA StageMoves ==
  ASSUME CallInv, NEW r \in Requests, StepKeeps(r), NEW to, Stage(r)' = to
  PROVE  Stages' = [Stages EXCEPT ![r] = to]
<1>1. \A q \in Requests \ {r} : Stage(q)' = Stage(q)
  BY DEF StepKeeps, Only, Stage, InFlight
<1>2. \A q \in Requests : Stages'[q] = [Stages EXCEPT ![r] = to][q]
  BY <1>1 DEF Stages
<1> QED
  BY <1>2 DEF Stages

LEMMA StageStays ==
  ASSUME CallInv, NEW r \in Requests, StepKeeps(r), Stage(r)' = Stage(r)
  PROVE  Stages' = Stages
<1>1. \A q \in Requests : Stage(q)' = Stage(q)
  BY DEF StepKeeps, Only, Stage, InFlight
<1> QED
  BY <1>1 DEF Stages

(* A step that calls on.                                                   *)
LEMMA GoesOnMaps ==
  ASSUME CallInv, NEW r \in Requests, StepKeeps(r), NEW name, GoesOn(r, name), taken' = taken,
         Stage(r) = "reading" \/ (Stage(r) = "sending" /\ (name = "broadcast" \/ again'[r]))
  PROVE  Attempt!Next \/ UNCHANGED <<Stages, taken, answer>>
<1>1. Stage(r)' = IF name = "broadcast" \/ again'[r] THEN "sending" ELSE "reading"
  BY DEF Stage, InFlight, GoesOn, CallInv, FlowTypes, ChainTypes
<1>2. answer' = answer
  BY DEF GoesOn
<1>3. CASE Stage(r)' = Stage(r)
  BY <1>2, <1>3, StageStays
<1>4. CASE Stage(r) = "reading" /\ Stage(r)' = "sending"
  <2>1. Stages' = [Stages EXCEPT ![r] = "sending"] /\ Stages[r] = "reading"
    BY <1>4, StageMoves DEF Stages
  <2>2. Attempt!Proceeds(r, "reading", "sending")
    BY <1>2, <2>1 DEF Attempt!Proceeds, Stages
  <2> QED
    BY <2>2 DEF Attempt!Next
<1> QED
  BY <1>1, <1>3, <1>4

(* A step that ends the request: refused before sending, failed after.     *)
LEMMA EndMaps ==
  ASSUME CallInv, NEW r \in Requests, StepKeeps(r), pc' = [pc EXCEPT ![r] = "answered"],
         taken' = taken, NEW code, answer' = [answer EXCEPT ![r] = code],
         \/ Stage(r) \in {"new", "reading"} /\ code \in Verdicts \union ChainErrors
         \/ Stage(r) = "sending" /\ code \in ChainErrors \union {"SPONSOR_BUSY", "BROADCAST_FAILED"}
  PROVE  Attempt!Next
<1>1. Stage(r)' = "answered"
  BY DEF Stage, InFlight, CallInv, FlowTypes
<1>2. Stages' = [Stages EXCEPT ![r] = "answered"] /\ Stages[r] = Stage(r)
  BY <1>1, StageMoves DEF Stages
<1>3. Attempt!Answers(r, code)
  BY <1>2 DEF Attempt!Answers, Stages
<1>4. Attempt!Refuse(r) \/ Attempt!Fail(r)
  BY <1>2, <1>3 DEF Attempt!Refuse, Attempt!Fail, Stages
<1> QED
  BY <1>4 DEF Attempt!Next

(* Where a request stands, by its control state.                           *)
LEMMA StageOf ==
  ASSUME CallInv, NEW r \in Requests
  PROVE  /\ pc[r] = "new" => Stage(r) = "new"
         /\ pc[r] \in Windowing \union {"reserving"} => Stage(r) = "reading"
         /\ pc[r] \in {"calling", "asleep"} =>
              Stage(r) = IF call[r] = "broadcast" \/ again[r] THEN "sending" ELSE "reading"
BY DEF Stage, InFlight, Windowing, CallInv, InCall, FlowTypes, ChainTypes

LEMMA ArriveMaps ==
  ASSUME CallInv, NEW r \in Requests, Arrive(r), StepKeeps(r)
  PROVE  Attempt!Next \/ UNCHANGED <<Stages, taken, answer>>
<1>1. pc[r] = "new" /\ taken' = taken
  BY DEF Arrive, chainVars
<1>2. ASSUME NEW code \in {"MALFORMED", "VERIFICATION"}, Answers(r, code)
      PROVE  Attempt!Next
  <2>1. Stage(r) = "new" /\ code \in Verdicts
    BY <1>1, StageOf DEF Verdicts
  <2> QED
    BY <1>1, <1>2, <2>1, EndMaps DEF Answers
<1>3. CASE Goto(r, "origin")
  <2>1. Stage(r)' = "reading" /\ Stage(r) = "new"
    <3>1. pc'[r] = "origin" /\ CallInv'
      BY <1>3 DEF Goto, CallInv, FlowTypes, StepKeeps
    <3>2. ~again'[r] /\ call'[r] = "none"
      BY <3>1 DEF CallInv, InCall, ChainTypes
    <3> QED
      BY <1>1, <3>1, <3>2 DEF Stage, InFlight
  <2>2. Stages' = [Stages EXCEPT ![r] = "reading"] /\ Stages[r] = "new"
    BY <2>1, StageMoves DEF Stages
  <2>3. Attempt!Proceeds(r, "new", "reading")
    BY <1>1, <1>3, <2>2 DEF Attempt!Proceeds, Stages, Goto
  <2> QED
    BY <2>3 DEF Attempt!Next
<1> QED
  BY <1>2, <1>3 DEF Arrive

LEMMA WindowMaps ==
  ASSUME CallInv, NEW r \in Requests, StepKeeps(r),
         RateLimited(r) \/ CountAtOnce(r) \/ GetWindow(r) \/ PutWindow(r)
  PROVE  Attempt!Next \/ UNCHANGED <<Stages, taken, answer>>
<1>1. pc[r] \in Windowing /\ taken' = taken
  BY DEF RateLimited, CountAtOnce, GetWindow, PutWindow, InPut, chainVars, Windowing
<1>2. Stage(r) = "reading"
  BY <1>1, StageOf
<1>3. CASE RateLimited(r)
  <2>1. Answers(r, "RATE_LIMITED") /\ "RATE_LIMITED" \in Verdicts
    BY <1>3 DEF RateLimited, Verdicts
  <2> QED
    BY <1>1, <1>2, <2>1, EndMaps DEF Answers
<1>4. CASE CountAtOnce(r) \/ GetWindow(r) \/ PutWindow(r)
  <2>1. PICK l \in {"reserving", "global", "originPut", "globalPut"} : Goto(r, l)
    BY <1>4 DEF CountAtOnce, GetWindow, PutWindow, AfterKey
  <2>2. Stage(r)' = "reading"
    <3>1. pc'[r] = l /\ CallInv'
      BY <2>1 DEF Goto, CallInv, FlowTypes, StepKeeps
    <3>2. ~again'[r] /\ call'[r] = "none"
      BY <3>1 DEF CallInv, InCall, ChainTypes
    <3> QED
      BY <3>1, <3>2 DEF Stage, InFlight
  <2> QED
    BY <1>1, <1>2, <2>1, <2>2, StageStays DEF Goto
<1> QED
  BY <1>3, <1>4

LEMMA ReserveMaps ==
  ASSUME CallInv, NEW r \in Requests, ReserveOrigin(r)
  PROVE  Attempt!Next \/ UNCHANGED <<Stages, taken, answer>>
<1>1. Stage(r) = "reading"
  BY ReserveEffect, StageOf
<1>2. CASE GoesOn(r, "balance")
  BY <1>1, <1>2, ReserveEffect, GoesOnMaps
<1>3. CASE /\ pc' = [pc EXCEPT ![r] = "answered"]
           /\ answer' = [answer EXCEPT ![r] = "ORIGIN_NONCE_IN_FLIGHT"]
  <2>1. "ORIGIN_NONCE_IN_FLIGHT" \in Verdicts
    BY DEF Verdicts
  <2> QED
    BY <1>1, <1>3, <2>1, ReserveEffect, EndMaps
<1> QED
  BY <1>2, <1>3, ReserveEffect

LEMMA GoodReadMaps ==
  ASSUME CallInv, NEW r \in Requests, GoodRead(r)
  PROVE  Attempt!Next \/ UNCHANGED <<Stages, taken, answer>>
<1>1. /\ StepKeeps(r) /\ taken' = taken /\ again' = again
      /\ Stage(r) = IF again[r] THEN "sending" ELSE "reading"
      /\ again[r] => call[r] \in Sending
  <2>1. pc[r] = "calling" /\ call[r] # "broadcast"
    BY DEF GoodRead
  <2> QED
    BY <2>1, GoodReadEffect, StageOf DEF CallInv, InCall
<1>2. ASSUME NEW name \in CallNames, GoesOn(r, name)
      PROVE  Attempt!Next \/ UNCHANGED <<Stages, taken, answer>>
  BY <1>1, <1>2, GoesOnMaps
<1>3. ASSUME EndsWith(r, IF call[r] \in Sending THEN {"SPONSOR_BUSY"} ELSE {"PREFLIGHT"})
      PROVE  Attempt!Next
  <2>1. PICK code \in IF call[r] \in Sending THEN {"SPONSOR_BUSY"} ELSE {"PREFLIGHT"} :
               answer' = [answer EXCEPT ![r] = code]
    BY <1>3 DEF EndsWith
  <2>2. code \in Verdicts /\ (again[r] => code = "SPONSOR_BUSY")
    BY <1>1 DEF Verdicts
  <2> QED
    BY <1>1, <1>3, <2>1, <2>2, EndMaps DEF EndsWith
<1> QED
  BY <1>2, <1>3, GoodReadEffect

(* A call that gave up: the account endpoint in its stead, or the end.     *)
LEMMA GivesUpMaps ==
  ASSUME CallInv, NEW r \in Requests, StepKeeps(r), pc[r] \in {"calling", "asleep"},
         taken' = taken, again' = again,
         \/ call[r] = "originNonces" /\ GoesOn(r, "originAccount")
         \/ call[r] = "sponsorNonces" /\ GoesOn(r, "sponsorAccount")
         \/ EndsWith(r, ChainErrors)
  PROVE  Attempt!Next \/ UNCHANGED <<Stages, taken, answer>>
<1>1. Stage(r) = IF call[r] = "broadcast" \/ again[r] THEN "sending" ELSE "reading"
  BY StageOf
<1>2. CASE EndsWith(r, ChainErrors)
  <2>1. PICK code \in ChainErrors : answer' = [answer EXCEPT ![r] = code]
    BY <1>2 DEF EndsWith
  <2> QED
    BY <1>1, <1>2, <2>1, EndMaps DEF EndsWith
<1>3. CASE call[r] = "originNonces" /\ GoesOn(r, "originAccount")
  BY <1>1, <1>3, GoesOnMaps
<1>4. CASE call[r] = "sponsorNonces" /\ GoesOn(r, "sponsorAccount")
  BY <1>1, <1>4, GoesOnMaps
<1> QED
  BY <1>2, <1>3, <1>4

LEMMA BroadcastMaps ==
  ASSUME CallInv, NEW r \in Requests, BroadcastReply(r)
  PROVE  Attempt!Next \/ UNCHANGED <<Stages, taken, answer>>
<1>1. StepKeeps(r) /\ Stage(r) = "sending"
  BY BroadcastEffect, StageOf
<1>2. CASE EndsWith(r, {"OK"}) /\ taken' = taken \union {r}
  <2>1. pc' = [pc EXCEPT ![r] = "answered"] /\ answer' = [answer EXCEPT ![r] = "OK"]
    BY <1>2 DEF EndsWith
  <2>2. Stage(r)' = "answered"
    BY <2>1 DEF Stage, InFlight, CallInv, FlowTypes
  <2>3. Stages' = [Stages EXCEPT ![r] = "answered"] /\ Stages[r] = "sending"
    BY <1>1, <2>2, StageMoves DEF Stages
  <2>4. Attempt!Succeed(r)
    BY <1>2, <2>1, <2>3 DEF Attempt!Succeed, Stages
  <2> QED
    BY <2>4 DEF Attempt!Next
<1>3. CASE GoesOn(r, "sponsorNonces") /\ again' = [again EXCEPT ![r] = TRUE] /\ taken' = taken
  <2>1. again'[r]
    BY <1>3 DEF CallInv, ChainTypes
  <2> QED
    BY <1>1, <1>3, <2>1, GoesOnMaps
<1>4. CASE EndsWith(r, {"BROADCAST_FAILED"}) /\ taken' = taken
  <2>1. pc' = [pc EXCEPT ![r] = "answered"] /\ answer' = [answer EXCEPT ![r] = "BROADCAST_FAILED"]
    BY <1>4 DEF EndsWith
  <2> QED
    BY <1>1, <1>4, <2>1, EndMaps
<1> QED
  BY <1>2, <1>3, <1>4, BroadcastEffect

LEMMA BadReplyMaps ==
  ASSUME CallInv, NEW r \in Requests, BadReply(r)
  PROVE  Attempt!Next \/ UNCHANGED <<Stages, taken, answer>>
<1>1. /\ StepKeeps(r) /\ pc[r] = "calling" /\ pc' = [pc EXCEPT ![r] = "asleep"]
      /\ UNCHANGED <<answer, call, again>>
      /\ \/ taken' = taken
         \/ call[r] = "broadcast" /\ taken' = taken \union {r}
  BY BadReplyEffect
<1>2. Stage(r)' = Stage(r)
  BY <1>1 DEF Stage, InFlight, CallInv, FlowTypes
<1>3. Stages' = Stages
  BY <1>1, <1>2, StageStays
<1>4. CASE call[r] = "broadcast" /\ taken' = taken \union {r}
  <2>1. Stages[r] = "sending"
    BY <1>1, <1>4, StageOf DEF Stages
  <2>2. Attempt!Take(r)
    BY <1>1, <1>3, <1>4, <2>1 DEF Attempt!Take, Stages
  <2> QED
    BY <2>2 DEF Attempt!Next
<1> QED
  BY <1>1, <1>3, <1>4

LEMMA WakesMaps ==
  ASSUME CallInv, NEW r \in Requests, Wakes(r)
  PROVE  Attempt!Next \/ UNCHANGED <<Stages, taken, answer>>
<1>1. StepKeeps(r) /\ pc[r] = "asleep" /\ taken' = taken /\ again' = again
  BY WakesEffect
<1>2. CASE pc' = [pc EXCEPT ![r] = "calling"] /\ UNCHANGED <<call, answer>>
  <2>1. Stage(r)' = Stage(r)
    BY <1>1, <1>2 DEF Stage, InFlight, CallInv, FlowTypes
  <2> QED
    BY <1>1, <1>2, <2>1, StageStays
<1> QED
  BY <1>1, <1>2, WakesEffect, GivesUpMaps

LEMMA AttemptStep ==
  ASSUME CallIInv, [Next]_vars
  PROVE  [Attempt!Next]_<<Stages, taken, answer>>
<1>1. CASE TimePasses
  <2>1. UNCHANGED <<pc, call, again, taken, answer>>
    BY <1>1, TimeKeeps DEF CallIInv, chainVars
  <2>2. \A q \in Requests : Stage(q)' = Stage(q)
    BY <2>1 DEF Stage, InFlight
  <2> QED
    BY <2>1, <2>2 DEF Stages
<1>2. ASSUME NEW r \in Requests, RequestStep(r)
      PROVE  Attempt!Next \/ UNCHANGED <<Stages, taken, answer>>
  <2>1. CallInv /\ StepKeeps(r)
    BY <1>2, RequestStepKeeps DEF CallIInv
  <2>2. CASE Unusable(r)
    BY <2>1, <2>2, UnusableEffect, GivesUpMaps
  <2> QED
    BY <1>2, <2>1, <2>2, ArriveMaps, WindowMaps, ReserveMaps, GoodReadMaps, BroadcastMaps,
       BadReplyMaps, WakesMaps
    DEF RequestStep
<1>3. CASE UNCHANGED vars
  BY <1>3 DEF vars, chainVars, Stages, Stage, InFlight
<1> QED
  BY <1>1, <1>2, <1>3 DEF Next

(* chain/client.ts and relay.ts: however a call is retried, slept on,      *)
(* failed over or counted, a request refused before its broadcast is not   *)
(* in the mempool, and only an acknowledged broadcast answers OK.          *)
THEOREM CallsAreAttempts == Spec => RefinesAttempt
<1>1. Init => Attempt!Init
  BY DEF Init, Attempt!Init, Stage, InFlight
<1>2. CallIInv /\ [Next]_vars => [Attempt!Next]_<<Stages, taken, answer>>
  BY AttemptStep
<1> QED
  BY <1>1, <1>2, CallTypes, PTL DEF Spec, RefinesAttempt, Attempt!Spec, Stages

-----------------------------------------------------------------------------
(***************************************************************************)
(* The caller's timeout                                                    *)
(***************************************************************************)
(* The longest that n attempts at one call may sleep.                      *)
Longest(n) == Second * (2^n - 1)

LEMMA LongestGrows ==
  ASSUME NEW m \in Nat, NEW n \in Nat, m <= n
  PROVE  Longest(m) \in Nat /\ Longest(n) \in Nat /\ Longest(m) <= Longest(n)
<1>1. 1 <= 2^m /\ 2^m \in Nat /\ 2^n \in Nat /\ 2^m <= 2^n
  <2> DEFINE subsets == SUBSET (1..m)
  <2>1. IsFiniteSet(subsets) /\ Cardinality(subsets) = 2^m
    BY PowerIsCount
  <2>2. subsets # {}
    OBVIOUS
  <2> HIDE DEF subsets
  <2>3. Cardinality(subsets) # 0
    BY <2>1, <2>2, FS_EmptySet
  <2>4. 2^m \in Nat /\ 2^n \in Nat
    BY PowerIsCount
  <2>5. 2^m # 0
    BY <2>1, <2>3
  <2>6. 2^m <= 2^n
    BY PowerGrows
  <2>7. \A a \in Nat : a # 0 => 1 <= a
    OBVIOUS
  <2> QED
    BY <2>4, <2>5, <2>6, <2>7, Zenon
<1>2. \A a, b \in Nat : 1 <= a /\ a <= b => /\ 2 * (a - 1) \in Nat /\ 2 * (b - 1) \in Nat
                                           /\ 2 * (a - 1) <= 2 * (b - 1)
  OBVIOUS
<1> QED
  BY <1>1, <1>2 DEF Longest, Second

LEMMA SleepsAdd ==
  ASSUME NEW n \in Nat, NEW reply
  PROVE  Longest(n) + Sleep(reply, n) <= Longest(n + 1)
<1>1. 2^n \in Nat /\ 2^(n + 1) = 2 * 2^n
  BY PowerIsCount, PowerDoubles
<1>2. \A a \in Nat : /\ 2 * (a - 1) + 1 * a <= 2 * (2 * a - 1)
                     /\ 2 * (a - 1) + 2 * a <= 2 * (2 * a - 1)
  OBVIOUS
<1>3. Sleep(reply, n) = 1 * 2^n \/ Sleep(reply, n) = 2 * 2^n
  BY DEF Sleep, Second
<1>4. Longest(n) = 2 * (2^n - 1) /\ Longest(n + 1) = 2 * (2 * 2^n - 1)
  BY <1>1 DEF Longest, Second
<1> QED
  BY <1>1, <1>2, <1>3, <1>4

(* What a request that met trouble in at most one call can have slept.     *)
InTime(r) ==
  /\ pc[r] \in {"new", "reserving"} \union Windowing => hurt[r] = 0
  /\ InFlight(r) => /\ start[r] <= now /\ attempt[r] <= Retries
                    /\ hurt[r] = 0 => now = start[r]
  /\ pc[r] = "asleep" => /\ hurt[r] > 0 /\ now <= wake[r]
                         /\ hurt[r] = 1 => wake[r] - start[r] <= Longest(attempt[r] + 1)
  /\ pc[r] = "calling" /\ attempt[r] > 0 =>
       hurt[r] > 0 /\ (hurt[r] = 1 => now - start[r] <= Longest(attempt[r]))
  /\ pc[r] = "calling" /\ attempt[r] = 0 /\ hurt[r] = 1 =>
       now - start[r] <= Longest(Retries + 1)

TimeInv == \A r \in Requests : InTime(r)

LEMMA OthersInTime ==
  ASSUME TimeInv, NEW r \in Requests, StepKeeps(r), InTime(r)'
  PROVE  TimeInv'
BY DEF TimeInv, InTime, InFlight, StepKeeps, Only, Longest

(* Calls on, with the time spent so far; or ends.                          *)
LEMMA GoesOnInTime ==
  ASSUME CallInv, NEW r \in Requests, StepKeeps(r), NEW name, GoesOn(r, name), KeepsCalls(r),
         start' = start, hurt'[r] \in Nat, start[r] <= now,
         hurt'[r] = 0 => now = start[r],
         hurt'[r] = 1 => now - start[r] <= Longest(Retries + 1)
  PROVE  InTime(r)'
<1>1. pc'[r] = "calling" /\ attempt'[r] = 0 /\ now' = now
  BY DEF GoesOn, KeepsCalls, CallInv, FlowTypes, ChainTypes, StepKeeps
<1> QED
  BY <1>1 DEF InTime, InFlight, Longest, Windowing

LEMMA EndInTime ==
  ASSUME CallInv, NEW r \in Requests, pc' = [pc EXCEPT ![r] = "answered"]
  PROVE  InTime(r)'
<1>1. pc'[r] = "answered"
  BY DEF CallInv, FlowTypes
<1> QED
  BY <1>1 DEF InTime, InFlight, Windowing

(* Up to here, a request has slept no more than one call's worth.          *)
LEMMA SoFar ==
  ASSUME CallInv, NEW r \in Requests, InTime(r), hurt[r] <= 1,
         \/ pc[r] = "calling"
         \/ pc[r] = "asleep" /\ now >= wake[r]
  PROVE  now - start[r] <= Longest(Retries + 1)
<1>1. /\ attempt[r] \in Nat /\ attempt[r] <= Retries /\ hurt[r] \in Nat /\ now \in Nat
      /\ start[r] \in Nat /\ wake[r] \in Nat
  BY DEF CallInv, FlowTypes, ChainTypes, InTime, InFlight
<1>2. /\ Longest(attempt[r]) <= Longest(Retries + 1) /\ Longest(attempt[r]) \in Nat
      /\ Longest(attempt[r] + 1) <= Longest(Retries + 1) /\ Longest(attempt[r] + 1) \in Nat
      /\ Longest(Retries + 1) \in Nat
  <2>1. attempt[r] + 1 \in Nat /\ Retries + 1 \in Nat /\ attempt[r] <= Retries + 1
        /\ attempt[r] + 1 <= Retries + 1
    BY <1>1
  <2> QED
    BY <1>1, <2>1, LongestGrows
<1>3. CASE pc[r] = "calling" /\ hurt[r] = 0
  BY <1>1, <1>2, <1>3 DEF InTime, InFlight
<1>4. CASE pc[r] = "calling" /\ hurt[r] = 1
  BY <1>1, <1>2, <1>4 DEF InTime
<1>5. CASE pc[r] = "asleep" /\ now >= wake[r]
  BY <1>1, <1>2, <1>5 DEF InTime
<1> QED
  BY <1>1, <1>3, <1>4, <1>5

LEMMA WindowsInTime ==
  ASSUME CallInv, NEW r \in Requests, InTime(r), StepKeeps(r),
         \/ Arrive(r) \/ RateLimited(r) \/ CountAtOnce(r) \/ GetWindow(r) \/ PutWindow(r)
         \/ ReserveOrigin(r)
  PROVE  InTime(r)'
<1>1. now' = now /\ now \in Nat /\ start[r] \in Nat /\ hurt' = hurt /\ hurt[r] = 0
  BY DEF CallInv, FlowTypes, StepKeeps, InTime, Arrive, RateLimited, CountAtOnce, GetWindow,
         PutWindow, ReserveOrigin, InPut, chainVars, Windowing
<1>2. CASE Arrive(r)
  <2>1. start'[r] = now /\ attempt'[r] = 0
    BY <1>2 DEF Arrive, CallInv, FlowTypes, ChainTypes, InCall, chainVars
  <2>2. pc'[r] \in {"answered", "origin"}
    BY <1>2 DEF Arrive, Answers, Goto, CallInv, FlowTypes
  <2> QED
    BY <1>1, <2>1, <2>2 DEF InTime, InFlight, Windowing
<1>3. CASE RateLimited(r) \/ CountAtOnce(r) \/ GetWindow(r) \/ PutWindow(r)
  <2>1. pc[r] \in Windowing /\ start' = start /\ attempt' = attempt
    BY <1>3 DEF RateLimited, CountAtOnce, GetWindow, PutWindow, InPut, chainVars, Windowing
  <2>2. pc'[r] \in {"answered", "reserving"} \union Windowing
    BY <1>3 DEF RateLimited, CountAtOnce, GetWindow, PutWindow, Answers, Goto, AfterKey, CallInv,
                FlowTypes, Windowing
  <2> QED
    BY <1>1, <2>1, <2>2 DEF InTime, InFlight, Windowing
<1>4. CASE ReserveOrigin(r)
  <2>1. pc[r] = "reserving" /\ start' = start
    BY <1>4 DEF ReserveOrigin
  <2>2. start[r] <= now /\ now = start[r]
    BY <1>1, <2>1 DEF InTime, InFlight
  <2>3. CASE GoesOn(r, "balance") /\ KeepsCalls(r)
    BY <1>1, <2>1, <2>2, <2>3, GoesOnInTime
  <2> QED
    BY <1>4, <2>3, ReserveEffect, EndInTime
<1> QED
  BY <1>2, <1>3, <1>4

LEMMA CallsInTime ==
  ASSUME CallInv, NEW r \in Requests, InTime(r), StepKeeps(r),
         GoodRead(r) \/ BroadcastReply(r) \/ Unusable(r)
  PROVE  InTime(r)'
<1>1. now' = now /\ now \in Nat /\ start' = start /\ start[r] \in Nat /\ hurt[r] \in Nat
      /\ start[r] <= now /\ pc[r] = "calling"
  BY DEF CallInv, FlowTypes, ChainTypes, StepKeeps, InTime, InFlight, GoodRead, BroadcastReply, Unusable
<1>2. hurt'[r] \in {hurt[r], hurt[r] + 1}
  BY DEF CallInv, ChainTypes, GoodRead, BroadcastReply, Unusable
<1>3. /\ hurt'[r] \in Nat
      /\ hurt'[r] = 0 => now = start[r]
      /\ hurt'[r] = 1 => now - start[r] <= Longest(Retries + 1)
  BY <1>1, <1>2, SoFar DEF InTime, InFlight
<1>4. KeepsCalls(r)
  BY GoodReadEffect, BroadcastEffect, UnusableEffect
<1>5. \/ \E name \in CallNames : GoesOn(r, name)
      \/ pc' = [pc EXCEPT ![r] = "answered"]
  <2>1. CASE GoodRead(r)
    BY <2>1, GoodReadEffect DEF EndsWith
  <2>2. CASE BroadcastReply(r)
    BY <2>2, BroadcastEffect DEF EndsWith, CallNames
  <2>3. CASE Unusable(r)
    BY <2>3, UnusableEffect DEF EndsWith, CallNames
  <2> QED
    BY <2>1, <2>2, <2>3
<1> QED
  BY <1>1, <1>3, <1>4, <1>5, GoesOnInTime, EndInTime

LEMMA BadReplyInTime ==
  ASSUME CallInv, NEW r \in Requests, InTime(r), BadReply(r)
  PROVE  InTime(r)'
<1>1. PICK reply \in {"429", "5xx", "lost"} :
        wake' = [wake EXCEPT ![r] = now + Sleep(reply, attempt[r])]
  BY BadReplyEffect
<1> DEFINE nap == Sleep(reply, attempt[r])
<1>2. /\ now \in Nat /\ start[r] \in Nat /\ hurt[r] \in Nat /\ attempt[r] \in Nat
      /\ start[r] <= now /\ attempt[r] <= Retries /\ pc[r] = "calling"
  BY BadReplyEffect DEF CallInv, FlowTypes, ChainTypes, InTime, InFlight
<1>3. /\ pc'[r] = "asleep" /\ start'[r] = start[r] /\ now' = now /\ attempt'[r] = attempt[r]
      /\ hurt'[r] = IF attempt[r] = 0 THEN hurt[r] + 1 ELSE hurt[r]
      /\ wake'[r] = now + nap
  <2>1. /\ pc' = [pc EXCEPT ![r] = "asleep"] /\ UNCHANGED <<start, attempt>> /\ StepKeeps(r)
        /\ hurt' = [hurt EXCEPT ![r] = IF attempt[r] = 0 THEN @ + 1 ELSE @]
    BY BadReplyEffect
  <2>2. wake'[r] = now + nap
    BY <1>1 DEF CallInv, ChainTypes
  <2> HIDE DEF nap
  <2> QED
    BY <2>1, <2>2 DEF CallInv, FlowTypes, ChainTypes, StepKeeps
<1>4. /\ nap \in Nat /\ Longest(attempt[r]) + nap <= Longest(attempt[r] + 1)
      /\ Longest(attempt[r]) \in Nat /\ Longest(attempt[r] + 1) \in Nat
  <2>1. attempt[r] + 1 \in Nat
    BY <1>2
  <2> QED
    BY <1>2, <2>1, SleepIsNat, SleepsAdd, LongestGrows
<1>5. hurt'[r] > 0
  BY <1>2, <1>3 DEF InTime
<1>6. ASSUME hurt'[r] = 1 PROVE now + nap - start[r] <= Longest(attempt[r] + 1)
  <2> HIDE DEF nap
  <2>1. now - start[r] <= Longest(attempt[r])
    <3>1. CASE attempt[r] = 0
      BY <1>2, <1>3, <1>4, <1>6, <3>1 DEF InTime, InFlight
    <3>2. CASE attempt[r] > 0
      BY <1>2, <1>3, <1>6, <3>2 DEF InTime
    <3> QED
      BY <1>2, <3>1, <3>2
  <2> QED
    BY <1>2, <1>4, <2>1
<1> HIDE DEF nap
<1>7. now <= now + nap
  BY <1>2, <1>4
<1>8. Longest(attempt[r] + 1)' = Longest(attempt[r] + 1)
  BY <1>3 DEF Longest
<1>9. hurt'[r] = 1 => wake'[r] - start'[r] <= Longest(attempt[r] + 1)'
  BY <1>2, <1>3, <1>4, <1>6, <1>8
<1>10. start'[r] <= now' /\ attempt'[r] <= Retries /\ now' <= wake'[r] /\ hurt'[r] # 0
  BY <1>2, <1>3, <1>5, <1>7
<1> QED
  BY <1>3, <1>5, <1>9, <1>10 DEF InTime, InFlight, Windowing

LEMMA WakesInTime ==
  ASSUME CallInv, NEW r \in Requests, InTime(r), Wakes(r)
  PROVE  InTime(r)'
<1>1. /\ now \in Nat /\ start[r] \in Nat /\ hurt[r] \in Nat /\ attempt[r] \in Nat
      /\ wake[r] \in Nat /\ start[r] <= now /\ attempt[r] <= Retries /\ pc[r] = "asleep"
      /\ now = wake[r] /\ hurt[r] > 0
  <2>1. /\ now \in Nat /\ start[r] \in Nat /\ hurt[r] \in Nat /\ attempt[r] \in Nat
        /\ wake[r] \in Nat
    BY DEF CallInv, FlowTypes, ChainTypes
  <2>2. pc[r] = "asleep" /\ now >= wake[r]
    BY WakesEffect
  <2> QED
    BY <2>1, <2>2 DEF InTime, InFlight
<1>2. /\ StepKeeps(r) /\ start' = start /\ now' = now /\ hurt' = hurt
  BY WakesEffect DEF StepKeeps, Wakes
<1>3. CASE /\ attempt[r] < Retries /\ attempt' = [attempt EXCEPT ![r] = @ + 1]
           /\ pc' = [pc EXCEPT ![r] = "calling"]
  <2>1. attempt'[r] = attempt[r] + 1 /\ pc'[r] = "calling"
    BY <1>3 DEF CallInv, FlowTypes, ChainTypes
  <2>2. Longest(attempt[r])' = Longest(attempt[r] + 1)
    BY <2>1 DEF Longest
  <2>3. hurt[r] = 1 => now - start[r] <= Longest(attempt[r] + 1)
    BY <1>1 DEF InTime
  <2>4. attempt[r] + 1 <= Retries /\ attempt[r] + 1 > 0 /\ attempt[r] + 1 # 0
    BY <1>1, <1>3
  <2> QED
    BY <1>1, <1>2, <2>1, <2>2, <2>3, <2>4 DEF InTime, InFlight, Windowing
<1>4. CASE KeepsCalls(r) /\ \E name : GoesOn(r, name)
  <2>1. hurt'[r] = 1 => now - start[r] <= Longest(Retries + 1)
    BY <1>1, <1>2, SoFar
  <2> QED
    BY <1>1, <1>2, <1>4, <2>1, GoesOnInTime
<1>5. CASE EndsWith(r, ChainErrors)
  BY <1>5, EndInTime DEF EndsWith
<1> QED
  BY <1>3, <1>4, <1>5, WakesEffect

LEMMA TimeInTime ==
  ASSUME CallInv, TimeInv, TimePasses
  PROVE  TimeInv'
<1> SUFFICES ASSUME NEW r \in Requests PROVE InTime(r)'
  BY DEF TimeInv
<1>1. UNCHANGED <<pc, start, attempt, hurt, wake>>
  BY TimeKeeps DEF chainVars
<1>2. InTime(r) /\ now \in Nat /\ start[r] \in Nat /\ wake[r] \in Nat
  BY DEF TimeInv, CallInv, FlowTypes, ChainTypes
<1>3. CASE InFlight(r)
  <2>1. now' = now + 1 /\ Asleep(r)
    BY <1>3 DEF TimePasses
  <2> QED
    BY <1>1, <1>2, <1>3, <2>1 DEF InTime, InFlight, Asleep, Longest, Windowing
<1>4. CASE ~InFlight(r)
  BY <1>1, <1>2, <1>4 DEF InTime, InFlight, Windowing
<1> QED
  BY <1>3, <1>4

LEMMA TimeInvKept ==
  ASSUME CallIInv, TimeInv, [Next]_vars
  PROVE  TimeInv'
<1>1. ASSUME NEW r \in Requests, RequestStep(r) PROVE TimeInv'
  <2>1. CallInv /\ StepKeeps(r) /\ InTime(r)
    BY <1>1, RequestStepKeeps DEF CallIInv, TimeInv
  <2>2. InTime(r)'
    BY <1>1, <2>1, WindowsInTime, CallsInTime, BadReplyInTime, WakesInTime DEF RequestStep
  <2> QED
    BY <2>1, <2>2, OthersInTime
<1>2. CASE UNCHANGED vars
  BY <1>2 DEF TimeInv, InTime, InFlight, Longest, vars, chainVars
<1> QED
  BY <1>1, <1>2, TimeInTime DEF Next, CallIInv

(* relay/src/chain/client.ts: as long as the doubling sleeps of one call   *)
(* add up to less than the caller's timeout (with the code's two retries,  *)
(* 7 s of 8), a request with trouble in one call only is answered in time, *)
(* whatever the reply, the call and the others' traffic.                   *)
THEOREM CallsAnswerInTime ==
  ASSUME Second * (2^(Retries + 1) - 1) < ClientTimeout
  PROVE  Spec => []AnsweredInTime
<1>1. Init => TimeInv
  BY DEF Init, TimeInv, InTime, InFlight, Windowing
<1>2. CallIInv /\ TimeInv => AnsweredInTime
  <2> SUFFICES ASSUME CallIInv, TimeInv, NEW r \in Requests, InFlight(r), hurt[r] <= 1
               PROVE  now - start[r] < ClientTimeout
    BY DEF AnsweredInTime
  <2>1. /\ InTime(r) /\ now \in Nat /\ start[r] \in Nat /\ wake[r] \in Nat
        /\ attempt[r] \in Nat /\ attempt[r] <= Retries /\ hurt[r] \in Nat
    BY DEF CallIInv, CallInv, FlowTypes, ChainTypes, TimeInv, InTime
  <2>2. Longest(Retries + 1) \in Nat /\ Longest(Retries + 1) < ClientTimeout
    <3>1. Retries + 1 \in Nat
      OBVIOUS
    <3>2. Longest(Retries + 1) \in Nat
      BY <3>1, LongestGrows
    <3>3. Longest(Retries + 1) < ClientTimeout
      BY DEF Longest
    <3> QED
      BY <3>2, <3>3
  <2>3. CASE pc[r] = "calling"
    BY <2>1, <2>2, <2>3, SoFar DEF CallIInv
  <2>4. CASE pc[r] = "asleep"
    <3>1. attempt[r] + 1 \in Nat /\ Retries + 1 \in Nat /\ attempt[r] + 1 <= Retries + 1
      BY <2>1
    <3>2. Longest(attempt[r] + 1) \in Nat /\ Longest(attempt[r] + 1) <= Longest(Retries + 1)
      BY <3>1, LongestGrows
    <3>3. wake[r] - start[r] <= Longest(attempt[r] + 1) /\ now <= wake[r]
      BY <2>1, <2>4 DEF InTime
    <3> QED
      BY <2>1, <2>2, <3>2, <3>3
  <2>5. CASE pc[r] \in {"reserving"} \union Windowing
    BY <2>1, <2>2, <2>5 DEF InTime, InFlight
  <2> QED
    BY <2>3, <2>4, <2>5 DEF CallIInv, CallInv, FlowTypes, Labels, InFlight, Windowing
<1> QED
  BY <1>1, <1>2, CallTypes, TimeInvKept, PTL DEF Spec

-----------------------------------------------------------------------------
(***************************************************************************)
(* The windows' limit                                                      *)
(***************************************************************************)
(* What a copy of a window (the window itself, one that a put replaced,    *)
(* the one a request has read) may lack of the requests C that were        *)
(* counted: in the hour that ends now or later, no more than n beyond the  *)
(* crowded ones X.                                                         *)
After(S, s) == {e \in S : s < e.at}
Covers(V, C, X, at, n) ==
  \A s \in Int : at - HOUR <= s =>
    Cardinality(After(C \ V, s)) <= Cardinality(After(X, s)) + n

One(e, s) == IF s < e.at THEN 1 ELSE 0

LEMMA FiniteAfter ==
  ASSUME NEW S, IsFiniteSet(S), NEW T \in SUBSET S, NEW s \in Int
  PROVE  /\ IsFiniteSet(After(T, s)) /\ Cardinality(After(T, s)) \in Nat
         /\ IsFiniteSet(T)
<1>1. After(T, s) \in SUBSET S
  BY DEF After
<1> QED
  BY <1>1, FS_Subset, FS_CardinalityType

LEMMA CoversMore ==
  ASSUME NEW C, IsFiniteSet(C), NEW X \in SUBSET C, NEW V, NEW at \in Nat,
         NEW m \in Nat, NEW n \in Nat, m <= n, Covers(V, C, X, at, m)
  PROVE  Covers(V, C, X, at, n)
<1> SUFFICES ASSUME NEW s \in Int, at - HOUR <= s
             PROVE  Cardinality(After(C \ V, s)) <= Cardinality(After(X, s)) + n
  BY DEF Covers
<1>1. Cardinality(After(C \ V, s)) <= Cardinality(After(X, s)) + m
  BY DEF Covers
<1>2. Cardinality(After(C \ V, s)) \in Nat /\ Cardinality(After(X, s)) \in Nat
  BY FiniteAfter
<1> QED
  BY <1>1, <1>2

LEMMA CoversLater ==
  ASSUME NEW C, NEW X, NEW V, NEW n, NEW at \in Nat, NEW at2 \in Nat, at <= at2,
         Covers(V, C, X, at, n)
  PROVE  Covers(V, C, X, at2, n)
<1> SUFFICES ASSUME NEW s \in Int, at2 - HOUR <= s
             PROVE  Cardinality(After(C \ V, s)) <= Cardinality(After(X, s)) + n
  BY DEF Covers
<1>1. at - HOUR <= s
  BY DEF HOUR, Second
<1> QED
  BY <1>1 DEF Covers

(* What a window forgets, it no longer has to cover.                       *)
LEMMA CoversRecent ==
  ASSUME NEW C \in SUBSET Entries, IsFiniteSet(C), NEW X \in SUBSET C, NEW V, NEW at \in Nat,
         NEW n \in Nat, Covers(V, C, X, at, n)
  PROVE  Covers(Recent(V, at), C, X, at, n)
<1> SUFFICES ASSUME NEW s \in Int, at - HOUR <= s
             PROVE  Cardinality(After(C \ Recent(V, at), s)) <= Cardinality(After(X, s)) + n
  BY DEF Covers
<1>1. After(C \ Recent(V, at), s) \in SUBSET After(C \ V, s)
  <2> SUFFICES ASSUME NEW e \in C, e \notin Recent(V, at), s < e.at
               PROVE  e \notin V
    BY DEF After
  <2>1. e.at \in Nat
    BY DEF Entries
  <2>2. at - e.at < HOUR
    BY <2>1 DEF HOUR, Second
  <2> QED
    BY <2>2 DEF Recent
<1>2. Cardinality(After(C \ V, s)) <= Cardinality(After(X, s)) + n
  BY DEF Covers
<1>3. IsFiniteSet(After(C \ V, s)) /\ Cardinality(After(C \ V, s)) \in Nat
      /\ Cardinality(After(X, s)) \in Nat
  BY FiniteAfter
<1>4. /\ Cardinality(After(C \ Recent(V, at), s)) <= Cardinality(After(C \ V, s))
      /\ Cardinality(After(C \ Recent(V, at), s)) \in Nat
  BY <1>1, <1>3, FS_Subset, FS_CardinalityType
<1> QED
  BY <1>2, <1>3, <1>4

(* One more entry e in a set, as After counts it.                          *)
LEMMA AfterOneMore ==
  ASSUME NEW S \in SUBSET Entries, IsFiniteSet(S), NEW e \in Entries, e \notin S, NEW s \in Int
  PROVE  Cardinality(After(S \union {e}, s))
           = Cardinality(After(S, s)) + One(e, s)
<1>1. IsFiniteSet(After(S, s)) /\ Cardinality(After(S, s)) \in Nat /\ e \notin After(S, s)
  BY FiniteAfter DEF After
<1>2. CASE s < e.at
  <2>1. After(S \union {e}, s) = After(S, s) \union {e}
    BY <1>2 DEF After
  <2> QED
    BY <1>1, <1>2, <2>1, FS_AddElement DEF One
<1>3. CASE ~(s < e.at)
  <2>1. After(S \union {e}, s) = After(S, s)
    BY <1>3 DEF After
  <2> QED
    BY <1>1, <1>3, <2>1 DEF One
<1> QED
  BY <1>2, <1>3

(* A copy that does not know of a request just counted lacks one more, at  *)
(* most.                                                                   *)
LEMMA LacksOneMore ==
  ASSUME NEW C \in SUBSET Entries, IsFiniteSet(C), NEW e \in Entries, e \notin C, NEW V,
         NEW s \in Int
  PROVE  /\ Cardinality(After((C \union {e}) \ V, s))
              <= Cardinality(After(C \ V, s)) + One(e, s)
         /\ Cardinality(After((C \union {e}) \ V, s)) \in Nat
         /\ Cardinality(After(C \ V, s)) \in Nat
<1>1. IsFiniteSet(C \ V) /\ C \ V \in SUBSET Entries /\ e \notin C \ V
  BY FS_Subset
<1>2. Cardinality(After((C \ V) \union {e}, s))
        = Cardinality(After(C \ V, s)) + One(e, s)
  BY <1>1, AfterOneMore
<1>3. Cardinality(After(C \ V, s)) \in Nat /\ One(e, s) \in Nat
  BY FiniteAfter DEF One
<1>4. CASE e \notin V
  <2>1. Cardinality(After((C \union {e}) \ V, s)) = Cardinality(After((C \ V) \union {e}, s))
    <3>1. (C \union {e}) \ V = (C \ V) \union {e}
      BY <1>4
    <3> QED
      BY <3>1
  <2> QED
    BY <1>2, <1>3, <2>1
<1>5. CASE e \in V
  <2>1. Cardinality(After((C \union {e}) \ V, s)) = Cardinality(After(C \ V, s))
    <3>1. (C \union {e}) \ V = C \ V
      BY <1>5
    <3> QED
      BY <3>1
  <2> QED
    BY <1>3, <2>1
<1> QED
  BY <1>4, <1>5

(* The request just counted was crowded: every other copy is as good as it *)
(* was.                                                                    *)
LEMMA PutCrowded ==
  ASSUME NEW C \in SUBSET Entries, IsFiniteSet(C), NEW X \in SUBSET C, NEW e \in Entries,
         e \notin C, NEW V, NEW at \in Nat, NEW n \in Nat, Covers(V, C, X, at, n)
  PROVE  Covers(V, C \union {e}, X \union {e}, at, n)
<1> SUFFICES ASSUME NEW s \in Int, at - HOUR <= s
             PROVE  Cardinality(After((C \union {e}) \ V, s))
                      <= Cardinality(After(X \union {e}, s)) + n
  BY DEF Covers
<1>1. Cardinality(After(C \ V, s)) <= Cardinality(After(X, s)) + n
  BY DEF Covers
<1>2. IsFiniteSet(X) /\ X \in SUBSET Entries /\ e \notin X /\ Cardinality(After(X, s)) \in Nat
  BY FiniteAfter
<1>3. Cardinality(After(X \union {e}, s))
        = Cardinality(After(X, s)) + One(e, s)
  BY <1>2, AfterOneMore
<1>4. /\ Cardinality(After((C \union {e}) \ V, s)) <= Cardinality(After(C \ V, s)) + One(e, s)
      /\ Cardinality(After((C \union {e}) \ V, s)) \in Nat
      /\ Cardinality(After(C \ V, s)) \in Nat /\ One(e, s) \in Nat
  BY LacksOneMore DEF One
<1> QED
  BY <1>1, <1>2, <1>3, <1>4

(* It was not: they lack one more.                                         *)
LEMMA PutUncrowded ==
  ASSUME NEW C \in SUBSET Entries, IsFiniteSet(C), NEW X \in SUBSET C, NEW e \in Entries,
         e \notin C, NEW V, NEW at \in Nat, Covers(V, C, X, at, 0)
  PROVE  Covers(V, C \union {e}, X, at, 1)
<1> SUFFICES ASSUME NEW s \in Int, at - HOUR <= s
             PROVE  Cardinality(After((C \union {e}) \ V, s)) <= Cardinality(After(X, s)) + 1
  BY DEF Covers
<1>1. Cardinality(After(C \ V, s)) <= Cardinality(After(X, s)) + 0
  BY DEF Covers
<1>2. Cardinality(After(X, s)) \in Nat
  BY FiniteAfter
<1>3. /\ Cardinality(After((C \union {e}) \ V, s)) <= Cardinality(After(C \ V, s)) + One(e, s)
      /\ Cardinality(After((C \union {e}) \ V, s)) \in Nat
      /\ Cardinality(After(C \ V, s)) \in Nat /\ One(e, s) \in {0, 1}
  BY LacksOneMore DEF One
<1> QED
  BY <1>1, <1>2, <1>3

(* What a put writes lacks what its request read without, and has the      *)
(* request itself.                                                         *)
LEMMA Own ==
  ASSUME NEW C, NEW X, NEW e, e \notin C, NEW V, NEW at, Covers(V, C, X, at, 0)
  PROVE  Covers(V \union {e}, C \union {e}, X, at, 0)
<1>1. CASE e \notin V
  <2>1. (C \union {e}) \ (V \union {e}) = C \ V
    OBVIOUS
  <2> QED
    BY <2>1 DEF Covers
<1>2. CASE e \in V
  <2>1. (C \union {e}) \ (V \union {e}) = C \ V
    BY <1>2
  <2> QED
    BY <2>1 DEF Covers
<1> QED
  BY <1>1, <1>2

LEMMA OwnCrowded ==
  ASSUME NEW C \in SUBSET Entries, IsFiniteSet(C), NEW X \in SUBSET C, NEW e \in Entries,
         e \notin C, NEW V, NEW at \in Nat, e.at = at, \A c \in C : c.at <= at,
         Covers(V, C, X, at, 1)
  PROVE  Covers(V \union {e}, C \union {e}, X \union {e}, at, 0)
<1> SUFFICES ASSUME NEW s \in Int, at - HOUR <= s
             PROVE  Cardinality(After((C \union {e}) \ (V \union {e}), s))
                      <= Cardinality(After(X \union {e}, s)) + 0
  BY DEF Covers
<1>1. Cardinality(After((C \union {e}) \ (V \union {e}), s)) = Cardinality(After(C \ V, s))
  <2>1. (C \union {e}) \ (V \union {e}) = C \ V
    OBVIOUS
  <2> QED
    BY <2>1
<1>2. Cardinality(After(C \ V, s)) <= Cardinality(After(X, s)) + 1
  BY DEF Covers
<1>3. /\ IsFiniteSet(X) /\ X \in SUBSET Entries /\ e \notin X /\ Cardinality(After(X, s)) \in Nat
      /\ Cardinality(After(C \ V, s)) \in Nat
  BY FiniteAfter
<1>4. Cardinality(After(X \union {e}, s))
        = Cardinality(After(X, s)) + One(e, s)
  BY <1>3, AfterOneMore
<1>5. CASE s < at
  <2>1. One(e, s) = 1
    BY <1>5 DEF One
  <2> QED
    BY <1>1, <1>2, <1>3, <1>4, <2>1
<1>6. CASE ~(s < at)
  <2>1. After(C \ V, s) = {}
    <3>1. \A c \in C : ~(s < c.at)
      <4> SUFFICES ASSUME NEW c \in C PROVE ~(s < c.at)
        OBVIOUS
      <4>1. c.at \in Nat /\ c.at <= at
        BY DEF Entries
      <4> QED
        BY <1>6, <4>1
    <3> QED
      BY <3>1 DEF After
  <2>2. Cardinality(After(C \ V, s)) = 0
    BY <2>1, FS_EmptySet
  <2>3. One(e, s) = 0
    BY <1>6 DEF One
  <2> QED
    BY <1>1, <1>3, <1>4, <2>2, <2>3
<1> QED
  BY <1>5, <1>6

(* A covering copy within the limit: the hour of any moment from now on    *)
(* holds no more than the limit and the crowded ones.                      *)
LEMMA Fits ==
  ASSUME NEW C \in SUBSET Entries, IsFiniteSet(C), NEW X \in SUBSET C, NEW V, IsFiniteSet(V),
         NEW L \in Nat, Cardinality(V) <= L, NEW at \in Nat, \A c \in C : c.at <= at,
         Covers(V, C, X, at, 0), NEW t \in Nat, at <= t
  PROVE  Cardinality(InHour(C, t)) <= L + Cardinality(InHour(X, t))
<1> DEFINE s == t - HOUR
<1>1. s \in Int /\ at - HOUR <= s
  BY DEF HOUR, Second
<1>2. InHour(C, t) = After(C, s) /\ InHour(X, t) = After(X, s)
  <2>1. \A c \in C : c.at <= t
    <3> SUFFICES ASSUME NEW c \in C PROVE c.at <= t
      OBVIOUS
    <3>1. c.at \in Nat /\ c.at <= at
      BY DEF Entries
    <3> QED
      BY <3>1
  <2> QED
    BY <2>1 DEF InHour, After
<1> HIDE DEF s
<1>3. Cardinality(After(C \ V, s)) <= Cardinality(After(X, s)) + 0
  BY <1>1 DEF Covers
<1>4. /\ IsFiniteSet(After(C \ V, s)) /\ Cardinality(After(C \ V, s)) \in Nat
      /\ Cardinality(After(X, s)) \in Nat /\ Cardinality(V) \in Nat
  BY <1>1, FiniteAfter, FS_CardinalityType
<1>5. After(C, s) \in SUBSET (After(C \ V, s) \union V)
  BY DEF After
<1>6. /\ IsFiniteSet(After(C \ V, s) \union V)
      /\ Cardinality(After(C \ V, s) \union V) <= Cardinality(After(C \ V, s)) + Cardinality(V)
      /\ Cardinality(After(C \ V, s) \union V) \in Nat
  <2>1. /\ IsFiniteSet(After(C \ V, s) \union V)
        /\ Cardinality(After(C \ V, s) \union V)
             = Cardinality(After(C \ V, s)) + Cardinality(V)
                 - Cardinality(After(C \ V, s) \intersect V)
    BY <1>4, FS_Union
  <2>2. Cardinality(After(C \ V, s) \intersect V) \in Nat
    BY <1>4, FS_Intersection, FS_CardinalityType
  <2>3. Cardinality(After(C \ V, s) \union V) \in Nat
    BY <2>1, FS_CardinalityType
  <2> QED
    BY <1>4, <2>1, <2>2, <2>3
<1>7. Cardinality(After(C, s)) <= Cardinality(After(C \ V, s) \union V)
      /\ Cardinality(After(C, s)) \in Nat
  BY <1>5, <1>6, FS_Subset, FS_CardinalityType
<1> QED
  BY <1>2, <1>3, <1>4, <1>6, <1>7

(* r is between its get and its put of the window of key; alone if nobody  *)
(* else was, and no put was younger than a minute, when it read.           *)
Handles(r, key) == InPut(r) /\ KeyOf(r) = key
Alone(r, key)   == Handles(r, key) /\ <<key, r>> \notin crowded

(* The copies that are not the window itself may lack one request that was *)
(* not crowded, once that one is counted.                                  *)
Slack(key) == IF \E r \in Requests : Alone(r, key) THEN 0 ELSE 1
SlackOf(r, key) == IF <<key, r>> \in crowded THEN Slack(key) ELSE 0

Lacks(V, key, n) == Covers(V, Counted(key), Crowded(key), now, n)

KeyInv(key) ==
  /\ Lacks(window[key], key, 0)
  /\ \A o \in Replaced(key) : Lacks(o.entries, key, Slack(key))
  /\ \A r \in Requests : Handles(r, key) => Lacks(seen[r], key, SlackOf(r, key))
  /\ \A q, r \in Requests : Alone(q, key) /\ Alone(r, key) => q = r
  /\ \A t \in Nat : Cardinality(InHour(Counted(key), t))
                      <= LimitOf(key) + Cardinality(InHour(Crowded(key), t))

(* A request is counted once in a window.                                  *)
Past(r, key) == pc[r] \notin {"new", "origin", "originPut"} /\ (key = "global" => ~InWindow(r))

CountInv(key) ==
  /\ IsFiniteSet(Counted(key)) /\ IsFiniteSet(window[key])
  /\ \A o \in older[key] : IsFiniteSet(o.entries)
  /\ \A e \in Counted(key) : e.at <= now /\ Past(e.by, key)
  /\ day.atomic => older[key] = {}

ReaderInv(r) ==
  /\ InWindow(r) => start[r] = now
  /\ InPut(r) => /\ ~day.atomic /\ IsFiniteSet(seen[r])
                 /\ Cardinality(seen[r]) < LimitOf(KeyOf(r))

LimitInv ==
  /\ \A r \in Requests : ReaderInv(r)
  /\ \A key \in Keys : CountInv(key) /\ KeyInv(key)

LEMMA SlackIs == ASSUME NEW key PROVE Slack(key) \in {0, 1} /\ Slack(key) \in Nat
BY DEF Slack

LEMMA SlackOfIs ==
  ASSUME NEW r, NEW key PROVE SlackOf(r, key) \in Nat /\ SlackOf(r, key) <= Slack(key)
<1>1. Slack(key) \in {0, 1}
  BY SlackIs
<1>2. 0 <= Slack(key) /\ Slack(key) <= Slack(key) /\ 0 \in Nat /\ Slack(key) \in Nat
  BY <1>1
<1> QED
  BY <1>2, Zenon DEF SlackOf

LEMMA LimitType == ASSUME NEW key PROVE LimitOf(key) \in Nat
BY DEF LimitOf

LEMMA CountedEntries ==
  ASSUME WindowTypes, NEW key \in Keys
  PROVE  Counted(key) \in SUBSET Entries /\ Crowded(key) \in SUBSET Counted(key)
BY DEF WindowTypes, Counted, Crowded

(* Nothing of a window's has changed.                                      *)
LEMMA KeyKept ==
  ASSUME CallIInv, NEW key \in Keys, CountInv(key), KeyInv(key),
         now' = now, window'[key] = window[key], older'[key] = older[key],
         Counted(key)' = Counted(key), Crowded(key)' = Crowded(key),
         \A r \in Requests : /\ Handles(r, key)' = Handles(r, key)
                             /\ Handles(r, key) => seen'[r] = seen[r]
                             /\ Handles(r, key) =>
                                  (<<key, r>> \in crowded' <=> <<key, r>> \in crowded)
  PROVE  KeyInv(key)'
<1>1. \A V, n : Lacks(V, key, n) => Lacks(V, key, n)'
  BY DEF Lacks
<1>2. \A r \in Requests : Alone(r, key)' = Alone(r, key)
  BY DEF Alone
<1>3. Slack(key)' = Slack(key)
  BY <1>2 DEF Slack
<1>4. \A r \in Requests : Handles(r, key) => SlackOf(r, key)' = SlackOf(r, key)
  BY <1>3 DEF SlackOf
<1>5. Replaced(key)' = Replaced(key)
  BY DEF Replaced
<1>6. Lacks(window[key], key, 0)'
  <2>1. Lacks(window[key], key, 0)
    BY DEF KeyInv
  <2> QED
    BY <1>1, <2>1 DEF Lacks
<1>7. ASSUME NEW o \in Replaced(key)' PROVE Lacks(o.entries, key, Slack(key))'
  <2>1. Lacks(o.entries, key, Slack(key))
    BY <1>5, <1>7 DEF KeyInv
  <2> QED
    BY <1>3, <2>1 DEF Lacks
<1>8. ASSUME NEW r \in Requests, Handles(r, key)' PROVE Lacks(seen[r], key, SlackOf(r, key))'
  <2>1. Handles(r, key) /\ Lacks(seen[r], key, SlackOf(r, key))
    BY <1>8 DEF KeyInv
  <2>2. seen'[r] = seen[r] /\ SlackOf(r, key)' = SlackOf(r, key)
    BY <1>4, <2>1
  <2> QED
    BY <2>1, <2>2 DEF Lacks
<1>9. \A q, r \in Requests : Alone(q, key)' /\ Alone(r, key)' => q = r
  BY <1>2 DEF KeyInv
<1>10. \A t \in Nat : Cardinality(InHour(Counted(key), t)')
                        <= LimitOf(key) + Cardinality(InHour(Crowded(key), t)')
  BY DEF KeyInv, InHour
<1> QED
  BY <1>6, <1>7, <1>8, <1>9, <1>10 DEF KeyInv, LimitOf

(* r reads a copy of the window: it lacks no more than that copy does, and *)
(* nothing when r is alone, for then there is but the window.              *)
LEMMA GetKey ==
  ASSUME CallIInv, NEW r \in Requests, NEW key \in Keys, KeyOf(r) = key, CountInv(key),
         KeyInv(key), ~Handles(r, key), NEW V \in Readable(key),
         now' = now, window' = window, older' = older,
         Counted(key)' = Counted(key), Crowded(key)' = Crowded(key),
         crowded' = IF Crowd(r) THEN crowded \union {<<key, r>>} ELSE crowded,
         seen'[r] = Recent(V, now), \A q \in Requests \ {r} : seen'[q] = seen[q],
         \A q \in Requests : Handles(q, key)' <=> (Handles(q, key) \/ q = r)
  PROVE  KeyInv(key)'
<1> DEFINE C == Counted(key)
           X == Crowded(key)
<1>1. C \in SUBSET Entries /\ X \in SUBSET C /\ IsFiniteSet(C) /\ now \in Nat
  BY CountedEntries DEF CallIInv, CallInv, FlowTypes, CountInv
<1>2. \A W, n : Lacks(W, key, n)' <=> Lacks(W, key, n)
  BY DEF Lacks
<1>3. Replaced(key)' = Replaced(key)
  BY DEF Replaced
<1>4. Lacks(V, key, Slack(key)) /\ (Replaced(key) = {} => Lacks(V, key, 0))
  <2>1. Lacks(window[key], key, 0)
    BY DEF KeyInv
  <2>2. Lacks(window[key], key, Slack(key))
    <3>1. Slack(key) \in Nat /\ 0 \in Nat /\ 0 <= Slack(key)
      BY SlackIs
    <3> QED
      BY <1>1, <2>1, <3>1, CoversMore DEF Lacks
  <2>3. V = window[key] \/ \E o \in Replaced(key) : V = o.entries
    BY ReadableIs DEF CallIInv
  <2> QED
    BY <2>1, <2>2, <2>3 DEF KeyInv
<1>5. \A q \in Requests \ {r} : (Alone(q, key)' <=> Alone(q, key))
  BY DEF Alone
<1>6. ~Alone(r, key)
  BY DEF Alone
<1>7. \A t \in Nat : Cardinality(InHour(Counted(key), t)')
                       <= LimitOf(key) + Cardinality(InHour(Crowded(key), t)')
  BY DEF KeyInv, InHour
<1>8. CASE Crowd(r)
  <2>1. <<key, r>> \in crowded' /\ \A q \in Requests : (Alone(q, key)' <=> Alone(q, key))
    <3>1. <<key, r>> \in crowded'
      BY <1>8
    <3>2. ~Alone(r, key)'
      BY <3>1 DEF Alone
    <3> QED
      BY <1>5, <1>6, <3>1, <3>2, Zenon
  <2>2. Slack(key)' = Slack(key)
    BY <2>1 DEF Slack
  <2>3. Lacks(seen[r], key, SlackOf(r, key))'
    <3>1. SlackOf(r, key)' = Slack(key)
      BY <2>1, <2>2 DEF SlackOf
    <3>2. Lacks(Recent(V, now), key, Slack(key))
      BY <1>1, <1>4, SlackIs, CoversRecent DEF Lacks
    <3> QED
      BY <3>1, <3>2 DEF Lacks
  <2>4. ASSUME NEW q \in Requests \ {r}, Handles(q, key)'
        PROVE  Lacks(seen[q], key, SlackOf(q, key))'
    <3>1. Handles(q, key) /\ Lacks(seen[q], key, SlackOf(q, key))
      BY <2>4 DEF KeyInv
    <3>2. SlackOf(q, key)' = SlackOf(q, key)
      <4>1. <<key, q>> \in crowded' <=> <<key, q>> \in crowded
        BY <1>8
      <4> QED
        BY <2>2, <4>1 DEF SlackOf
    <3> QED
      BY <3>1, <3>2 DEF Lacks
  <2>5. \A o \in Replaced(key)' : Lacks(o.entries, key, Slack(key))'
    BY <1>2, <1>3, <2>2 DEF KeyInv
  <2>6. Lacks(window[key], key, 0)'
    BY <1>2 DEF KeyInv
  <2>7. \A q, u \in Requests : Alone(q, key)' /\ Alone(u, key)' => q = u
    BY <2>1 DEF KeyInv
  <2> QED
    BY <1>7, <2>3, <2>4, <2>5, <2>6, <2>7 DEF KeyInv, LimitOf
<1>9. CASE ~Crowd(r)
  <2>1. Replaced(key) = {} /\ \A q \in Requests \ {r} : ~Handles(q, key)
    BY <1>9 DEF Crowd, Handles
  <2>2. \A q \in Requests : Handles(q, key)' => q = r
    BY <2>1
  <2>3. \A q, u \in Requests : Alone(q, key)' /\ Alone(u, key)' => q = u
    BY <2>2 DEF Alone
  <2>4. Lacks(seen[r], key, SlackOf(r, key))'
    <3>1. Lacks(Recent(V, now), key, 0)
      BY <1>1, <1>4, <2>1, CoversRecent DEF Lacks
    <3>2. SlackOf(r, key)' \in Nat /\ 0 <= SlackOf(r, key)'
      <4>1. SlackOf(r, key)' = 0 \/ SlackOf(r, key)' = 1
        BY DEF SlackOf, Slack
      <4> QED
        BY <4>1
    <3>3. Lacks(Recent(V, now), key, SlackOf(r, key)')
      BY <1>1, <3>1, <3>2, CoversMore DEF Lacks
    <3> QED
      BY <3>3 DEF Lacks
  <2>5. Lacks(window[key], key, 0)'
    BY <1>2 DEF KeyInv
  <2>6. \A q \in Requests : Handles(q, key)' => Lacks(seen[q], key, SlackOf(q, key))'
    BY <2>2, <2>4
  <2>7. \A o \in Replaced(key)' : Lacks(o.entries, key, Slack(key))'
    BY <1>3, <2>1
  <2> QED
    BY <1>7, <2>3, <2>5, <2>6, <2>7 DEF KeyInv, LimitOf
<1> QED
  BY <1>8, <1>9

(* r is counted: the copy it writes lacks nothing, and within the limit;   *)
(* the others lack r, whom its own crowd allows for, or whom nobody had    *)
(* been allowed for.                                                       *)
LEMMA AdmitKey ==
  ASSUME CallIInv, NEW r \in Requests, NEW key \in Keys, CountInv(key), KeyInv(key),
         Entry(r).at = now, Entry(r) \notin Counted(key),
         NEW V, IsFiniteSet(V), Cardinality(V) < LimitOf(key), Lacks(V, key, SlackOf(r, key)),
         \/ <<key, r>> \in crowded
         \/ Alone(r, key)
         \/ Replaced(key) = {} /\ \A q \in Requests : ~Handles(q, key),
         now' = now, crowded' = crowded, window'[key] = V \union {Entry(r)},
         Counted(key)' = Counted(key) \union {Entry(r)},
         Replaced(key)' \in SUBSET (Replaced(key) \union {Version(key)}),
         \A q \in Requests \ {r} : seen'[q] = seen[q],
         \A q \in Requests : Handles(q, key)' <=> (Handles(q, key) /\ q # r)
  PROVE  KeyInv(key)'
<1> DEFINE C == Counted(key)
           X == Crowded(key)
           e == Entry(r)
<1>1. /\ C \in SUBSET Entries /\ X \in SUBSET C /\ IsFiniteSet(C) /\ now \in Nat
      /\ e \in Entries /\ e \notin C /\ e.by = r /\ e.at = now /\ \A c \in C : c.at <= now
  BY CountedEntries, EntryIsEntry DEF CallIInv, CallInv, FlowTypes, CountInv, Entry
<1>2. Counted(key)' = C \union {e}
  OBVIOUS
<1>3. Crowded(key)' = IF <<key, r>> \in crowded THEN X \union {e} ELSE X
  BY <1>1, <1>2 DEF Crowded
<1>4. Lacks(window[key], key, 0) /\ SlackOf(r, key) \in Nat /\ SlackOf(r, key) <= 1
  BY SlackOfIs, SlackIs DEF KeyInv
<1> HIDE DEF C, X, e
<1> DEFINE Copies == /\ Covers(V \union {e}, Counted(key)', Crowded(key)', now, 0)
                     /\ \A o \in Replaced(key)' : Lacks(o.entries, key, Slack(key))'
                     /\ \A q \in Requests : Handles(q, key)' =>
                          Lacks(seen[q], key, SlackOf(q, key))'
                     /\ \A q, u \in Requests : Alone(q, key)' /\ Alone(u, key)' => q = u
<1>5. ASSUME <<key, r>> \in crowded PROVE Copies
  <2>1. \A q \in Requests : Alone(q, key)' = Alone(q, key)
    BY <1>5 DEF Alone
  <2>2. Slack(key)' = Slack(key) /\ \A q \in Requests : SlackOf(q, key)' = SlackOf(q, key)
    BY <2>1 DEF Slack, SlackOf
  <2>3. ASSUME NEW W, NEW n \in Nat, Lacks(W, key, n)
        PROVE  Covers(W, Counted(key)', Crowded(key)', now', n)
    <3>1. Covers(W, C, X, now, n)
      BY <2>3 DEF Lacks, C, X
    <3>2. Covers(W, C \union {e}, X \union {e}, now, n)
      BY <1>1, <3>1, PutCrowded
    <3> QED
      BY <1>2, <1>3, <1>5, <3>2
  <2>4. Covers(V \union {e}, Counted(key)', Crowded(key)', now, 0)
    <3>1. Covers(V, C, X, now, 1)
      <4>1. Covers(V, C, X, now, SlackOf(r, key))
        BY DEF Lacks, C, X
      <4> QED
        BY <1>1, <1>4, <4>1, CoversMore
    <3>2. Covers(V \union {e}, C \union {e}, X \union {e}, now, 0)
      BY <1>1, <3>1, OwnCrowded
    <3> QED
      BY <1>2, <1>3, <1>5, <3>2
  <2>5. \A o \in Replaced(key)' : Lacks(o.entries, key, Slack(key))'
    <3> SUFFICES ASSUME NEW o \in Replaced(key)' PROVE Lacks(o.entries, key, Slack(key))'
      OBVIOUS
    <3>1. Lacks(o.entries, key, Slack(key))
      <4>1. CASE o \in Replaced(key)
        BY <4>1 DEF KeyInv
      <4>2. CASE o = Version(key)
        <5>1. Lacks(window[key], key, Slack(key))
          <6>1. Slack(key) \in Nat /\ 0 \in Nat /\ 0 <= Slack(key)
            BY SlackIs
          <6> QED
            BY <1>1, <1>4, <6>1, CoversMore DEF Lacks, C, X
        <5> QED
          BY <4>2, <5>1 DEF Version
      <4> QED
        BY <4>1, <4>2
    <3>2. Covers(o.entries, Counted(key)', Crowded(key)', now', Slack(key))
      BY <2>3, <3>1, SlackIs
    <3> QED
      BY <2>2, <3>2 DEF Lacks
  <2>6. \A q \in Requests : Handles(q, key)' => Lacks(seen[q], key, SlackOf(q, key))'
    <3> SUFFICES ASSUME NEW q \in Requests, Handles(q, key), q # r
                 PROVE  Lacks(seen[q], key, SlackOf(q, key))'
      OBVIOUS
    <3>1. Lacks(seen[q], key, SlackOf(q, key))
      BY DEF KeyInv
    <3>2. Covers(seen[q], Counted(key)', Crowded(key)', now', SlackOf(q, key))
      BY <2>3, <3>1, SlackOfIs
    <3>3. SlackOf(q, key)' = SlackOf(q, key) /\ seen'[q] = seen[q]
      BY <2>2
    <3> QED
      BY <3>2, <3>3 DEF Lacks
  <2>7. \A q, u \in Requests : Alone(q, key)' /\ Alone(u, key)' => q = u
    BY <2>1 DEF KeyInv
  <2> QED
    BY <2>4, <2>5, <2>6, <2>7
<1>6. ASSUME <<key, r>> \notin crowded PROVE Copies
  <2>1. \A q \in Requests : ~Alone(q, key)'
    BY <1>6 DEF Alone, KeyInv
  <2>2. Slack(key)' = 1
    BY <2>1 DEF Slack
  <2>3. ASSUME NEW W, Lacks(W, key, 0)
        PROVE  Covers(W, Counted(key)', Crowded(key)', now', 1)
    <3>1. Covers(W, C, X, now, 0)
      BY <2>3 DEF Lacks, C, X
    <3>2. Covers(W, C \union {e}, X, now, 1)
      BY <1>1, <3>1, PutUncrowded
    <3> QED
      BY <1>2, <1>3, <1>6, <3>2
  <2>4. Covers(V \union {e}, Counted(key)', Crowded(key)', now, 0)
    <3>1. SlackOf(r, key) = 0
      BY <1>6 DEF SlackOf
    <3>2. Covers(V, C, X, now, 0)
      BY <3>1 DEF Lacks, C, X
    <3>3. Covers(V \union {e}, C \union {e}, X, now, 0)
      BY <1>1, <3>2, Own
    <3> QED
      BY <1>2, <1>3, <1>6, <3>3
  <2>5. \A o \in Replaced(key)' : Lacks(o.entries, key, Slack(key))'
    <3> SUFFICES ASSUME NEW o \in Replaced(key)' PROVE Lacks(o.entries, key, Slack(key))'
      OBVIOUS
    <3>1. Lacks(o.entries, key, 0)
      <4>1. CASE o \in Replaced(key)
        <5>1. Alone(r, key)
          BY <1>6, <4>1
        <5>2. Slack(key) = 0
          BY <5>1 DEF Slack
        <5> QED
          BY <4>1, <5>2 DEF KeyInv
      <4>2. CASE o = Version(key)
        BY <1>4, <4>2 DEF Version
      <4> QED
        BY <4>1, <4>2
    <3>2. Covers(o.entries, Counted(key)', Crowded(key)', now', 1)
      BY <2>3, <3>1
    <3> QED
      BY <2>2, <3>2 DEF Lacks
  <2>6. \A q \in Requests : Handles(q, key)' => Lacks(seen[q], key, SlackOf(q, key))'
    <3> SUFFICES ASSUME NEW q \in Requests, Handles(q, key), q # r
                 PROVE  Lacks(seen[q], key, SlackOf(q, key))'
      OBVIOUS
    <3>1. Alone(r, key)
      BY <1>6
    <3>2. Slack(key) = 0
      BY <3>1 DEF Slack
    <3>3. <<key, q>> \in crowded
      BY <3>1 DEF KeyInv, Alone
    <3>4. SlackOf(q, key) = 0 /\ SlackOf(q, key)' = 1
      BY <2>2, <3>2, <3>3 DEF SlackOf
    <3>5. Lacks(seen[q], key, 0)
      BY <3>4 DEF KeyInv
    <3>6. Covers(seen[q], Counted(key)', Crowded(key)', now', 1) /\ seen'[q] = seen[q]
      BY <2>3, <3>5
    <3> QED
      BY <3>4, <3>6 DEF Lacks
  <2>7. \A q, u \in Requests : Alone(q, key)' /\ Alone(u, key)' => q = u
    BY <2>1
  <2> QED
    BY <2>4, <2>5, <2>6, <2>7
<1>7. Copies
  BY <1>5, <1>6
<1> HIDE DEF Copies
<1>8. ASSUME NEW t \in Nat
      PROVE  Cardinality(InHour(Counted(key)', t))
               <= LimitOf(key) + Cardinality(InHour(Crowded(key)', t))
  <2>1. CASE now <= t
    <3>1. /\ Counted(key)' \in SUBSET Entries /\ Crowded(key)' \in SUBSET Counted(key)'
          /\ IsFiniteSet(Counted(key)') /\ \A c \in Counted(key)' : c.at <= now
      <4>1. IsFiniteSet(C \union {e})
        BY <1>1, FS_AddElement
      <4>2. C \union {e} \in SUBSET Entries /\ \A c \in C \union {e} : c.at <= now
        BY <1>1
      <4>3. Crowded(key)' \in SUBSET (C \union {e})
        BY <1>1, <1>3
      <4> QED
        BY <1>2, <4>1, <4>2, <4>3
    <3>2. /\ IsFiniteSet(V \union {e}) /\ Cardinality(V \union {e}) <= LimitOf(key)
          /\ LimitOf(key) \in Nat
      <4>1. /\ IsFiniteSet(V \union {e})
            /\ Cardinality(V \union {e}) = Cardinality(V) \/ Cardinality(V \union {e}) = Cardinality(V) + 1
        BY FS_AddElement
      <4> QED
        BY <4>1, LimitType, FS_CardinalityType
    <3>3. Covers(V \union {e}, Counted(key)', Crowded(key)', now, 0)
      BY <1>7 DEF Copies
    <3> QED
      BY <1>1, <2>1, <3>1, <3>2, <3>3, Fits
  <2>2. CASE t < now
    <3>1. InHour(Counted(key)', t) = InHour(C, t) /\ InHour(Crowded(key)', t) = InHour(X, t)
      <4>1. ~(e.at <= t)
        BY <1>1, <2>2
      <4>2. InHour(C \union {e}, t) = InHour(C, t) /\ InHour(X \union {e}, t) = InHour(X, t)
        BY <4>1 DEF InHour
      <4> QED
        BY <1>2, <1>3, <4>2
    <3>2. Cardinality(InHour(C, t)) <= LimitOf(key) + Cardinality(InHour(X, t))
      BY DEF KeyInv, C, X
    <3> QED
      BY <3>1, <3>2
  <2> QED
    BY <1>1, <2>1, <2>2
<1>9. Lacks(window[key], key, 0)'
  <2>1. Covers(V \union {e}, Counted(key)', Crowded(key)', now, 0)
    BY <1>7 DEF Copies
  <2> QED
    BY <2>1 DEF Lacks, e
<1> QED
  BY <1>7, <1>8, <1>9 DEF KeyInv, Copies, LimitOf

(* The requests that do not move keep their place at the windows.          *)
LEMMA OthersStay ==
  ASSUME CallIInv, NEW r \in Requests, StepKeeps(r), NEW q \in Requests \ {r}
  PROVE  /\ \A key : (Handles(q, key)' <=> Handles(q, key)) /\ (Past(q, key)' <=> Past(q, key))
         /\ seen'[q] = seen[q]
         /\ ReaderInv(q) => ReaderInv(q)'
<1>1. pc'[q] = pc[q] /\ start'[q] = start[q] /\ seen'[q] = seen[q] /\ now' = now /\ day' = day
  BY DEF StepKeeps, Only
<1>2. (InPut(q)' <=> InPut(q)) /\ (InWindow(q)' <=> InWindow(q)) /\ KeyOf(q)' = KeyOf(q)
  BY <1>1 DEF InPut, InWindow, KeyOf
<1>3. \A key : (Handles(q, key)' <=> Handles(q, key)) /\ (Past(q, key)' <=> Past(q, key))
  BY <1>1, <1>2 DEF Handles, Past
<1>4. ReaderInv(q) => ReaderInv(q)'
  BY <1>1, <1>2 DEF ReaderInv, LimitOf
<1> QED
  BY <1>1, <1>3, <1>4

LEMMA CountKept ==
  ASSUME CallIInv, NEW r \in Requests, StepKeeps(r), NEW key \in Keys, CountInv(key),
         Past(r, key) => Past(r, key)',
         Counted(key)' = Counted(key), window'[key] = window[key], older'[key] = older[key]
  PROVE  CountInv(key)'
<1>1. now' = now /\ day' = day
  BY DEF StepKeeps
<1>2. ASSUME NEW e \in Counted(key) PROVE e.at <= now /\ Past(e.by, key)'
  <2>1. e.by \in Requests /\ e.at <= now /\ Past(e.by, key)
    BY CountedEntries DEF CountInv, CallIInv, Entries
  <2>2. CASE e.by = r
    <3>1. Past(r, key)'
      BY <2>1, <2>2
    <3> QED
      BY <2>1, <2>2, <3>1 DEF Past, InWindow
  <2>3. CASE e.by # r
    <3>1. \A q \in Requests \ {r} : Past(q, key) => Past(q, key)'
      BY OthersStay
    <3> QED
      BY <2>1, <2>3, <3>1 DEF Past, InWindow
  <2> QED
    BY <2>2, <2>3
<1>3. \A e \in Counted(key)' : (e.at <= now /\ Past(e.by, key))'
  BY <1>1, <1>2 DEF Past, InWindow
<1> QED
  BY <1>1, <1>3 DEF CountInv

(* A step that has nothing to do with the windows.                         *)
LEMMA QuietLimit ==
  ASSUME CallIInv, LimitInv, NEW r \in Requests, StepKeeps(r), UNCHANGED windowVars,
         ~InPut(r), ~InPut(r)', InWindow(r)' => start'[r] = now,
         \A key \in Keys : Past(r, key) => Past(r, key)'
  PROVE  LimitInv'
<1>1. \A q \in Requests : ReaderInv(q)'
  <2>1. ReaderInv(r)'
    BY DEF ReaderInv, StepKeeps
  <2>2. \A q \in Requests \ {r} : ReaderInv(q)'
    BY OthersStay DEF LimitInv
  <2> QED
    BY <2>1, <2>2
<1>2. ASSUME NEW key \in Keys PROVE CountInv(key)' /\ KeyInv(key)'
  <2>1. /\ Counted(key)' = Counted(key) /\ Crowded(key)' = Crowded(key)
        /\ window' = window /\ older' = older /\ seen' = seen /\ crowded' = crowded
    BY DEF windowVars, Counted, Crowded
  <2>2. CountInv(key) /\ KeyInv(key) /\ now' = now
    BY DEF LimitInv, StepKeeps
  <2>3. CountInv(key)'
    BY <2>1, <2>2, CountKept
  <2>4. \A q \in Requests : Handles(q, key)' <=> Handles(q, key)
    <3>1. Handles(r, key)' <=> Handles(r, key)
      BY DEF Handles
    <3> QED
      BY <3>1, OthersStay
  <2>5. \A q \in Requests : Handles(q, key)' = Handles(q, key)
    BY <2>4 DEF Handles
  <2> QED
    BY <2>1, <2>2, <2>3, <2>5, KeyKept
<1> QED
  BY <1>1, <1>2 DEF LimitInv

LEMMA ChainStepLimit ==
  ASSUME CallIInv, LimitInv, NEW r \in Requests,
         \/ ReserveOrigin(r) \/ GoodRead(r) \/ BroadcastReply(r) \/ Unusable(r) \/ BadReply(r)
         \/ Wakes(r)
  PROVE  LimitInv'
<1>1. CallInv /\ StepKeeps(r)
  BY ReserveEffect, GoodReadEffect, BroadcastEffect, UnusableEffect, BadReplyEffect, WakesEffect
  DEF CallIInv
<1>2. UNCHANGED windowVars /\ pc[r] \in {"reserving", "calling", "asleep"}
  BY DEF ReserveOrigin, GoodRead, BroadcastReply, Unusable, BadReply, Wakes
<1>3. pc'[r] \in {"calling", "asleep", "answered"}
  <2>1. pc \in [Requests -> Labels]
    BY <1>1 DEF CallInv, FlowTypes
  <2>2. \/ pc' = [pc EXCEPT ![r] = "calling"] \/ pc' = [pc EXCEPT ![r] = "asleep"]
        \/ pc' = [pc EXCEPT ![r] = "answered"]
    <3>1. CASE ReserveOrigin(r)
      BY <1>1, <3>1, ReserveEffect DEF GoesOn
    <3>2. CASE GoodRead(r)
      BY <1>1, <3>2, GoodReadEffect DEF GoesOn, EndsWith
    <3>3. CASE BroadcastReply(r)
      BY <1>1, <3>3, BroadcastEffect DEF GoesOn, EndsWith
    <3>4. CASE Unusable(r)
      BY <1>1, <3>4, UnusableEffect DEF GoesOn, EndsWith
    <3>5. CASE BadReply(r)
      BY <1>1, <3>5, BadReplyEffect
    <3>6. CASE Wakes(r)
      BY <1>1, <3>6, WakesEffect DEF GoesOn, EndsWith
    <3> QED
      BY <3>1, <3>2, <3>3, <3>4, <3>5, <3>6
  <2> QED
    BY <2>1, <2>2
<1>4. ~InPut(r) /\ ~InPut(r)' /\ ~InWindow(r)' /\ \A key \in Keys : Past(r, key)'
  BY <1>2, <1>3 DEF InPut, InWindow, Past
<1> QED
  BY <1>1, <1>2, <1>4, QuietLimit

LEMMA ArriveLimit ==
  ASSUME CallIInv, LimitInv, NEW r \in Requests, Arrive(r) \/ RateLimited(r)
  PROVE  LimitInv'
<1>1. StepKeeps(r) /\ CallInv
  BY ArriveKeeps, WindowStepKeeps DEF CallIInv, WindowTypes
<1>2. UNCHANGED windowVars /\ pc[r] \in {"new", "origin", "global"}
  BY DEF Arrive, RateLimited
<1>3. CASE Arrive(r)
  <2>1. pc[r] = "new" /\ pc'[r] \in {"answered", "origin"} /\ start'[r] = now
    BY <1>1, <1>3 DEF Arrive, Answers, Goto, CallInv, FlowTypes
  <2>2. ~InPut(r) /\ ~InPut(r)' /\ \A key \in Keys : ~Past(r, key)
    BY <2>1 DEF InPut, Past
  <2> QED
    BY <1>1, <1>2, <2>1, <2>2, QuietLimit
<1>4. CASE RateLimited(r)
  <2>1. pc'[r] = "answered"
    BY <1>1, <1>4 DEF RateLimited, Answers, CallInv, FlowTypes
  <2>2. ~InPut(r) /\ ~InPut(r)' /\ ~InWindow(r)' /\ \A key \in Keys : Past(r, key)'
    BY <1>2, <2>1 DEF InPut, InWindow, Past
  <2> QED
    BY <1>1, <1>2, <2>2, QuietLimit
<1> QED
  BY <1>3, <1>4

LEMMA TimeLimit ==
  ASSUME CallIInv, LimitInv, TimePasses
  PROVE  LimitInv'
<1>1. now \in Nat /\ now' \in Nat /\ now <= now' /\ UNCHANGED <<day, pc, start, windowVars>>
  BY TimeKeeps DEF CallIInv, CallInv, FlowTypes
<1>2. \A r \in Requests : ~InWindow(r) /\ ~InPut(r)
  <2> SUFFICES ASSUME NEW r \in Requests PROVE pc[r] \notin Windowing
    BY DEF InWindow, InPut, Windowing
  <2>1. InFlight(r) => pc[r] = "asleep"
    BY DEF TimePasses, Asleep
  <2> QED
    BY <2>1 DEF InFlight, Windowing
<1>3. \A r \in Requests : ~InWindow(r)' /\ ~InPut(r)'
  BY <1>1, <1>2 DEF InWindow, InPut
<1>4. \A r \in Requests : ReaderInv(r)'
  BY <1>3 DEF ReaderInv
<1>5. ASSUME NEW key \in Keys PROVE CountInv(key)'
  <2>1. /\ Counted(key)' = Counted(key) /\ window' = window /\ older' = older /\ day' = day
        /\ \A r : Past(r, key)' <=> Past(r, key)
    BY <1>1 DEF windowVars, Counted, Past, InWindow
  <2>2. CountInv(key)
    BY DEF LimitInv
  <2>3. \A e \in Counted(key) : e.at \in Nat /\ e.at <= now
    BY <2>2, CountedEntries DEF CallIInv, CountInv, Entries
  <2>4. \A e \in Counted(key)' : (e.at <= now /\ Past(e.by, key))'
    <3> SUFFICES ASSUME NEW e \in Counted(key) PROVE e.at <= now' /\ Past(e.by, key)'
      BY <2>1 DEF Past, InWindow
    <3>1. e.at <= now'
      BY <1>1, <2>3
    <3>2. Past(e.by, key)'
      BY <1>1, <2>2 DEF CountInv, Past, InWindow
    <3> QED
      BY <3>1, <3>2
  <2> QED
    BY <2>1, <2>2, <2>4 DEF CountInv
<1>6. ASSUME NEW key \in Keys PROVE KeyInv(key)'
  <2>1. Counted(key)' = Counted(key) /\ Crowded(key)' = Crowded(key) /\ window' = window /\ older' = older
    BY <1>1 DEF windowVars, Counted, Crowded
  <2>2. KeyInv(key)
    BY DEF LimitInv
  <2>3. \A V, n : Lacks(V, key, n) => Covers(V, Counted(key)', Crowded(key)', now', n)
    BY <1>1, <2>1, CoversLater DEF Lacks
  <2>4. \A r \in Requests : ~Handles(r, key) /\ ~Handles(r, key)' /\ ~Alone(r, key) /\ ~Alone(r, key)'
    BY <1>2, <1>3 DEF Handles, Alone
  <2>5. Slack(key) = 1 /\ Slack(key)' = 1
    BY <2>4 DEF Slack
  <2>6. Lacks(window[key], key, 0)'
    <3>1. Lacks(window[key], key, 0)
      BY <2>2 DEF KeyInv
    <3> QED
      BY <2>1, <2>3, <3>1 DEF Lacks
  <2>7. ASSUME NEW o \in Replaced(key)' PROVE Lacks(o.entries, key, Slack(key))'
    <3>1. o \in Replaced(key)
      <4>1. o \in older[key] /\ now' - o.until <= STALE /\ o.until \in Nat
        BY <1>1, <2>1, <2>7 DEF Replaced, CallIInv, WindowTypes
      <4> QED
        BY <1>1, <4>1 DEF Replaced, STALE, Second
    <3>2. Lacks(o.entries, key, 1)
      BY <2>2, <2>5, <3>1 DEF KeyInv
    <3>3. Covers(o.entries, Counted(key)', Crowded(key)', now', 1)
      BY <2>3, <3>2
    <3> QED
      BY <2>5, <3>3 DEF Lacks
  <2>8. \A t \in Nat : Cardinality(InHour(Counted(key)', t))
                         <= LimitOf(key) + Cardinality(InHour(Crowded(key)', t))
    BY <2>1, <2>2 DEF KeyInv
  <2> QED
    BY <2>4, <2>6, <2>7, <2>8 DEF KeyInv, LimitOf
<1> QED
  BY <1>4, <1>5, <1>6 DEF LimitInv

(* A request at a window has not been counted in it.                       *)
LEMMA AtWindow ==
  ASSUME CallIInv, LimitInv, NEW r \in Requests, InWindow(r)
  PROVE  /\ KeyOf(r) \in Keys /\ start[r] = now /\ ~Past(r, KeyOf(r))
         /\ \A e \in Counted(KeyOf(r)) : e.by # r
         /\ Entry(r) \notin Counted(KeyOf(r))
<1>1. KeyOf(r) \in Keys /\ start[r] = now /\ CountInv(KeyOf(r))
  BY KeyIsKey DEF LimitInv, ReaderInv
<1>2. ~Past(r, KeyOf(r))
  BY DEF Past, KeyOf, InWindow
<1>3. \A e \in Counted(KeyOf(r)) : e.by # r
  BY <1>1, <1>2 DEF CountInv
<1>4. Entry(r).by = r
  BY DEF Entry
<1> QED
  BY <1>1, <1>2, <1>3, <1>4

LEMMA GetLimit ==
  ASSUME CallIInv, LimitInv, NEW r \in Requests, GetWindow(r)
  PROVE  LimitInv'
<1> DEFINE K == KeyOf(r)
<1>1. /\ StepKeeps(r) /\ pc \in [Requests -> Labels] /\ seen \in [Requests -> SUBSET Entries]
      /\ now' = now /\ start' = start /\ UNCHANGED <<window, older, admitted>> /\ day' = day
      /\ ~day.atomic /\ pc[r] \in {"origin", "global"}
  BY WindowStepKeeps DEF CallIInv, CallInv, FlowTypes, WindowTypes, StepKeeps, GetWindow
<1>2. pc'[r] = IF pc[r] = "origin" THEN "originPut" ELSE "globalPut"
  BY <1>1 DEF GetWindow, Goto
<1>3. InWindow(r) /\ InPut(r)' /\ ~InPut(r) /\ KeyOf(r)' = K
  BY <1>1, <1>2 DEF InWindow, InPut, KeyOf
<1>4. K \in Keys /\ start[r] = now /\ \A e \in Counted(K) : e.by # r
  BY <1>3, AtWindow
<1>5. PICK V \in Readable(K) : ~Full(r, V) /\ seen' = [seen EXCEPT ![r] = Recent(V, start[r])]
  BY DEF GetWindow
<1>6. crowded' = IF Crowd(r) THEN crowded \union {<<K, r>>} ELSE crowded
  BY DEF GetWindow
<1>7. seen'[r] = Recent(V, now) /\ \A q \in Requests \ {r} : seen'[q] = seen[q]
  BY <1>1, <1>4, <1>5
<1>8. \A key : Past(r, key) => Past(r, key)'
  BY <1>1, <1>2 DEF Past, InWindow
<1> HIDE DEF K
<1>9. IsFiniteSet(Recent(V, now)) /\ Cardinality(Recent(V, now)) < LimitOf(K)
  <2>1. IsFiniteSet(V)
    BY <1>4, <1>5, ReadableIs DEF CallIInv, LimitInv, CountInv, Replaced
  <2>2. IsFiniteSet(Recent(V, now)) /\ Cardinality(Recent(V, now)) \in Nat
    <3>1. Recent(V, now) \in SUBSET V
      BY DEF Recent
    <3> QED
      BY <2>1, <3>1, FS_Subset, FS_CardinalityType
  <2>3. ~(Cardinality(Recent(V, now)) >= LimitOf(K))
    BY <1>4, <1>5 DEF Full, K
  <2> QED
    BY <2>2, <2>3, LimitType
<1>10. \A q \in Requests : ReaderInv(q)'
  <2>1. ReaderInv(r)'
    BY <1>1, <1>3, <1>4, <1>7, <1>9 DEF ReaderInv, LimitOf
  <2>2. \A q \in Requests \ {r} : ReaderInv(q)'
    BY <1>1, OthersStay DEF LimitInv
  <2> QED
    BY <2>1, <2>2
<1>11. ASSUME NEW key \in Keys
       PROVE  CountInv(key)' /\ Counted(key)' = Counted(key) /\ Crowded(key)' = Crowded(key)
  <2>1. Counted(key)' = Counted(key)
    BY <1>1 DEF Counted
  <2>2. CountInv(key)'
    <3>1. CountInv(key)
      BY DEF LimitInv
    <3> QED
      BY <1>1, <1>8, <2>1, <3>1, CountKept
  <2>3. ASSUME NEW e \in Counted(key)
        PROVE  <<key, e.by>> \in crowded' <=> <<key, e.by>> \in crowded
    <3>1. key = K => e.by # r
      BY <1>4
    <3>2. <<key, e.by>> # <<K, r>>
      BY <3>1
    <3> QED
      BY <1>6, <3>2
  <2> QED
    BY <2>1, <2>2, <2>3 DEF Crowded
<1>12. ASSUME NEW key \in Keys PROVE KeyInv(key)'
  <2>1. CountInv(key) /\ KeyInv(key)
    BY DEF LimitInv
  <2>2. CASE key = K
    <3>1. \A q \in Requests : Handles(q, key)' <=> (Handles(q, key) \/ q = r)
      <4>1. Handles(r, key)'
        BY <1>3, <2>2 DEF Handles
      <4> QED
        BY <1>1, <4>1, OthersStay
    <3>2. ~Handles(r, key)
      BY <1>3 DEF Handles
    <3>3. KeyOf(r) = key /\ V \in Readable(key)
      BY <1>5, <2>2 DEF K
    <3> QED
      BY <1>1, <1>6, <1>7, <1>11, <2>1, <2>2, <3>1, <3>2, <3>3, GetKey
  <2>3. CASE key # K
    <3>1. ~Handles(r, key) /\ ~Handles(r, key)'
      BY <1>3, <2>3 DEF Handles
    <3>2. \A q \in Requests : Handles(q, key)' <=> Handles(q, key)
      BY <1>1, <3>1, OthersStay
    <3>3. \A q \in Requests : Handles(q, key)' = Handles(q, key)
      BY <3>2 DEF Handles
    <3>4. \A q \in Requests : <<key, q>> \in crowded' <=> <<key, q>> \in crowded
      BY <1>6, <2>3
    <3> QED
      BY <1>1, <1>7, <1>11, <2>1, <3>1, <3>3, <3>4, KeyKept
  <2> QED
    BY <2>2, <2>3
<1> QED
  BY <1>10, <1>11, <1>12 DEF LimitInv

LEMMA OneMoreCounted ==
  ASSUME NEW key, NEW e, admitted' = admitted \union {<<key, e>>}
  PROVE  Counted(key)' = Counted(key) \union {e}
<1>1. ASSUME NEW y PROVE y \in Counted(key)' <=> y \in Counted(key) \/ y = e
  <2>1. \A a : a \in admitted' <=> a \in admitted \/ a = <<key, e>>
    OBVIOUS
  <2>2. y \in Counted(key)' <=> \E a \in admitted' : a[1] = key /\ y = a[2]
    BY DEF Counted
  <2>3. y \in Counted(key) <=> \E a \in admitted : a[1] = key /\ y = a[2]
    BY DEF Counted
  <2>4. <<key, e>>[1] = key /\ <<key, e>>[2] = e
    OBVIOUS
  <2> QED
    BY <2>1, <2>2, <2>3, <2>4, Zenon
<1> QED
  BY <1>1

(* A request is counted, with what it knew of the window.                  *)
LEMMA AdmitLimit ==
  ASSUME CallIInv, LimitInv, NEW r \in Requests, StepKeeps(r), InWindow(r), start' = start,
         pc'[r] = AfterKey(r), crowded' = crowded,
         admitted' = admitted \union {<<KeyOf(r), Entry(r)>>},
         NEW V, IsFiniteSet(V), Cardinality(V) < LimitOf(KeyOf(r)),
         Lacks(V, KeyOf(r), SlackOf(r, KeyOf(r))),
         window' = [window EXCEPT ![KeyOf(r)] = V \union {Entry(r)}],
         \/ InPut(r) /\ older' = [older EXCEPT ![KeyOf(r)] = @ \union {Version(KeyOf(r))}]
         \/ day.atomic /\ older' = older
  PROVE  LimitInv'
<1> DEFINE K == KeyOf(r)
           e == Entry(r)
<1>1. /\ K \in Keys /\ start[r] = now /\ e \notin Counted(K) /\ e.by = r /\ e.at = now
      /\ e \in Entries /\ now' = now /\ day' = day /\ e = Entry(r)
  BY AtWindow, EntryIsEntry DEF CallIInv, StepKeeps, Entry
<1>2. /\ ~InPut(r)' /\ (InWindow(r)' => start'[r] = now)
      /\ \A key : (Past(r, key) \/ key = K) => Past(r, key)'
  <2>1. CASE pc[r] \in {"origin", "originPut"}
    <3>1. K = Origin[r] /\ K # "global" /\ pc'[r] = "global"
      BY <2>1 DEF KeyOf, AfterKey
    <3> QED
      BY <1>1, <2>1, <3>1 DEF InPut, Past, InWindow
  <2>2. CASE pc[r] \in {"global", "globalPut"}
    <3>1. K = "global" /\ pc'[r] = "reserving"
      BY <2>2 DEF KeyOf, AfterKey
    <3> QED
      BY <1>1, <2>2, <3>1 DEF InPut, Past, InWindow
  <2> QED
    BY <2>1, <2>2 DEF InWindow
<1>3. \A q \in Requests : ReaderInv(q)'
  <2>1. ReaderInv(r)'
    BY <1>1, <1>2 DEF ReaderInv
  <2>2. \A q \in Requests \ {r} : ReaderInv(q)'
    BY OthersStay DEF LimitInv
  <2> QED
    BY <2>1, <2>2
<1>4. ASSUME NEW key \in Keys, key # K PROVE CountInv(key)' /\ KeyInv(key)'
  <2>1. CountInv(key) /\ KeyInv(key)
    BY DEF LimitInv
  <2>2. Counted(key)' = Counted(key) /\ Crowded(key)' = Crowded(key)
    <3>1. \A a \in admitted' : a[1] = key => a \in admitted
      BY <1>4
    <3>2. Counted(key)' = Counted(key)
      BY <3>1 DEF Counted
    <3> QED
      BY <3>2 DEF Crowded
  <2>3. window'[key] = window[key] /\ older'[key] = older[key]
    BY <1>4 DEF CallIInv, WindowTypes
  <2>4. CountInv(key)'
    BY <1>2, <2>1, <2>2, <2>3, CountKept
  <2>5. \A q \in Requests : Handles(q, key)' <=> Handles(q, key)
    <3>1. ~Handles(r, key) /\ ~Handles(r, key)'
      BY <1>2, <1>4 DEF Handles
    <3> QED
      BY <3>1, OthersStay
  <2>6. \A q \in Requests : Handles(q, key)' = Handles(q, key)
    BY <2>5 DEF Handles
  <2>7. \A q \in Requests : Handles(q, key) => seen'[q] = seen[q]
    <3>1. ~Handles(r, key)
      BY <1>4 DEF Handles
    <3> QED
      BY <3>1, OthersStay
  <2> QED
    BY <1>1, <2>1, <2>2, <2>3, <2>4, <2>6, <2>7, KeyKept
<1>5. ASSUME NEW key \in Keys, key = K PROVE CountInv(key)' /\ KeyInv(key)'
  <2>1. CountInv(key) /\ KeyInv(key) /\ e \notin Counted(key) /\ Counted(key) \in SUBSET Entries
    BY <1>1, <1>5, CountedEntries DEF LimitInv, CallIInv
  <2>2. window'[key] = V \union {e}
    BY <1>5 DEF CallIInv, WindowTypes
  <2>3. Counted(key)' = Counted(key) \union {e}
    <3>1. admitted' = admitted \union {<<key, e>>}
      BY <1>5
    <3> HIDE DEF e
    <3> QED
      BY <3>1, OneMoreCounted
  <2>4. \/ InPut(r) /\ older'[key] = older[key] \union {Version(key)}
        \/ day.atomic /\ older'[key] = older[key]
    BY <1>5 DEF CallIInv, WindowTypes
  <2>5. \A q \in Requests : Handles(q, key)' <=> (Handles(q, key) /\ q # r)
    <3>1. ~Handles(r, key)'
      BY <1>2 DEF Handles
    <3> QED
      BY <3>1, OthersStay
  <2>6. CountInv(key)'
    <3>1. IsFiniteSet(Counted(key)') /\ IsFiniteSet(window'[key])
      <4>1. IsFiniteSet(Counted(key)) /\ IsFiniteSet(V)
        BY <2>1 DEF CountInv
      <4>2. IsFiniteSet(Counted(key) \union {e}) /\ IsFiniteSet(V \union {e})
        BY <4>1, FS_AddElement
      <4> QED
        BY <2>2, <2>3, <4>2, Zenon
    <3>2. \A o \in older'[key] : IsFiniteSet(o.entries)
      BY <2>1, <2>4 DEF CountInv, Version
    <3>3. \A c \in Counted(key) \union {e} : c.at <= now /\ Past(c.by, key)'
      <4>1. e.at <= now /\ Past(r, key)'
        <5>1. e.at <= now
          BY <1>1 DEF CallIInv, CallInv, FlowTypes
        <5> QED
          BY <1>2, <1>5, <5>1
      <4>2. ASSUME NEW c \in Counted(key) PROVE c.at <= now /\ Past(c.by, key)'
        <5>1. c.by \in Requests /\ c.at <= now /\ Past(c.by, key)
          BY <2>1 DEF CountInv, Entries
        <5>2. \A q \in Requests : Past(q, key) => Past(q, key)'
          BY <1>2, OthersStay
        <5> QED
          BY <5>1, <5>2 DEF Past, InWindow
      <4> QED
        BY <1>1, <4>1, <4>2 DEF Past, InWindow
    <3>4. \A c \in Counted(key)' : (c.at <= now /\ Past(c.by, key))'
      BY <1>1, <2>3, <3>3 DEF Past, InWindow
    <3>5. day.atomic => older'[key] = {}
      BY <2>1, <2>4 DEF CountInv, LimitInv, ReaderInv
    <3> QED
      BY <1>1, <3>1, <3>2, <3>4, <3>5 DEF CountInv
  <2>7. KeyInv(key)'
    <3>1. \/ <<key, r>> \in crowded \/ Alone(r, key)
          \/ Replaced(key) = {} /\ \A q \in Requests : ~Handles(q, key)
      <4>1. CASE InPut(r)
        BY <1>5, <4>1 DEF Alone, Handles
      <4>2. CASE day.atomic
        BY <2>1, <4>2 DEF CountInv, Replaced, Handles, LimitInv, ReaderInv
      <4> QED
        BY <4>1, <4>2
    <3>2. Replaced(key)' \in SUBSET (Replaced(key) \union {Version(key)})
      BY <1>1, <2>4 DEF Replaced
    <3>3. \A q \in Requests \ {r} : seen'[q] = seen[q]
      BY OthersStay
    <3>4. Cardinality(V) < LimitOf(key) /\ Lacks(V, key, SlackOf(r, key))
      BY <1>5
    <3> HIDE DEF K
    <3> QED
      BY <1>1, <2>1, <2>2, <2>3, <2>5, <3>1, <3>2, <3>3, <3>4, AdmitKey
  <2> QED
    BY <2>6, <2>7
<1> QED
  BY <1>3, <1>4, <1>5 DEF LimitInv

LEMMA CountLimit ==
  ASSUME CallIInv, LimitInv, NEW r \in Requests, CountAtOnce(r)
  PROVE  LimitInv'
<1> DEFINE K == KeyOf(r)
           V == Recent(window[K], start[r])
<1>1. StepKeeps(r) /\ start' = start /\ crowded' = crowded /\ day.atomic /\ older' = older
  BY WindowStepKeeps DEF CallIInv, WindowTypes, CountAtOnce
<1>2. InWindow(r) /\ pc'[r] = AfterKey(r)
  BY DEF CountAtOnce, InWindow, Goto, CallIInv, CallInv, FlowTypes
<1>3. K \in Keys /\ start[r] = now
  BY <1>2, AtWindow
<1>4. /\ admitted' = admitted \union {<<K, Entry(r)>>}
      /\ window' = [window EXCEPT ![K] = V \union {Entry(r)}] /\ ~Full(r, window[K])
  BY <1>3 DEF CountAtOnce, CallIInv, WindowTypes
<1>5. CountInv(K) /\ KeyInv(K)
  BY <1>3 DEF LimitInv
<1> HIDE DEF K
<1>6. IsFiniteSet(V) /\ Cardinality(V) < LimitOf(K)
  <2>1. V \in SUBSET window[K]
    BY DEF Recent
  <2>2. IsFiniteSet(V) /\ Cardinality(V) \in Nat
    BY <1>5, <2>1, FS_Subset, FS_CardinalityType DEF CountInv
  <2>3. ~(Cardinality(V) >= LimitOf(K))
    BY <1>4 DEF Full, K
  <2> QED
    BY <2>2, <2>3, LimitType
<1>7. Lacks(V, K, SlackOf(r, K))
  <2>1. /\ Counted(K) \in SUBSET Entries /\ Crowded(K) \in SUBSET Counted(K)
        /\ IsFiniteSet(Counted(K)) /\ now \in Nat
    BY <1>3, <1>5, CountedEntries DEF CallIInv, CallInv, FlowTypes, CountInv
  <2>2. Covers(window[K], Counted(K), Crowded(K), now, 0)
    BY <1>5 DEF KeyInv, Lacks
  <2>3. Covers(V, Counted(K), Crowded(K), now, 0)
    BY <1>3, <2>1, <2>2, CoversRecent
  <2>4. SlackOf(r, K) \in Nat /\ 0 <= SlackOf(r, K) /\ 0 \in Nat
    BY SlackOfIs
  <2> HIDE DEF V
  <2> QED
    BY <2>1, <2>3, <2>4, CoversMore DEF Lacks
<1> HIDE DEF V
<1> QED
  BY <1>1, <1>2, <1>4, <1>6, <1>7, AdmitLimit DEF K

LEMMA PutLimit ==
  ASSUME CallIInv, LimitInv, NEW r \in Requests, PutWindow(r)
  PROVE  LimitInv'
<1>1. /\ StepKeeps(r) /\ start' = start /\ crowded' = crowded
      /\ older' = [older EXCEPT ![KeyOf(r)] = @ \union {Version(KeyOf(r))}]
      /\ admitted' = admitted \union {<<KeyOf(r), Entry(r)>>}
      /\ window' = [window EXCEPT ![KeyOf(r)] = seen[r] \union {Entry(r)}]
  BY WindowStepKeeps DEF CallIInv, WindowTypes, PutWindow
<1>2. InPut(r) /\ InWindow(r) /\ pc'[r] = AfterKey(r)
  BY DEF PutWindow, InPut, InWindow, Goto, CallIInv, CallInv, FlowTypes
<1>3. KeyOf(r) \in Keys
  BY KeyIsKey
<1>4. IsFiniteSet(seen[r]) /\ Cardinality(seen[r]) < LimitOf(KeyOf(r))
  BY <1>2 DEF LimitInv, ReaderInv
<1>5. Lacks(seen[r], KeyOf(r), SlackOf(r, KeyOf(r)))
  BY <1>2, <1>3 DEF LimitInv, KeyInv, Handles
<1> QED
  BY <1>1, <1>2, <1>4, <1>5, AdmitLimit

LEMMA LimitKept ==
  ASSUME CallIInv, LimitInv, [Next]_vars
  PROVE  LimitInv'
<1>1. ASSUME NEW r \in Requests, RequestStep(r) PROVE LimitInv'
  BY <1>1, ArriveLimit, GetLimit, CountLimit, PutLimit, ChainStepLimit DEF RequestStep
<1>2. CASE UNCHANGED vars
  <2>1. UNCHANGED <<day, now, pc, start, window, older, seen, admitted, crowded>>
    BY <1>2 DEF vars, windowVars
  <2>2. \A r \in Requests : ReaderInv(r)'
    BY <2>1 DEF LimitInv, ReaderInv, InPut, InWindow, KeyOf, LimitOf
  <2>3. ASSUME NEW key \in Keys PROVE CountInv(key)' /\ KeyInv(key)'
    <3>1. CountInv(key) /\ KeyInv(key)
      BY DEF LimitInv
    <3>2. Counted(key)' = Counted(key)
      BY <2>1 DEF Counted
    <3>3. Crowded(key)' = Crowded(key)
      BY <2>1, <3>2 DEF Crowded
    <3>4. CountInv(key)'
      <4>1. \A r : Past(r, key)' <=> Past(r, key)
        BY <2>1 DEF Past, InWindow
      <4>2. \A c \in Counted(key)' : (c.at <= now /\ Past(c.by, key))'
        BY <2>1, <3>1, <3>2, <4>1 DEF CountInv, Past, InWindow
      <4> QED
        BY <2>1, <3>1, <3>2, <4>2 DEF CountInv
    <3>5. \A q \in Requests : Handles(q, key)' = Handles(q, key)
      BY <2>1 DEF Handles, InPut, KeyOf
    <3> QED
      BY <2>1, <3>1, <3>2, <3>3, <3>4, <3>5, KeyKept
  <2> QED
    BY <2>2, <2>3 DEF LimitInv
<1> QED
  BY <1>1, <1>2, TimeLimit DEF Next

(* worker.ts, on the windows in KV: "a lost update under-counts by one     *)
(* request, which is acceptable".  For any limits, users and traffic, and  *)
(* reads that may be a minute old: no hour holds more requests than the    *)
(* limit and one for each that read its window while another was handling  *)
(* it or within a minute of a put.  With windows in memory no request does,*)
(* and the limit is exact.                                                 *)
THEOREM WindowsHoldTheLimit == Spec => []LimitHolds
<1>1. Init => LimitInv
  <2> SUFFICES ASSUME Init PROVE LimitInv
    OBVIOUS
  <2>1. \A r \in Requests : ReaderInv(r) /\ ~InPut(r)
    BY DEF Init, ReaderInv, InWindow, InPut
  <2>2. ASSUME NEW key \in Keys PROVE CountInv(key) /\ KeyInv(key)
    <3>1. /\ Counted(key) = {} /\ Crowded(key) = {} /\ window[key] = {} /\ older[key] = {}
          /\ Replaced(key) = {}
      BY DEF Init, Counted, Crowded, Replaced
    <3>2. CountInv(key)
      BY <3>1, FS_EmptySet DEF CountInv
    <3>3. Cardinality({}) = 0 /\ LimitOf(key) \in Nat
      BY FS_EmptySet, LimitType
    <3>4. Lacks(window[key], key, 0)
      <4>1. \A s : After({} \ {}, s) = {} /\ After({}, s) = {}
        BY DEF After
      <4>2. Covers({}, {}, {}, now, 0)
        BY <3>3, <4>1 DEF Covers
      <4> QED
        BY <3>1, <4>2 DEF Lacks
    <3>5. \A t : InHour({}, t) = {}
      BY DEF InHour
    <3>6. \A t \in Nat : Cardinality(InHour({}, t)) <= LimitOf(key) + Cardinality(InHour({}, t))
      BY <3>3, <3>5
    <3> QED
      BY <2>1, <3>1, <3>2, <3>4, <3>6 DEF KeyInv, Handles, Alone
  <2> QED
    BY <2>1, <2>2 DEF LimitInv
<1>2. CallIInv /\ LimitInv => LimitHolds
  BY DEF CallIInv, CallInv, FlowTypes, LimitInv, KeyInv, LimitHolds
<1> QED
  BY <1>1, <1>2, CallTypes, LimitKept, PTL DEF Spec

=============================================================================
