--------------------------- MODULE SponsorAttempt ---------------------------
(***************************************************************************)
(* What Relay.tla takes for granted of a sponsor call's dealings with the  *)
(* chain, without clocks, retries or windows: a transaction is taken only  *)
(* while it is being sent, a refusal before that means it never was, and   *)
(* after it a failure leaves the question open.  SponsorCall.tla has the   *)
(* retries and implements this (RefinesAttempt there).                     *)
(***************************************************************************)
CONSTANTS
  Requests,
  Verdicts,     \* refusals that judge the transaction or the relay's state
  ChainErrors   \* answers to a chain call that kept failing

VARIABLES
  stage,        \* "new", "reading", "sending", "answered"
  taken,        \* requests whose transaction the node has
  answer

Init ==
  /\ stage = [r \in Requests |-> "new"]
  /\ taken = {}
  /\ answer = [r \in Requests |-> "none"]

Answers(r, code) ==
  /\ stage' = [stage EXCEPT ![r] = "answered"]
  /\ answer' = [answer EXCEPT ![r] = code]
  /\ UNCHANGED taken

Proceeds(r, from, to) ==
  /\ stage[r] = from
  /\ stage' = [stage EXCEPT ![r] = to]
  /\ UNCHANGED <<taken, answer>>

Refuse(r) ==
  /\ stage[r] \in {"new", "reading"}
  /\ \E code \in Verdicts \union ChainErrors : Answers(r, code)

(* The node takes the transaction; the relay may not hear of it.           *)
Take(r) ==
  /\ stage[r] = "sending"
  /\ taken' = taken \union {r}
  /\ UNCHANGED <<stage, answer>>

(* Taken and acknowledged by the same reply.                               *)
Succeed(r) ==
  /\ stage[r] = "sending"
  /\ taken' = taken \union {r}
  /\ stage' = [stage EXCEPT ![r] = "answered"]
  /\ answer' = [answer EXCEPT ![r] = "OK"]

Fail(r) ==
  /\ stage[r] = "sending"
  /\ \E code \in ChainErrors \union {"SPONSOR_BUSY", "BROADCAST_FAILED"} : Answers(r, code)

Next ==
  \E r \in Requests :
    \/ Proceeds(r, "new", "reading") \/ Proceeds(r, "reading", "sending")
    \/ Refuse(r) \/ Take(r) \/ Succeed(r) \/ Fail(r)

Spec == Init /\ [][Next]_<<stage, taken, answer>>
=============================================================================
