----------------------------- MODULE SponsorCall -----------------------------
(***************************************************************************)
(* One POST /v1/sponsor against the clock: core/http.ts route, the two     *)
(* rate-limit windows, and every HTTP call the relay makes to the chain    *)
(* through sdk ChainClient.request with its retries and sleeps.  Relay.tla *)
(* has the store and the interleavings of what each call did; here a call  *)
(* is its attempts.  Code runs in no time: the clock moves only while      *)
(* every request that arrived is asleep.                                   *)
(***************************************************************************)
EXTENDS Integers, FiniteSets

CONSTANTS
  Requests,
  Origin,        \* Origin[r]: who signed the transaction r carries
  Days,          \* which requests come, which of them are reserved (the others
                 \* find their origin nonce in flight), and whether a window
                 \* is counted at once (MemoryStore) or by KV get and put
  Pools,         \* the pools their swaps may name, of 1, 2 and 3
  PerOriginPerHour, GlobalPerHour,  \* POLICY
  Retries,       \* ChainClientOptions.retries of makeRelayChain
  ClientTimeout, \* RelayClientOptions.timeoutMs of the caller, in ticks
  Gaps,          \* how long the relay may be idle between requests
  MaxBad         \* bound: bad replies in all

(* A tick is half a second.                                                *)
Second == 2
HOUR   == 3600 * Second
STALE  == 60 * Second

ASSUME CallAssumption ==
  /\ Days \subseteq [come : SUBSET Requests, reserved : SUBSET Requests, atomic : BOOLEAN]
  /\ Pools \subseteq {1, 2, 3}
  /\ PerOriginPerHour \in Nat /\ GlobalPerHour \in Nat
  /\ Retries \in Nat /\ ClientTimeout \in Nat
  /\ Gaps \subseteq Nat /\ MaxBad \in Nat
  /\ "global" \notin {Origin[r] : r \in Requests}

VARIABLES
  day,      \* the member of Days that is played
  now,
  window,   \* window[key]: the counted requests, [at, by]
  older,    \* older[key]: what puts replaced, and when, [until, entries]
  pc,
  start,    \* handleSponsor's `now`
  seen,     \* the window as r read it
  call,     \* the chain call r is in
  left,     \* calls of the same kind still to come (a quote takes several)
  attempt,
  status,   \* the last bad reply
  wake,     \* when r's sleep ends
  again,    \* r is in its retry after a nonce conflict
  taken,    \* requests whose transaction the node has taken
  answer,
  admitted, \* who was counted, and when (history)
  crowded,  \* which requests read which window while another was handling
            \* it, or within STALE of another's put (history)
  hurt,     \* hurt[r]: chain calls of r that met a bad reply (history)
  bad       \* bad replies so far

windowVars == <<window, older, seen, admitted, crowded>>
chainVars  == <<call, left, attempt, status, wake, again, taken, hurt, bad>>
vars == <<day, now, pc, start, answer, windowVars, chainVars>>

Keys == {Origin[r] : r \in Requests} \union {"global"}
LimitOf(key) == IF key = "global" THEN GlobalPerHour ELSE PerOriginPerHour

Verdicts    == {"MALFORMED", "VERIFICATION", "RATE_LIMITED", "ORIGIN_NONCE_IN_FLIGHT",
                "PREFLIGHT", "SPONSOR_BUSY"}
ChainErrors == {"UPSTREAM_RATE_LIMITED", "INTERNAL"}

InFlight(r) == pc[r] \notin {"new", "answered"}

Init ==
  /\ day \in Days
  /\ now = 0
  /\ window = [k \in Keys |-> {}] /\ older = [k \in Keys |-> {}]
  /\ pc = [r \in Requests |-> "new"]
  /\ start = [r \in Requests |-> 0]
  /\ seen = [r \in Requests |-> {}]
  /\ call = [r \in Requests |-> "none"]
  /\ left = [r \in Requests |-> 0]
  /\ attempt = [r \in Requests |-> 0]
  /\ status = [r \in Requests |-> "none"]
  /\ wake = [r \in Requests |-> 0]
  /\ again = [r \in Requests |-> FALSE]
  /\ taken = {} /\ admitted = {} /\ crowded = {}
  /\ answer = [r \in Requests |-> "none"]
  /\ hurt = [r \in Requests |-> 0]
  /\ bad = 0

Goto(r, label) == pc' = [pc EXCEPT ![r] = label] /\ UNCHANGED answer

Answers(r, code) ==
  /\ pc' = [pc EXCEPT ![r] = "answered"]
  /\ answer' = [answer EXCEPT ![r] = code]

-----------------------------------------------------------------------------
(***************************************************************************)
(* route, and the windows                                                  *)
(***************************************************************************)
(* A body that is not JSON with a hex string, a transaction that fails     *)
(* verification or the minimum tier; or on to the windows.                 *)
Arrive(r) ==
  /\ r \in day.come /\ pc[r] = "new"
  /\ start' = [start EXCEPT ![r] = now]
  /\ (\E code \in {"MALFORMED", "VERIFICATION"} : Answers(r, code)) \/ Goto(r, "origin")
  /\ UNCHANGED <<day, now, windowVars, chainVars>>

(* The window r is at: its origin's first, then everybody's.               *)
KeyOf(r)     == IF pc[r] \in {"origin", "originPut"} THEN Origin[r] ELSE "global"
InWindow(r)  == pc[r] \in {"origin", "originPut", "global", "globalPut"}
AfterKey(r)  == IF KeyOf(r) = "global" THEN "reserving" ELSE "global"
Entry(r)     == [at |-> start[r], by |-> r]

(* Mutant: the window is a sliding one of a single tick.                   *)
Recent_Forgets(entries, at) == {e \in entries : at - e.at < 1}

Recent(entries, at) == {e \in entries : at - e.at < HOUR}

(* KV is eventually consistent: a get returns the last put, or what a put  *)
(* replaced less than a minute ago (docs/relay.md, "60 seconds stale").    *)
(* MemoryStore replaces in place.                                          *)
Version(key)  == [until |-> now, entries |-> window[key]]
Replaced(key) == {o \in older[key] : now - o.until <= STALE}
Readable(key) == {window[key]} \union {o.entries : o \in Replaced(key)}

Full(r, entries) == Cardinality(Recent(entries, start[r])) >= LimitOf(KeyOf(r))

(* The limit is reached: nothing is counted here, though the origin's      *)
(* count of a request refused for everybody's limit stands.                *)
RateLimited(r) ==
  /\ pc[r] \in {"origin", "global"}
  /\ \E entries \in Readable(KeyOf(r)) : Full(r, entries)
  /\ Answers(r, "RATE_LIMITED")
  /\ UNCHANGED <<day, now, start, windowVars, chainVars>>

(* MemoryStore.rateLimit: read, count and write in one step.               *)
CountAtOnce(r) ==
  /\ day.atomic
  /\ pc[r] \in {"origin", "global"} /\ ~Full(r, window[KeyOf(r)])
  /\ window' = [window EXCEPT ![KeyOf(r)] = Recent(@, start[r]) \union {Entry(r)}]
  /\ admitted' = admitted \union {<<KeyOf(r), Entry(r)>>}
  /\ Goto(r, AfterKey(r))
  /\ UNCHANGED <<day, now, start, older, seen, crowded, chainVars>>

InPut(q) == pc[q] \in {"originPut", "globalPut"}
Crowd(r) == Replaced(KeyOf(r)) # {} \/ \E q \in Requests \ {r} : InPut(q) /\ KeyOf(q) = KeyOf(r)

(* DoStore.rateLimit: KV.get, and later KV.put of what it then knew.       *)
GetWindow(r) ==
  /\ ~day.atomic
  /\ pc[r] \in {"origin", "global"}
  /\ \E entries \in Readable(KeyOf(r)) :
       /\ ~Full(r, entries)
       /\ seen' = [seen EXCEPT ![r] = Recent(entries, start[r])]
  /\ crowded' = IF Crowd(r) THEN crowded \union {<<KeyOf(r), r>>} ELSE crowded
  /\ Goto(r, IF pc[r] = "origin" THEN "originPut" ELSE "globalPut")
  /\ UNCHANGED <<day, now, start, window, older, admitted, chainVars>>

PutWindow(r) ==
  /\ InPut(r)
  /\ window' = [window EXCEPT ![KeyOf(r)] = seen[r] \union {Entry(r)}]
  /\ older' = [older EXCEPT ![KeyOf(r)] = @ \union {Version(KeyOf(r))}]
  /\ seen' = [seen EXCEPT ![r] = {}]
  /\ admitted' = admitted \union {<<KeyOf(r), Entry(r)>>}
  /\ Goto(r, AfterKey(r))
  /\ UNCHANGED <<day, now, start, crowded, chainVars>>

-----------------------------------------------------------------------------
(***************************************************************************)
(* The chain calls                                                         *)
(***************************************************************************)
(* get-pool; get-pool and get-fees; get-pool-for-swap, the bin factors and *)
(* the active bin with the three above it.                                 *)
QuoteReads(pool) == CASE pool = 1 -> 1 [] pool = 2 -> 2 [] pool = 3 -> 6

Calls(r, name, times) ==
  /\ call' = [call EXCEPT ![r] = name]
  /\ left' = [left EXCEPT ![r] = times - 1]
  /\ attempt' = [attempt EXCEPT ![r] = 0]
  /\ status' = [status EXCEPT ![r] = "none"]
  /\ Goto(r, "calling")

StopsCalling(r) ==
  /\ call' = [call EXCEPT ![r] = "none"]
  /\ left' = [left EXCEPT ![r] = 0]
  /\ attempt' = [attempt EXCEPT ![r] = 0]
  /\ status' = [status EXCEPT ![r] = "none"]

(* reserveOriginNonce, and the first of the calls.                         *)
ReserveOrigin(r) ==
  /\ pc[r] = "reserving"
  /\ \/ /\ r \notin day.reserved
        /\ Answers(r, "ORIGIN_NONCE_IN_FLIGHT")
        /\ UNCHANGED <<call, left, attempt, status>>
     \/ r \in day.reserved /\ Calls(r, "balance", 1)
  /\ UNCHANGED <<day, now, start, windowVars, wake, again, taken, hurt, bad>>

(* What comes after a call that brought a result: the next read, a verdict *)
(* on what was read, or the next call.                                     *)
AfterRead(r) ==
  \/ /\ left[r] > 0
     /\ Calls(r, call[r], left[r])
  \/ /\ left[r] = 0
     /\ \/ call[r] = "balance" /\ Calls(r, "originNonces", 1)
        \/ /\ call[r] \in {"originNonces", "originAccount"}
           /\ \E pool \in Pools : Calls(r, "quote", QuoteReads(pool))
        \/ call[r] = "quote" /\ Calls(r, "sponsorNonces", 1)
        \/ call[r] \in {"sponsorNonces", "sponsorAccount"} /\ Calls(r, "broadcast", 1)
  \/ /\ left[r] = 0
     /\ StopsCalling(r)
     /\ Answers(r, IF call[r] \in {"sponsorNonces", "sponsorAccount"} THEN "SPONSOR_BUSY"
                   ELSE "PREFLIGHT")

GoodRead(r) ==
  /\ pc[r] = "calling" /\ call[r] # "broadcast"
  /\ AfterRead(r)
  /\ UNCHANGED <<day, now, start, windowVars, wake, again, taken, hurt, bad>>

(* Mutant: a nonce conflict is always retried.                             *)
BroadcastReply_Insists(r) ==
  /\ pc[r] = "calling" /\ call[r] = "broadcast"
  /\ \/ /\ taken' = taken \union {r}
        /\ StopsCalling(r)
        /\ Answers(r, "OK")
        /\ UNCHANGED again
     \/ /\ again' = [again EXCEPT ![r] = TRUE]
        /\ Calls(r, "sponsorNonces", 1)
        /\ UNCHANGED taken
  /\ UNCHANGED <<day, now, start, windowVars, wake, hurt, bad>>

(* A 200 with a txid, or a rejection.  A transaction already in the        *)
(* mempool may be acknowledged again or refused as in conflict with        *)
(* itself.  One retry after a nonce conflict.                              *)
BroadcastReply(r) ==
  /\ pc[r] = "calling" /\ call[r] = "broadcast"
  /\ \/ /\ taken' = taken \union {r}
        /\ StopsCalling(r)
        /\ Answers(r, "OK")
        /\ UNCHANGED again
     \/ /\ ~again[r]
        /\ again' = [again EXCEPT ![r] = TRUE]
        /\ Calls(r, "sponsorNonces", 1)
        /\ UNCHANGED taken
     \/ /\ StopsCalling(r)
        /\ Answers(r, "BROADCAST_FAILED")
        /\ UNCHANGED <<taken, again>>
  /\ UNCHANGED <<day, now, start, windowVars, wake, hurt, bad>>

(* Mutant: the chain's 429 is passed on as the relay's own.                *)
CodeOf_PassesOn(reply) == IF reply = "429" THEN "RATE_LIMITED" ELSE "INTERNAL"

(* What a throw of the call becomes: getNonces falls back to the account   *)
(* endpoint, everything else ends in route.                                *)
CodeOf(reply) == IF reply = "429" THEN "UPSTREAM_RATE_LIMITED" ELSE "INTERNAL"

Throws(r, reply) ==
  \/ call[r] = "originNonces" /\ Calls(r, "originAccount", 1)
  \/ call[r] = "sponsorNonces" /\ Calls(r, "sponsorAccount", 1)
  \/ /\ call[r] \notin {"originNonces", "sponsorNonces"}
     /\ StopsCalling(r)
     /\ Answers(r, CodeOf(reply))

(* A 4xx, okay: false or unreadable text: json and callRead throw at once. *)
Unusable(r) ==
  /\ pc[r] = "calling" /\ call[r] # "broadcast"
  /\ bad < MaxBad
  /\ bad' = bad + 1
  /\ hurt' = [hurt EXCEPT ![r] = @ + 1]
  /\ Throws(r, "4xx")
  /\ UNCHANGED <<day, now, start, windowVars, wake, again, taken>>

(* Mutant: the sleep doubles once more.                                    *)
Sleep_Longer(reply, n) == (IF reply = "lost" THEN 1 ELSE Second) * 2 ^ (n + 1)

(* 1 s doubling after a 429 or 5xx, 0.5 s doubling after an exception; the *)
(* last attempt sleeps too.                                                *)
Sleep(reply, n) == (IF reply = "lost" THEN 1 ELSE Second) * 2 ^ n

(* A reply worth retrying.  The node may have taken the transaction of a   *)
(* broadcast that is answered so.                                          *)
BadReply(r) ==
  /\ pc[r] = "calling"
  /\ bad < MaxBad
  /\ bad' = bad + 1
  /\ hurt' = [hurt EXCEPT ![r] = IF attempt[r] = 0 THEN @ + 1 ELSE @]
  /\ \E reply \in {"429", "5xx", "lost"} :
       /\ status' = [status EXCEPT ![r] = reply]
       /\ wake' = [wake EXCEPT ![r] = now + Sleep(reply, attempt[r])]
  /\ \/ UNCHANGED taken
     \/ call[r] = "broadcast" /\ taken' = taken \union {r}
  /\ Goto(r, "asleep")
  /\ UNCHANGED <<day, now, start, windowVars, call, left, attempt, again>>

Wakes(r) ==
  /\ pc[r] = "asleep" /\ now >= wake[r]
  /\ \/ /\ attempt[r] < Retries
        /\ attempt' = [attempt EXCEPT ![r] = @ + 1]
        /\ Goto(r, "calling")
        /\ UNCHANGED <<call, left, status>>
     \/ /\ attempt[r] = Retries
        /\ Throws(r, status[r])
  /\ UNCHANGED <<day, now, start, windowVars, wake, again, taken, hurt, bad>>

RequestStep(r) ==
  \/ Arrive(r) \/ RateLimited(r) \/ CountAtOnce(r) \/ GetWindow(r) \/ PutWindow(r)
  \/ ReserveOrigin(r) \/ GoodRead(r) \/ BroadcastReply(r) \/ Unusable(r) \/ BadReply(r)
  \/ Wakes(r)

-----------------------------------------------------------------------------
Asleep(r) == pc[r] = "asleep" /\ now < wake[r]

TimePasses ==
  /\ \/ /\ \E r \in Requests : InFlight(r)
        /\ \A r \in Requests : InFlight(r) => Asleep(r)
        /\ now' = now + 1
     \/ /\ \A r \in Requests : ~InFlight(r)
        /\ \E r \in day.come : pc[r] = "new"
        /\ \E gap \in Gaps : now' = now + gap
        /\ now < HOUR
  /\ UNCHANGED <<day, pc, start, answer, windowVars, chainVars>>

Next == TimePasses \/ \E r \in Requests : RequestStep(r)

Spec == Init /\ [][Next]_vars

FairSpec ==
  /\ Spec
  /\ \A r \in Requests : WF_vars(pc[r] # "new" /\ RequestStep(r))
  /\ WF_vars((\E r \in Requests : InFlight(r)) /\ TimePasses)

-----------------------------------------------------------------------------
(***************************************************************************)
(* Properties                                                              *)
(***************************************************************************)
Stage(r) ==
  IF ~InFlight(r) THEN pc[r]
  ELSE IF call[r] = "broadcast" \/ again[r] THEN "sending" ELSE "reading"

(* Whatever is retried, lost or refused, a request is to the rest of the   *)
(* relay what Relay.tla's Preflight, Throw and Broadcast take it for.      *)
Attempt == INSTANCE SponsorAttempt WITH stage <- [r \in Requests |-> Stage(r)]
RefinesAttempt == Attempt!Spec

(* relay/src/chain/client.ts: the retries of one chain call stay under the *)
(* caller's timeout, the sleep after the last attempt included; a request  *)
(* that met trouble in one call only is answered in time.                  *)
AnsweredInTime ==
  \A r \in Requests : InFlight(r) /\ hurt[r] <= 1 => now - start[r] < ClientTimeout

(* worker.ts, on the windows in KV: "a lost update under-counts by one     *)
(* request".  In no hour are more let through than the limit and one for   *)
(* each of those requests that read the window while another was handling  *)
(* it or had written it within the last minute; windows in memory, and     *)
(* requests a minute apart, hold the limit.                                *)
Counted(key)       == {a[2] : a \in {b \in admitted : b[1] = key}}
InHour(entries, at) == {e \in entries : at - HOUR < e.at /\ e.at <= at}
Crowded(key)       == {e \in Counted(key) : <<key, e.by>> \in crowded}
LimitHolds ==
  \A key \in Keys, r \in Requests :
    Cardinality(InHour(Counted(key), start[r]))
      <= LimitOf(key) + Cardinality(InHour(Crowded(key), start[r]))

(* A request is answered however many of its calls fail.                   *)
EveryCallEnds == \A r \in Requests : InFlight(r) ~> ~InFlight(r)
=============================================================================
