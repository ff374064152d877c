--------------------------- MODULE SwapPageProofs ---------------------------
(***************************************************************************)
(* What the Done page shows and follows, for every number of presses,      *)
(* polls, relays, bids and faults.  A poll reads either that a transaction *)
(* is pending or what the chain executed at its nonce; the chain only      *)
(* grows, so neither an old read nor one of two that a poll mixes becomes  *)
(* false.  A poll that starts late names what was executed, and while no   *)
(* block comes a relay holds a request only as long as a press waits.      *)
(***************************************************************************)
EXTENDS SwapPage, SequenceTheorems, FiniteSetTheorems, TLAPS

Outcomes == {"success", "abort"}

(* An entry of a read says what the chain executed.                        *)
IsExecuted(e) ==
  \E i \in DOMAIN executed : executed[i].tx = e.tx /\ executed[i].status = e.status

AnswerOK(d)    == d = None \/ d.status = "pending" \/ IsExecuted(d)
AddressOK(seq) == \A i \in DOMAIN seq : IsExecuted(seq[i])

ReadsOK(rd) == AnswerOK(rd.direct) /\ AddressOK(rd.address)

ReadTypes ==
  [direct : {None} \union [tx : Txs, status : Outcomes \union {"pending"}],
   address : Seq([tx : Txs, status : Outcomes]), mempool : SUBSET Txs]

Kinds == {"direct", "address", "mempool"}
PollTypes ==
  [tx : Txs, base : ReadTypes, got : SUBSET Kinds,
   direct : {None} \union [tx : Txs, status : Outcomes \union {"pending"}],
   address : Seq([tx : Txs, status : Outcomes]), mempool : SUBSET Txs,
   failed : SUBSET Kinds, late : BOOLEAN]

PollOK(q) == q \in PollTypes /\ ReadsOK(q.base) /\ ReadsOK(q)

ByNonce == \A i \in DOMAIN executed : executed[i].tx.nonce = i - 1

ReadsAreTrue ==
  /\ reads \in ReadTypes /\ ReadsOK(reads)
  /\ DOMAIN polls = Polls
  /\ \A p \in Polls : polls[p] = None \/ PollOK(polls[p])

-----------------------------------------------------------------------------
(* Types.                                                                  *)

USE PageAssumption

LEMMA FirstTxType == \A q \in Requests : FirstTx(q) \in Txs
BY DEF Requests, FirstTx, Tx, Txs, Nonces

PressType == [pc : {"idle", "signing", "posting", "waiting"}, nonce : Nonces, left : Seq(Relays)]

PageOK ==
  /\ view \in {"amount", "sign", "done"}
  /\ result \in Txs \union {None}
  /\ presses \in [Presses -> PressType]
  /\ mounted # None => mounted \in Presses /\ view = "sign" /\ presses[mounted].pc # "idle"
  /\ \A s \in Presses : presses[s].pc = "waiting" => presses[s].left # <<>>

ChainOK == executed \in Seq([tx : Txs, status : Outcomes]) /\ mempool \subseteq Txs

RelaysOK == serving \subseteq Requests /\ booked \subseteq Requests

Types == PageOK /\ ChainOK /\ RelaysOK /\ mishaps \in 0 .. MaxMishaps

LEMMA TypesSuffice == Types => TypeOK
BY DEF TypeOK, Types, PageOK, ChainOK, RelaysOK, PressType, Outcomes

LEMMA AskedType ==
  ASSUME PageOK, NEW s \in Presses, presses[s].left # <<>>
  PROVE  Asked(s) \in Requests /\ FirstTx(Asked(s)) \in Txs
<1>1. Asked(s) \in Requests
  BY DEF PageOK, PressType, Asked, Requests
<1> QED
  BY <1>1, FirstTxType

LEMMA HistoryType ==
  History \in Seq([tx : Txs, status : Outcomes]) /\ DOMAIN History = 1 .. Len(Earlier)
<1>1. Ranked[1] \in Relays /\ 1 \in 1 .. MaxBid /\ 1 \in DOMAIN Ranked
  OBVIOUS
<1>2. \A i \in 1 .. Len(Earlier) : History[i] \in [tx : Txs, status : Outcomes]
  BY <1>1 DEF History, Tx, Txs, Nonces, Outcomes
<1>3. History = [i \in 1 .. Len(Earlier) |-> History[i]]
  BY DEF History
<1> QED
  BY <1>2, <1>3

LEMMA InitType == Init => Types
<1> SUFFICES ASSUME Init PROVE Types
  OBVIOUS
<1>1. result \in Txs \union {None}
  BY DEF Init, Links, Txs, Nonces
<1>2. executed \in Seq([tx : Txs, status : Outcomes])
  BY HistoryType DEF Init
<1>3. presses \in [Presses -> PressType] /\ \A s \in Presses : presses[s].pc # "waiting"
  BY DEF Init, Idle, PressType, Nonces
<1> QED
  BY <1>1, <1>2, <1>3 DEF Init, Types, PageOK, ChainOK, RelaysOK

LEMMA IdleType == Idle \in PressType /\ Idle.pc # "waiting"
BY DEF Idle, PressType, Nonces

LEMMA BecomesIdle ==
  ASSUME PageOK, NEW s \in Presses, Becomes(s, Idle)
  PROVE  /\ presses' \in [Presses -> PressType]
         /\ \A t \in Presses : presses'[t].pc = "waiting" => presses'[t].left # <<>>
         /\ \A t \in Presses \ {s} : presses'[t] = presses[t]
BY IdleType DEF Becomes, PageOK

LEMMA WaitingKeepsTypes ==
  ASSUME PageOK, NEW s \in Presses, presses[s].left # <<>>,
         Moves(s, "waiting"), UNCHANGED <<view, result, mounted>>
  PROVE  PageOK'
<1> DEFINE rec == [presses[s] EXCEPT !.pc = "waiting"]
<1>1. presses[s] \in PressType
  BY DEF PageOK
<1>2. rec \in PressType /\ rec.left = presses[s].left /\ rec.pc = "waiting"
  BY <1>1 DEF PressType
<1>3. presses' = [presses EXCEPT ![s] = rec]
  BY DEF Moves
<1> HIDE DEF rec
<1> QED
  BY <1>2, <1>3 DEF PageOK

(* The ways a press goes on or ends.                                       *)
LEMMA PressKeepsTypes ==
  ASSUME PageOK, NEW s \in Presses
  PROVE  /\ Fails(s) => PageOK'
         /\ TriesNext(s) /\ presses[s].left # <<>> => PageOK'
         /\ \A tx \in Txs : Follows(s, tx) => PageOK'
<1>1. Fails(s) => PageOK'
  BY BecomesIdle DEF PageOK, Fails
<1>2. TriesNext(s) /\ presses[s].left # <<>> => PageOK'
  <2>1. SUFFICES ASSUME TriesNext(s), presses[s].left # <<>> PROVE PageOK'
    OBVIOUS
  <2>2. presses[s] \in PressType /\ Tail(presses[s].left) \in Seq(Relays)
    BY <2>1 DEF PageOK, PressType
  <2>3. [presses[s] EXCEPT !.pc = "posting", !.left = Tail(@)] \in PressType
    BY <2>2 DEF PressType
  <2>4. presses' = [presses EXCEPT ![s] = [presses[s] EXCEPT !.pc = "posting", !.left = Tail(@)]]
    BY <2>1 DEF TriesNext
  <2> QED
    BY <2>1, <2>3, <2>4 DEF PageOK, TriesNext
<1>3. \A tx \in Txs : Follows(s, tx) => PageOK'
  BY BecomesIdle DEF PageOK, Follows, Show
<1> QED
  BY <1>1, <1>2, <1>3

(* What only moves the page around.                                        *)
LEMMA MovesKeepTypes ==
  ASSUME Types,
         Continue \/ Back \/ ToDone \/ onRetry \/ Reload \/ Reset
  PROVE  Types'
<1> USE DEF Types
<1>1. CASE Continue \/ Back \/ ToDone \/ onRetry
  <2>1. PageOK' /\ mishaps' = mishaps
    <3>1. CASE Continue \/ onRetry
      BY <3>1 DEF PageOK, Continue, onRetry, Final, Show
    <3>2. CASE Back
      BY <3>2 DEF PageOK, Back, Show
    <3>3. CASE ToDone
      BY <3>3 DEF PageOK, ToDone, Show
    <3> QED
      BY <1>1, <3>1, <3>2, <3>3
  <2>2. ChainOK' /\ RelaysOK'
    BY <1>1 DEF Continue, Back, ToDone, onRetry, chainVars, relayVars, ChainOK, RelaysOK
  <2> QED
    BY <2>1, <2>2
<1>2. CASE Reload \/ Reset
  <2>1. PageOK' /\ mishaps' \in 0 .. MaxMishaps
    BY <1>2, IdleType DEF PageOK, Reload, Reset, Loads, Mishap, Idle
  <2>2. ChainOK' /\ RelaysOK'
    BY <1>2 DEF Reload, Reset, Loads, chainVars, relayVars, ChainOK, RelaysOK
  <2> QED
    BY <2>1, <2>2
<1> QED
  BY <1>1, <1>2

LEMMA PressesKeepTypes ==
  ASSUME Types, NEW s \in Presses,
         \/ Press(s) \/ WalletSigns(s) \/ SigningFails(s) \/ Post(s) \/ Unreachable(s)
         \/ TimesOut(s) \/ NoneLeft(s) \/ Answered(s)
  PROVE  Types'
<1> USE DEF Types
<1>1. CASE Press(s)
  <2>1. PageOK'
    BY <1>1 DEF PageOK, Press, Moves, PressType
  <2> QED
    BY <1>1, <2>1 DEF Press, chainVars, relayVars, ChainOK, RelaysOK
<1>2. CASE WalletSigns(s)
  <2>1. Len(executed) \in Nonces
    BY <1>2 DEF WalletSigns, ChainOK, Nonces
  <2> DEFINE signed == [presses[s] EXCEPT !.pc = "posting", !.nonce = Len(executed),
                                          !.left = Ranked]
  <2>2. signed \in PressType /\ signed.pc = "posting"
    BY <2>1 DEF PageOK, PressType
  <2>3. presses' = [presses EXCEPT ![s] = signed] /\ UNCHANGED <<view, result, mounted>>
    BY <1>2 DEF WalletSigns
  <2> HIDE DEF signed
  <2>4. PageOK'
    BY <2>2, <2>3 DEF PageOK
  <2> QED
    BY <1>2, <2>4 DEF WalletSigns, chainVars, relayVars, ChainOK, RelaysOK
<1>3. CASE SigningFails(s)
  BY <1>3, PressKeepsTypes DEF SigningFails, chainVars, relayVars, ChainOK, RelaysOK
<1>4. CASE Post(s)
  <2>1. presses[s].left # <<>> /\ Asked(s) \in Requests /\ FirstTx(Asked(s)) \in Txs
    BY <1>4, AskedType DEF Post
  <2>2. PageOK'
    <3>1. CASE Moves(s, "waiting") /\ UNCHANGED <<view, result, mounted>>
      BY <2>1, <3>1, WaitingKeepsTypes
    <3> QED
      BY <1>4, <2>1, <3>1, PressKeepsTypes DEF Post
  <2>3. RelaysOK'
    BY <1>4, <2>1 DEF Post, relayVars, RelaysOK
  <2> QED
    BY <1>4, <2>2, <2>3 DEF Post, chainVars, ChainOK
<1>5. CASE Unreachable(s) \/ TimesOut(s)
  <2>1. presses[s].left # <<>> /\ TriesNext(s) /\ mishaps' \in 0 .. MaxMishaps
    BY <1>5 DEF Unreachable, TimesOut, PageOK, Mishap
  <2>2. PageOK'
    BY <2>1, PressKeepsTypes
  <2> QED
    BY <1>5, <2>1, <2>2 DEF Unreachable, TimesOut, chainVars, relayVars, ChainOK, RelaysOK
<1>6. CASE NoneLeft(s)
  BY <1>6, PressKeepsTypes DEF NoneLeft, chainVars, relayVars, ChainOK, RelaysOK
<1>7. CASE Answered(s)
  <2>1. FirstTx(Asked(s)) \in Txs
    BY <1>7, AskedType DEF Answered, PageOK
  <2> QED
    BY <1>7, <2>1, PressKeepsTypes DEF Answered, chainVars, relayVars, ChainOK, RelaysOK
<1> QED
  BY <1>1, <1>2, <1>3, <1>4, <1>5, <1>6, <1>7

LEMMA RelaysKeepTypes ==
  ASSUME Types, NEW q \in Requests,
         RelayRefuses(q) \/ RelayBroadcasts(q) \/ RelayLosesReply(q) \/ RelayReleases(q)
  PROVE  Types'
<1> USE DEF Types
<1>1. ASSUME \E s \in Waiting(q) : TriesNext(s) \/ Fails(s) PROVE PageOK'
  <2>1. PICK s \in Waiting(q) : TriesNext(s) \/ Fails(s)
    BY <1>1
  <2>2. s \in Presses /\ presses[s].left # <<>>
    BY DEF Waiting, PageOK
  <2> QED
    BY <2>1, <2>2, PressKeepsTypes
<1>2. UNCHANGED <<view, result, presses, mounted>> => PageOK'
  BY DEF PageOK
<1>3. CASE RelayRefuses(q)
  BY <1>1, <1>2, <1>3 DEF RelayRefuses, pageVars, chainVars, ChainOK, RelaysOK
<1>4. CASE RelayBroadcasts(q)
  BY <1>2, <1>4, FirstTxType DEF RelayBroadcasts, pageVars, ChainOK, RelaysOK
<1>5. CASE RelayLosesReply(q)
  BY <1>1, <1>2, <1>5, FirstTxType DEF RelayLosesReply, Mishap, pageVars, ChainOK, RelaysOK
<1>6. CASE RelayReleases(q)
  BY <1>2, <1>6 DEF RelayReleases, pageVars, chainVars, ChainOK, RelaysOK
<1> QED
  BY <1>3, <1>4, <1>5, <1>6

LEMMA ChainKeepsTypes ==
  ASSUME Types, (\E tx \in mempool : RelayBumps(tx)) \/ Mine \/ UserSends
  PROVE  Types'
<1> USE DEF Types
<1>1. UNCHANGED <<view, result, presses, mounted>> => PageOK'
  BY DEF PageOK
<1>2. ASSUME NEW tx \in mempool, RelayBumps(tx) PROVE Types'
  <2>1. [tx EXCEPT !.bid = @ + 1] \in Txs
    <3>1. tx \in Txs /\ tx.bid < MaxBid
      BY <1>2 DEF RelayBumps, ChainOK
    <3>2. tx.bid + 1 \in 1 .. MaxBid
      BY <3>1 DEF Txs
    <3> QED
      BY <3>1, <3>2 DEF Txs
  <2> QED
    BY <1>1, <1>2, <2>1 DEF RelayBumps, pageVars, relayVars, ChainOK, RelaysOK
<1>3. ASSUME NEW tx \in Txs, NEW status \in Outcomes, Executes(tx, status) PROVE Types'
  <2>1. [tx |-> tx, status |-> status] \in [tx : Txs, status : Outcomes]
    OBVIOUS
  <2>2. ChainOK'
    BY <1>3, <2>1 DEF Executes, ChainOK
  <2> QED
    BY <1>1, <1>3, <2>2 DEF Executes, pageVars, relayVars, RelaysOK
<1>4. CASE Mine
  BY <1>3, <1>4 DEF Mine, Outcomes, ChainOK
<1>5. CASE UserSends
  <2>1. Len(executed) \in Nonces /\ 1 \in 1 .. MaxBid
    BY <1>5 DEF UserSends, Executes, Tx, ChainOK, Nonces
  <2>2. Tx(Len(executed), None, 1) \in Txs
    BY <2>1 DEF Tx, Txs
  <2> QED
    BY <1>3, <1>5, <2>2 DEF UserSends, Outcomes
<1> QED
  BY <1>2, <1>4, <1>5

LEMMA PollsKeepTypes ==
  ASSUME Types, NEW p \in Polls, PollStarts(p) \/ PollReads(p) \/ ReadFails(p) \/ PollEnds(p)
  PROVE  Types' /\ UNCHANGED <<pageVars, chainVars, relayVars>>
<1>1. UNCHANGED <<pageVars, chainVars, relayVars>> /\ mishaps' \in 0 .. MaxMishaps
  BY DEF Types, PollStarts, PollReads, ReadFails, PollEnds, Mishap
<1> QED
  BY <1>1 DEF Types, PageOK, ChainOK, RelaysOK, pageVars, chainVars, relayVars

LEMMA StepType == Types /\ [Next]_vars => Types'
<1> SUFFICES ASSUME Types, [Next]_vars PROVE Types'
  OBVIOUS
<1>1. CASE UNCHANGED vars
  BY <1>1 DEF vars, pageVars, chainVars, relayVars, Types, PageOK, ChainOK, RelaysOK
<1> QED
  BY <1>1, MovesKeepTypes, PressesKeepTypes, RelaysKeepTypes, ChainKeepsTypes, PollsKeepTypes
     DEF Next

(* TypeOK is an invariant: in particular the page shows a press only while *)
(* it runs, on its step (steps.jsx:217).                                   *)
THEOREM PageTypeCorrect == Spec => []TypeOK
BY InitType, StepType, TypesSuffice, PTL DEF Spec

-----------------------------------------------------------------------------
(* What the reads say stays true.                                          *)

LEMMA ReadsInit == Init => ReadsAreTrue /\ ByNonce
<1> SUFFICES ASSUME Init PROVE ReadsAreTrue /\ ByNonce
  OBVIOUS
<1>1. ByNonce
  BY DEF Init, History, Tx, ByNonce
<1>2. NoReads \in ReadTypes /\ ReadsOK(NoReads)
  BY DEF NoReads, ReadTypes, ReadsOK, AnswerOK, AddressOK
<1>3. ReadsAreTrue
  BY <1>2 DEF Init, NoPolls, ReadsAreTrue
<1> QED
  BY <1>1, <1>3

(* The chain only grows, one transaction for each nonce.                   *)
Grows ==
  /\ DOMAIN executed \subseteq DOMAIN executed'
  /\ \A i \in DOMAIN executed : executed'[i] = executed[i]

LEMMA GrowingKeepsReads ==
  ASSUME Grows
  PROVE  /\ \A e : IsExecuted(e) => IsExecuted(e)'
         /\ \A rd : ReadsOK(rd) => ReadsOK(rd)'
         /\ \A q : PollOK(q) => PollOK(q)'
<1>1. \A e : IsExecuted(e) => IsExecuted(e)'
  BY DEF Grows, IsExecuted
<1>2. \A d : AnswerOK(d) => AnswerOK(d)'
  BY <1>1 DEF AnswerOK
<1>3. \A seq : AddressOK(seq) => AddressOK(seq)'
  BY <1>1 DEF AddressOK
<1>4. \A rd : ReadsOK(rd) => ReadsOK(rd)'
  BY <1>2, <1>3 DEF ReadsOK
<1> QED
  BY <1>1, <1>4 DEF PollOK

(* The page either keeps its reads or forgets them; only blocks append.    *)
KeepsOrForgets == UNCHANGED pollVars \/ (reads' = NoReads /\ polls' = NoPolls)

LEMMA ForgettingKeepsReads ==
  ASSUME ReadsAreTrue, KeepsOrForgets, Grows
  PROVE  ReadsAreTrue'
<1>1. CASE UNCHANGED pollVars
  <2>1. reads' = reads /\ polls' = polls
    BY <1>1 DEF pollVars
  <2> QED
    BY <2>1, GrowingKeepsReads DEF ReadsAreTrue
<1>2. CASE reads' = NoReads /\ polls' = NoPolls
  <2>1. NoReads \in ReadTypes /\ ReadsOK(NoReads)'
    BY DEF NoReads, ReadTypes, ReadsOK, AnswerOK, AddressOK
  <2> QED
    BY <1>2, <2>1 DEF NoPolls, ReadsAreTrue
<1> QED
  BY <1>1, <1>2 DEF KeepsOrForgets

LEMMA PageForgets ==
  ASSUME \/ Continue \/ Back \/ ToDone \/ onRetry \/ Reload \/ Reset
         \/ \E s \in Presses :
              \/ Press(s) \/ WalletSigns(s) \/ SigningFails(s) \/ Post(s) \/ Unreachable(s)
              \/ TimesOut(s) \/ NoneLeft(s) \/ Answered(s)
         \/ \E q \in Requests :
              \/ RelayRefuses(q) \/ RelayBroadcasts(q) \/ RelayLosesReply(q) \/ RelayReleases(q)
         \/ \E tx \in mempool : RelayBumps(tx)
  PROVE  KeepsOrForgets /\ executed' = executed
<1>1. \A v : Show(v) => KeepsOrForgets
  BY DEF Show, KeepsOrForgets
<1>2. \A s : \A tx : TriesNext(s) \/ Fails(s) \/ Follows(s, tx) => KeepsOrForgets
  BY <1>1 DEF TriesNext, Fails, Follows, KeepsOrForgets, pollVars
<1>3. CASE Continue \/ Back \/ ToDone \/ onRetry \/ Reload \/ Reset
  BY <1>1, <1>3 DEF Continue, Back, ToDone, onRetry, Reload, Reset, Loads, chainVars, KeepsOrForgets
<1>4. ASSUME NEW s \in Presses,
             \/ Press(s) \/ WalletSigns(s) \/ SigningFails(s) \/ Post(s) \/ Unreachable(s)
             \/ TimesOut(s) \/ NoneLeft(s) \/ Answered(s)
      PROVE  KeepsOrForgets /\ executed' = executed
  <2>1. CASE Press(s) \/ WalletSigns(s)
    BY <2>1 DEF Press, WalletSigns, chainVars, KeepsOrForgets
  <2>2. CASE SigningFails(s) \/ Unreachable(s) \/ TimesOut(s) \/ NoneLeft(s) \/ Answered(s)
    BY <1>2, <2>2 DEF SigningFails, Unreachable, TimesOut, NoneLeft, Answered, chainVars
  <2>3. CASE Post(s)
    BY <1>2, <2>3 DEF Post, chainVars, KeepsOrForgets, pollVars
  <2> QED
    BY <1>4, <2>1, <2>2, <2>3
<1>5. ASSUME NEW q \in Requests,
             RelayRefuses(q) \/ RelayBroadcasts(q) \/ RelayLosesReply(q) \/ RelayReleases(q)
      PROVE  KeepsOrForgets /\ executed' = executed
  BY <1>2, <1>5 DEF RelayRefuses, RelayBroadcasts, RelayLosesReply, RelayReleases,
     chainVars, KeepsOrForgets
<1>6. ASSUME NEW tx \in mempool, RelayBumps(tx)
      PROVE  KeepsOrForgets /\ executed' = executed
  BY <1>6 DEF RelayBumps, KeepsOrForgets
<1> QED
  BY <1>3, <1>4, <1>5, <1>6

LEMMA BlocksGrow ==
  ASSUME ChainOK, ByNonce, Mine \/ UserSends
  PROVE  KeepsOrForgets /\ Grows /\ ByNonce'
<1>1. ASSUME NEW tx, NEW status, Executes(tx, status)
      PROVE  KeepsOrForgets /\ Grows /\ ByNonce'
  <2>1. executed' = Append(executed, [tx |-> tx, status |-> status]) /\ tx.nonce = Len(executed)
    BY <1>1 DEF Executes
  <2>2. executed \in Seq([tx : Txs, status : Outcomes])
    BY DEF ChainOK
  <2>3. Len(executed) \in Nat /\ DOMAIN executed = 1 .. Len(executed)
    BY <2>2
  <2>4. DOMAIN executed' = 1 .. Len(executed) + 1
    BY <2>1, <2>2
  <2>5. \A i \in DOMAIN executed : executed'[i] = executed[i]
    BY <2>1, <2>2
  <2>6. executed'[Len(executed) + 1] = [tx |-> tx, status |-> status]
    BY <2>1, <2>2
  <2>7. ByNonce'
    BY <2>1, <2>3, <2>4, <2>5, <2>6 DEF ByNonce
  <2> QED
    BY <1>1, <2>3, <2>4, <2>5, <2>7 DEF Executes, KeepsOrForgets, Grows
<1> QED
  BY <1>1 DEF Mine, UserSends

-----------------------------------------------------------------------------
(* A poll reads what is true, and writes what it and earlier polls read.   *)

(* Every step of poll p but the last leaves the reads and the other polls. *)
LEMMA OnePollChanges ==
  ASSUME ReadsAreTrue, executed' = executed, reads' = reads, NEW p \in Polls, NEW q,
         polls' = [polls EXCEPT ![p] = q], PollOK(q) \/ q = None
  PROVE  ReadsAreTrue'
<1>1. Grows
  BY DEF Grows
<1>2. PollOK(q)' \/ q = None
  BY <1>1, GrowingKeepsReads
<1>3. \A x : PollOK(x) => PollOK(x)'
  BY <1>1, GrowingKeepsReads
<1>5. \A r \in Polls : polls'[r] = q \/ polls'[r] = polls[r]
  BY DEF ReadsAreTrue
<1>4. ReadsOK(reads)'
  BY <1>1, GrowingKeepsReads DEF ReadsAreTrue
<1> QED
  BY <1>2, <1>3, <1>4, <1>5 DEF ReadsAreTrue

LEMMA SuffixEntries ==
  ASSUME NEW S, NEW s \in Seq(S), NEW m \in 1 .. Len(s) + 1
  PROVE  /\ SubSeq(s, m, Len(s)) \in Seq(S)
         /\ \A i \in DOMAIN SubSeq(s, m, Len(s)) :
              \E j \in DOMAIN s : SubSeq(s, m, Len(s))[i] = s[j]
<1>1. \A i \in m .. Len(s) : s[i] \in S
  OBVIOUS
<1> DEFINE t == SubSeq(s, m, Len(s))
<1>2. /\ t \in Seq(S)
      /\ Len(t) = IF m <= Len(s) THEN Len(s) - m + 1 ELSE 0
      /\ \A i \in 1 .. Len(s) - m + 1 : t[i] = s[m + i - 1]
  BY <1>1, SubSeqProperties
<1> HIDE DEF t
<1>3. \A i \in DOMAIN t : i \in 1 .. Len(s) - m + 1 /\ m + i - 1 \in DOMAIN s
  BY <1>2
<1>4. \A i \in DOMAIN t : \E j \in DOMAIN s : t[i] = s[j]
  BY <1>2, <1>3
<1> QED
  BY <1>2, <1>4 DEF t

LEMMA DirectAnswerIsTrue ==
  ASSUME Types, ByNonce, ReportsDropped = FALSE, NEW tx \in Txs
  PROVE  /\ DirectAnswer(tx) \in {None} \union [tx : Txs, status : Outcomes \union {"pending"}]
         /\ AnswerOK(DirectAnswer(tx))
<1>1. CASE tx \in mempool
  BY <1>1 DEF DirectAnswer, AnswerOK
<1>2. CASE tx \notin mempool /\ Used(tx.nonce) /\ executed[tx.nonce + 1].tx = tx
  <2>1. DirectAnswer(tx) = [tx |-> tx, status |-> Outcome(tx.nonce)]
    BY <1>2 DEF DirectAnswer
  <2>2. tx.nonce + 1 \in DOMAIN executed
    BY <1>2 DEF Used, Types, ChainOK, Txs, Nonces
  <2>3. executed[tx.nonce + 1] \in [tx : Txs, status : Outcomes]
    <3>1. executed \in Seq([tx : Txs, status : Outcomes])
      BY DEF Types, ChainOK
    <3>2. tx.nonce + 1 \in 1 .. Len(executed)
      BY <2>2, <3>1
    <3> QED
      BY <3>1, <3>2, ElementOfSeq
  <2>4. Outcome(tx.nonce) \in Outcomes /\ Outcome(tx.nonce) = executed[tx.nonce + 1].status
    BY <2>3 DEF Outcome
  <2>5. IsExecuted([tx |-> tx, status |-> Outcome(tx.nonce)])
    BY <1>2, <2>2, <2>4 DEF IsExecuted
  <2> QED
    BY <2>1, <2>4, <2>5 DEF AnswerOK
<1>3. CASE tx \notin mempool /\ ~(Used(tx.nonce) /\ executed[tx.nonce + 1].tx = tx)
  BY <1>3 DEF DirectAnswer, AnswerOK
<1> QED
  BY <1>1, <1>2, <1>3

LEMMA PollStartsTrue ==
  ASSUME Types, ReadsAreTrue, NEW p \in Polls, PollStarts(p)
  PROVE  ReadsAreTrue'
<1> DEFINE q == [tx |-> result, base |-> reads, got |-> {}, direct |-> None, address |-> <<>>,
                 mempool |-> {}, failed |-> {}, late |-> Used(result.nonce)]
<1>1. polls' = [polls EXCEPT ![p] = q] /\ reads' = reads /\ executed' = executed
  BY DEF PollStarts, chainVars
<1>2. result \in Txs /\ reads \in ReadTypes /\ ReadsOK(reads)
  BY DEF PollStarts, Types, PageOK, ReadsAreTrue
<1>3. Used(result.nonce) \in BOOLEAN
  BY DEF Used
<1>4. q \in PollTypes
  BY <1>2, <1>3 DEF PollTypes
<1>5. ReadsOK(q.base) /\ ReadsOK(q)
  BY <1>2 DEF ReadsOK, AnswerOK, AddressOK
<1> QED
  BY <1>1, <1>4, <1>5, OnePollChanges DEF PollOK

LEMMA PollReadsTrue ==
  ASSUME Types, ByNonce, ReportsDropped = FALSE, ReadsAreTrue, NEW p \in Polls,
         PollReads(p) \/ ReadFails(p)
  PROVE  ReadsAreTrue'
<1>1. reads' = reads /\ executed' = executed
  BY DEF PollReads, ReadFails, chainVars
<1>2. polls[p] # None /\ PollOK(polls[p])
  BY DEF PollReads, ReadFails, ReadsDirect, ReadsAddress, ReadsMempool, Reading, ReadsAreTrue
<1>3. polls[p] \in PollTypes /\ ReadsOK(polls[p].base) /\ ReadsOK(polls[p])
  BY <1>2 DEF PollOK
<1>4. CASE ReadsDirect(p)
  <2> DEFINE d == DirectAnswer(polls[p].tx)
             q == [polls[p] EXCEPT !.got = @ \union {"direct"}, !.direct = d]
  <2>1. polls' = [polls EXCEPT ![p] = q]
    BY <1>4 DEF ReadsDirect
  <2>2. d \in {None} \union [tx : Txs, status : Outcomes \union {"pending"}] /\ AnswerOK(d)
    BY <1>3, DirectAnswerIsTrue DEF PollTypes
  <2> HIDE DEF d
  <2>3. q \in PollTypes /\ q.base = polls[p].base /\ q.direct = d /\ q.address = polls[p].address
    BY <1>3, <2>2 DEF PollTypes, Kinds
  <2>4. PollOK(q)
    BY <1>3, <2>2, <2>3 DEF PollOK, ReadsOK
  <2> QED
    BY <1>1, <2>1, <2>4, OnePollChanges
<1>5. CASE ReadsAddress(p)
  <2> DEFINE oldest == IF Len(executed) > AddressLimit THEN Len(executed) - AddressLimit + 1 ELSE 1
             a == SubSeq(executed, oldest, Len(executed))
             q == [polls[p] EXCEPT !.got = @ \union {"address"}, !.address = a]
  <2>1. polls' = [polls EXCEPT ![p] = q]
    BY <1>5 DEF ReadsAddress
  <2>2. executed \in Seq([tx : Txs, status : Outcomes]) /\ oldest \in 1 .. Len(executed) + 1
    BY DEF Types, ChainOK
  <2>3. a \in Seq([tx : Txs, status : Outcomes])
        /\ \A i \in DOMAIN a : \E j \in DOMAIN executed : a[i] = executed[j]
    <3> HIDE DEF oldest
    <3> QED
      BY <2>2, SuffixEntries
  <2>4. AddressOK(a)
    BY <2>3 DEF AddressOK, IsExecuted
  <2> HIDE DEF a
  <2>5. q \in PollTypes /\ q.base = polls[p].base /\ q.direct = polls[p].direct /\ q.address = a
    BY <1>3, <2>3 DEF PollTypes, Kinds
  <2>6. PollOK(q)
    BY <1>3, <2>4, <2>5 DEF PollOK, ReadsOK
  <2> QED
    BY <1>1, <2>1, <2>6, OnePollChanges
<1>6. CASE ReadsMempool(p)
  <2> DEFINE q == [polls[p] EXCEPT !.got = @ \union {"mempool"}, !.mempool = mempool]
  <2>1. polls' = [polls EXCEPT ![p] = q]
    BY <1>6 DEF ReadsMempool
  <2>2. q \in PollTypes /\ q.base = polls[p].base /\ q.direct = polls[p].direct
        /\ q.address = polls[p].address
    BY <1>3 DEF PollTypes, Kinds, Types, ChainOK
  <2>3. PollOK(q)
    BY <1>3, <2>2 DEF PollOK, ReadsOK
  <2> QED
    BY <1>1, <2>1, <2>3, OnePollChanges
<1>7. CASE ReadFails(p)
  <2>1. PICK what \in Kinds :
          polls' = [polls EXCEPT ![p].got = @ \union {what}, ![p].failed = @ \union {what}]
    BY <1>7 DEF ReadFails, Kinds
  <2> DEFINE q == [polls[p] EXCEPT !.got = @ \union {what}, !.failed = @ \union {what}]
  <2>2. polls' = [polls EXCEPT ![p] = q]
    BY <2>1
  <2>3. q \in PollTypes /\ q.base = polls[p].base /\ q.direct = polls[p].direct
        /\ q.address = polls[p].address
    BY <1>3 DEF PollTypes
  <2>4. PollOK(q)
    BY <1>3, <2>3 DEF PollOK, ReadsOK
  <2> QED
    BY <1>1, <2>2, <2>4, OnePollChanges
<1> QED
  BY <1>4, <1>5, <1>6, <1>7 DEF PollReads

LEMMA PollEndsTrue ==
  ASSUME ReadsAreTrue, NEW p \in Polls, PollEnds(p)
  PROVE  ReadsAreTrue'
<1> DEFINE q == polls[p]
           new == Learnt(q)
<1>1. reads' = new /\ polls' = [polls EXCEPT ![p] = None] /\ executed' = executed
  BY DEF PollEnds, chainVars
<1>2. PollOK(q)
  BY DEF PollEnds, ReadsAreTrue
<1>3. Grows
  BY <1>1 DEF Grows
<1>4. new.direct \in {q.direct, q.base.direct} /\ new.address \in {q.address, q.base.address}
      /\ new \in ReadTypes
  BY <1>2 DEF Learnt, PollOK, PollTypes, ReadTypes
<1>5. ReadsOK(new)
  BY <1>2, <1>4 DEF PollOK, ReadsOK
<1> HIDE DEF new
<1>6. \A x : ReadsOK(x) => ReadsOK(x)'
  BY <1>3, GrowingKeepsReads
<1>7. ReadsOK(reads)'
  BY <1>1, <1>5, <1>6
<1>8. \A x : PollOK(x) => PollOK(x)'
  BY <1>3, GrowingKeepsReads
<1>9. \A r \in Polls : polls'[r] = None \/ polls'[r] = polls[r]
  BY <1>1 DEF ReadsAreTrue
<1> QED
  BY <1>1, <1>4, <1>7, <1>8, <1>9 DEF ReadsAreTrue

PageInv == Types /\ ByNonce /\ ReadsAreTrue

LEMMA StepReads ==
  ASSUME PageInv, ReportsDropped = FALSE, [Next]_vars
  PROVE  ReadsAreTrue' /\ ByNonce'
<1> USE DEF PageInv
<1>1. executed' = executed => Grows /\ ByNonce'
  BY DEF Grows, ByNonce
<1>2. CASE UNCHANGED vars
  <2>1. KeepsOrForgets /\ executed' = executed
    BY <1>2 DEF vars, chainVars, KeepsOrForgets
  <2> QED
    BY <1>1, <2>1, ForgettingKeepsReads
<1>3. ASSUME KeepsOrForgets, executed' = executed PROVE ReadsAreTrue' /\ ByNonce'
  BY <1>1, <1>3, ForgettingKeepsReads
<1>4. CASE Mine \/ UserSends
  BY <1>4, BlocksGrow, ForgettingKeepsReads DEF Types
<1>5. ASSUME NEW p \in Polls, PollStarts(p) \/ PollReads(p) \/ ReadFails(p) \/ PollEnds(p)
      PROVE  ReadsAreTrue' /\ ByNonce'
  <2>1. executed' = executed
    BY <1>5 DEF PollStarts, PollReads, ReadFails, PollEnds, chainVars
  <2> QED
    BY <1>1, <1>5, <2>1, PollStartsTrue, PollReadsTrue, PollEndsTrue
<1> QED
  BY <1>2, <1>3, <1>4, <1>5, PageForgets DEF Next

(* A status that ends the polling is what the chain executed, at the nonce *)
(* followed.                                                               *)
LEMMA SettledIsExecuted ==
  ASSUME PageInv, result # None, shown # "pending"
  PROVE  Used(result.nonce) /\ shown = Outcome(result.nonce)
<1> DEFINE c == current(reads, result)
<1>1. c.nonce = result.nonce
  BY DEF current, confirmedTwins, twins
<1>2. Status(reads, c) \notin {"unseen", "pending"}
  BY DEF shown, txOutcome
<1> HIDE DEF c
<1>3. PICK e : e.tx = c /\ e.status = Status(reads, c) /\ IsExecuted(e)
  <2>1. CASE \E x \in Listed(reads) : x.tx = c
    <3>1. Status(reads, c) = (CHOOSE x \in Listed(reads) : x.tx = c).status
      BY <1>2, <2>1 DEF Status
    <3>2. \A x \in Listed(reads) : IsExecuted(x)
      BY DEF Listed, PageInv, ReadsAreTrue, ReadsOK, AddressOK
    <3> QED
      BY <2>1, <3>1, <3>2
  <2>2. CASE ~ \E x \in Listed(reads) : x.tx = c
    <3>1. reads.direct # None /\ reads.direct.tx = c /\ Status(reads, c) = reads.direct.status
      BY <1>2, <2>2 DEF Status
    <3> QED
      BY <1>2, <3>1 DEF PageInv, ReadsAreTrue, ReadsOK, AnswerOK
  <2> QED
    BY <2>1, <2>2
<1>4. PICK i \in DOMAIN executed : executed[i].tx = c /\ executed[i].status = Status(reads, c)
  BY <1>3 DEF IsExecuted
<1>5. i = result.nonce + 1 /\ result.nonce \in Nat
  <2>1. result \in Txs
    BY DEF PageInv, Types, PageOK
  <2>2. result.nonce \in Nat
    BY <2>1 DEF Txs, Nonces
  <2>3. i \in Nat /\ executed[i].tx.nonce = i - 1
    BY <1>4 DEF PageInv, ByNonce, Types, ChainOK
  <2> QED
    BY <1>1, <1>4, <2>2, <2>3
<1>6. executed[i].status \in Outcomes
  <2>1. executed \in Seq([tx : Txs, status : Outcomes]) /\ i \in 1 .. Len(executed)
    BY <1>4 DEF PageInv, Types, ChainOK
  <2>2. executed[i] \in [tx : Txs, status : Outcomes]
    BY <2>1, ElementOfSeq
  <2> QED
    BY <2>2
<1> QED
  <2>1. Used(result.nonce)
    BY <1>4, <1>5 DEF Used, PageInv, Types, ChainOK
  <2>2. shown = Status(reads, c)
    BY <1>2, <1>4, <1>6 DEF shown, txOutcome, Outcomes, c
  <2> QED
    BY <1>4, <1>5, <2>1, <2>2 DEF Outcome

LEMMA FinalIsExecuted == PageInv => ShownIsExecuted
BY SettledIsExecuted DEF ShownIsExecuted, Final

(* The Done page never shows an outcome that the chain has not executed at *)
(* the followed nonce, where the API answers 404 for what was dropped      *)
(* (amounts.js:160; the run Dropped is what happens where it does not).    *)
THEOREM ShownOutcomesAreExecuted ==
  ASSUME ReportsDropped = FALSE
  PROVE  Spec => []ShownIsExecuted
<1>1. Init => PageInv
  BY InitType, ReadsInit DEF PageInv
<1>2. PageInv /\ [Next]_vars => PageInv'
  BY StepType, StepReads DEF PageInv
<1> QED
  BY <1>1, <1>2, FinalIsExecuted, PTL DEF Spec

-----------------------------------------------------------------------------
(* A poll that starts after the swap executed settles it.                  *)

(* No node holds a transaction at a nonce the chain used.                  *)
Alive == \A t \in mempool : ~Used(t.nonce)

Heard(q, what) == what \in q.got \ q.failed

(* What a poll that started late has read so far.                          *)
LateOK(q) ==
  q.late =>
    /\ Used(q.tx.nonce)
    /\ Heard(q, "mempool") => \A t \in q.mempool : t.nonce # q.tx.nonce
    /\ Heard(q, "address") /\ Len(executed) - q.tx.nonce <= AddressLimit =>
         \E i \in DOMAIN q.address : q.address[i] = executed[q.tx.nonce + 1]
    /\ Heard(q, "direct") /\ executed[q.tx.nonce + 1].tx = q.tx =>
         q.direct # None /\ q.direct.tx = q.tx /\ q.direct.status \in Outcomes

LateInv == Alive /\ \A p \in Polls : polls[p] = None \/ LateOK(polls[p])

LEMMA AliveStep ==
  ASSUME Types, Alive, Next
  PROVE  Alive'
<1>1. \A t \in Txs : t.nonce \in Nat
  BY DEF Txs, Nonces
<1>2. executed \in Seq([tx : Txs, status : Outcomes]) /\ Len(executed) \in Nat
  BY DEF Types, ChainOK
<1>3. UNCHANGED <<executed, mempool>> => Alive'
  BY DEF Alive, Used
<1>4. ASSUME NEW q \in Requests, RelayBroadcasts(q) \/ RelayLosesReply(q) PROVE Alive'
  <2>1. executed' = executed /\ mempool' = mempool \union {FirstTx(q)} /\ ~Used(FirstTx(q).nonce)
    BY <1>4 DEF RelayBroadcasts, RelayLosesReply, FirstTx, Tx
  <2> QED
    BY <2>1 DEF Alive, Used
<1>5. ASSUME NEW tx \in mempool, RelayBumps(tx) PROVE Alive'
  <2>1. executed' = executed /\ mempool' = (mempool \ {tx}) \union {[tx EXCEPT !.bid = @ + 1]}
    BY <1>5 DEF RelayBumps
  <2>2. [tx EXCEPT !.bid = @ + 1].nonce = tx.nonce
    BY DEF Types, ChainOK, Txs
  <2> QED
    BY <2>1, <2>2 DEF Alive, Used
<1>6. ASSUME NEW tx, NEW status, Executes(tx, status) PROVE Alive'
  <2>1. /\ tx.nonce = Len(executed)
        /\ executed' = Append(executed, [tx |-> tx, status |-> status])
        /\ mempool' = {t \in mempool : t.nonce # tx.nonce}
    BY <1>6 DEF Executes
  <2>2. Len(executed') = Len(executed) + 1
    BY <1>2, <2>1
  <2>3. \A t \in mempool' : t.nonce \in Nat /\ ~(t.nonce < Len(executed)) /\ t.nonce # Len(executed)
    BY <1>1, <2>1 DEF Alive, Used, Types, ChainOK
  <2>4. \A t \in mempool' : ~(t.nonce < Len(executed'))
    BY <1>2, <2>2, <2>3
  <2> QED
    BY <2>4 DEF Alive, Used
<1>7. CASE Mine \/ UserSends
  BY <1>6, <1>7 DEF Mine, UserSends
<1>8. CASE Continue \/ Back \/ ToDone \/ onRetry \/ Reload \/ Reset
  BY <1>3, <1>8 DEF Continue, Back, ToDone, onRetry, Reload, Reset, Loads, chainVars
<1>9. ASSUME NEW s \in Presses,
             \/ Press(s) \/ WalletSigns(s) \/ SigningFails(s) \/ Post(s) \/ Unreachable(s)
             \/ TimesOut(s) \/ NoneLeft(s) \/ Answered(s)
      PROVE  Alive'
  BY <1>3, <1>9 DEF Press, WalletSigns, SigningFails, Post, Unreachable, TimesOut, NoneLeft,
     Answered, chainVars
<1>10. ASSUME NEW q \in Requests, RelayRefuses(q) \/ RelayReleases(q) PROVE Alive'
  BY <1>3, <1>10 DEF RelayRefuses, RelayReleases, chainVars
<1>11. ASSUME NEW p \in Polls, PollStarts(p) \/ PollReads(p) \/ ReadFails(p) \/ PollEnds(p)
       PROVE  Alive'
  BY <1>3, <1>11 DEF PollStarts, PollReads, ReadFails, PollEnds, chainVars
<1> QED
  BY <1>4, <1>5, <1>7, <1>8, <1>9, <1>10, <1>11 DEF Next

(* The chain grows: what a late poll read stays what it needs.             *)
LEMMA GrowingKeepsLate ==
  ASSUME Types, Types', Grows, NEW q, q \in PollTypes, LateOK(q)
  PROVE  LateOK(q)'
<1>1. q.tx.nonce \in Nat /\ Len(executed) \in Nat /\ Len(executed') \in Nat
      /\ DOMAIN executed = 1 .. Len(executed) /\ DOMAIN executed' = 1 .. Len(executed')
  BY DEF PollTypes, Txs, Nonces, Types, ChainOK
<1>2. Len(executed) <= Len(executed')
  BY <1>1 DEF Grows
<1>3. SUFFICES ASSUME q.late PROVE LateOK(q)'
  BY DEF LateOK
<1>4. Used(q.tx.nonce) /\ q.tx.nonce + 1 \in DOMAIN executed
  BY <1>1, <1>3 DEF LateOK, Used
<1>5. Used(q.tx.nonce)' /\ executed'[q.tx.nonce + 1] = executed[q.tx.nonce + 1]
  BY <1>1, <1>2, <1>4 DEF Used, Grows
<1>6. Len(executed') - q.tx.nonce <= AddressLimit => Len(executed) - q.tx.nonce <= AddressLimit
  BY <1>1, <1>2
<1>7. Heard(q, "address") /\ Len(executed') - q.tx.nonce <= AddressLimit =>
        \E i \in DOMAIN q.address : q.address[i] = executed'[q.tx.nonce + 1]
  BY <1>3, <1>5, <1>6 DEF LateOK
<1>8. Heard(q, "direct") /\ executed'[q.tx.nonce + 1].tx = q.tx =>
        q.direct # None /\ q.direct.tx = q.tx /\ q.direct.status \in Outcomes
  BY <1>3, <1>5 DEF LateOK
<1>9. Heard(q, "mempool") => \A t \in q.mempool : t.nonce # q.tx.nonce
  BY <1>3 DEF LateOK
<1> QED
  BY <1>5, <1>7, <1>8, <1>9 DEF LateOK, Heard

(* What each read adds.                                                    *)
LEMMA LateReads ==
  ASSUME PageInv, LateInv, NEW p \in Polls, PollReads(p) \/ ReadFails(p)
  PROVE  \A r \in Polls : polls'[r] = None \/ LateOK(polls'[r])
<1> DEFINE o == polls[p]
           n == o.tx.nonce
<1>1. DOMAIN polls = Polls
  BY DEF PageInv, ReadsAreTrue
<1>2. o # None
  BY DEF PollReads, ReadFails, ReadsDirect, ReadsAddress, ReadsMempool, Reading
<1>3. o \in PollTypes /\ LateOK(o)
  BY <1>2 DEF PageInv, ReadsAreTrue, PollOK, LateInv
<1>4. ASSUME NEW q, polls' = [polls EXCEPT ![p] = q], LateOK(q)
      PROVE  \A r \in Polls : polls'[r] = None \/ LateOK(polls'[r])
  BY <1>1, <1>4 DEF LateInv
<1>5. n \in Nat /\ executed \in Seq([tx : Txs, status : Outcomes]) /\ Len(executed) \in Nat
  BY <1>3 DEF PollTypes, Txs, Nonces, PageInv, Types, ChainOK
<1>6. Used(n) => n + 1 \in 1 .. Len(executed) /\ executed[n + 1] \in [tx : Txs, status : Outcomes]
  <2>1. Used(n) => n + 1 \in 1 .. Len(executed)
    BY <1>5 DEF Used
  <2> QED
    BY <1>5, <2>1, ElementOfSeq
<1>7. CASE ReadsMempool(p)
  <2> DEFINE q == [o EXCEPT !.got = @ \union {"mempool"}, !.mempool = mempool]
  <2>1. polls' = [polls EXCEPT ![p] = q]
    BY <1>7 DEF ReadsMempool
  <2>2. q.late = o.late /\ q.tx = o.tx /\ q.got = o.got \union {"mempool"} /\ q.failed = o.failed
        /\ q.direct = o.direct /\ q.address = o.address /\ q.mempool = mempool
    BY <1>3 DEF PollTypes
  <2> HIDE DEF q
  <2>3. o.late => \A t \in mempool : t.nonce # n
    BY <1>3 DEF LateOK, LateInv, Alive
  <2>4. LateOK(q)
    BY <1>3, <2>2, <2>3 DEF LateOK, Heard
  <2> QED
    BY <1>4, <2>1, <2>4
<1>8. CASE ReadsDirect(p)
  <2> DEFINE d == DirectAnswer(o.tx)
             q == [o EXCEPT !.got = @ \union {"direct"}, !.direct = d]
  <2>1. polls' = [polls EXCEPT ![p] = q]
    BY <1>8 DEF ReadsDirect
  <2>2. o.late /\ executed[n + 1].tx = o.tx =>
          d # None /\ d.tx = o.tx /\ d.status \in Outcomes
    <3>1. SUFFICES ASSUME o.late, executed[n + 1].tx = o.tx
                   PROVE  d # None /\ d.tx = o.tx /\ d.status \in Outcomes
      OBVIOUS
    <3>2. Used(n) /\ o.tx \notin mempool
      BY <1>3, <3>1 DEF LateOK, LateInv, Alive
    <3>3. d = [tx |-> o.tx, status |-> executed[n + 1].status]
      BY <3>1, <3>2 DEF DirectAnswer, Outcome
    <3>4. executed[n + 1].status \in Outcomes
      BY <1>6, <3>2
    <3>5. d # None
      <4>1. o.tx \in Txs
        BY <1>3 DEF PollTypes
      <4>2. [tx |-> o.tx, status |-> executed[n + 1].status]
              \in [tx : Txs, status : {"success", "abort", "pending", "dropped"}]
        BY <3>4, <4>1 DEF Outcomes
      <4> QED
        BY <3>3, <4>2, NoneAssumption
    <3> QED
      BY <3>3, <3>4, <3>5
  <2> HIDE DEF d
  <2>3. q.late = o.late /\ q.tx = o.tx /\ q.got = o.got \union {"direct"} /\ q.failed = o.failed
        /\ q.direct = d /\ q.address = o.address /\ q.mempool = o.mempool
    BY <1>3 DEF PollTypes
  <2> HIDE DEF q
  <2>4. LateOK(q)
    BY <1>3, <2>2, <2>3 DEF LateOK, Heard
  <2> QED
    BY <1>4, <2>1, <2>4
<1>9. CASE ReadsAddress(p)
  <2> DEFINE oldest == IF Len(executed) > AddressLimit THEN Len(executed) - AddressLimit + 1 ELSE 1
             a == SubSeq(executed, oldest, Len(executed))
             q == [o EXCEPT !.got = @ \union {"address"}, !.address = a]
  <2>1. polls' = [polls EXCEPT ![p] = q]
    BY <1>9 DEF ReadsAddress
  <2>2. oldest \in 1 .. Len(executed) + 1
    BY <1>5
  <2>3. o.late /\ Len(executed) - n <= AddressLimit => n + 1 \in oldest .. Len(executed)
    BY <1>3, <1>5, SMTT(60) DEF LateOK, Used
  <2> HIDE DEF oldest
  <2>4. \A j \in oldest .. Len(executed) : \E i \in DOMAIN a : a[i] = executed[j]
    <3>1. /\ Len(a) = IF oldest <= Len(executed) THEN Len(executed) - oldest + 1 ELSE 0
          /\ a \in Seq([tx : Txs, status : Outcomes])
          /\ \A i \in 1 .. Len(executed) - oldest + 1 : a[i] = executed[oldest + i - 1]
      <4>1. \A i \in oldest .. Len(executed) : executed[i] \in [tx : Txs, status : Outcomes]
        <5>1. \A i \in oldest .. Len(executed) : i \in 1 .. Len(executed)
          BY <1>5, <2>2
        <5>2. \A i \in 1 .. Len(executed) : executed[i] \in [tx : Txs, status : Outcomes]
          BY <1>5, ElementOfSeq
        <5> QED
          BY <5>1, <5>2
      <4> QED
        BY <1>5, <2>2, <4>1, SubSeqProperties
    <3> HIDE DEF a
    <3>2. TAKE j \in oldest .. Len(executed)
    <3>3. PICK i \in Int : i = j - oldest + 1
      BY <1>5, <2>2
    <3>4. i \in 1 .. Len(executed) - oldest + 1 /\ oldest + i - 1 = j /\ i \in 1 .. Len(a)
      BY <1>5, <2>2, <3>1, <3>3, SMTT(60)
    <3>5. i \in DOMAIN a /\ a[i] = executed[j]
      BY <3>1, <3>4
    <3> QED
      BY <3>5
  <2> HIDE DEF a
  <2>5. q.late = o.late /\ q.tx = o.tx /\ q.got = o.got \union {"address"} /\ q.failed = o.failed
        /\ q.direct = o.direct /\ q.address = a /\ q.mempool = o.mempool
    BY <1>3 DEF PollTypes
  <2> HIDE DEF q
  <2>6. LateOK(q)
    BY <1>3, <2>3, <2>4, <2>5 DEF LateOK, Heard
  <2> QED
    BY <1>4, <2>1, <2>6
<1>10. CASE ReadFails(p)
  <2>1. PICK what \in Kinds :
          polls' = [polls EXCEPT ![p].got = @ \union {what}, ![p].failed = @ \union {what}]
    BY <1>10 DEF ReadFails, Kinds
  <2> DEFINE q == [o EXCEPT !.got = @ \union {what}, !.failed = @ \union {what}]
  <2>2. polls' = [polls EXCEPT ![p] = q]
    BY <2>1
  <2>3. q.late = o.late /\ q.tx = o.tx /\ q.got = o.got \union {what}
        /\ q.failed = o.failed \union {what}
        /\ q.direct = o.direct /\ q.address = o.address /\ q.mempool = o.mempool
    BY <1>3 DEF PollTypes
  <2> HIDE DEF q
  <2>4. \A k : Heard(q, k) => Heard(o, k)
    BY <2>3 DEF Heard
  <2>5. LateOK(q)
    BY <1>3, <2>3, <2>4 DEF LateOK
  <2> QED
    BY <1>4, <2>2, <2>5
<1> QED
  BY <1>7, <1>8, <1>9, <1>10 DEF PollReads

LEMMA LateInit == Init => LateInv
BY DEF Init, LateInv, Alive, NoPolls

LEMMA LateStep == PageInv /\ PageInv' /\ LateInv /\ [Next]_vars => LateInv'
<1> SUFFICES ASSUME PageInv, PageInv', LateInv, [Next]_vars PROVE LateInv'
  OBVIOUS
<1>1. CASE UNCHANGED vars
  BY <1>1 DEF vars, chainVars, pollVars, LateInv, Alive, LateOK, Used
<1>2. CASE Next
  <2>1. Alive'
    BY <1>2, AliveStep DEF PageInv, LateInv
  <2>2. ASSUME KeepsOrForgets, Grows
        PROVE  \A p \in Polls : polls'[p] = None \/ LateOK(polls[p])'
    <3>1. CASE polls' = polls
      <4>1. \A p \in Polls : polls[p] = None \/ LateOK(polls[p])'
        <5>1. \A q : q \in PollTypes /\ LateOK(q) => LateOK(q)'
          BY <2>2, GrowingKeepsLate DEF PageInv
        <5>2. TAKE p \in Polls
        <5>3. CASE polls[p] # None
          <6>1. PICK q : q = polls[p]
            OBVIOUS
          <6>2. LateOK(q)'
            BY <5>1, <5>3, <6>1 DEF LateInv, PageInv, ReadsAreTrue, PollOK
          <6>3. polls[p]' = q
            BY <3>1, <6>1
          <6> QED
            BY <6>2, <6>3
        <5> QED
          BY <5>3
      <4> QED
        BY <3>1, <4>1
    <3>2. CASE polls' = NoPolls
      BY <3>2 DEF NoPolls
    <3> QED
      BY <2>2, <3>1, <3>2 DEF KeepsOrForgets, pollVars
  <2>3. executed' = executed => Grows
    BY DEF Grows
  <2>4. CASE Mine \/ UserSends
    BY <2>1, <2>2, <2>4, BlocksGrow DEF PageInv, Types, LateInv
  <2>5. ASSUME NEW p \in Polls, PollStarts(p) \/ PollReads(p) \/ ReadFails(p) \/ PollEnds(p)
        PROVE  LateInv'
    <3>1. executed' = executed
      BY <2>5 DEF PollStarts, PollReads, ReadFails, PollEnds, chainVars
    <3>2. \A q : LateOK(q) <=> LateOK(q)'
      BY <3>1 DEF LateOK, Used
    <3>3. DOMAIN polls = Polls
      BY DEF PageInv, ReadsAreTrue
    <3>4. \A r \in Polls : polls'[r] = None \/ LateOK(polls'[r])
      <4>1. CASE PollStarts(p)
        <5> DEFINE q == [tx |-> result, base |-> reads, got |-> {}, direct |-> None,
                         address |-> <<>>, mempool |-> {}, failed |-> {},
                         late |-> Used(result.nonce)]
        <5>1. polls' = [polls EXCEPT ![p] = q]
          BY <4>1 DEF PollStarts
        <5>2. LateOK(q)
          BY DEF LateOK, Heard
        <5> HIDE DEF q
        <5> QED
          BY <3>3, <5>1, <5>2 DEF LateInv
      <4>2. CASE PollReads(p) \/ ReadFails(p)
        BY <4>2, LateReads
      <4>3. CASE PollEnds(p)
        BY <3>3, <4>3 DEF PollEnds, LateInv
      <4> QED
        BY <2>5, <4>1, <4>2, <4>3
    <3>5. \A r \in Polls : (polls[r])' = None \/ LateOK(polls[r])'
      <4>1. TAKE r \in Polls
      <4>2. PICK q : q = polls'[r]
        OBVIOUS
      <4>3. q = None \/ LateOK(q)'
        BY <3>2, <3>4, <4>2
      <4> QED
        BY <4>2, <4>3
    <3> QED
      BY <2>1, <3>5 DEF LateInv
  <2>6. ASSUME KeepsOrForgets, executed' = executed PROVE LateInv'
    BY <2>1, <2>2, <2>3, <2>6 DEF LateInv
  <2> QED
    BY <1>2, <2>4, <2>5, <2>6, PageForgets DEF Next
<1> QED
  BY <1>1, <1>2

(* The read of a whole late poll names the executed transaction, with its  *)
(* outcome.                                                                *)
LEMMA LateSettles ==
  ASSUME PageInv, LateInv, result # None, NEW p \in Polls,
         PollEnds(p), polls[p].late, polls[p].failed = {}, polls[p].tx = result, Reachable(result)
  PROVE  LET rd == Learnt(polls[p]) IN mined(Status(rd, current(rd, result)))
<1> DEFINE q == polls[p]
           rd == Learnt(q)
           n == result.nonce
           x == executed[n + 1].tx
<1> SUFFICES mined(Status(rd, current(rd, result)))
  OBVIOUS
<1>1. q \in PollTypes /\ LateOK(q) /\ q.base \in ReadTypes
  BY DEF PollEnds, PageInv, ReadsAreTrue, PollOK, LateInv, PollTypes
<1>2. q.got = Kinds
  <2>1. q.got \subseteq Kinds /\ Cardinality(q.got) = 3
    BY <1>1 DEF PollEnds, PollTypes
  <2>2. IsFiniteSet(Kinds) /\ Cardinality(Kinds) = 3
    <3>1. \A a, b, c : a # b /\ a # c /\ b # c =>
            IsFiniteSet({a} \union {b} \union {c}) /\ Cardinality({a} \union {b} \union {c}) = 3
      <4>1. SUFFICES ASSUME NEW a, NEW b, NEW c, a # b, a # c, b # c
                     PROVE  /\ IsFiniteSet({a} \union {b} \union {c})
                            /\ Cardinality({a} \union {b} \union {c}) = 3
        OBVIOUS
      <4>2. IsFiniteSet({a}) /\ Cardinality({a}) = 1
        BY FS_Singleton
      <4>3. \A S, y : IsFiniteSet(S) /\ y \notin S =>
              IsFiniteSet(S \union {y}) /\ Cardinality(S \union {y}) = Cardinality(S) + 1
        BY FS_AddElement, Zenon
      <4>4. IsFiniteSet({a} \union {b}) /\ Cardinality({a} \union {b}) = 1 + 1
        BY <4>1, <4>2, <4>3
      <4>5. IsFiniteSet({a} \union {b} \union {c})
            /\ Cardinality({a} \union {b} \union {c}) = Cardinality({a} \union {b}) + 1
        <5>1. c \notin {a} \union {b}
          BY <4>1
        <5> QED
          BY <4>3, <4>4, <5>1, Zenon
      <4>6. (1 + 1) + 1 = 3
        OBVIOUS
      <4> QED
        BY <4>4, <4>5, <4>6, Zenon
    <3>2. Kinds = {"direct"} \union {"address"} \union {"mempool"}
      BY DEF Kinds
    <3> QED
      BY <3>1, <3>2
  <2> QED
    BY <2>1, <2>2, FS_Subset
<1>3. Heard(q, "direct") /\ Heard(q, "address") /\ Heard(q, "mempool")
  BY <1>2 DEF Heard, Kinds
<1>4. rd.mempool = q.mempool /\ rd.address = q.address
      /\ (q.direct # None => rd.direct = q.direct)
  BY DEF Learnt
<1>5. rd \in ReadTypes
  BY <1>1 DEF Learnt, PollTypes, ReadTypes
<1>6. n \in Nat /\ executed \in Seq([tx : Txs, status : Outcomes]) /\ Len(executed) \in Nat
  BY DEF PageInv, Types, PageOK, ChainOK, Txs, Nonces
<1>7. Used(n) /\ n + 1 \in 1 .. Len(executed) /\ n + 1 \in DOMAIN executed
  BY <1>1, <1>6 DEF LateOK, Used
<1>8. x.nonce = n
  BY <1>6, <1>7 DEF PageInv, ByNonce
<1>9. x \notin rd.mempool
  BY <1>1, <1>3, <1>4, <1>8 DEF LateOK
<1> HIDE DEF rd
<1>10. ASSUME NEW e \in Listed(rd), e.tx = x PROVE x \in byId(rd) /\ mined(Status(rd, x))
  <2> DEFINE c == CHOOSE y \in Listed(rd) : y.tx = x
  <2>1. c \in Listed(rd)
    BY <1>10
  <2>2. c.status \in Outcomes
    <3>1. \A i \in DOMAIN rd.address : rd.address[i] \in [tx : Txs, status : Outcomes]
      <4>1. rd.address \in Seq([tx : Txs, status : Outcomes])
        BY <1>5 DEF ReadTypes
      <4> QED
        <5>1. \A i \in 1 .. Len(rd.address) : rd.address[i] \in [tx : Txs, status : Outcomes]
          BY <4>1, ElementOfSeq
        <5> QED
          BY <4>1, <5>1
    <3> QED
      BY <2>1, <3>1 DEF Listed
  <2>3. Status(rd, x) = c.status
    BY <1>9, <1>10 DEF Status
  <2> QED
    BY <1>10, <2>2, <2>3 DEF byId, mined, Outcomes
<1>11. CASE Len(executed) - n <= AddressLimit
  <2>1. PICK i \in DOMAIN q.address : q.address[i] = executed[n + 1]
    BY <1>1, <1>3, <1>11 DEF LateOK
  <2>2. rd.address[i] \in Listed(rd) /\ rd.address[i].tx = x
    BY <1>4, <2>1 DEF Listed
  <2>3. x \in byId(rd) /\ mined(Status(rd, x))
    BY <1>10, <2>2
  <2>4. CASE x = result
    BY <2>3, <2>4 DEF current
  <2>5. CASE x # result
    <3>1. x \in confirmedTwins(rd, result)
      <4>1. x.nonce = result.nonce
        BY <1>8
      <4>2. \A t : t \in byId(rd) /\ t # result /\ t.nonce = result.nonce /\ mined(Status(rd, t))
              => t \in confirmedTwins(rd, result)
        BY DEF confirmedTwins, twins
      <4>3. x \in byId(rd) /\ mined(Status(rd, x)) /\ x # result
        BY <2>3, <2>5
      <4> HIDE DEF x, n, rd, q
      <4> QED
        BY <2>3, <2>5, <4>1, <4>2
    <3>2. CASE mined(Status(rd, result))
      BY <3>2 DEF current
    <3>3. CASE ~mined(Status(rd, result))
      <4>1. PICK C : C = confirmedTwins(rd, result)
        OBVIOUS
      <4>2. current(rd, result) = CHOOSE t \in C : TRUE
        BY <3>1, <3>3, <4>1 DEF current
      <4>3. (CHOOSE t \in C : TRUE) \in C
        BY <3>1, <4>1
      <4>4. current(rd, result) \in confirmedTwins(rd, result)
        BY <4>1, <4>2, <4>3
      <4> QED
        BY <4>4 DEF confirmedTwins
    <3> QED
      BY <3>2, <3>3
  <2> QED
    BY <2>4, <2>5
<1>12. CASE x = result
  <2>1. q.direct # None /\ q.direct.tx = result /\ q.direct.status \in Outcomes
    BY <1>1, <1>3, <1>12 DEF LateOK
  <2>2. rd.direct # None /\ rd.direct.tx = x /\ rd.direct.status \in Outcomes
    BY <1>4, <1>12, <2>1
  <2>3. mined(Status(rd, x))
    <3>1. CASE \E e \in Listed(rd) : e.tx = x
      BY <1>10, <3>1
    <3>2. CASE ~ \E e \in Listed(rd) : e.tx = x
      <4>1. Status(rd, x) = rd.direct.status
        BY <1>9, <2>2, <3>2 DEF Status
      <4> QED
        BY <2>2, <4>1 DEF mined, Outcomes
    <3> QED
      BY <3>1, <3>2
  <2>4. current(rd, result) = result
    BY <1>12, <2>3 DEF current
  <2> QED
    BY <1>12, <2>3, <2>4
<1> QED
  BY <1>11, <1>12 DEF Reachable

ShowsTruth == result # None /\ shown # "pending" => Used(result.nonce) /\ shown = Outcome(result.nonce)

FreshPoll ==
  \A p \in Polls :
    (/\ PollEnds(p) /\ polls[p].late /\ polls[p].failed = {}
     /\ polls[p].tx = result /\ Reachable(result))
      => shown' = Outcome(result.nonce)

LEMMA FreshStep ==
  PageInv /\ LateInv /\ ShowsTruth' /\ [Next]_vars => FreshPoll
<1> SUFFICES ASSUME PageInv, LateInv, ShowsTruth', NEW p \in Polls, PollEnds(p), polls[p].late,
                    polls[p].failed = {}, polls[p].tx = result, Reachable(result)
             PROVE  shown' = Outcome(result.nonce)
  BY DEF FreshPoll
<1>1. reads' = Learnt(polls[p]) /\ result' = result /\ executed' = executed
  BY DEF PollEnds, pageVars, chainVars
<1>2. result # None
  <2>1. result \in Txs
    BY DEF PollEnds, PageInv, ReadsAreTrue, PollOK, PollTypes
  <2> QED
    BY <2>1, NoneAssumption
<1>3. mined(Status(reads', current(reads', result)))
  BY <1>1, <1>2, LateSettles
<1>4. shown' = txOutcome(Status(reads', current(reads', result')))
  BY DEF shown
<1>5. shown' # "pending"
  BY <1>1, <1>3, <1>4 DEF txOutcome, mined
<1>6. shown' = Outcome(result.nonce)'
  BY <1>1, <1>2, <1>5 DEF ShowsTruth
<1> QED
  BY <1>1, <1>6 DEF Outcome

(* A poll that starts after the swap executed and whose reads succeed      *)
(* shows the outcome, whatever bumps and twins came before and however     *)
(* many other polls are still to end (steps.jsx:341), where the API        *)
(* answers 404 for what was dropped.                                       *)
THEOREM FreshPollsSettle ==
  ASSUME ReportsDropped = FALSE
  PROVE  Spec => FreshPollSettles
<1>1. Init => PageInv
  BY InitType, ReadsInit DEF PageInv
<1>2. PageInv /\ [Next]_vars => PageInv'
  BY StepType, StepReads DEF PageInv
<1>3. PageInv => ShowsTruth
  BY SettledIsExecuted DEF ShowsTruth
<1>4. PageInv /\ LateInv /\ ShowsTruth' /\ [Next]_vars => FreshPoll
  BY FreshStep
<1>5. Spec => [][FreshPoll]_vars
  BY <1>1, <1>2, <1>3, <1>4, LateInit, LateStep, PTL DEF Spec
<1> QED
  BY <1>5, PTL DEF FreshPollSettles, FreshPoll

-----------------------------------------------------------------------------
(* Before the first block, without faults, a pending swap is followed.     *)

Now == Len(Earlier)

Calm == mishaps = 0 /\ executed = History

WaitsFor(s, q) == presses[s].pc = "waiting" /\ Asked(s) = q

(* The page follows the nonce, or a press still waits for an answer that   *)
(* will take it there.                                                     *)
Followed ==
  \/ result # None /\ result.nonce = Now
  \/ \E s \in Presses : \E q \in booked : WaitsFor(s, q)

SignsNow == \A s \in Presses : presses[s].pc \in {"posting", "waiting"} => presses[s].nonce = Now

(* While nobody times out, a relay serves only who waits for it.           *)
ServesWaiting ==
  \A q \in serving : q[2] = Now /\ q \notin booked /\ \E s \in Presses : WaitsFor(s, q)

PendingNow == \A t \in mempool : t.nonce = Now

CalmOK == SignsNow /\ ServesWaiting /\ PendingNow /\ (mempool # {} => Followed)

FollowInv == Now <= Len(executed) /\ (Calm => CalmOK)

LEMMA NowType == Now \in Nat /\ Len(History) = Now
BY HistoryType DEF Now

LEMMA FollowInit == Init => FollowInv
<1> SUFFICES ASSUME Init PROVE FollowInv
  OBVIOUS
<1>1. Len(executed) = Now /\ Now \in Nat
  BY NowType DEF Init
<1>2. SignsNow
  BY DEF Init, Idle, SignsNow
<1>3. ServesWaiting /\ PendingNow /\ mempool = {}
  BY DEF Init, ServesWaiting, PendingNow
<1> QED
  BY <1>1, <1>2, <1>3 DEF FollowInv, CalmOK

LEMMA FollowSuffices == FollowInv => PendingIsFollowed
BY DEF FollowInv, CalmOK, Calm, PendingNow, Followed, WaitsFor, PendingIsFollowed

(* A press that does not wait goes on or ends: nobody else's wait changes. *)
LEMMA OtherWaits ==
  ASSUME PageOK, NEW s \in Presses, NEW rec, presses' = [presses EXCEPT ![s] = rec]
  PROVE  /\ presses'[s] = rec
         /\ \A r \in Presses \ {s} : presses'[r] = presses[r]
         /\ \A r \in Presses \ {s} : \A q : WaitsFor(r, q) <=> WaitsFor(r, q)'
<1>1. presses'[s] = rec /\ \A r \in Presses \ {s} : presses'[r] = presses[r]
  BY DEF PageOK
<1> QED
  BY <1>1 DEF WaitsFor, Asked

LEMMA PressFollows ==
  ASSUME Types, CalmOK, Calm', Calm, NEW s \in Presses,
         \/ Press(s) \/ WalletSigns(s) \/ SigningFails(s) \/ Post(s) \/ Unreachable(s)
         \/ TimesOut(s) \/ NoneLeft(s) \/ Answered(s)
  PROVE  CalmOK'
<1> USE DEF Types
<1>1. mempool' = mempool /\ booked' = booked /\ PendingNow'
  BY DEF Press, WalletSigns, SigningFails, Post, Unreachable, TimesOut, NoneLeft, Answered,
     chainVars, relayVars, CalmOK, PendingNow, Now
<1>2. ~Unreachable(s) /\ ~TimesOut(s)
  BY DEF Unreachable, TimesOut, Mishap, Calm
<1>3. ASSUME NEW rec, presses' = [presses EXCEPT ![s] = rec], presses[s].pc # "waiting",
             rec.pc \in {"idle", "signing"} \/ (rec.pc = "posting" /\ rec.nonce = Now),
             serving' = serving, result' = result
      PROVE  CalmOK'
  <2>1. /\ presses'[s] = rec
        /\ \A r \in Presses \ {s} : presses'[r] = presses[r]
        /\ \A r \in Presses \ {s} : \A q : WaitsFor(r, q) <=> WaitsFor(r, q)'
    BY <1>3, OtherWaits
  <2>2. SignsNow'
    BY <1>3, <2>1 DEF CalmOK, SignsNow, Now
  <2>3. \A r \in Presses : \A q : WaitsFor(r, q) => WaitsFor(r, q)'
    BY <1>3, <2>1 DEF WaitsFor
  <2>4. ServesWaiting'
    BY <1>1, <1>3, <2>3 DEF CalmOK, ServesWaiting, Now
  <2>5. Followed => Followed'
    BY <1>1, <1>3, <2>3 DEF Followed, Now
  <2> QED
    BY <1>1, <2>2, <2>4, <2>5 DEF CalmOK
<1>4. ASSUME NEW tx, tx.nonce = Now, tx # None, Follows(s, tx), serving' = serving,
             presses[s].pc = "waiting" => Asked(s) \notin serving
      PROVE  CalmOK'
  <2>1. /\ presses'[s] = Idle
        /\ \A r \in Presses \ {s} : presses'[r] = presses[r]
        /\ \A r \in Presses \ {s} : \A q : WaitsFor(r, q) <=> WaitsFor(r, q)'
    BY <1>4, OtherWaits DEF Follows, Becomes
  <2>2. SignsNow'
    BY <2>1 DEF CalmOK, SignsNow, Now, Idle
  <2>3. ServesWaiting'
    BY <1>1, <1>4, <2>1 DEF CalmOK, ServesWaiting, WaitsFor, Now
  <2>4. Followed'
    BY <1>4 DEF Follows, Followed, Now
  <2> QED
    BY <1>1, <2>2, <2>3, <2>4 DEF CalmOK
<1>5. CASE Press(s)
  <2>1. [presses[s] EXCEPT !.pc = "signing"].pc = "signing" /\ presses[s].pc # "waiting"
    BY <1>5 DEF Press, PageOK, PressType
  <2>2. presses' = [presses EXCEPT ![s] = [presses[s] EXCEPT !.pc = "signing"]]
    BY <1>5 DEF Press, Moves
  <2> QED
    BY <1>3, <1>5, <2>1, <2>2 DEF Press, relayVars
<1>6. CASE WalletSigns(s)
  <2> DEFINE rec == [presses[s] EXCEPT !.pc = "posting", !.nonce = Len(executed), !.left = Ranked]
  <2>1. rec.pc = "posting" /\ rec.nonce = Now /\ presses[s].pc # "waiting"
    BY <1>6, NowType DEF WalletSigns, PageOK, PressType, Calm
  <2>2. presses' = [presses EXCEPT ![s] = rec]
    BY <1>6 DEF WalletSigns
  <2> HIDE DEF rec
  <2> QED
    BY <1>3, <1>6, <2>1, <2>2 DEF WalletSigns, relayVars
<1>7. CASE SigningFails(s) \/ NoneLeft(s)
  BY <1>3, <1>7 DEF SigningFails, NoneLeft, Fails, Becomes, Idle, relayVars
<1>8. \A q : FirstTx(q).nonce = q[2]
  BY DEF FirstTx, Tx
<1>9. CASE Answered(s)
  <2>1. Asked(s) \in Requests /\ FirstTx(Asked(s)) \in Txs
    BY <1>9, AskedType DEF Answered, PageOK
  <2>2. FirstTx(Asked(s)) # None
    BY <2>1, NoneAssumption
  <2>3. FirstTx(Asked(s)).nonce = Now
    BY <1>9, <1>8 DEF Answered, Asked, CalmOK, SignsNow
  <2>4. Asked(s) \notin serving
    BY <1>9 DEF Answered, CalmOK, ServesWaiting
  <2> QED
    BY <1>4, <1>9, <2>2, <2>3, <2>4 DEF Answered, relayVars
<1>10. CASE Post(s)
  <2>1. Asked(s) \in Requests /\ FirstTx(Asked(s)) \in Txs /\ presses[s].pc = "posting"
        /\ presses[s].left # <<>>
    BY <1>10, AskedType DEF Post
  <2>2. FirstTx(Asked(s)) # None
    BY <2>1, NoneAssumption
  <2>3. FirstTx(Asked(s)).nonce = Now /\ Asked(s)[2] = Now
    BY <2>1, <1>8 DEF Asked, CalmOK, SignsNow
  <2>4. CASE Asked(s) \in booked /\ Follows(s, FirstTx(Asked(s))) /\ UNCHANGED relayVars
    BY <1>4, <2>1, <2>2, <2>3, <2>4 DEF relayVars
  <2>5. CASE Fails(s) /\ UNCHANGED relayVars
    BY <1>3, <2>1, <2>5 DEF Fails, Becomes, Idle, relayVars
  <2>6. CASE /\ Asked(s) \notin serving \union booked
             /\ serving' = serving \union {Asked(s)}
             /\ Moves(s, "waiting")
             /\ UNCHANGED <<view, result, mounted, pollVars, booked>>
    <3> DEFINE rec == [presses[s] EXCEPT !.pc = "waiting"]
    <3>1. rec.pc = "waiting" /\ rec.nonce = presses[s].nonce /\ rec.left = presses[s].left
      BY DEF PageOK, PressType
    <3>2. presses' = [presses EXCEPT ![s] = rec]
      BY <2>6 DEF Moves
    <3> HIDE DEF rec
    <3>3. /\ presses'[s] = rec
          /\ \A r \in Presses \ {s} : presses'[r] = presses[r]
          /\ \A r \in Presses \ {s} : \A q : WaitsFor(r, q) <=> WaitsFor(r, q)'
      BY <3>2, OtherWaits
    <3>4. SignsNow'
      BY <2>1, <3>1, <3>3 DEF CalmOK, SignsNow, Now
    <3>5. \A r \in Presses : \A q : WaitsFor(r, q) => WaitsFor(r, q)'
      BY <2>1, <3>3 DEF WaitsFor
    <3>6. PICK a : a = Asked(s)
      OBVIOUS
    <3>7. WaitsFor(s, a)'
      BY <3>1, <3>3, <3>6 DEF WaitsFor, Asked
    <3>8. ServesWaiting'
      BY <1>1, <2>3, <2>6, <3>5, <3>6, <3>7 DEF CalmOK, ServesWaiting, Now
    <3>9. Followed => Followed'
      BY <1>1, <2>6, <3>5 DEF Followed, Now
    <3> QED
      BY <1>1, <3>4, <3>8, <3>9 DEF CalmOK
  <2> QED
    BY <1>10, <2>4, <2>5, <2>6 DEF Post
<1> QED
  BY <1>2, <1>5, <1>6, <1>7, <1>9, <1>10

LEMMA RelayFollows ==
  ASSUME Types, CalmOK, Calm', Calm, NEW q \in Requests,
         RelayRefuses(q) \/ RelayBroadcasts(q) \/ RelayLosesReply(q) \/ RelayReleases(q)
  PROVE  CalmOK'
<1> USE DEF Types
<1>1. ~RelayLosesReply(q)
  BY DEF RelayLosesReply, Mishap, Calm
<1>2. CASE RelayRefuses(q)
  <2>1. mempool' = mempool /\ booked' = booked /\ serving' = serving \ {q} /\ PendingNow'
        /\ q \in serving /\ q \notin booked
    BY <1>2 DEF RelayRefuses, chainVars, CalmOK, PendingNow, ServesWaiting, Now
  <2>2. PICK s \in Presses : WaitsFor(s, q) /\ (TriesNext(s) \/ Fails(s))
    <3>1. Waiting(q) # {}
      BY <2>1 DEF CalmOK, ServesWaiting, Waiting, WaitsFor
    <3> QED
      BY <1>2, <3>1 DEF RelayRefuses, Waiting, WaitsFor
  <2>3. PICK rec : /\ presses' = [presses EXCEPT ![s] = rec]
                   /\ rec.pc = "idle" \/ (rec.pc = "posting" /\ rec.nonce = presses[s].nonce)
    <3>1. CASE Fails(s)
      <4>1. presses' = [presses EXCEPT ![s] = Idle] /\ Idle.pc = "idle"
        BY <3>1 DEF Fails, Becomes, Idle
      <4> QED
        BY <4>1
    <3>2. CASE TriesNext(s)
      <4> DEFINE rec == [presses[s] EXCEPT !.pc = "posting", !.left = Tail(@)]
      <4>1. presses' = [presses EXCEPT ![s] = rec]
        BY <3>2 DEF TriesNext
      <4>2. rec.pc = "posting" /\ rec.nonce = presses[s].nonce
        BY DEF PageOK, PressType
      <4> HIDE DEF rec
      <4> QED
        BY <4>1, <4>2
    <3> QED
      BY <2>2, <3>1, <3>2
  <2>4. result' = result
    BY <2>2 DEF Fails, TriesNext
  <2>5. /\ presses'[s] = rec
        /\ \A r \in Presses \ {s} : presses'[r] = presses[r]
        /\ \A r \in Presses \ {s} : \A x : WaitsFor(r, x) <=> WaitsFor(r, x)'
    BY <2>3, OtherWaits
  <2>6. SignsNow'
    BY <2>2, <2>3, <2>5 DEF CalmOK, SignsNow, WaitsFor, Now
  <2>7. \A r \in Presses : \A x : x # q /\ WaitsFor(r, x) => WaitsFor(r, x)'
    BY <2>2, <2>5 DEF WaitsFor
  <2>8. ServesWaiting'
    BY <2>1, <2>7 DEF CalmOK, ServesWaiting, Now
  <2>9. Followed => Followed'
    BY <2>1, <2>4, <2>7 DEF Followed, Now
  <2> QED
    BY <2>1, <2>6, <2>8, <2>9 DEF CalmOK
<1>3. UNCHANGED <<presses, result>> =>
        /\ SignsNow'
        /\ \A r \in Presses : \A x : WaitsFor(r, x) <=> WaitsFor(r, x)'
  BY DEF SignsNow, WaitsFor, Asked, Now, CalmOK
<1>4. CASE RelayBroadcasts(q)
  <2>1. /\ UNCHANGED <<presses, result>>
        /\ q \in serving /\ serving' = serving \ {q} /\ booked' = booked \union {q}
        /\ mempool' = mempool \union {FirstTx(q)}
    BY <1>4 DEF RelayBroadcasts, pageVars
  <2>2. q[2] = Now /\ FirstTx(q).nonce = Now
    BY <2>1 DEF CalmOK, ServesWaiting, FirstTx, Tx
  <2>3. PICK s \in Presses : WaitsFor(s, q)
    BY <2>1 DEF CalmOK, ServesWaiting
  <2>4. Followed'
    <3>1. WaitsFor(s, q)' /\ q \in booked'
      BY <1>3, <2>1, <2>3
    <3> QED
      BY <3>1 DEF Followed
  <2>5. PendingNow'
    BY <2>1, <2>2 DEF CalmOK, PendingNow, Now
  <2>6. ServesWaiting'
    BY <1>3, <2>1 DEF CalmOK, ServesWaiting, Now
  <2> QED
    BY <1>3, <2>1, <2>4, <2>5, <2>6 DEF CalmOK
<1>5. CASE RelayReleases(q)
  <2>1. /\ UNCHANGED <<presses, result, serving, mempool>>
        /\ booked' = booked \ {q} /\ \A s \in Presses : ~WaitsFor(s, q)
    BY <1>5 DEF RelayReleases, pageVars, chainVars, Waiting, WaitsFor
  <2>2. ServesWaiting' /\ PendingNow'
    BY <1>3, <2>1 DEF CalmOK, ServesWaiting, PendingNow, Now
  <2>3. Followed => Followed'
    BY <1>3, <2>1 DEF Followed, Now
  <2> QED
    BY <1>3, <2>1, <2>2, <2>3 DEF CalmOK
<1> QED
  BY <1>1, <1>2, <1>4, <1>5

(* Whatever leaves the presses and the relays alone, and forgets a swap    *)
(* only when it is over.                                                   *)
LEMMA OthersFollow ==
  ASSUME CalmOK, UNCHANGED <<presses, relayVars>>,
         \A t \in mempool' : t.nonce = Now, mempool' # {} => mempool # {},
         result' = result \/ result.nonce # Now
  PROVE  CalmOK'
<1>1. SignsNow' /\ \A r \in Presses : \A x : WaitsFor(r, x) <=> WaitsFor(r, x)'
  BY DEF SignsNow, WaitsFor, Asked, Now, CalmOK
<1>2. ServesWaiting' /\ PendingNow'
  BY <1>1 DEF CalmOK, ServesWaiting, PendingNow, relayVars, Now
<1>3. Followed => Followed'
  BY <1>1 DEF Followed, relayVars, Now
<1> QED
  BY <1>1, <1>2, <1>3 DEF CalmOK

LEMMA FollowStep ==
  ASSUME Types, Types', ShownIsExecuted, FollowInv, [Next]_vars
  PROVE  FollowInv'
<1>1. Len(executed) \in Nat /\ Now \in Nat /\ Len(History) = Now
      /\ executed \in Seq([tx : Txs, status : Outcomes])
  BY NowType DEF Types, ChainOK
<1>2. CASE Mine \/ UserSends
  <2>1. PICK tx, status : Executes(tx, status)
    BY <1>2 DEF Mine, UserSends
  <2>2. Len(executed') = Len(executed) + 1
    BY <1>1, <2>1 DEF Executes
  <2>3. Now <= Len(executed) /\ Now' = Now /\ History' = History
    BY DEF FollowInv, Now
  <2>4. Now' <= Len(executed') /\ executed' # History'
    BY <1>1, <2>2, <2>3
  <2> QED
    BY <2>4 DEF FollowInv, Calm
<1>3. ASSUME executed' = executed, mishaps' = 0 => mishaps = 0, Calm /\ Calm' /\ CalmOK => CalmOK'
      PROVE  FollowInv'
  <2>1. Calm' => Calm
    BY <1>3 DEF Calm
  <2> QED
    BY <1>3, <2>1 DEF FollowInv, Now
<1>4. PendingNow /\ mempool' = mempool => \A t \in mempool' : t.nonce = Now
  BY DEF PendingNow
<1>5. CASE UNCHANGED vars
  <2>1. executed' = executed /\ mishaps' = mishaps /\ UNCHANGED <<presses, relayVars>>
        /\ mempool' = mempool /\ result' = result
    BY <1>5 DEF vars, pageVars, chainVars
  <2> QED
    BY <1>3, <1>4, <2>1, OthersFollow DEF CalmOK
<1>6. CASE Continue \/ Back \/ ToDone
  <2>1. executed' = executed /\ mishaps' = mishaps /\ UNCHANGED <<presses, relayVars>>
        /\ mempool' = mempool /\ result' = result
    BY <1>6 DEF Continue, Back, ToDone, chainVars
  <2> QED
    BY <1>3, <1>4, <2>1, OthersFollow DEF CalmOK
<1>7. CASE onRetry
  <2>1. executed' = executed /\ mishaps' = mishaps /\ UNCHANGED <<presses, relayVars>>
        /\ mempool' = mempool
    BY <1>7 DEF onRetry, chainVars
  <2>2. Calm => result.nonce # Now
    <3>1. Used(result.nonce)
      BY <1>7 DEF onRetry, ShownIsExecuted
    <3> QED
      BY <1>1, <3>1 DEF Used, Calm
  <2> QED
    BY <1>3, <1>4, <2>1, <2>2, OthersFollow DEF CalmOK
<1>8. ASSUME NEW p \in Polls, PollStarts(p) \/ PollReads(p) \/ ReadFails(p) \/ PollEnds(p)
      PROVE  FollowInv'
  <2>1. executed' = executed /\ UNCHANGED <<presses, relayVars>>
        /\ mempool' = mempool /\ result' = result
    BY <1>8 DEF PollStarts, PollReads, ReadFails, PollEnds, pageVars, chainVars
  <2>2. mishaps' = 0 => mishaps = 0
    BY <1>8 DEF PollStarts, PollReads, ReadFails, PollEnds, Mishap, Types
  <2> QED
    BY <1>3, <1>4, <2>1, <2>2, OthersFollow DEF CalmOK
<1>9. ASSUME NEW tx \in mempool, RelayBumps(tx) PROVE FollowInv'
  <2>1. executed' = executed /\ mishaps' = mishaps /\ UNCHANGED <<presses, relayVars>>
        /\ mempool' = (mempool \ {tx}) \union {[tx EXCEPT !.bid = @ + 1]} /\ result' = result
    BY <1>9 DEF RelayBumps, pageVars
  <2>2. [tx EXCEPT !.bid = @ + 1].nonce = tx.nonce
    BY DEF Types, ChainOK, Txs
  <2>3. PendingNow => \A t \in mempool' : t.nonce = Now
    BY <2>1, <2>2 DEF PendingNow
  <2> QED
    BY <1>3, <2>1, <2>3, OthersFollow DEF CalmOK
<1>10. CASE Reload \/ Reset
  <2>1. executed' = executed /\ mishaps' = mishaps + 1 /\ mishaps \in Nat
    BY <1>10 DEF Reload, Reset, Loads, Mishap, chainVars, Types
  <2> QED
    BY <1>3, <2>1 DEF Calm
<1>11. ASSUME NEW s \in Presses,
              \/ Press(s) \/ WalletSigns(s) \/ SigningFails(s) \/ Post(s) \/ Unreachable(s)
              \/ TimesOut(s) \/ NoneLeft(s) \/ Answered(s)
       PROVE  FollowInv'
  <2>1. executed' = executed
    BY <1>11 DEF Press, WalletSigns, SigningFails, Post, Unreachable, TimesOut, NoneLeft,
       Answered, chainVars
  <2>2. mishaps' = 0 => mishaps = 0
    BY <1>11 DEF Press, WalletSigns, SigningFails, Post, Unreachable, TimesOut, NoneLeft,
       Answered, Mishap, Types
  <2> QED
    BY <1>3, <1>11, <2>1, <2>2, PressFollows
<1>12. ASSUME NEW q \in Requests,
              RelayRefuses(q) \/ RelayBroadcasts(q) \/ RelayLosesReply(q) \/ RelayReleases(q)
       PROVE  FollowInv'
  <2>1. executed' = executed
    BY <1>12 DEF RelayRefuses, RelayBroadcasts, RelayLosesReply, RelayReleases, chainVars
  <2>2. mishaps' = 0 => mishaps = 0
    BY <1>12 DEF RelayRefuses, RelayBroadcasts, RelayLosesReply, RelayReleases, Mishap, Types
  <2> QED
    BY <1>3, <1>12, <2>1, <2>2, RelayFollows
<1> QED
  BY <1>2, <1>5, <1>6, <1>7, <1>8, <1>9, <1>10, <1>11, <1>12 DEF Next

(* While no block comes, a pending swap is followed, however often Sign    *)
(* and Swap was pressed, as long as every relay answers and nobody reloads *)
(* (relays.ts:78, steps.jsx:261).                                          *)
THEOREM PendingSwapsAreFollowed ==
  ASSUME ReportsDropped = FALSE
  PROVE  Spec => []PendingIsFollowed
<1>1. Init => PageInv /\ FollowInv
  BY InitType, ReadsInit, FollowInit DEF PageInv
<1>2. PageInv /\ [Next]_vars => PageInv'
  BY StepType, StepReads DEF PageInv
<1>3. PageInv => Types /\ ShownIsExecuted
  BY FinalIsExecuted DEF PageInv
<1>4. Types /\ Types' /\ ShownIsExecuted /\ FollowInv /\ [Next]_vars => FollowInv'
  BY FollowStep
<1> QED
  BY <1>1, <1>2, <1>3, <1>4, FollowSuffices, PTL DEF Spec
=============================================================================
