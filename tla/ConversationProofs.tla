--------------------------- MODULE ConversationProofs --------------------------
(***************************************************************************)
(* Proofs about a booking as an assistant conducts it: the rules of the    *)
(* order group it ends in, the conversation itself, and the accounts of    *)
(* the MCP session it is held in.  For every subset of the faults of a     *)
(* watch, any number of accounts, connections and overlapping handlers,    *)
(* and every subset of the faults of a session.                            *)
(***************************************************************************)
EXTENDS BookingChat, McpSessions, TLAPS, SequenceTheorems

\* When a judgement is the word of the chain, and when that of the rules alone.
LEMMA JudgedIs ==
    ASSUME TypeOK, NEW force \in BOOLEAN
    PROVE  LET nostr == VerifyGroup(group, listing, force, WellFormed(proof))
           IN  Judged(force) =
                 IF nostr.valid /\ NeedsOnChain(group, force, proof) /\ answer # "no verifier"
                 THEN OnChainResult(group, force, answer)
                 ELSE nostr
<1> QED
  BY DEF Judged, VerifyGroupOnChain

LEMMA ResultsDiffer ==
    Valid.valid = TRUE /\ \A why : Invalid(why).valid = FALSE
<1> QED
  BY DEF Valid, Invalid

LEMMA GroupIs ==
    ASSUME TypeOK
    PROVE  \A role \in Roles : group[role] \in Stages
<1> QED
  BY DEF TypeOK, Groups

\* By force, an escrow proof and a verifier leave only the chain's word.
LEMMA ForcedIsAsked ==
    ASSUME TypeOK, Judged(TRUE).valid,
           group["buyer"] # "none", HasEscrowProof(proof), answer # "no verifier"
    PROVE  answer = "funded"
<1>1. NeedsOnChain(group, TRUE, proof)
  BY DEF NeedsOnChain
<1>2. OnChainResult(group, TRUE, answer).valid
  BY <1>1, JudgedIs
<1> QED
  BY <1>2, ResultsDiffer DEF OnChainResult

LEMMA RulesHold ==
    ASSUME TypeOK
    PROVE  ForcedMeansFunded /\ SellerHasAuthority
<1>1. ForcedMeansFunded
  BY ForcedIsAsked DEF ForcedMeansFunded
<1>2. ASSUME group["seller"] # "none" PROVE Judged(FALSE).valid
  <2>1. VerifyGroup(group, listing, FALSE, WellFormed(proof)) = Valid
    BY <1>2, GroupIs DEF VerifyGroup, Cancelled, Roles, Stages
  <2>2. OnChainResult(group, FALSE, answer) = Valid
    BY <1>2 DEF OnChainResult
  <2> QED
    BY <2>1, <2>2, JudgedIs, ResultsDiffer
<1> QED
  BY <1>1, <1>2 DEF SellerHasAuthority

\* What the escrow accepts by force no client rejects.
LEMMA ForcedIsStricter ==
    ASSUME TypeOK
    PROVE  ForceIsStricter
<1> USE ResultsDiffer, GroupIs DEF Roles, Stages
<1> SUFFICES ASSUME Judged(TRUE).valid PROVE Judged(FALSE).valid
  BY DEF ForceIsStricter
<1>1. VerifyGroup(group, listing, TRUE, WellFormed(proof)).valid
  BY JudgedIs
<1>2. VerifyGroup(group, listing, FALSE, WellFormed(proof)).valid
  BY <1>1 DEF VerifyGroup, VerifyBuyer, Cancelled
<1>3. NeedsOnChain(group, FALSE, proof) => group["buyer"] # "none" /\ HasEscrowProof(proof)
  BY DEF NeedsOnChain
<1>4. NeedsOnChain(group, FALSE, proof) /\ answer # "no verifier" => answer = "funded"
  BY <1>3, ForcedIsAsked
<1>5. answer = "funded" => OnChainResult(group, FALSE, answer) = Valid
  BY DEF OnChainResult
<1> QED
  BY <1>2, <1>4, <1>5, JudgedIs

-----------------------------------------------------------------------------
(***************************************************************************)
(* The conversation.  A swap that has failed stays failed, so that a       *)
(* failure that was read is still one when the answer arrives.             *)
(***************************************************************************)
ResultSet ==
    [tool : {"none", "bookAndPay", "watch"}, ok : BOOLEAN,
     name : Swaps \cup {"booked", "error", "order_committed", "watch_timeout"},
     terminal : BOOLEAN, found : BOOLEAN]

Calls == [pc : Steps, own : BOOLEAN, r : ResultSet]

IInv ==
    /\ TypeOK
    /\ swap \in Swaps /\ call \in Calls /\ active \in BOOLEAN
    /\ call.r.name = "failed" => swap = "failed"
    /\ StopsForAReason

\* What is shown for a failure was read as one.
LEMMA ShownAs ==
    ASSUME NEW r
    PROVE  /\ ShownBy(r) = "failed" => r.name = "failed"
           /\ DutyAfter(r) = "stop" => ShownBy(r) \in {"trip", "error", "failed"}
<1>1. ShownBy(r) = "failed" => r.name = "failed"
  BY DEF ShownBy, WatchShows, Failed
<1>2. ShownBy(r) \in {"trip", "invoice", "error", "failed", "finalizing", "still pending", "ask"}
  BY DEF ShownBy, WatchShows
<1>3. DutyAfter(r) = "stop" => ShownBy(r) \in {"trip", "error", "failed"}
  BY <1>2 DEF DutyAfter
<1> QED
  BY <1>1, <1>3

LEMMA AnsweredIs ==
    ASSUME call \in Calls, NEW r \in ResultSet, Answered(r)
    PROVE  call' \in Calls /\ call'.r = r
<1> QED
  BY DEF Answered, Calls, Steps

LEMMA IdleIs == Idle \in Calls /\ Idle.r.name = "none"
<1> QED
  BY DEF Idle, NoResult, Result, Calls, ResultSet, Steps, Swaps

LEMMA InitInv == ChatInit => IInv
<1> SUFFICES ASSUME ChatInit PROVE IInv
  OBVIOUS
<1>1. TypeOK
  BY DEF ChatInit, Init, TypeOK, Groups, NoOrders, Roles, Stages
<1>2. call \in Calls /\ call.r.name = "none"
  BY IdleIs DEF ChatInit
<1>3. StopsForAReason
  BY DEF ChatInit, StopsForAReason
<1> QED
  BY <1>1, <1>2, <1>3 DEF IInv, ChatInit, Swaps

LEMMA NextInv == IInv /\ [ChatNext]_bookingVars => IInv'
<1> SUFFICES ASSUME IInv, [ChatNext]_bookingVars PROVE IInv'
  OBVIOUS
<1> USE DEF IInv, Swaps
<1>1. TypeOK'
  <2>1. CASE UNCHANGED vars
    BY <2>1 DEF vars, TypeOK
  <2>2. CASE Next
    BY <2>2 DEF Next, Ask, Publish, TypeOK, Groups, Stages
  <2> QED
    BY <2>1, <2>2 DEF ChatNext, bookingVars
<1>2. CASE UNCHANGED chatVars
  BY <1>1, <1>2 DEF chatVars, StopsForAReason
<1>3. CASE Handoff \/ PaidAtOnce \/ UserPays \/ SwapNotices \/ InvoiceExpires \/ SwapSettles
  <2>1. UNCHANGED <<told, duty, active>> /\ swap # "failed" /\ swap' \in Swaps
    BY <1>3 DEF Handoff, PaidAtOnce, UserPays, SwapNotices, InvoiceExpires, SwapSettles
  <2>2. call' \in Calls /\ (call'.r.name = "failed" => call.r.name = "failed")
    <3>1. CASE Handoff
      <4> DEFINE r == Result("bookAndPay", TRUE, "invoice", FALSE, FALSE)
      <4>1. r \in ResultSet /\ r.name = "invoice"
        BY DEF Result, ResultSet
      <4>2. Answered(r)
        BY <3>1 DEF Handoff
      <4> HIDE DEF r
      <4> QED
        BY <4>1, <4>2, AnsweredIs
    <3>2. CASE UNCHANGED call
      BY <3>2
    <3> QED
      BY <1>3, <3>1, <3>2 DEF PaidAtOnce, UserPays, SwapNotices, InvoiceExpires, SwapSettles
  <2>3. StopsForAReason'
    BY <2>1 DEF StopsForAReason
  <2> QED
    BY <1>1, <2>1, <2>2, <2>3
<1>4. CASE Book \/ BookEnds \/ WatchBegin \/ WatchChecks \/ WatchReads \/ WatchLooksUp \/ WatchFails
  <2>1. UNCHANGED <<swap, told, duty, active>>
    BY <1>4 DEF Book, BookEnds, WatchBegin, WatchChecks, WatchReads, WatchLooksUp, WatchFails,
                Answered
  <2>2. StopsForAReason'
    BY <2>1 DEF StopsForAReason
  <2>3. CASE Book
    <3>1. call' \in Calls /\ call'.r.name = "none"
      BY <2>3, IdleIs DEF Book, Calls, Steps
    <3> QED
      BY <1>1, <2>1, <2>2, <3>1
  <2>4. CASE WatchBegin
    <3>1. call' \in Calls /\ call'.r.name = "none"
      BY <2>4, IdleIs DEF WatchBegin, Calls, Steps
    <3> QED
      BY <1>1, <2>1, <2>2, <3>1
  <2>5. ASSUME NEW r \in ResultSet, Answered(r), r.name = "failed" => r.name = swap
        PROVE  IInv'
    BY <1>1, <2>1, <2>2, <2>5, AnsweredIs
  <2>6. CASE BookEnds
    <3>1. /\ Result("bookAndPay", TRUE, "booked", TRUE, FALSE) \in ResultSet
          /\ Result("bookAndPay", FALSE, "error", FALSE, FALSE) \in ResultSet
          /\ Result("bookAndPay", TRUE, "booked", TRUE, FALSE).name = "booked"
          /\ Result("bookAndPay", FALSE, "error", FALSE, FALSE).name = "error"
      BY DEF Result, ResultSet
    <3> QED
      BY <2>5, <2>6, <3>1 DEF BookEnds
  <2>7. CASE WatchChecks
    <3>1. CASE call' = [call EXCEPT !.pc = "read"]
      <4>1. call' \in Calls /\ call'.r = call.r
        BY <3>1 DEF Calls, Steps
      <4> QED
        BY <1>1, <2>1, <2>2, <4>1
    <3>2. CASE Answered(Result("watch", TRUE, "order_committed", TRUE, TRUE))
      <4>1. /\ Result("watch", TRUE, "order_committed", TRUE, TRUE) \in ResultSet
            /\ Result("watch", TRUE, "order_committed", TRUE, TRUE).name = "order_committed"
        BY DEF Result, ResultSet
      <4> QED
        BY <2>5, <3>2, <4>1
    <3> QED
      BY <2>7, <3>1, <3>2 DEF WatchChecks
  <2>8. CASE WatchReads
    <3>1. Record \in Swaps /\ (Record = "failed" => Record = swap)
      BY DEF Record
    <3>2. \A over \in BOOLEAN : /\ Result("watch", TRUE, Record, over, FALSE) \in ResultSet
                                /\ Result("watch", TRUE, Record, over, FALSE).name = Record
      BY <3>1 DEF Result, ResultSet
    <3>3. CASE Answered(Result("watch", TRUE, Record, FALSE, FALSE))
      BY <2>5, <3>1, <3>2, <3>3
    <3>4. CASE call' = [call EXCEPT !.pc = "lookup",
                                    !.r = Result("watch", TRUE, Record, TRUE, FALSE)]
      <4>1. /\ call' \in Calls
            /\ call'.r = Result("watch", TRUE, Record, TRUE, FALSE)
        BY <3>2, <3>4 DEF Calls, Steps
      <4> QED
        BY <1>1, <2>1, <2>2, <3>1, <3>2, <4>1
    <3> QED
      BY <2>8, <3>3, <3>4 DEF WatchReads
  <2>9. CASE WatchLooksUp
    <3> DEFINE r == [call.r EXCEPT !.found = Found]
    <3>1. r \in ResultSet /\ r.name = call.r.name /\ Answered(r)
      BY <2>9 DEF WatchLooksUp, Calls, ResultSet, Found
    <3> HIDE DEF r
    <3>2. call' \in Calls /\ call'.r = r
      BY <3>1, AnsweredIs
    <3> QED
      BY <1>1, <2>1, <2>2, <3>1, <3>2
  <2>10. CASE WatchFails
    <3>1. /\ Result("watch", FALSE, "error", FALSE, FALSE) \in ResultSet
          /\ Result("watch", TRUE, "watch_timeout", FALSE, FALSE) \in ResultSet
          /\ Result("watch", FALSE, "error", FALSE, FALSE).name = "error"
          /\ Result("watch", TRUE, "watch_timeout", FALSE, FALSE).name = "watch_timeout"
      BY DEF Result, ResultSet
    <3>2. CASE call' = Idle
      BY <1>1, <2>1, <2>2, <3>2, IdleIs
    <3> QED
      BY <2>5, <2>10, <3>1, <3>2 DEF WatchFails
  <2> QED
    BY <1>4, <2>3, <2>4, <2>6, <2>7, <2>8, <2>9, <2>10
<1>5. CASE Respond
  <2>1. /\ told' = ShownBy(call.r)
        /\ duty' = DutyAfter(call.r) /\ call' = Idle /\ UNCHANGED <<swap, active>>
    BY <1>5 DEF Respond
  <2>2. call' \in Calls /\ call'.r.name = "none"
    BY <2>1, IdleIs
  <2>3. told' = "failed" \/ (duty' = "stop" /\ told' \notin {"trip", "error"})
          => swap' = "failed"
    BY <2>1, ShownAs
  <2> QED
    BY <1>1, <2>1, <2>2, <2>3 DEF StopsForAReason
<1>6. CASE UserReplies \/ SwitchAccount
  BY <1>1, <1>6 DEF UserReplies, SwitchAccount, StopsForAReason
<1> QED
  BY <1>2, <1>3, <1>4, <1>5, <1>6 DEF ChatNext, ChatStep, bookingVars

LEMMA Invariance == ChatSpec => []IInv
<1> QED
  BY InitInv, NextInv, PTL DEF ChatSpec

-----------------------------------------------------------------------------
(***************************************************************************)
(* The session.  Its accounts are a sequence without repetitions; what a   *)
(* handler read before an await is bounded by what the steps in between    *)
(* may do.                                                                 *)
(***************************************************************************)
\* Taking an element out of a sequence without repetitions.
LEMMA RemoveFirstIs ==
    ASSUME NEW S, NEW s \in Seq(S), IsInjective(s), NEW e
    PROVE  /\ RemoveFirst(s, e) \in Seq(S)
           /\ IsInjective(RemoveFirst(s, e))
           /\ \A q : Contains(RemoveFirst(s, e), q) <=> Contains(s, q) /\ q # e
<1> DEFINE n == Len(s)
<1>1. n \in Nat /\ DOMAIN s = 1..n /\ \A i \in 1..n : s[i] \in S
  OBVIOUS
<1>2. CASE \A i \in 1..n : s[i] # e
  BY <1>2 DEF RemoveFirst, Contains
<1>3. CASE \E i \in 1..n : s[i] = e
  <2>1. PICK k \in 1..n : s[k] = e
    BY <1>3
  <2>2. {i \in 1..n : s[i] = e} = {k}
    BY <1>1, <2>1 DEF IsInjective
  <2>3. Min({k}) = k
    BY <2>1 DEF Min
  <2>4. SelectInSeq(s, LAMBDA v : v = e) = k
    BY <2>2, <2>3 DEF SelectInSeq
  <2> DEFINE left == SubSeq(s, 1, k - 1)
             right == SubSeq(s, k + 1, n)
             r == left \o right
  <2>5. RemoveFirst(s, e) = r
    BY <1>3, <2>4 DEF RemoveFirst, RemoveAt
  <2>6. /\ left \in Seq(S) /\ Len(left) = k - 1
        /\ \A i \in 1..(k - 1) : left[i] = s[i]
    BY <2>1
  <2>7. /\ right \in Seq(S) /\ Len(right) = n - k
        /\ \A i \in 1..(n - k) : right[i] = s[i + k]
    BY <2>1
  <2> HIDE DEF left, right
  <2>8. /\ r \in Seq(S) /\ Len(r) = n - 1 /\ DOMAIN r = 1..(n - 1)
        /\ \A i \in 1..(n - 1) : r[i] = IF i < k THEN s[i] ELSE s[i + 1]
    <3>1. /\ r \in Seq(S) /\ Len(r) = Len(left) + Len(right)
          /\ \A i \in 1..(Len(left) + Len(right)) :
               r[i] = IF i <= Len(left) THEN left[i] ELSE right[i - Len(left)]
      BY <2>6, <2>7, ConcatProperties
    <3> HIDE DEF r
    <3>2. /\ Len(r) = n - 1 /\ DOMAIN r = 1..(n - 1)
          /\ \A i \in 1..(n - 1) :
               r[i] = IF i <= k - 1 THEN left[i] ELSE right[i - (k - 1)]
      BY <1>1, <2>1, <2>6, <2>7, <3>1
    <3>3. ASSUME NEW i \in 1..(n - 1), ~(i < k) PROVE right[i - (k - 1)] = s[i + 1]
      <4>1. i - (k - 1) \in 1..(n - k) /\ (i - (k - 1)) + k = i + 1
        BY <1>1, <2>1, <3>3
      <4> QED
        BY <2>7, <4>1
    <3>4. ASSUME NEW i \in 1..(n - 1) PROVE r[i] = IF i < k THEN s[i] ELSE s[i + 1]
      <4>1. CASE i < k
        <5>1. i \in 1..(k - 1) /\ i <= k - 1
          BY <1>1, <2>1, <4>1
        <5> QED
          BY <2>6, <3>2, <4>1, <5>1
      <4>2. CASE ~(i < k)
        <5>1. ~(i <= k - 1)
          BY <1>1, <2>1, <4>2
        <5> QED
          BY <3>2, <3>3, <4>2, <5>1
      <4> QED
        BY <4>1, <4>2
    <3> QED
      BY <3>1, <3>2, <3>4
  <2> HIDE DEF r
  <2>9. IsInjective(r)
    BY <1>1, <2>1, <2>8 DEF IsInjective
  <2>10. ASSUME NEW q, Contains(r, q) PROVE Contains(s, q) /\ q # e
    <3>1. PICK i \in 1..(n - 1) : r[i] = q
      BY <2>8, <2>10 DEF Contains
    <3>2. CASE i < k
      BY <1>1, <2>1, <2>8, <3>1, <3>2 DEF Contains, IsInjective
    <3>3. CASE ~(i < k)
      <4>1. i + 1 \in 1..n /\ s[i + 1] = q /\ i + 1 # k
        BY <2>1, <2>8, <3>1, <3>3
      <4> QED
        BY <1>1, <2>1, <4>1 DEF Contains, IsInjective
    <3> QED
      BY <3>2, <3>3
  <2>11. ASSUME NEW q, Contains(s, q), q # e PROVE Contains(r, q)
    <3>1. PICK j \in 1..n : s[j] = q
      BY <2>11 DEF Contains
    <3>2. CASE j < k
      BY <2>1, <2>8, <3>1, <3>2 DEF Contains
    <3>3. CASE j > k
      <4>1. j - 1 \in 1..(n - 1) /\ r[j - 1] = q
        BY <2>1, <2>8, <3>1, <3>3
      <4> QED
        BY <2>8, <4>1 DEF Contains
    <3> QED
      BY <2>1, <2>11, <3>1, <3>2, <3>3
  <2> QED
    BY <2>5, <2>8, <2>9, <2>10, <2>11
<1> QED
  BY <1>2, <1>3

\* An empty sequence has no element, any other has its first.
LEMMA FirstIs ==
    ASSUME NEW S, NEW s \in Seq(S)
    PROVE  /\ s = <<>> => First(s) = None /\ \A q : ~Contains(s, q)
           /\ s # <<>> => Contains(s, First(s)) /\ First(s) \in S
<1> QED
  BY DEF First, Contains

\* The operations of the store keep a session sound, and change the accounts
\* in it by the one they are about.
LEMMA SwitchedIs ==
    ASSUME NEW s, Sound(s), NEW p \in Accounts, Contains(s.accounts, p)
    PROVE  /\ Sound(Switched(s, p))
           /\ Switched(s, p).accounts = s.accounts /\ Switched(s, p).active = p
<1> QED
  BY FirstIs DEF Sound, Switched, Session

LEMMA AppendIs ==
    ASSUME NEW S, NEW s \in Seq(S), IsInjective(s), NEW p \in S, ~Contains(s, p)
    PROVE  /\ Append(s, p) \in Seq(S) /\ IsInjective(Append(s, p))
           /\ \A q : Contains(Append(s, p), q) <=> Contains(s, q) \/ q = p
<1> DEFINE more == Append(s, p)
           n == Len(s)
<1>1. n \in Nat
  BY LenProperties
<1>2. /\ DOMAIN s = 1..n
      /\ more \in Seq(S) /\ Len(more) = n + 1 /\ DOMAIN more = 1..(n + 1)
      /\ \A i \in 1..n : more[i] = s[i]
      /\ more[n + 1] = p
  BY <1>1
<1>3. /\ \A q : Contains(s, q) <=> \E i \in 1..n : s[i] = q
      /\ \A q : Contains(more, q) <=> \E i \in 1..(n + 1) : more[i] = q
  BY <1>1, <1>2 DEF Contains
<1> HIDE DEF more, n
<1>4. IsInjective(more)
  <2> SUFFICES ASSUME NEW i \in 1..(n + 1), NEW j \in 1..(n + 1), more[i] = more[j]
               PROVE  i = j
    BY <1>2 DEF IsInjective
  <2>1. CASE i \in 1..n /\ j \in 1..n
    BY <1>2, <2>1 DEF IsInjective
  <2>2. CASE i \notin 1..n \/ j \notin 1..n
    <3>1. \A k \in 1..(n + 1) : k \notin 1..n => k = n + 1
      BY <1>1
    <3> QED
      BY <1>2, <1>3, <2>2, <3>1
  <2> QED
    BY <2>1, <2>2
<1>5. \A q : Contains(more, q) <=> Contains(s, q) \/ q = p
  <2>1. ASSUME NEW q, Contains(more, q), q # p PROVE Contains(s, q)
    <3>1. PICK i \in 1..(n + 1) : more[i] = q
      BY <1>3, <2>1
    <3>2. i \in 1..n
      BY <1>1, <1>2, <2>1, <3>1
    <3> QED
      BY <1>2, <1>3, <3>1, <3>2
  <2>2. ASSUME NEW q, Contains(s, q) PROVE Contains(more, q)
    <3>1. PICK i \in 1..n : s[i] = q
      BY <1>3, <2>2
    <3>2. i \in 1..(n + 1)
      BY <1>1
    <3> QED
      BY <1>2, <1>3, <3>1, <3>2
  <2>3. Contains(more, p)
    <3>1. n + 1 \in 1..(n + 1)
      BY <1>1
    <3> QED
      BY <1>2, <1>3, <3>1
  <2> QED
    BY <2>1, <2>2, <2>3
<1> QED
  BY <1>2, <1>4, <1>5 DEF more

LEMMA AddedIs ==
    ASSUME NEW s, Sound(s), NEW p \in Accounts
    PROVE  /\ Sound(Added(s, p)) /\ Added(s, p).active = p
           /\ \A q : Contains(Added(s, p).accounts, q) <=> Contains(s.accounts, q) \/ q = p
<1> DEFINE old == s.accounts
           more == IF Contains(old, p) THEN old ELSE Append(old, p)
<1>1. /\ more \in Seq(Accounts) /\ IsInjective(more)
      /\ \A q : Contains(more, q) <=> Contains(old, q) \/ q = p
  <2>1. old \in Seq(Accounts) /\ IsInjective(old)
    BY DEF Sound, Session
  <2> QED
    BY <2>1, AppendIs
<1>2. Added(s, p) = [accounts |-> more, active |-> p]
  BY DEF Added
<1> HIDE DEF more
<1>3. more # <<>> /\ Contains(more, p)
  BY <1>1, FirstIs
<1> QED
  BY <1>1, <1>2, <1>3 DEF Sound, Session

LEMMA RemovedIs ==
    ASSUME NEW s, Sound(s), NEW p \in Accounts
    PROVE  /\ Sound(Removed(s, p))
           /\ \A q : Contains(Removed(s, p).accounts, q) <=> Contains(s.accounts, q) /\ q # p
<1> DEFINE rest == RemoveFirst(s.accounts, p)
           a == IF s.active = p THEN First(rest) ELSE s.active
<1>1. /\ s.accounts \in Seq(Accounts) /\ IsInjective(s.accounts)
      /\ s.active \in Accounts \cup {None}
      /\ s.active # None => Contains(s.accounts, s.active)
      /\ s.accounts = <<>> <=> s.active = None
  <2>1. ASSUME Contains(s.accounts, None) PROVE FALSE
    BY <2>1, NoneAssumption DEF Sound, Session, Contains
  <2> QED
    BY <2>1 DEF Sound, Session
<1>2. /\ rest \in Seq(Accounts) /\ IsInjective(rest)
      /\ \A q : Contains(rest, q) <=> Contains(s.accounts, q) /\ q # p
  BY <1>1, RemoveFirstIs
<1>3. Removed(s, p) = [accounts |-> rest, active |-> a]
  BY DEF Removed
<1> HIDE DEF rest
<1>4. IF rest = <<>> THEN a = None ELSE a \in Accounts /\ Contains(rest, a)
  <2>1. CASE s.active = p
    BY <1>2, <2>1, FirstIs
  <2>2. CASE s.active # p /\ s.active # None
    BY <1>1, <1>2, <2>2, FirstIs
  <2>3. CASE s.active # p /\ s.active = None
    <3>1. rest = <<>>
      BY <1>1, <1>2, <2>3, FirstIs
    <3> QED
      BY <2>3, <3>1
  <2> QED
    BY <2>1, <2>2, <2>3
<1> HIDE DEF a
<1>5. [accounts |-> rest, active |-> a] \in Session
  BY <1>2, <1>4 DEF Session
<1> QED
  BY <1>2, <1>3, <1>4, <1>5 DEF Sound

LoggingOut == {"logout", "signing out", "answered"}

\* What a handler may hold between two of its steps.
Doings ==
    [pc : LoggingOut \cup {"lookup", "profile", "asking", "acting"}, t : Transports,
     p : Accounts \cup {None}, todo : Seq(Accounts), alone : BOOLEAN]

HandlersTyped ==
    /\ doing \in [Handlers -> Doings \cup {NoCall}]
    /\ \A h \in Handlers :
          /\ doing[h].pc \in LoggingOut \cup {"profile"} => doing[h].p \in Accounts
          /\ doing[h].pc \in LoggingOut => doing[h].todo # <<>>

\* A call that is alone is the only one that may change the store, and looks
\* up the tools of the active account.
Solo ==
    \A h \in ListCalls :
       doing[h].alone =>
          /\ ListCalls = {h}
          /\ doing[h].pc = "lookup" => doing[h].p = mem.active

\* There is no such call in flight while a list is the outcome of the last one.
FreshIsLast == fresh # None => ListCalls = {}

SessionInv ==
    /\ SessionSound /\ LoggedOutStaysOut
    /\ HandlersTyped /\ DOMAIN shown = Transports
    /\ Solo /\ FreshIsLast /\ AloneMeansCurrent

LEMMA SessionInitInv == SessionsInit => SessionInv
<1> SUFFICES ASSUME SessionsInit PROVE SessionInv
  OBVIOUS
<1> USE DEF SessionsInit
<1>1. Sound(NoSession) /\ \A p : ~Contains(NoSession.accounts, p)
  <2>1. <<>> \in Seq(Accounts) /\ IsInjective(<<>>)
    BY DEF IsInjective
  <2> QED
    BY <2>1, FirstIs DEF NoSession, Sound, Session
<1>2. \A h \in Handlers : doing[h] = NoCall /\ doing[h].pc = "idle"
  BY DEF NoCall
<1>3. HandlersTyped
  BY <1>2 DEF HandlersTyped, LoggingOut
<1>4. ListCalls = {}
  BY <1>2 DEF ListCalls
<1> QED
  BY <1>1, <1>3, <1>4
  DEF SessionInv, SessionSound, LoggedOutStaysOut, Solo, FreshIsLast,
      AloneMeansCurrent

\* What a handler may hold, next to what it may do with it.
Fits(d) ==
    /\ d \in Doings \cup {NoCall}
    /\ d.pc \in LoggingOut \cup {"profile"} => d.p \in Accounts
    /\ d.pc \in LoggingOut => d.todo # <<>>

ListPcs == LoggingOut \cup {"lookup", "profile"}

LEMMA NoCallIs ==
    NoCall.pc = "idle" /\ \A d \in Doings \cup {NoCall} : d.pc \in ListPcs => d \in Doings
<1>1. NoCall.pc = "idle"
  BY DEF NoCall
<1>2. NoCall.pc \notin ListPcs
  BY <1>1 DEF ListPcs, LoggingOut
<1> QED
  BY <1>1, <1>2

ListCallsByPc == ListCalls = {h \in Handlers : doing[h].pc \in ListPcs}

LEMMA ListCallsAre == HandlersTyped => ListCallsByPc
<1> SUFFICES ASSUME HandlersTyped, NEW h \in Handlers
             PROVE  doing[h].pc \in ListPcs <=> doing[h].pc \notin {"idle", "acting", "asking"}
  BY DEF ListCalls, ListCallsByPc
<1>1. doing[h] \in Doings \cup {NoCall}
  BY DEF HandlersTyped
<1>2. doing[h].pc \in ListPcs \cup {"idle", "acting", "asking"}
  BY <1>1, NoCallIs DEF Doings, ListPcs
<1> QED
  BY <1>2 DEF ListPcs, LoggingOut

\* A handler moves on.
LEMMA OneMoves ==
    ASSUME SessionInv, NEW h \in Handlers, NEW d, Fits(d),
           doing' = [doing EXCEPT ![h] = d],
           d.pc \in ListPcs =>
             /\ doing[h].pc \in ListPcs /\ d.alone = doing[h].alone
             /\ d.alone /\ d.pc = "lookup" => d.p = mem'.active,
           doing[h].pc \in ListPcs \/ mem' = mem
    PROVE  HandlersTyped' /\ ListCalls' \subseteq ListCalls /\ Solo'
<1>1. doing \in [Handlers -> Doings \cup {NoCall}] /\ HandlersTyped
  BY DEF SessionInv, HandlersTyped
<1>2. \A g \in Handlers : doing'[g] = IF g = h THEN d ELSE doing[g]
  BY <1>1
<1>3. HandlersTyped'
  BY <1>1, <1>2 DEF HandlersTyped, Fits
<1>4. /\ ListCalls = {g \in Handlers : doing[g].pc \in ListPcs}
      /\ ListCalls' = {g \in Handlers : doing'[g].pc \in ListPcs}
  <2>1. ListCalls = {g \in Handlers : doing[g].pc \in ListPcs}
    BY <1>1, ListCallsAre DEF ListCallsByPc
  <2>2. HandlersTyped' => ListCallsByPc'
    BY ListCallsAre, PTL
  <2> QED
    BY <1>3, <2>1, <2>2 DEF ListCallsByPc
<1>5. ListCalls' \subseteq ListCalls
  BY <1>2, <1>4
<1>6. ASSUME NEW g \in ListCalls', doing'[g].alone
      PROVE  /\ ListCalls' = {g}
             /\ doing'[g].pc = "lookup" => doing'[g].p = mem'.active
  <2>1. g \in ListCalls /\ doing[g].alone /\ g \in Handlers
    BY <1>2, <1>4, <1>5, <1>6
  <2>2. ListCalls = {g} /\ (doing[g].pc = "lookup" => doing[g].p = mem.active)
    BY <2>1 DEF SessionInv, Solo
  <2>3. g = h \/ mem' = mem
    BY <1>4, <2>2
  <2> QED
    BY <1>2, <1>4, <1>5, <1>6, <2>1, <2>2, <2>3
<1> QED
  BY <1>3, <1>5, <1>6 DEF Solo

\* A handler begins: nobody else that is in flight is alone any more.
LEMMA OneBegins ==
    ASSUME SessionInv, NEW h \in Handlers, NEW d, Fits(d), doing[h] = NoCall,
           Begin(h, d),
           d = NoCall \/ (d.alone => Alone /\ (d.pc = "lookup" => d.p = mem'.active))
    PROVE  HandlersTyped' /\ Solo'
<1>1. doing \in [Handlers -> Doings \cup {NoCall}] /\ HandlersTyped
  BY DEF SessionInv, HandlersTyped
<1>2. ListCalls = {g \in Handlers : doing[g].pc \in ListPcs}
  BY <1>1, ListCallsAre DEF ListCallsByPc
<1>3. \A g \in Handlers :
         doing'[g] = IF g = h THEN d
                     ELSE IF g \in ListCalls THEN [doing[g] EXCEPT !.alone = FALSE]
                     ELSE doing[g]
  BY DEF Begin
<1>4. ASSUME NEW g \in ListCalls, g # h
      PROVE  /\ doing[g] \in Doings /\ doing'[g] \in Doings
             /\ doing'[g] = [doing[g] EXCEPT !.alone = FALSE]
             /\ ~doing'[g].alone
             /\ doing'[g].pc = doing[g].pc
             /\ doing'[g].p = doing[g].p /\ doing'[g].todo = doing[g].todo
  <2>1. doing[g] \in Doings /\ g \in Handlers
    BY <1>1, <1>2, <1>4, NoCallIs
  <2> QED
    BY <1>3, <1>4, <2>1 DEF Doings
<1>5. \A g \in Handlers : Fits(doing[g])
  BY <1>1 DEF Fits, HandlersTyped
<1>6. \A g \in Handlers : Fits(doing'[g])
  BY <1>3, <1>4, <1>5 DEF Fits
<1>7. HandlersTyped'
  <2>1. doing' = [g \in Handlers |-> doing'[g]]
    BY DEF Begin
  <2> QED
    BY <1>6, <2>1 DEF Fits, HandlersTyped
<1>8. ListCalls' = {g \in Handlers : doing'[g].pc \in ListPcs}
  <2>1. HandlersTyped' => ListCallsByPc'
    BY ListCallsAre, PTL
  <2> QED
    BY <1>7, <2>1 DEF ListCallsByPc
<1>9. ListCalls' \subseteq ListCalls \cup {h}
  BY <1>2, <1>3, <1>8
<1>10. ASSUME NEW g \in ListCalls', doing'[g].alone
       PROVE  /\ ListCalls' = {g}
              /\ doing'[g].pc = "lookup" => doing'[g].p = mem'.active
  <2>1. g = h
    BY <1>4, <1>9, <1>10
  <2>2. doing'[h] = d /\ d # NoCall
    <3>1. doing'[h] = d /\ d.pc \in ListPcs
      BY <1>3, <1>8, <2>1
    <3> QED
      BY <3>1, NoCallIs DEF ListPcs, LoggingOut
  <2>3. ListCalls = {}
    BY <1>10, <2>1, <2>2 DEF Alone
  <2> QED
    BY <1>9, <1>10, <2>1, <2>2, <2>3
<1> QED
  BY <1>7, <1>10 DEF Solo

LEMMA PcsDiffer ==
    /\ "idle" \notin ListPcs /\ "acting" \notin ListPcs /\ "asking" \notin ListPcs
    /\ {"logout", "signing out", "answered", "profile", "lookup"} \subseteq ListPcs
    /\ {"logout", "signing out", "answered"} \subseteq LoggingOut
    /\ {"idle", "acting", "asking", "profile", "lookup"} \cap LoggingOut = {}
<1> QED
  BY DEF ListPcs, LoggingOut

LEMMA NoCallFits == Fits(NoCall)
<1> QED
  BY NoCallIs, PcsDiffer DEF Fits

LEMMA BegunFit ==
    ASSUME NEW t \in Transports, NEW p \in Accounts \cup {None},
           NEW todo \in Seq(Accounts), NEW alone \in BOOLEAN
    PROVE  /\ Fits(Busy("lookup", t, p, <<>>, alone))
           /\ Fits(Busy("acting", t, p, <<>>, alone))
           /\ Fits(Busy("asking", t, None, todo, alone))
           /\ p \in Accounts => Fits(Busy("profile", t, p, <<>>, alone))
           /\ p \in Accounts /\ todo # <<>> => Fits(Busy("logout", t, p, todo, alone))
           /\ \A pc, q, l : /\ Busy(pc, t, q, l, alone).pc = pc
                            /\ Busy(pc, t, q, l, alone).p = q
                            /\ Busy(pc, t, q, l, alone).alone = alone
<1>1. <<>> \in Seq(Accounts)
  OBVIOUS
<1> QED
  BY <1>1, PcsDiffer DEF Fits, Busy, Doings, ListPcs

LEMMA HandlerIs ==
    ASSUME SessionInv, NEW h \in Handlers
    PROVE  /\ Fits(doing[h])
           /\ doing[h].pc \in ListPcs <=> h \in ListCalls
           /\ doing[h].pc # "idle" => doing[h] \in Doings
           /\ doing[h].pc \in ListPcs => fresh = None
<1>1. HandlersTyped /\ FreshIsLast
  BY DEF SessionInv
<1>2. Fits(doing[h]) /\ doing[h] \in Doings \cup {NoCall}
  BY <1>1 DEF HandlersTyped, Fits
<1>3. doing[h].pc \in ListPcs <=> h \in ListCalls
  BY <1>1, ListCallsAre DEF ListCallsByPc
<1> QED
  BY <1>1, <1>2, <1>3, NoCallIs DEF FreshIsLast

\* Goto and End.
LEMMA Moves ==
    ASSUME SessionInv, NEW h \in Handlers, doing[h].pc # "idle",
           doing[h].pc \in ListPcs \/ mem' = mem,
           \/ End(h)
           \/ \E pc \in ListPcs :
                 /\ Goto(h, pc) /\ doing[h].pc \in ListPcs
                 /\ pc \in LoggingOut => doing[h].pc \in LoggingOut
                 /\ pc = "profile" => doing[h].pc = "profile"
                 /\ pc = "lookup" => doing[h].p = mem'.active
    PROVE  HandlersTyped' /\ ListCalls' \subseteq ListCalls /\ Solo'
<1>1. doing[h] \in Doings /\ Fits(doing[h])
  BY HandlerIs
<1>2. CASE End(h)
  BY <1>2, NoCallFits, NoCallIs, PcsDiffer, OneMoves DEF End
<1>3. ASSUME NEW pc \in ListPcs, Goto(h, pc), doing[h].pc \in ListPcs,
             pc \in LoggingOut => doing[h].pc \in LoggingOut,
             pc = "profile" => doing[h].pc = "profile",
             pc = "lookup" => doing[h].p = mem'.active
      PROVE  HandlersTyped' /\ ListCalls' \subseteq ListCalls /\ Solo'
  <2> DEFINE d == [doing[h] EXCEPT !.pc = pc]
  <2>1. /\ d \in Doings /\ d.pc = pc /\ d.p = doing[h].p
        /\ d.todo = doing[h].todo /\ d.alone = doing[h].alone
    BY <1>1, <1>3 DEF Doings, ListPcs
  <2>2. Fits(d)
    BY <1>1, <1>3, <2>1 DEF Fits
  <2>3. doing' = [doing EXCEPT ![h] = d]
    BY <1>3 DEF Goto
  <2> HIDE DEF d
  <2> QED
    BY <1>3, <2>1, <2>2, <2>3, OneMoves
<1> QED
  BY <1>2, <1>3

\* The store as it is, and lists that stay as they are.
StoreInv == SessionSound /\ LoggedOutStaysOut
ListsInv == DOMAIN shown = Transports /\ FreshIsLast /\ AloneMeansCurrent

LEMMA SessionInvIs ==
    (StoreInv /\ HandlersTyped /\ Solo /\ ListsInv)' => SessionInv'
<1> QED
  BY DEF SessionInv, StoreInv, ListsInv

LEMMA StoreKept ==
    ASSUME SessionInv, UNCHANGED store
    PROVE  StoreInv' /\ mem' = mem
<1> QED
  BY DEF SessionInv, StoreInv, SessionSound, LoggedOutStaysOut, store, Sound

LEMMA ListsKept ==
    ASSUME SessionInv, ListCalls' \subseteq ListCalls, UNCHANGED lists,
           mem' = mem \/ fresh = None
    PROVE  ListsInv'
<1> QED
  BY DEF SessionInv, ListsInv, FreshIsLast, AloneMeansCurrent, lists

LEMMA ListsStale ==
    ASSUME SessionInv, UNCHANGED shown, fresh' = None
    PROVE  ListsInv'
<1> QED
  BY DEF SessionInv, ListsInv, FreshIsLast, AloneMeansCurrent

LEMMA MemIs ==
    ASSUME SessionInv
    PROVE  /\ Sound(mem) /\ Sound(disk) /\ mem \in Session
           /\ mem.accounts \in Seq(Accounts) /\ mem.active \in Accounts \cup {None}
           /\ mem.accounts = <<>> <=> mem.active = None
           /\ \A p \in gone : ~Contains(mem.accounts, p) /\ ~Contains(disk.accounts, p)
<1>1. Sound(mem) /\ Sound(disk)
  BY DEF SessionInv, SessionSound
<1>2. ASSUME Contains(mem.accounts, None) PROVE FALSE
  BY <1>1, <1>2, NoneAssumption DEF Sound, Session, Contains
<1> QED
  BY <1>1, <1>2 DEF Sound, Session, SessionInv, LoggedOutStaysOut

\* The steps that begin something.
LEMMA BeginInv ==
    ASSUME SessionInv, NEW h \in Handlers, NEW t \in Transports,
           \/ Initialize(h, t) \/ Logout(h, t) \/ Act(h, t) \/ AskAccounts(h, t)
           \/ \E p \in Accounts : Switch(h, t, p) \/ Connect(h, t, p)
    PROVE  SessionInv'
<1>1. /\ <<>> \in Seq(Accounts) /\ mem.accounts \in Seq(Accounts)
      /\ mem.active \in Accounts \cup {None} /\ Alone \in BOOLEAN
  BY MemIs DEF Alone
<1>2. CASE Initialize(h, t)
  <2> DEFINE d == Busy("lookup", t, mem.active, <<>>, Alone)
  <2>1. doing[h] = NoCall /\ Begin(h, d) /\ fresh' = None /\ UNCHANGED <<store, shown>>
    BY <1>2 DEF Initialize
  <2>2. Fits(d) /\ d.p = mem.active /\ d.alone = Alone
    BY <1>1, BegunFit
  <2> HIDE DEF d
  <2>3. HandlersTyped' /\ Solo'
    BY <2>1, <2>2, StoreKept, OneBegins
  <2> QED
    BY <2>1, <2>3, StoreKept, ListsStale, SessionInvIs
<1>3. CASE Logout(h, t)
  <2>1. PICK todo \in LogoutTargets : Begin(h, Busy("logout", t, Head(todo), todo, Alone))
    BY <1>3 DEF Logout
  <2> DEFINE d == Busy("logout", t, Head(todo), todo, Alone)
  <2>2. doing[h] = NoCall /\ Begin(h, d) /\ fresh' = None /\ UNCHANGED <<store, shown>>
    BY <1>3, <2>1 DEF Logout
  <2>3. todo \in Seq(Accounts) /\ todo # <<>> /\ Head(todo) \in Accounts
    <3>1. CASE todo = mem.accounts /\ mem.accounts # <<>>
      BY <1>1, <3>1
    <3>2. ASSUME NEW p \in Accounts, todo = <<p>>
          PROVE  todo \in Seq(Accounts) /\ todo # <<>> /\ Head(todo) \in Accounts
      BY <3>2
    <3> QED
      BY <2>1, <3>1, <3>2 DEF LogoutTargets
  <2>4. Fits(d) /\ d.pc = "logout" /\ d.alone = Alone
    BY <1>1, <2>3, BegunFit
  <2> HIDE DEF d
  <2>5. HandlersTyped' /\ Solo'
    BY <2>2, <2>4, OneBegins
  <2> QED
    BY <2>2, <2>5, StoreKept, ListsStale, SessionInvIs
<1>4. CASE Act(h, t) \/ AskAccounts(h, t)
  <2> DEFINE a == Busy("acting", t, mem.active, <<>>, FALSE)
             k == Busy("asking", t, None, mem.accounts, FALSE)
  <2>1. /\ doing[h] = NoCall /\ UNCHANGED <<store, lists>>
        /\ \E d \in {a, k} : doing' = [doing EXCEPT ![h] = d]
    BY <1>4 DEF Act, AskAccounts
  <2>2. PICK d \in {a, k} : doing' = [doing EXCEPT ![h] = d]
    BY <2>1
  <2>3. FALSE \in BOOLEAN
    OBVIOUS
  <2>4. Fits(a) /\ Fits(k) /\ a.pc = "acting" /\ k.pc = "asking"
    <3>1. Fits(a) /\ Fits(k)
      BY <1>1, <2>3, BegunFit
    <3>2. a.pc = "acting" /\ k.pc = "asking"
      BY DEF Busy
    <3> QED
      BY <3>1, <3>2
  <2>5. Fits(d) /\ d.pc \notin ListPcs
    BY <2>2, <2>4, PcsDiffer
  <2> HIDE DEF a, k
  <2>6. HandlersTyped' /\ ListCalls' \subseteq ListCalls /\ Solo'
    BY <2>1, <2>2, <2>5, NoCallIs, StoreKept, OneMoves
  <2> QED
    BY <2>1, <2>6, StoreKept, ListsKept, SessionInvIs
<1>5. ASSUME NEW p \in Accounts, Switch(h, t, p) PROVE SessionInv'
  <2>1. /\ doing[h] = NoCall /\ Contains(mem.accounts, p) /\ mem' = Switched(mem, p)
        /\ fresh' = None /\ UNCHANGED <<shown, gone>>
        /\ \/ Saved /\ Begin(h, Busy("lookup", t, p, <<>>, Alone))
           \/ UNCHANGED disk /\ Begin(h, NoCall)
    BY <1>5 DEF Switch, NotSaved
  <2>2. Sound(mem') /\ mem'.accounts = mem.accounts /\ mem'.active = p
    BY <2>1, MemIs, SwitchedIs
  <2>3. StoreInv'
    <3>1. disk' = mem' \/ disk' = disk
      BY <2>1 DEF Saved
    <3> QED
      BY <2>1, <2>2, <3>1, MemIs DEF StoreInv, SessionSound, LoggedOutStaysOut
  <2> DEFINE d == Busy("lookup", t, p, <<>>, Alone)
  <2>4. Fits(d) /\ d.p = p /\ d.alone = Alone
    BY <1>1, BegunFit
  <2> HIDE DEF d
  <2>5. HandlersTyped' /\ Solo'
    BY <2>1, <2>2, <2>4, NoCallFits, OneBegins DEF d
  <2> QED
    BY <2>1, <2>3, <2>5, ListsStale, SessionInvIs
<1>6. ASSUME NEW p \in Accounts, Connect(h, t, p) PROVE SessionInv'
  <2> DEFINE d == Busy("profile", t, p, <<>>, Alone)
  <2>1. doing[h] = NoCall /\ Begin(h, d) /\ fresh' = None /\ UNCHANGED <<store, shown>>
    BY <1>6 DEF Connect
  <2>2. Fits(d) /\ d.pc = "profile" /\ d.alone = Alone
    BY <1>1, BegunFit
  <2> HIDE DEF d
  <2>3. HandlersTyped' /\ Solo'
    BY <2>1, <2>2, OneBegins
  <2> QED
    BY <2>1, <2>3, StoreKept, ListsStale, SessionInvIs
<1> QED
  BY <1>2, <1>3, <1>4, <1>5, <1>6

\* The steps of a handler that is under way.
LEMMA QuietMoves ==
    ASSUME SessionInv, NEW h \in Handlers,
           \/ DaemonChecks(h) \/ DaemonSignsOut(h) \/ LogoutLost(h)
           \/ ProfileLost(h) \/ Performed(h)
    PROVE  SessionInv'
<1> USE PcsDiffer
<1>1. UNCHANGED <<store, lists>> /\ doing[h].pc # "idle"
  BY DEF DaemonChecks, DaemonSignsOut, LogoutLost, ProfileLost, Performed
<1>2. \/ End(h)
      \/ \E pc \in {"answered", "signing out"} : Goto(h, pc) /\ doing[h].pc \in LoggingOut
  BY DEF DaemonChecks, DaemonSignsOut, LogoutLost, ProfileLost, Performed
<1>3. LoggingOut \subseteq ListPcs /\ {"answered", "signing out"} \subseteq ListPcs
  BY DEF ListPcs
<1>4. HandlersTyped' /\ ListCalls' \subseteq ListCalls /\ Solo'
  BY <1>1, <1>2, <1>3, StoreKept, Moves
<1> QED
  BY <1>1, <1>4, StoreKept, ListsKept, SessionInvIs

LEMMA LogoutAnsweredInv ==
    ASSUME SessionInv, NEW h \in Handlers, LogoutAnswered(h)
    PROVE  SessionInv'
<1> DEFINE rest == Tail(doing[h].todo)
           d == [doing[h] EXCEPT
                   !.todo = rest,
                   !.pc = IF rest = <<>> THEN "lookup" ELSE "logout",
                   !.p  = IF rest = <<>> THEN mem'.active ELSE Head(rest)]
<1>1. /\ doing[h].pc = "answered" /\ mem' = Removed(mem, doing[h].p)
      /\ \/ Saved /\ gone' = gone \cup {doing[h].p} /\ doing' = [doing EXCEPT ![h] = d]
         \/ UNCHANGED <<disk, gone>> /\ End(h)
      /\ UNCHANGED lists
  BY DEF LogoutAnswered, NotSaved
<1>2. /\ doing[h] \in Doings /\ doing[h].p \in Accounts /\ doing[h].pc \in ListPcs
      /\ doing[h].todo \in Seq(Accounts) /\ doing[h].todo # <<>> /\ fresh = None
  <2>1. /\ doing[h] \in Doings /\ Fits(doing[h]) /\ fresh = None
        /\ doing[h].pc \in ListPcs /\ doing[h].pc \in LoggingOut
    BY <1>1, HandlerIs, PcsDiffer
  <2> QED
    BY <2>1 DEF Fits, Doings
<1>3. /\ Sound(mem') /\ mem'.active \in Accounts \cup {None}
      /\ \A q : Contains(mem'.accounts, q) <=> Contains(mem.accounts, q) /\ q # doing[h].p
  <2> DEFINE p == doing[h].p
  <2>1. p \in Accounts /\ Sound(mem)
    BY <1>2, MemIs
  <2> HIDE DEF p
  <2>2. /\ Sound(Removed(mem, p))
        /\ \A q : Contains(Removed(mem, p).accounts, q) <=> Contains(mem.accounts, q) /\ q # p
    BY <2>1, RemovedIs
  <2>3. mem' = Removed(mem, p)
    BY <1>1 DEF p
  <2>4. Sound(mem') /\ mem'.active \in Accounts \cup {None}
    BY <2>2, <2>3 DEF Sound, Session
  <2> QED
    BY <2>2, <2>3, <2>4 DEF p
<1>4. StoreInv'
  <2>1. \/ disk' = mem' /\ gone' = gone \cup {doing[h].p}
        \/ disk' = disk /\ gone' = gone
    BY <1>1 DEF Saved
  <2> QED
    BY <1>3, <2>1, MemIs DEF StoreInv, SessionSound, LoggedOutStaysOut
<1>5. /\ rest \in Seq(Accounts)
      /\ rest # <<>> => Head(rest) \in Accounts
  BY <1>2
<1>6. /\ d \in Doings /\ d.alone = doing[h].alone /\ d.todo = rest
      /\ IF rest = <<>> THEN d.pc = "lookup" /\ d.p = mem'.active
         ELSE d.pc = "logout" /\ d.p \in Accounts
  <2> HIDE DEF rest
  <2> QED
    BY <1>2, <1>3, <1>5, PcsDiffer DEF Doings
<1> HIDE DEF rest, d
<1>7. Fits(d)
  BY <1>6, PcsDiffer DEF Fits
<1>8. d.pc = "lookup" => d.p = mem'.active
  BY <1>6
<1>9. HandlersTyped' /\ ListCalls' \subseteq ListCalls /\ Solo'
  <2>1. CASE End(h)
    BY <1>1, <1>2, <2>1, PcsDiffer, Moves
  <2>2. CASE doing' = [doing EXCEPT ![h] = d]
    BY <1>2, <1>6, <1>7, <1>8, <2>2, OneMoves
  <2> QED
    BY <1>1, <2>1, <2>2
<1> QED
  BY <1>1, <1>2, <1>4, <1>9, ListsKept, SessionInvIs

LEMMA ProfileShownInv ==
    ASSUME SessionInv, NEW h \in Handlers, ProfileShown(h)
    PROVE  SessionInv'
<1>1. /\ doing[h].pc = "profile" /\ mem' = Added(mem, doing[h].p)
      /\ gone' = gone \ {doing[h].p}
      /\ \/ Saved /\ Goto(h, "lookup")
         \/ UNCHANGED disk /\ End(h)
      /\ UNCHANGED lists
  BY DEF ProfileShown, NotSaved
<1>2. /\ doing[h].p \in Accounts /\ doing[h].pc \in ListPcs /\ doing[h].pc # "idle"
      /\ fresh = None
  BY <1>1, HandlerIs, PcsDiffer DEF Fits
<1>3. /\ Sound(mem') /\ mem'.active = doing[h].p
      /\ \A q : Contains(mem'.accounts, q) <=> Contains(mem.accounts, q) \/ q = doing[h].p
  <2> DEFINE p == doing[h].p
  <2>1. p \in Accounts /\ Sound(mem)
    BY <1>2, MemIs
  <2> HIDE DEF p
  <2>2. /\ Sound(Added(mem, p)) /\ Added(mem, p).active = p
        /\ \A q : Contains(Added(mem, p).accounts, q) <=> Contains(mem.accounts, q) \/ q = p
    BY <2>1, AddedIs
  <2> QED
    BY <1>1, <2>2 DEF p
<1>4. StoreInv'
  <2>1. disk' = mem' \/ disk' = disk
    BY <1>1 DEF Saved
  <2> QED
    BY <1>1, <1>3, <2>1, MemIs DEF StoreInv, SessionSound, LoggedOutStaysOut
<1>5. HandlersTyped' /\ ListCalls' \subseteq ListCalls /\ Solo'
  BY <1>1, <1>2, <1>3, PcsDiffer, Moves
<1> QED
  BY <1>1, <1>2, <1>4, <1>5, ListsKept, SessionInvIs

LEMMA ListedInv ==
    ASSUME SessionInv, NEW h \in Handlers, Listed(h)
    PROVE  SessionInv'
<1> DEFINE t == doing[h].t
<1>1. /\ doing[h].pc = "lookup" /\ End(h) /\ UNCHANGED store
      /\ \/ UNCHANGED lists
         \/ /\ \E roles \in RolesOf(doing[h].p) : shown' = [shown EXCEPT ![t] = roles]
            /\ manage' = SessionTools(t)
            /\ fresh' = IF doing[h].alone THEN t ELSE None
  BY DEF Listed
<1>2. /\ doing[h] \in Doings /\ h \in ListCalls /\ fresh = None
      /\ doing[h].pc \in ListPcs /\ doing[h].pc # "idle"
  BY <1>1, HandlerIs, PcsDiffer
<1>3. HandlersTyped' /\ ListCalls' \subseteq ListCalls /\ Solo' /\ StoreInv' /\ mem' = mem
  BY <1>1, <1>2, StoreKept, Moves
<1>4. CASE UNCHANGED lists
  BY <1>3, <1>4, ListsKept, SessionInvIs
<1>5. CASE /\ \E roles \in RolesOf(doing[h].p) : shown' = [shown EXCEPT ![t] = roles]
           /\ manage' = SessionTools(t)
           /\ fresh' = IF doing[h].alone THEN t ELSE None
  <2>1. PICK roles \in RolesOf(doing[h].p) : shown' = [shown EXCEPT ![t] = roles]
    BY <1>5
  <2>2. DOMAIN shown' = Transports /\ t \in Transports /\ shown'[t] = roles
    BY <1>2, <2>1 DEF SessionInv, Doings
  <2>3. CASE ~doing[h].alone
    <3>1. fresh' = None
      BY <1>5, <2>3
    <3>2. ListsInv'
      BY <2>2, <3>1 DEF ListsInv, FreshIsLast, AloneMeansCurrent
    <3> QED
      BY <1>3, <3>2, SessionInvIs
  <2>4. CASE doing[h].alone
    <3>1. fresh' = t
      BY <1>5, <2>4
    <3>2. ListCalls = {h} /\ doing[h].p = mem.active
      BY <1>1, <1>2, <2>4 DEF SessionInv, Solo
    <3>3. h \notin ListCalls'
      <4>1. doing'[h] = NoCall
        BY <1>1 DEF End, SessionInv, HandlersTyped
      <4> QED
        BY <4>1, NoCallIs DEF ListCalls
    <3>4. ListCalls' = {}
      BY <1>3, <3>2, <3>3
    <3>5. shown'[fresh'] \in {mem'.active, None}
      BY <1>3, <2>2, <3>1, <3>2 DEF RolesOf
    <3>6. fresh' \in manage' <=> mem'.accounts # <<>>
      BY <1>3, <1>5, <3>1 DEF SessionTools
    <3>7. ListsInv'
      BY <2>2, <3>4, <3>5, <3>6 DEF ListsInv, FreshIsLast, AloneMeansCurrent
    <3> QED
      BY <1>3, <3>7, SessionInvIs
  <2> QED
    BY <2>3, <2>4
<1> QED
  BY <1>1, <1>4, <1>5

LEMMA AccountsToldInv ==
    ASSUME SessionInv, NEW h \in Handlers, AccountsTold(h)
    PROVE  SessionInv'
<1>1. /\ doing[h].pc = "asking" /\ End(h) /\ mem' = mem /\ UNCHANGED <<gone, lists>>
      /\ disk' = disk \/ disk' = mem'
  BY DEF AccountsTold, Saved, NotSaved
<1>2. HandlersTyped' /\ ListCalls' \subseteq ListCalls /\ Solo'
  BY <1>1, PcsDiffer, Moves
<1>3. StoreInv'
  BY <1>1, MemIs DEF StoreInv, SessionSound, LoggedOutStaysOut
<1> QED
  BY <1>1, <1>2, <1>3, ListsKept, SessionInvIs

\* What the swaps, the connections and the process do.
LEMMA WorldInv ==
    ASSUME SessionInv
    PROVE  /\ \A p \in Accounts : SwapEnds(p) => SessionInv'
           /\ \A t \in Transports : Close(t) => SessionInv'
           /\ Restart => SessionInv'
           /\ UNCHANGED sessionsVars => SessionInv'
<1>1. ASSUME UNCHANGED <<store, doing>>
      PROVE  StoreInv' /\ HandlersTyped' /\ Solo' /\ ListCalls' = ListCalls /\ mem' = mem
  BY <1>1, StoreKept DEF SessionInv, HandlersTyped, Solo, ListCalls
<1>2. ASSUME UNCHANGED <<store, lists, doing>> PROVE SessionInv'
  BY <1>1, <1>2, ListsKept, SessionInvIs
<1>3. ASSUME NEW p \in Accounts, SwapEnds(p) PROVE SessionInv'
  BY <1>2, <1>3 DEF SwapEnds
<1>4. ASSUME UNCHANGED sessionsVars PROVE SessionInv'
  BY <1>2, <1>4 DEF sessionsVars, store, lists
<1>5. ASSUME NEW t \in Transports, Close(t) PROVE SessionInv'
  <2>1. UNCHANGED <<store, doing>> /\ manage' = manage \ {t}
        /\ shown' = [shown EXCEPT ![t] = None]
        /\ fresh' = IF fresh = t THEN None ELSE fresh
    BY <1>5 DEF Close
  <2>2. ListsInv'
    BY <1>1, <2>1 DEF SessionInv, ListsInv, FreshIsLast, AloneMeansCurrent
  <2> QED
    BY <1>1, <2>1, <2>2, SessionInvIs
<1>6. ASSUME Restart PROVE SessionInv'
  <2>1. /\ mem' = [disk EXCEPT !.active = IF Contains(disk.accounts, @) THEN @
                                          ELSE First(disk.accounts)]
        /\ doing' = [h \in Handlers |-> NoCall] /\ shown' = [t \in Transports |-> None]
        /\ fresh' = None /\ UNCHANGED <<disk, gone>>
    BY <1>6 DEF Restart
  <2>2. Sound(mem') /\ mem'.accounts = disk.accounts
    <3>1. CASE disk.accounts = <<>>
      <4>1. disk.active = None /\ ~Contains(disk.accounts, None) /\ First(disk.accounts) = None
        BY <3>1, MemIs, FirstIs DEF Sound, Session
      <4> QED
        BY <2>1, <3>1, <4>1, MemIs DEF Sound, Session
    <3>2. CASE disk.accounts # <<>>
      BY <2>1, <3>2, MemIs DEF Sound, Session
    <3> QED
      BY <3>1, <3>2
  <2>3. StoreInv'
    BY <2>1, <2>2, MemIs DEF StoreInv, SessionSound, LoggedOutStaysOut
  <2>4. \A h \in Handlers : doing'[h] = NoCall
    BY <2>1
  <2>5. HandlersTyped'
    BY <2>1, <2>4, NoCallFits DEF HandlersTyped, Fits
  <2>6. ListCalls' = {}
    BY <2>4, NoCallIs DEF ListCalls
  <2>7. Solo' /\ ListsInv'
    BY <2>1, <2>6 DEF Solo, ListsInv, FreshIsLast, AloneMeansCurrent
  <2> QED
    BY <2>3, <2>5, <2>7, SessionInvIs
<1> QED
  BY <1>3, <1>4, <1>5, <1>6

LEMMA SessionNextInv == SessionInv /\ [SessionsNext]_sessionsVars => SessionInv'
<1> QED
  BY BeginInv, QuietMoves, LogoutAnsweredInv, ProfileShownInv, ListedInv, AccountsToldInv,
     WorldInv DEF SessionsNext

LEMMA SessionInvariance == SessionsSpec => []SessionInv
<1> QED
  BY SessionInitInv, SessionNextInv, PTL DEF SessionsSpec

-----------------------------------------------------------------------------
(***************************************************************************)
(* The theorems.                                                           *)
(***************************************************************************)

\* Where the buyer's order has an escrow proof and somebody can ask the chain,
\* the escrow's forced verdict is the chain's word, whatever the seller or the
\* escrow published and whether or not the group was cancelled
\* (verifyGroupOnChain).
THEOREM ForcedIsFunded == ChatSpec => []ForcedMeansFunded
<1> QED
  BY Invariance, RulesHold, PTL DEF IInv

\* The clients never reject a group with a seller's order.
THEOREM SellerStays == ChatSpec => []SellerHasAuthority
<1> QED
  BY Invariance, RulesHold, PTL DEF IInv

\* What the escrow accepts by force no client rejects by default.
THEOREM ForceStricter == ChatSpec => []ForceIsStricter
<1> QED
  BY Invariance, ForcedIsStricter, PTL DEF IInv

\* The assistant is not told to stop on a booking that is under way.
THEOREM StopsWithReason == ChatSpec => []StopsForAReason
<1> QED
  BY Invariance, PTL DEF IInv

\* Whatever handlers interleave and whichever writes fail, the active account
\* is one of the session's accounts, and there is one as long as there are
\* accounts, in memory and in the file (session-store.ts).
THEOREM SessionsSound == SessionsSpec => []SessionSound
<1> QED
  BY SessionInvariance, PTL DEF SessionInv

\* An account that was logged out is in the session again only after somebody
\* connected it (removeAccount, sanitizeSession and the handlers around them).
THEOREM LogoutIsForGood == SessionsSpec => []LoggedOutStaysOut
<1> QED
  BY SessionInvariance, PTL DEF SessionInv

\* The tools a connection lists after an account call that no other one
\* overlapped are those of the active account (refreshToolVisibility).
THEOREM AloneIsCurrent == SessionsSpec => []AloneMeansCurrent
<1> QED
  BY SessionInvariance, PTL DEF SessionInv
=============================================================================
