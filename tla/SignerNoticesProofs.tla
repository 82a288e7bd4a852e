-------------------------- MODULE SignerNoticesProofs --------------------------
(***************************************************************************)
(* Proofs about SignerNotices, for any number of calls, accounts and       *)
(* signer requests.                                                        *)
(***************************************************************************)
EXTENDS SignerNotices, TLAPS, FiniteSetTheorems, SequenceTheorems

LEMMA SetToSeqIs ==
    ASSUME NEW S, IsFiniteSet(S)
    PROVE  /\ SetToSeq(S) \in Seq(S)
           /\ \A x \in S : \E k \in 1..Len(SetToSeq(S)) : SetToSeq(S)[k] = x
<1> DEFINE n == Cardinality(S)
<1>1. n \in Nat /\ Bijection(1..n, S) # {}
  BY FS_CardinalityType DEF ExistsBijection
<1>2. \E f \in [1..n -> S] : IsInjective(f)
  BY <1>1 DEF Bijection, Injection, IsInjective
<1>3. SetToSeq(S) \in [1..n -> S] /\ IsInjective(SetToSeq(S))
  BY <1>2 DEF SetToSeq
<1>4. SetToSeq(S) \in Injection(1..n, S)
  BY <1>3 DEF Injection, IsInjective
<1>5. IsFiniteSet(1..n) /\ Cardinality(1..n) = n
  BY <1>1, FS_Interval
<1>6. SetToSeq(S) \in Surjection(1..n, S)
  BY <1>4, <1>5, FS_Injection
<1>7. SetToSeq(S) \in Seq(S) /\ Len(SetToSeq(S)) = n
  BY <1>1, <1>3
<1> QED
  BY <1>6, <1>7 DEF Surjection

LEMMA SeqOfMore ==
    ASSUME NEW S, NEW T, S \subseteq T, NEW s \in Seq(S)
    PROVE  s \in Seq(T)
<1>1. Len(s) \in Nat /\ s = [k \in 1..Len(s) |-> s[k]] /\ \A k \in 1..Len(s) : s[k] \in S
  OBVIOUS
<1>2. s \in [1..Len(s) -> T]
  BY <1>1
<1> QED
  BY <1>1, <1>2

NoticeSet == [call : Calls, says : {"signer"}, request : SUBSET Requests]

\* The lines that tell the calls of a the requests of fresh.
LinesTell(lines, a, fresh) ==
    /\ lines \in Seq(NoticeSet)
    /\ \A k \in 1..Len(lines) : \E q \in fresh : \E c \in Told(a, q) : lines[k] = Notice(c, q)
    /\ \A q \in fresh : \A c \in Told(a, q) : \E k \in 1..Len(lines) : lines[k] = Notice(c, q)

LEMMA LinesAre ==
    ASSUME NEW a, NEW fresh \in SUBSET Requests, tokens \subseteq Calls
    PROVE  LinesTell(Lines(a, fresh), a, fresh)
<1> DEFINE S == UNION {{Notice(c, r) : c \in Told(a, r)} : r \in fresh}
           f == [p \in Calls \X Requests |-> Notice(p[1], p[2])]
           T == {f[p] : p \in Calls \X Requests}
<1>1. \A r \in fresh : Told(a, r) \subseteq Calls
  BY DEF Told, TokensOf
<1>2. IsFiniteSet(Calls \X Requests)
  BY FiniteAssumption, FS_Product
<1>3. IsFiniteSet(T)
  <2>1. f \in Surjection(Calls \X Requests, T)
    BY DEF Surjection
  <2> QED
    BY <1>2, <2>1, FS_Surjection
<1>4. S \subseteq T
  <2> SUFFICES ASSUME NEW r \in fresh, NEW c \in Told(a, r) PROVE Notice(c, r) \in T
    OBVIOUS
  <2>1. <<c, r>> \in Calls \X Requests
    BY <1>1
  <2>2. f[<<c, r>>] = Notice(c, r)
    BY <2>1
  <2> QED
    BY <2>1, <2>2
<1>5. IsFiniteSet(S)
  BY <1>3, <1>4, FS_Subset
<1>6. Lines(a, fresh) = SetToSeq(S)
  BY DEF Lines
<1>7. \A x \in S : \E r \in fresh : \E c \in Told(a, r) : x = Notice(c, r)
  OBVIOUS
<1>8. S \subseteq NoticeSet
  BY <1>1, <1>7 DEF Notice, NoticeSet
<1>9. \A r \in fresh : \A c \in Told(a, r) : Notice(c, r) \in S
  OBVIOUS
<1> HIDE DEF S
<1>10. SetToSeq(S) \in Seq(S) /\ \A x \in S : \E k \in 1..Len(SetToSeq(S)) : SetToSeq(S)[k] = x
  BY <1>5, SetToSeqIs
<1>11. SetToSeq(S) \in Seq(NoticeSet)
  BY <1>8, <1>10, SeqOfMore
<1>12. \A k \in 1..Len(SetToSeq(S)) : SetToSeq(S)[k] \in S
  BY <1>10
<1> QED
  BY <1>6, <1>7, <1>9, <1>10, <1>11, <1>12 DEF LinesTell

LEMMA InSeq ==
    ASSUME NEW S, NEW s \in Seq(S), NEW x \in ToSet(s)
    PROVE  x \in S /\ s # <<>>
<1>1. PICK k \in 1..Len(s) : x = s[k]
  BY DEF ToSet
<1> QED
  BY <1>1

LEMMA AppendFresh ==
    ASSUME NEW S, NEW s \in Seq(S), NEW x \in S
    PROVE  /\ Append(s, x) \in Seq(S) /\ ToSet(Append(s, x)) = ToSet(s) \cup {x}
           /\ x \notin ToSet(s) /\ IsInjective(s) => IsInjective(Append(s, x))
<1>1. /\ Append(s, x) \in Seq(S) /\ Len(Append(s, x)) = Len(s) + 1 /\ Len(s) \in Nat
      /\ \A k \in 1..Len(s) : Append(s, x)[k] = s[k]
      /\ Append(s, x)[Len(s) + 1] = x
      /\ DOMAIN s = 1..Len(s) /\ DOMAIN Append(s, x) = 1..(Len(s) + 1)
  BY AppendProperties
<1>2. \A k \in 1..(Len(s) + 1) : k \in 1..Len(s) \/ k = Len(s) + 1
  BY <1>1
<1>3. ToSet(Append(s, x)) = ToSet(s) \cup {x}
  BY <1>1, <1>2 DEF ToSet
<1>4. x \notin ToSet(s) /\ IsInjective(s) => IsInjective(Append(s, x))
  BY <1>1, <1>2 DEF ToSet, IsInjective
<1> QED
  BY <1>1, <1>3, <1>4

-----------------------------------------------------------------------------
(***************************************************************************)
(* The invariant.                                                          *)
(***************************************************************************)
LineSet == [call : Calls, says : {"signer", "answer"}, request : SUBSET Requests]

Typed ==
    /\ raised \in [Requests -> Accounts \cup {None}]
    /\ open \subseteq Requests
    /\ seen \in [Accounts -> SUBSET Requests]
    /\ tokens \subseteq Calls
    /\ account \in [Calls -> Accounts \cup {None}]
    /\ work \in [Calls -> {"none", "queued", "running", "done"}]
    /\ pc \in [Calls -> {"idle", "waiting", "answered", "gave up"}]
    /\ notices \in [Calls -> Seq(Requests)]
    /\ owed \in [Calls -> SUBSET Requests]
    /\ out \in Seq(LineSet)

\* Nothing is pending or seen that was not raised.
Known ==
    /\ \A r \in open : raised[r] # None
    /\ \A a \in Accounts : \A r \in seen[a] : raised[r] # None

\* A call that was not made has left no trace, and one that was has an account.
Traced ==
    \A c \in Calls :
        /\ work[c] = "none" => pc[c] = "idle" /\ c \notin tokens
        /\ work[c] = "none" => notices[c] = <<>> /\ owed[c] = {}
        /\ pc[c] = "idle" => work[c] = "none"
        /\ work[c] # "none" => account[c] \in Accounts
        /\ pc[c] = "answered" => work[c] = "done"

\* A line tells its call a request of the call's account, or its answer.
Line(l) ==
    /\ work[l.call] # "none"
    /\ \/ l = Answer(l.call) /\ work[l.call] = "done"
       \/ \E r \in Requests : l = Notice(l.call, r) /\ raised[r] = account[l.call]

LinesRight == \A k \in 1..Len(out) : Line(out[k])

Distinct == \A c \in Calls : IsInjective(notices[c])

\* A request that is owed to a call is on its way to it before the answer.
OnItsWay(c, r) ==
    \E k \in 1..Len(out) : out[k] = Notice(c, r) /\ \A j \in 1..k : out[j] # Answer(c)

OwedIsTold ==
    \A c \in Calls :
        /\ pc[c] = "answered" => owed[c] \subseteq ToSet(notices[c])
        /\ pc[c] = "waiting" =>
            \A r \in owed[c] : r \in ToSet(notices[c]) \/ OnItsWay(c, r)

IInv == Typed /\ Known /\ Traced /\ LinesRight /\ OwnRequests /\ Distinct /\ OwedIsTold

LEMMA LinesDiffer ==
    \A c, d, q, r : Notice(c, r) # Answer(d) /\ (Notice(c, r) = Notice(d, q) => c = d /\ q = r)
<1> QED
  BY DEF Notice, Answer

LEMMA InitInv == Init => IInv
<1> SUFFICES ASSUME Init PROVE IInv
  OBVIOUS
<1> USE DEF Init
<1>1. Typed /\ Known /\ Traced
  BY DEF Typed, Known, Traced
<1>2. LinesRight /\ OwedIsTold
  BY DEF LinesRight, OwedIsTold
<1>3. OwnRequests /\ Distinct
  BY DEF OwnRequests, Distinct, ToSet, IsInjective
<1> QED
  BY <1>1, <1>2, <1>3 DEF IInv

\* The same lines are right and on their way after steps that let calls go on.
LEMMA SameLines ==
    ASSUME IInv, UNCHANGED <<raised, out, notices, owed>>,
           \A c \in Calls : work[c] # "none" =>
               /\ work'[c] # "none" /\ account'[c] = account[c]
               /\ work[c] = "done" => work'[c] = "done",
           \A c \in Calls : work[c] = "none" => account'[c] \in Accounts \cup {None},
           \A c \in Calls : pc'[c] = "answered" => pc[c] = "answered",
           \A c \in Calls : pc'[c] = "waiting" => pc[c] = "waiting" \/ owed[c] = {}
    PROVE  LinesRight' /\ OwnRequests' /\ Distinct' /\ OwedIsTold'
<1> USE DEF IInv
<1>1. LinesRight'
  <2> SUFFICES ASSUME NEW k \in 1..Len(out) PROVE Line(out[k])'
    BY DEF LinesRight, Line, Notice, Answer
  <2>0. Line(out[k])
    BY DEF LinesRight
  <2>1. out[k] \in LineSet
    BY ElementOfSeq DEF Typed
  <2>2. out[k].call \in Calls
    BY <2>1 DEF LineSet
  <2> QED
    BY <2>0, <2>2 DEF Line
<1>2. OwnRequests'
  <2> SUFFICES ASSUME NEW c \in Calls, NEW r \in ToSet(notices[c])
               PROVE  raised[r] = account'[c]
    BY DEF OwnRequests
  <2>1. work[c] # "none"
    BY DEF Traced, ToSet
  <2> QED
    BY <2>1 DEF OwnRequests
<1>3. Distinct' /\ OwedIsTold'
  BY DEF Distinct, OwedIsTold, OnItsWay
<1> QED
  BY <1>1, <1>2, <1>3

\* The step of a call that does not touch the lines.
LEMMA QuietStep ==
    ASSUME IInv, NEW c \in Calls,
           \/ \E a \in Accounts : Call(c, a)
           \/ Begins(c) \/ BackgroundEnds(c) \/ GivesUp(c)
    PROVE  IInv'
<1> USE DEF IInv
<1>1. ASSUME NEW a \in Accounts, Call(c, a) PROVE IInv'
  <2>1. work[c] = "none"
    BY <1>1 DEF Call, Traced
  <2>2. Typed' /\ Known'
    BY <1>1 DEF Call, signerSide, Typed, Known
  <2>3. Traced'
    BY <1>1, <2>1 DEF Call, Traced, Typed
  <2>4. owed[c] = {}
    BY <2>1 DEF Traced
  <2>5. LinesRight' /\ OwnRequests' /\ Distinct' /\ OwedIsTold'
    BY <1>1, <2>1, <2>4, SameLines DEF Call, signerSide, Typed
  <2> QED
    BY <2>2, <2>3, <2>5
<1>2. CASE Begins(c)
  <2>1. account[c] \in Accounts
    BY <1>2 DEF Begins, Traced
  <2>2. Typed'
    BY <1>2, <2>1 DEF Begins, serverSide, Typed, OpenOf
  <2>3. Known'
    BY <1>2, <2>1 DEF Begins, Known, OpenOf, Typed
  <2>4. Traced'
    BY <1>2 DEF Begins, serverSide, Traced, Typed
  <2>5. LinesRight' /\ OwnRequests' /\ Distinct' /\ OwedIsTold'
    BY <1>2, SameLines DEF Begins, serverSide, Typed
  <2> QED
    BY <2>2, <2>3, <2>4, <2>5
<1>3. CASE BackgroundEnds(c) \/ GivesUp(c)
  <2>1. Typed' /\ Known'
    BY <1>3 DEF BackgroundEnds, GivesUp, signerSide, serverSide, Typed, Known
  <2>2. Traced'
    BY <1>3 DEF BackgroundEnds, GivesUp, signerSide, serverSide, Traced, Typed
  <2>3. LinesRight' /\ OwnRequests' /\ Distinct' /\ OwedIsTold'
    BY <1>3, SameLines DEF BackgroundEnds, GivesUp, signerSide, serverSide, Typed
  <2> QED
    BY <2>1, <2>2, <2>3
<1> QED
  BY <1>1, <1>2, <1>3

\* More lines at the end leave those before them on their way.
LEMMA LaterLines ==
    ASSUME Typed, NEW more \in Seq(LineSet), out' = out \o more
    PROVE  /\ out' \in Seq(LineSet) /\ Len(out') = Len(out) + Len(more)
           /\ \A k \in 1..Len(out) : out'[k] = out[k]
           /\ \A k \in 1..Len(more) : out'[Len(out) + k] = more[k]
           /\ \A k \in 1..Len(out') : k \notin 1..Len(out) =>
                \E j \in 1..Len(more) : k = Len(out) + j
           /\ \A c, r : OnItsWay(c, r) => OnItsWay(c, r)'
<1>0. out \in Seq(LineSet) /\ Len(out) \in Nat /\ Len(more) \in Nat
  BY LenProperties DEF Typed
<1>1. /\ out' \in Seq(LineSet) /\ Len(out') = Len(out) + Len(more)
      /\ Len(out) \in Nat /\ Len(more) \in Nat
      /\ \A k \in 1..Len(out) + Len(more) :
            out'[k] = IF k <= Len(out) THEN out[k] ELSE more[k - Len(out)]
  BY <1>0, ConcatProperties
<1>2. /\ \A k \in 1..Len(out) : out'[k] = out[k]
      /\ \A k \in 1..Len(more) : out'[Len(out) + k] = more[k]
  BY <1>1
<1>3. ASSUME NEW k \in 1..Len(out'), k \notin 1..Len(out)
      PROVE  \E j \in 1..Len(more) : k = Len(out) + j
  <2>1. k - Len(out) \in 1..Len(more) /\ k = Len(out) + (k - Len(out))
    BY <1>1, <1>3
  <2> QED
    BY <2>1
<1>4. ASSUME NEW c, NEW r, OnItsWay(c, r) PROVE OnItsWay(c, r)'
  <2>1. PICK k \in 1..Len(out) : out[k] = Notice(c, r) /\ \A j \in 1..k : out[j] # Answer(c)
    BY <1>4 DEF OnItsWay
  <2>2. k \in 1..Len(out') /\ 1..k \subseteq 1..Len(out)
    BY <1>1
  <2>3. out'[k] = Notice(c, r) /\ \A j \in 1..k : out'[j] # Answer(c)
    BY <1>2, <2>1, <2>2
  <2> QED
    BY <2>2, <2>3 DEF OnItsWay, Notice, Answer
<1> QED
  BY <1>1, <1>2, <1>3, <1>4

LEMMA EndsInv ==
    ASSUME IInv, NEW c \in Calls, Ends(c)
    PROVE  IInv'
<1> USE DEF IInv
<1>1. /\ work[c] = "running" /\ work' = [work EXCEPT ![c] = "done"]
      /\ out' = Append(out, Answer(c)) /\ tokens' \in {tokens, tokens \ {c}}
      /\ UNCHANGED <<attached, raised, open, seen, owed, account, pc, notices, forms, inFlight>>
  BY DEF Ends, signerSide, serverSide
<1>2. Answer(c) \in LineSet
  BY DEF Answer, LineSet
<1>3. <<Answer(c)>> \in Seq(LineSet) /\ Len(<<Answer(c)>>) = 1 /\ <<Answer(c)>>[1] = Answer(c)
  BY <1>2
<1>4. out' = out \o <<Answer(c)>>
  BY <1>1, <1>2, AppendIsConcat DEF Typed
<1>5. Typed' /\ Known' /\ Traced'
  <2>1. out' \in Seq(LineSet)
    BY <1>3, <1>4, LaterLines
  <2> QED
    BY <1>1, <2>1 DEF Typed, Known, Traced
<1>6. LinesRight'
  <2> SUFFICES ASSUME NEW k \in 1..Len(out') PROVE Line(out[k])'
    BY DEF LinesRight, Line, Notice, Answer
  <2>1. CASE k \in 1..Len(out)
    <3>0. Line(out[k])
      BY <2>1 DEF LinesRight
    <3>1. out'[k] = out[k] /\ out[k] \in LineSet
      BY <1>3, <1>4, <2>1, LaterLines, ElementOfSeq DEF Typed
    <3>2. out[k].call \in Calls
      BY <3>1 DEF LineSet
    <3> QED
      BY <1>1, <3>0, <3>1, <3>2 DEF Line, Typed
  <2>2. CASE k \notin 1..Len(out)
    <3>1. out'[k] = Answer(c)
      BY <1>3, <1>4, <2>2, LaterLines
    <3>2. Answer(c).call = c /\ work'[c] = "done"
      BY <1>1 DEF Answer, Typed
    <3> QED
      BY <3>1, <3>2 DEF Line, Answer
  <2> QED
    BY <2>1, <2>2
<1>7. OwnRequests' /\ Distinct'
  BY <1>1 DEF OwnRequests, Distinct
<1>8. OwedIsTold'
  BY <1>1, <1>3, <1>4, LaterLines DEF OwedIsTold
<1> QED
  BY <1>5, <1>6, <1>7, <1>8

LEMMA SettleInv ==
    ASSUME IInv, NEW r \in Requests, Settle(r)
    PROVE  IInv'
<1> USE DEF IInv
<1>1. /\ r \in open /\ open' = open \ {r} /\ raised[r] \in Accounts
      /\ seen' = IF raised[r] \in attached
                 THEN [seen EXCEPT ![raised[r]] = OpenOf(raised[r]) \ {r}] ELSE seen
      /\ UNCHANGED <<work, attached, raised, tokens, out, owed, account, pc, notices, forms,
                     inFlight>>
  BY DEF Settle, serverSide, Known, Typed
<1>2. Typed' /\ Known'
  <2>1. OpenOf(raised[r]) \subseteq open
    BY DEF OpenOf
  <2> QED
    BY <1>1, <2>1 DEF Typed, Known
<1>3. Traced'
  BY <1>1 DEF Traced
<1>4. LinesRight' /\ OwnRequests' /\ Distinct' /\ OwedIsTold'
  BY <1>1, SameLines DEF Typed
<1> QED
  BY <1>2, <1>3, <1>4

\* What is raised for an account is told to the calls of that account.
LEMMA RaiseInv ==
    ASSUME IInv, NEW r \in Requests, NEW a \in Accounts, Raise(r, a)
    PROVE  IInv'
<1> USE DEF IInv
<1>1. /\ raised[r] = None /\ raised' = [raised EXCEPT ![r] = a] /\ open' = open \cup {r}
      /\ UNCHANGED <<work, attached, tokens, account, pc, notices, forms, inFlight>>
  BY DEF Raise, serverSide
<1>2. /\ raised' \in [Requests -> Accounts \cup {None}] /\ raised'[r] = a
      /\ \A q \in Requests : raised[q] # None => raised'[q] = raised[q]
      /\ \A q \in Requests : q # r => raised'[q] = raised[q]
  BY <1>1 DEF Typed
<1>3. OwnRequests' /\ Distinct'
  <2>1. ASSUME NEW c \in Calls, NEW q \in ToSet(notices[c]) PROVE raised'[q] = account[c]
    <3>1. raised[q] = account[c]
      BY DEF OwnRequests
    <3>2. work[c] # "none" /\ q \in Requests
      <4>1. notices[c] \in Seq(Requests)
        BY DEF Typed
      <4>2. q \in Requests /\ notices[c] # <<>>
        BY <4>1, InSeq
      <4> QED
        BY <4>2 DEF Traced
    <3>3. account[c] \in Accounts
      BY <3>2 DEF Traced
    <3> QED
      BY <1>2, <3>1, <3>2, <3>3, NoneAssumption
  <2> QED
    BY <1>1, <2>1 DEF OwnRequests, Distinct
<1>4. ASSUME NEW l \in LineSet, Line(l)
      PROVE  /\ work'[l.call] # "none"
             /\ \/ l = Answer(l.call) /\ work'[l.call] = "done"
                \/ \E q \in Requests : l = Notice(l.call, q) /\ raised'[q] = account'[l.call]
  <2>1. l.call \in Calls
    BY DEF LineSet
  <2>2. work[l.call] # "none" /\ account[l.call] \in Accounts
    BY <1>4, <2>1 DEF Line, Traced
  <2> QED
    BY <1>1, <1>2, <1>4, <2>2, NoneAssumption DEF Line
<1>5. CASE a \notin attached
  <2>1. UNCHANGED <<seen, out, owed>>
    BY <1>5 DEF Raise
  <2>2. Typed' /\ Traced'
    BY <1>1, <1>2, <2>1 DEF Typed, Traced
  <2>3. Known'
    BY <1>1, <1>2, <2>1, NoneAssumption DEF Known, Typed
  <2>4. LinesRight'
    <3>1. ASSUME NEW k \in 1..Len(out) PROVE Line(out[k]) /\ out[k] \in LineSet
      <4>1. Line(out[k])
        BY DEF LinesRight
      <4> QED
        BY <4>1, ElementOfSeq DEF Typed
    <3>2. ASSUME NEW k \in 1..Len(out') PROVE Line(out[k])'
      BY <1>4, <2>1, <3>1 DEF Line, Notice, Answer
    <3> QED
      BY <3>2 DEF LinesRight, Line, Notice, Answer
  <2>5. OwedIsTold'
    BY <1>1, <2>1 DEF OwedIsTold, OnItsWay
  <2> QED
    BY <1>3, <2>2, <2>3, <2>4, <2>5
<1>6. CASE a \in attached
  <2> DEFINE fresh == (OpenOf(a) \cup {r}) \ seen[a]
             more == Lines(a, fresh)
  <2>1. /\ seen' = [seen EXCEPT ![a] = OpenOf(a) \cup {r}]
        /\ out' = out \o more
        /\ owed' = [c \in Calls |-> IF c \in TokensOf(a) /\ work[c] = "running"
                                    THEN owed[c] \cup ({r} \ Quiet) ELSE owed[c]]
    BY <1>6 DEF Raise
  <2>2. fresh \subseteq Requests /\ r \in fresh /\ \A q \in fresh : raised'[q] = a
    BY <1>1, <1>2 DEF OpenOf, Known, Typed
  <2>3. \A q \in fresh : Told(a, q) \subseteq TokensOf(a) /\ (q \notin Quiet => Told(a, q) = TokensOf(a))
    BY DEF Told
  <2>4. TokensOf(a) \subseteq Calls /\ \A c \in TokensOf(a) : account[c] = a /\ work[c] # "none"
    BY DEF TokensOf, Typed, Traced
  <2> HIDE DEF fresh
  <2>5. /\ more \in Seq(NoticeSet)
        /\ \A k \in 1..Len(more) : \E q \in fresh : \E c \in Told(a, q) : more[k] = Notice(c, q)
        /\ \A q \in fresh : \A c \in Told(a, q) : \E k \in 1..Len(more) : more[k] = Notice(c, q)
    <3>1. fresh \in SUBSET Requests /\ tokens \subseteq Calls
      BY <2>2 DEF Typed
    <3>2. LinesTell(Lines(a, fresh), a, fresh)
      BY <3>1, LinesAre
    <3> QED
      BY <3>2 DEF LinesTell
  <2> HIDE DEF more
  <2>6. more \in Seq(LineSet)
    <3>1. NoticeSet \subseteq LineSet
      BY DEF LineSet, NoticeSet
    <3> QED
      BY <2>5, <3>1, SeqOfMore
  <2>7. Typed' /\ Traced'
    <3>1. out' \in Seq(LineSet)
      BY <2>1, <2>6, LaterLines
    <3>2. owed' \in [Calls -> SUBSET Requests]
      BY <2>1 DEF Typed
    <3>3. seen' \in [Accounts -> SUBSET Requests]
      BY <2>1 DEF Typed, OpenOf
    <3>4. \A c \in Calls : work[c] = "none" => owed'[c] = {}
      BY <2>1 DEF Traced
    <3> QED
      BY <1>1, <1>2, <3>1, <3>2, <3>3, <3>4 DEF Typed, Traced
  <2>8. Known'
    BY <1>1, <1>2, <2>1, NoneAssumption DEF Known, Typed, OpenOf
  <2>9. LinesRight'
    <3>1. ASSUME NEW k \in 1..Len(out') PROVE Line(out[k])'
      <4>1. CASE k \in 1..Len(out)
        <5>1. Line(out[k])
          BY <4>1 DEF LinesRight
        <5>2. out'[k] = out[k] /\ out[k] \in LineSet
          BY <2>1, <2>6, <4>1, LaterLines, ElementOfSeq DEF Typed
        <5> QED
          BY <1>4, <5>1, <5>2 DEF Line, Notice, Answer
      <4>2. CASE k \notin 1..Len(out)
        <5>1. PICK j \in 1..Len(more) : k = Len(out) + j /\ out'[k] = more[j]
          BY <2>1, <2>6, <4>2, LaterLines
        <5>2. PICK q \in fresh : \E c \in Told(a, q) : more[j] = Notice(c, q)
          BY <2>5
        <5>3. PICK c \in Told(a, q) : more[j] = Notice(c, q)
          BY <5>2
        <5>4. raised'[q] = account'[c] /\ work'[c] # "none" /\ q \in Requests
          BY <1>1, <2>2, <2>3, <2>4
        <5>5. out'[k].call = c /\ out'[k] = Notice(out'[k].call, q)
          BY <5>1, <5>3 DEF Notice
        <5>6. \E p \in Requests : /\ out'[k] = Notice(out'[k].call, p)
                                  /\ raised'[p] = account'[out'[k].call]
          BY <5>4, <5>5, Zenon
        <5> QED
          BY <5>4, <5>5, <5>6 DEF Line, Notice, Answer
      <4> QED
        BY <4>1, <4>2
    <3> QED
      BY <3>1 DEF LinesRight, Line, Notice, Answer
  <2>10. OwedIsTold'
    <3>1. ASSUME NEW c \in Calls, pc[c] = "answered" PROVE owed'[c] \subseteq ToSet(notices[c])
      BY <2>1, <3>1 DEF Traced, OwedIsTold
    <3>2. ASSUME NEW c \in Calls, pc[c] = "waiting", NEW q \in owed'[c]
          PROVE  q \in ToSet(notices[c]) \/ OnItsWay(c, q)'
      <4>1. CASE q \in owed[c]
        BY <2>1, <2>6, <3>2, <4>1, LaterLines DEF OwedIsTold
      <4>2. CASE q \notin owed[c]
        <5>1. q = r /\ r \notin Quiet /\ c \in Told(a, r) /\ work[c] = "running"
          BY <2>1, <2>2, <2>3, <3>2, <4>2
        <5>2. PICK j \in 1..Len(more) : more[j] = Notice(c, r)
          BY <2>2, <2>5, <5>1
        <5>3. Len(out) + j \in 1..Len(out') /\ out'[Len(out) + j] = Notice(c, r)
          <6>1. Len(out) \in Nat /\ Len(more) \in Nat /\ Len(out') = Len(out) + Len(more)
            BY <2>1, <2>6, LaterLines, LenProperties DEF Typed
          <6>2. out'[Len(out) + j] = more[j]
            BY <2>1, <2>6, LaterLines
          <6> QED
            BY <5>2, <6>1, <6>2
        <5>4. ASSUME NEW i \in 1..Len(out') PROVE out'[i] # Answer(c)
          <6>1. CASE i \in 1..Len(out)
            <7>1. out'[i] = out[i]
              BY <2>1, <2>6, <6>1, LaterLines
            <7>2. Line(out[i])
              BY <6>1 DEF LinesRight
            <7>3. out[i] = Answer(c) => out[i].call = c
              BY DEF Answer
            <7> QED
              BY <5>1, <7>1, <7>2, <7>3, LinesDiffer DEF Line
          <6>2. CASE i \notin 1..Len(out)
            <7>1. PICK n \in 1..Len(more) : i = Len(out) + n /\ out'[i] = more[n]
              BY <2>1, <2>6, <6>2, LaterLines
            <7>2. \E s \in fresh : \E d \in Told(a, s) : more[n] = Notice(d, s)
              BY <2>5
            <7> QED
              BY <7>1, <7>2, LinesDiffer
          <6> QED
            BY <6>1, <6>2
        <5>5. 1..(Len(out) + j) \subseteq 1..Len(out')
          BY <5>3
        <5> QED
          BY <5>1, <5>3, <5>4, <5>5 DEF OnItsWay, Notice, Answer
      <4> QED
        BY <4>1, <4>2
    <3> QED
      BY <1>1, <3>1, <3>2 DEF OwedIsTold
  <2> QED
    BY <1>3, <2>7, <2>8, <2>9, <2>10
<1> QED
  BY <1>5, <1>6

\* Reading a line leaves the others as they are.
LEMMA RestOfLines ==
    ASSUME IInv, out # <<>>, out' = Tail(out)
    PROVE  /\ out' \in Seq(LineSet) /\ Head(out) \in LineSet /\ Line(Head(out))
           /\ \A k \in 1..Len(out') : k + 1 \in 1..Len(out) /\ out'[k] = out[k + 1]
           /\ \A c, r : /\ OnItsWay(c, r) /\ Head(out) # Notice(c, r) => OnItsWay(c, r)'
                        /\ OnItsWay(c, r) => Head(out) # Answer(c)
<1>0. out \in Seq(LineSet)
  BY DEF IInv, Typed
<1>1. /\ out \in Seq(LineSet) /\ Len(out) \in Nat \ {0}
      /\ Head(out) = out[1] /\ 1 \in 1..Len(out)
  BY <1>0
<1>2. /\ out' \in Seq(LineSet) /\ Len(out') = Len(out) - 1 /\ Head(out) \in LineSet
      /\ \A k \in 1..Len(out') : out'[k] = out[k + 1]
  BY <1>1, HeadTailProperties
<1>3. \A k \in 1..Len(out') : k + 1 \in 1..Len(out)
  BY <1>1, <1>2
<1>4. Line(Head(out))
  BY <1>1 DEF IInv, LinesRight
<1>5. ASSUME NEW c, NEW r, OnItsWay(c, r)
      PROVE  /\ Head(out) # Notice(c, r) => OnItsWay(c, r)'
             /\ Head(out) # Answer(c)
  <2>1. PICK k \in 1..Len(out) : out[k] = Notice(c, r) /\ \A j \in 1..k : out[j] # Answer(c)
    BY <1>5 DEF OnItsWay
  <2>2. Head(out) # Answer(c)
    BY <1>1, <2>1
  <2>3. ASSUME Head(out) # Notice(c, r) PROVE OnItsWay(c, r)'
    <3>1. k # 1
      BY <1>1, <2>1, <2>3
    <3>2. k - 1 \in 1..Len(out') /\ (k - 1) + 1 = k
      BY <1>1, <1>2, <3>1
    <3>3. out'[k - 1] = Notice(c, r)
      BY <1>2, <2>1, <3>2
    <3>4. ASSUME NEW j \in 1..(k - 1) PROVE out'[j] # Answer(c)
      <4>1. j \in 1..Len(out') /\ j + 1 \in 1..k
        BY <1>2, <3>2
      <4> QED
        BY <1>2, <2>1, <4>1
    <3> QED
      BY <3>2, <3>3, <3>4 DEF OnItsWay, Notice, Answer
  <2> QED
    BY <2>2, <2>3
<1> QED
  BY <1>2, <1>3, <1>4, <1>5

LEMMA FewerLinesRight ==
    ASSUME IInv, out # <<>>, out' = Tail(out), UNCHANGED <<work, raised, account>>
    PROVE  LinesRight'
<1>1. ASSUME NEW k \in 1..Len(out') PROVE Line(out[k])'
  <2>1. k + 1 \in 1..Len(out) /\ out'[k] = out[k + 1]
    BY RestOfLines
  <2>2. Line(out[k + 1])
    BY <2>1 DEF IInv, LinesRight
  <2> QED
    BY <2>1, <2>2 DEF Line, Notice, Answer
<1> QED
  BY <1>1 DEF LinesRight, Line, Notice, Answer

LEMMA ReadNoticeInv ==
    ASSUME IInv, ReadNotice
    PROVE  IInv'
<1> USE DEF IInv
<1>1. /\ out # <<>> /\ Head(out).says = "signer" /\ out' = Tail(out)
      /\ UNCHANGED <<work, attached, raised, open, seen, tokens, owed, account, pc>>
  BY DEF ReadNotice, signerSide
<1>2. PICK r \in Head(out).request :
        notices' = [c \in Calls |-> IF c \in {d \in Listeners(Head(out)) : ~Noticed(d, r)}
                                    THEN Append(notices[c], r) ELSE notices[c]]
  BY DEF ReadNotice
<1>3. Head(out) \in LineSet /\ Line(Head(out))
  BY <1>1, RestOfLines
<1>4. PICK d \in Calls : d = Head(out).call
  BY <1>3 DEF LineSet
<1>5. Head(out) = Notice(d, r) /\ r \in Requests /\ raised[r] = account[d] /\ work[d] # "none"
  <2>1. Head(out) # Answer(d)
    BY <1>1 DEF Answer
  <2>2. PICK q \in Requests : Head(out) = Notice(d, q) /\ raised[q] = account[d]
    BY <1>3, <1>4, <2>1 DEF Line
  <2>3. q = r
    BY <1>2, <2>2 DEF Notice
  <2> QED
    BY <1>3, <1>4, <2>2, <2>3 DEF Line
<1>6. \A c \in Calls :
        notices'[c] = IF c = d /\ pc[d] = "waiting" /\ r \notin ToSet(notices[d])
                      THEN Append(notices[d], r) ELSE notices[c]
  BY <1>2, <1>4 DEF Listeners, Noticed
<1>7. /\ Append(notices[d], r) \in Seq(Requests)
      /\ ToSet(Append(notices[d], r)) = ToSet(notices[d]) \cup {r}
      /\ r \notin ToSet(notices[d]) => IsInjective(Append(notices[d], r))
  <2>1. notices[d] \in Seq(Requests) /\ IsInjective(notices[d])
    BY DEF Typed, Distinct
  <2> QED
    BY <1>5, <2>1, AppendFresh
<1>8. \A c \in Calls : /\ notices'[c] \in Seq(Requests)
                       /\ IsInjective(notices'[c])
                       /\ ToSet(notices[c]) \subseteq ToSet(notices'[c])
                       /\ ToSet(notices'[c]) \subseteq ToSet(notices[c]) \cup (IF c = d THEN {r} ELSE {})
                       /\ c = d /\ pc[d] = "waiting" => r \in ToSet(notices'[c])
                       /\ c # d => notices'[c] = notices[c]
  <2>1. \A c \in Calls : notices[c] \in Seq(Requests) /\ IsInjective(notices[c])
    BY DEF Typed, Distinct
  <2> QED
    BY <1>6, <1>7, <2>1
<1>9. Typed' /\ Known'
  <2>1. notices' \in [Calls -> Seq(Requests)]
    BY <1>2, <1>8
  <2>2. out' \in Seq(LineSet)
    BY <1>1, RestOfLines
  <2> QED
    BY <1>1, <2>1, <2>2 DEF Typed, Known
<1>10. Traced'
  <2>1. \A c \in Calls : work[c] = "none" => notices'[c] = <<>>
    BY <1>5, <1>8 DEF Traced
  <2> QED
    BY <1>1, <2>1 DEF Traced
<1>11. LinesRight'
  BY <1>1, FewerLinesRight
<1>12. OwnRequests'
  BY <1>1, <1>5, <1>8 DEF OwnRequests
<1>13. Distinct'
  BY <1>8 DEF Distinct
<1>14. OwedIsTold'
  <2>1. ASSUME NEW c \in Calls, pc[c] = "answered" PROVE owed[c] \subseteq ToSet(notices'[c])
    BY <1>8, <2>1 DEF OwedIsTold
  <2>2. ASSUME NEW c \in Calls, pc[c] = "waiting", NEW q \in owed[c]
        PROVE  q \in ToSet(notices'[c]) \/ OnItsWay(c, q)'
    <3>1. q \in ToSet(notices[c]) \/ OnItsWay(c, q)
      BY <2>2 DEF OwedIsTold
    <3>2. CASE q \in ToSet(notices[c])
      BY <1>8, <3>2
    <3>3. CASE OnItsWay(c, q) /\ Head(out) # Notice(c, q)
      BY <1>1, <3>3, RestOfLines
    <3>4. CASE Head(out) = Notice(c, q)
      BY <1>5, <1>8, <2>2, <3>4, LinesDiffer
    <3> QED
      BY <3>1, <3>2, <3>3, <3>4
  <2> QED
    BY <1>1, <2>1, <2>2 DEF OwedIsTold
<1> QED
  BY <1>9, <1>10, <1>11, <1>12, <1>13, <1>14

LEMMA ReadAnswerInv ==
    ASSUME IInv, ReadAnswer
    PROVE  IInv'
<1> USE DEF IInv
<1>1. /\ out # <<>> /\ Head(out).says = "answer" /\ out' = Tail(out)
      /\ UNCHANGED <<work, attached, raised, open, seen, tokens, owed, account, notices, forms,
                     inFlight>>
  BY DEF ReadAnswer, signerSide
<1>2. Head(out) \in LineSet /\ Line(Head(out))
  BY <1>1, RestOfLines
<1>3. PICK d \in Calls : d = Head(out).call
  BY <1>2 DEF LineSet
<1>4. Head(out) = Answer(d) /\ work[d] = "done"
  <2>1. \A r : Head(out) # Notice(d, r)
    BY <1>1 DEF Notice
  <2> QED
    BY <1>2, <1>3, <2>1 DEF Line
<1>5. pc' = [pc EXCEPT ![d] = IF @ = "waiting" THEN "answered" ELSE @]
  BY <1>3 DEF ReadAnswer
<1>6. \A c \in Calls : /\ c # d => pc'[c] = pc[c]
                       /\ pc'[d] = IF pc[d] = "waiting" THEN "answered" ELSE pc[d]
  BY <1>5 DEF Typed
<1>7. Typed' /\ Known'
  <2>1. out' \in Seq(LineSet)
    BY <1>1, RestOfLines
  <2>2. pc' \in [Calls -> {"idle", "waiting", "answered", "gave up"}]
    BY <1>5 DEF Typed
  <2> QED
    BY <1>1, <2>1, <2>2 DEF Typed, Known
<1>8. Traced'
  BY <1>1, <1>4, <1>6 DEF Traced
<1>9. LinesRight'
  BY <1>1, FewerLinesRight
<1>10. OwnRequests' /\ Distinct'
  BY <1>1 DEF OwnRequests, Distinct
<1>11. OwedIsTold'
  <2>1. ASSUME NEW c \in Calls, pc'[c] = "answered" PROVE owed[c] \subseteq ToSet(notices[c])
    <3>1. CASE c = d /\ pc[d] = "waiting"
      <4>1. \A r : ~OnItsWay(d, r)
        BY <1>1, <1>4, RestOfLines
      <4> QED
        BY <3>1, <4>1 DEF OwedIsTold
    <3>2. CASE pc[c] = "answered"
      BY <3>2 DEF OwedIsTold
    <3> QED
      BY <1>6, <2>1, <3>1, <3>2
  <2>2. ASSUME NEW c \in Calls, pc'[c] = "waiting", NEW q \in owed[c]
        PROVE  q \in ToSet(notices[c]) \/ OnItsWay(c, q)'
    <3>1. pc[c] = "waiting"
      BY <1>6, <2>2
    <3>2. q \in ToSet(notices[c]) \/ OnItsWay(c, q)
      BY <3>1 DEF OwedIsTold
    <3>3. Head(out) # Notice(c, q)
      BY <1>4, LinesDiffer
    <3> QED
      BY <1>1, <3>2, <3>3, RestOfLines
  <2> QED
    BY <1>1, <2>1, <2>2 DEF OwedIsTold
<1> QED
  BY <1>7, <1>8, <1>9, <1>10, <1>11

LEMMA NextInv == IInv /\ [Next]_vars => IInv'
<1> SUFFICES ASSUME IInv, [Next]_vars PROVE IInv'
  OBVIOUS
<1>1. ASSUME NEW c \in Calls,
             Begins(c) \/ BackgroundEnds(c) \/ GivesUp(c) \/ \E a \in Accounts : Call(c, a)
      PROVE  IInv'
  BY <1>1, QuietStep
<1>2. ASSUME NEW c \in Calls, Ends(c) PROVE IInv'
  BY <1>2, EndsInv
<1>3. ASSUME NEW r \in Requests, Settle(r) \/ \E a \in Accounts : Raise(r, a) PROVE IInv'
  BY <1>3, SettleInv, RaiseInv
<1>4. CASE ReadNotice \/ ReadAnswer
  BY <1>4, ReadNoticeInv, ReadAnswerInv
<1>5. CASE (\E f \in forms : FormEnds(f)) \/ UNCHANGED vars
  <2>1. UNCHANGED <<work, attached, raised, open, seen, tokens, out, owed, account, pc, notices>>
    BY <1>5 DEF FormEnds, signerSide, vars
  <2>2. Typed' /\ Known' /\ Traced'
    BY <2>1 DEF IInv, Typed, Known, Traced
  <2>3. LinesRight' /\ OwnRequests' /\ Distinct' /\ OwedIsTold'
    BY <2>1, SameLines DEF IInv, Typed
  <2> QED
    BY <2>2, <2>3 DEF IInv
<1> QED
  BY <1>1, <1>2, <1>3, <1>4, <1>5 DEF Next

LEMMA FormsInv ==
    ASSUME OneForm, [Next]_vars
    PROVE  OneForm'
<1>1. CASE UNCHANGED <<forms, inFlight>>
  BY <1>1 DEF OneForm
<1>2. ASSUME NEW c, NEW r, r \notin inFlight,
             forms' = forms \cup {[call |-> c, request |-> r]}, inFlight' = inFlight \cup {r}
      PROVE  OneForm'
  <2> DEFINE form == [call |-> c, request |-> r]
  <2>1. form.request = r /\ \A f \in forms : f.request # r
    BY <1>2 DEF OneForm
  <2> HIDE DEF form
  <2>2. forms' = forms \cup {form} /\ inFlight' = inFlight \cup {r}
    BY <1>2 DEF form
  <2>3. \A f, g \in forms' : f.request = g.request => f = g
    BY <2>1, <2>2 DEF OneForm
  <2>4. inFlight' = {f.request : f \in forms'}
    BY <2>1, <2>2 DEF OneForm
  <2> QED
    BY <2>3, <2>4 DEF OneForm
<1>3. ASSUME NEW f \in forms, FormEnds(f) PROVE OneForm'
  BY <1>3 DEF FormEnds, OneForm
<1>4. CASE ReadNotice
  BY <1>1, <1>2, <1>4 DEF ReadNotice, Asks
<1> QED
  BY <1>1, <1>3, <1>4 DEF Next, vars, Begins, Ends, BackgroundEnds, GivesUp, Call, Raise, Settle,
                          ReadAnswer, serverSide

LEMMA Invariance == Spec => [](IInv /\ OneForm)
<1>1. Init => OneForm
  BY DEF Init, OneForm
<1>2. OneForm /\ [Next]_vars => OneForm'
  BY FormsInv
<1> QED
  BY <1>1, <1>2, InitInv, NextInv, PTL DEF Spec

-----------------------------------------------------------------------------
(***************************************************************************)
(* The theorems.                                                           *)
(***************************************************************************)

\* No conversation hears of the signer requests of another account.
THEOREM NoticesAreOwn == Spec => []OwnRequests
<1> QED
  BY Invariance, PTL DEF IInv

\* An answer tells, once each, every request raised while its action ran: the
\* answer cannot overtake the notices on the daemon's output.
THEOREM AnswersTellAll == Spec => []AnswerTellsAll
<1>1. IInv => AnswerTellsAll
  BY DEF IInv, OwedIsTold, Distinct, AnswerTellsAll
<1> QED
  BY <1>1, Invariance, PTL

\* A request is asked about with one form at a time.
THEOREM FormsAreSingle == Spec => []OneForm
<1> QED
  BY Invariance, PTL
=============================================================================
