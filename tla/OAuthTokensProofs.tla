--------------------------- MODULE OAuthTokensProofs ---------------------------
(***************************************************************************)
(* Proofs about OAuthTokens, for any number of clients, tokens, scopes and *)
(* waiting requests, and for every subset of the faults.                   *)
(*                                                                         *)
(* The argument.  While a request waits for its signature no token of its  *)
(* family is live, in memory or in the file, and no other request waits    *)
(* for the same family: it could only have begun with a live token.  So    *)
(* the successor is the only live token of the family when it is issued,   *)
(* and the token it replaces was not replaced before.                      *)
(***************************************************************************)
EXTENDS OAuthTokens, TLAPS

\* What no issue has touched is as it was at the start; a family is named by
\* its first token.
Fresh ==
    /\ \A t \in Tokens : family[t] = None =>
        mem[t] = "absent" /\ disk[t] = "absent" /\ rotations[t] = 0
    /\ \A t \in Issued : family[family[t]] = family[t]

\* A waiting request has its family to itself and no token of it is live.
Alone ==
    /\ \A c \in Calls : sign[c] # None =>
        /\ sign[c] \in Issued
        /\ rotations[sign[c]] = 0
        /\ \A t \in Issued : family[t] = family[sign[c]] => mem[t] # "live" /\ disk[t] # "live"
    /\ \A c, d \in Calls :
        sign[c] # None /\ sign[d] # None /\ family[sign[c]] = family[sign[d]] => c = d

\* A token that has a successor is not live again.
Replaced ==
    \A t \in Tokens : rotations[t] > 0 => mem[t] # "live" /\ disk[t] # "live"

\* A live token, and the one that is being signed for, have the least scope
\* of their family.
Least ==
    /\ \A t, u \in Issued : family[t] = family[u] /\ (mem[t] = "live" \/ disk[t] = "live") =>
        scope[t] \subseteq scope[u]
    /\ \A c \in Calls : sign[c] # None =>
        \A u \in Issued : family[u] = family[sign[c]] => signScope[c] \subseteq scope[u]

Rest == Fresh /\ OneLivePerFamily /\ Alone /\ Replaced /\ RotatedOnce /\ Least
IInv == TypeOK /\ Rest

-----------------------------------------------------------------------------
(***************************************************************************)
(* Types.                                                                  *)
(***************************************************************************)

\* Every variable keeps its type, whatever the stores and clients do.  Only an
\* issued token has met an accident, so that its family is one.
LEMMA TypeStep == TypeOK /\ Fresh /\ Alone /\ [Next]_vars => TypeOK'
<1> SUFFICES ASSUME TypeOK, Fresh, Alone, [Next]_vars PROVE TypeOK'
  OBVIOUS
<1> USE NoneAssumption DEF TypeOK, Status
<1>0. \A t \in Tokens : mem[t] # "absent" => family[t] \in Tokens
  BY DEF Fresh
<1>a. \A c \in Calls : sign[c] # None => sign[c] \in Tokens /\ family[sign[c]] \in Tokens
  BY DEF Alone, Issued
<1>1. ASSUME NEW cl \in Clients, Register(cl) PROVE TypeOK'
  BY <1>1 DEF Register, ClientsWritten, issueVars
<1>2. ASSUME NEW cl \in Clients, NEW t \in Tokens, Grant(cl, t) PROVE TypeOK'
  BY <1>2 DEF Grant, NewToken, Saved, NotSaved, WithLive, Replied, Unreplied, clientVars
<1>3. ASSUME NEW t \in Tokens, RefreshReused(t) PROVE TypeOK'
  <2>1. WithRevoked(t) \in [Tokens -> Status]
    BY DEF WithRevoked
  <2>2. mem' \in [Tokens -> Status] /\ disk' \in [Tokens -> Status]
    BY <1>3, <2>1 DEF RefreshReused, Saved, NotSaved
  <2>3. hurt' \subseteq Tokens
    BY <1>0, <1>3 DEF RefreshReused
  <2> QED
    BY <1>3, <2>2, <2>3 DEF RefreshReused, clientVars, issueVars
<1>4. ASSUME NEW c \in Calls, NEW t \in Tokens, NEW s \in SUBSET Scopes, RefreshBegin(c, t, s)
      PROVE TypeOK'
  <2>1. mem' \in [Tokens -> Status] /\ disk' \in [Tokens -> Status]
    BY <1>4 DEF RefreshBegin, Saved, NotSaved, WithConsumed
  <2>2. hurt' \subseteq Tokens
    BY <1>0, <1>4 DEF RefreshBegin, MayRefresh
  <2> QED
    BY <1>4, <2>1, <2>2 DEF RefreshBegin, clientVars, issueVars
<1>5. ASSUME NEW c \in Calls, NEW n \in Tokens, RefreshEnd(c, n) PROVE TypeOK'
  <2>1. sign[c] \in Tokens /\ family[sign[c]] \in Tokens
    BY <1>5, <1>a DEF RefreshEnd
  <2>2. family' \in [Tokens -> Tokens \cup {None}] /\ family'[n] \in Tokens
    BY <1>5, <2>1 DEF RefreshEnd, NewToken
  <2>3. owner' \in [Tokens -> Clients \cup {None}] /\ scope' \in [Tokens -> SUBSET Scopes]
    BY <1>5, <2>1 DEF RefreshEnd, NewToken
  <2>4. mem' \in [Tokens -> Status] /\ disk' \in [Tokens -> Status]
    BY <1>5 DEF RefreshEnd, Saved, NotSaved, WithLive
  <2>5. known' \subseteq Tokens /\ hurt' \subseteq Tokens
    BY <1>5, <2>2 DEF RefreshEnd, Replied, Unreplied
  <2>6. rotations' \in [Tokens -> Nat]
    BY <1>5, <2>1 DEF RefreshEnd
  <2>7. sign' \in [Calls -> Tokens \cup {None}] /\ signScope' \in [Calls -> SUBSET Scopes]
    BY <1>5 DEF RefreshEnd
  <2> QED
    BY <1>5, <2>2, <2>3, <2>4, <2>5, <2>6, <2>7 DEF RefreshEnd, clientVars
<1>6. ASSUME NEW t \in Tokens, Expire(t) PROVE TypeOK'
  BY <1>0, <1>6 DEF Expire, clientVars, issueVars
<1>7. ASSUME Restart PROVE TypeOK'
  <2>1. mem' \in [Tokens -> Status]
    BY <1>7 DEF Restart, TokensLoaded
  <2>2. clients' \subseteq Clients /\ clientsLost' \in BOOLEAN
    BY <1>7 DEF Restart, ClientsLoaded
  <2>3. hurt' \subseteq Tokens
    BY <1>7, <1>a DEF Restart, Issued
  <2> QED
    BY <1>7, <2>1, <2>2, <2>3 DEF Restart, issueVars
<1>8. CASE UNCHANGED vars
  BY <1>8 DEF vars
<1> QED
  BY <1>1, <1>2, <1>3, <1>4, <1>5, <1>6, <1>7, <1>8 DEF Next

-----------------------------------------------------------------------------
(***************************************************************************)
(* The invariant.                                                          *)
(***************************************************************************)

\* Nothing is live in m that is not in n, nor known to m that n does not know.
Below(m, n) ==
    \A t \in Tokens : (m[t] = "live" => n[t] = "live") /\ (n[t] = "absent" => m[t] = "absent")

\* A step that issues nothing, in which memory and file take over what one of
\* them held, or less, and requests only stop waiting.
LEMMA QuietStep ==
    ASSUME TypeOK, Rest, UNCHANGED <<family, scope, rotations>>,
           Below(mem', mem) \/ Below(mem', disk), Below(disk', mem) \/ Below(disk', disk),
           \A c \in Calls : sign'[c] = None \/ (sign'[c] = sign[c] /\ signScope'[c] = signScope[c])
    PROVE  Rest'
<1> USE DEF TypeOK, Rest, Below
<1>0. Issued' = Issued
  BY DEF Issued
<1>1. Fresh'
  BY <1>0 DEF Fresh
<1>2. OneLivePerFamily'
  BY <1>0 DEF OneLivePerFamily, Issued
<1>3. Alone'
  <2>1. ASSUME NEW c \in Calls, sign'[c] # None
        PROVE  /\ sign'[c] \in Issued' /\ rotations'[sign'[c]] = 0
               /\ \A t \in Issued' : family'[t] = family'[sign'[c]] =>
                    mem'[t] # "live" /\ disk'[t] # "live"
    BY <1>0, <2>1 DEF Alone, Issued
  <2>2. ASSUME NEW c \in Calls, NEW d \in Calls, sign'[c] # None, sign'[d] # None,
               family'[sign'[c]] = family'[sign'[d]]
        PROVE  c = d
    BY <2>2 DEF Alone
  <2> QED
    BY <2>1, <2>2 DEF Alone
<1>4. Replaced'
  BY DEF Replaced
<1>5. RotatedOnce'
  BY DEF RotatedOnce
<1>6. Least'
  <2>1. ASSUME NEW t \in Issued', NEW u \in Issued', family'[t] = family'[u],
               mem'[t] = "live" \/ disk'[t] = "live"
        PROVE  scope'[t] \subseteq scope'[u]
    <3>1. mem[t] = "live" \/ disk[t] = "live"
      BY <2>1 DEF Issued
    <3> QED
      BY <1>0, <2>1, <3>1 DEF Least
  <2>2. ASSUME NEW c \in Calls, sign'[c] # None, NEW u \in Issued',
               family'[u] = family'[sign'[c]]
        PROVE  signScope'[c] \subseteq scope'[u]
    BY <1>0, <2>2 DEF Least
  <2> QED
    BY <2>1, <2>2 DEF Least
<1> QED
  BY <1>1, <1>2, <1>3, <1>4, <1>5, <1>6

\* A family begins with one live token.
LEMMA GrantStep ==
    ASSUME TypeOK, Rest, NEW cl \in Clients, NEW t \in Tokens, Grant(cl, t)
    PROVE  Rest'
<1> USE NoneAssumption DEF TypeOK, Rest, Status
<1>0. /\ family[t] = None /\ family' = [family EXCEPT ![t] = t]
      /\ scope' = [scope EXCEPT ![t] = Scopes]
      /\ mem' = [mem EXCEPT ![t] = "live"] /\ disk' \in {mem', disk}
      /\ UNCHANGED <<sign, signScope, rotations>>
  BY DEF Grant, NewToken, Saved, NotSaved, WithLive
<1>1. Issued' = Issued \cup {t} /\ t \notin Issued
  BY <1>0 DEF Issued
<1>2. \A u \in Issued : family'[u] = family[u] /\ family[u] # t /\ u # t
  BY <1>0, <1>1 DEF Fresh, Issued
<1>3. family'[t] = t /\ scope'[t] = Scopes
  BY <1>0
<1>4. \A u \in Issued : scope'[u] = scope[u] /\ mem'[u] = mem[u]
                        /\ disk'[u] \in {mem[u], disk[u]}
  BY <1>0, <1>2 DEF Issued
<1>5. Fresh'
  <2>1. ASSUME NEW u \in Tokens, family'[u] = None
        PROVE  mem'[u] = "absent" /\ disk'[u] = "absent" /\ rotations'[u] = 0
    <3>1. u # t /\ family[u] = None
      BY <1>0, <2>1
    <3> QED
      BY <1>0, <3>1 DEF Fresh
  <2>2. \A u \in Issued : family[u] \in Issued
    BY DEF Fresh, Issued
  <2>3. \A u \in Issued' : family'[family'[u]] = family'[u]
    BY <1>1, <1>2, <1>3, <2>2 DEF Fresh
  <2> QED
    BY <2>1, <2>3 DEF Fresh
<1>6. OneLivePerFamily'
  <2>1. ASSUME NEW u \in Issued', NEW w \in Issued', family'[u] = family'[w], u # w
        PROVE  u \in Issued /\ w \in Issued
    BY <1>1, <1>2, <1>3, <2>1
  <2>2. ASSUME NEW u \in Issued, NEW w \in Issued, family'[u] = family'[w], u # w
        PROVE  ~(mem'[u] = "live" /\ mem'[w] = "live") /\ ~(disk'[u] = "live" /\ disk'[w] = "live")
    <3>1. family[u] = family[w] /\ mem'[u] = mem[u] /\ mem'[w] = mem[w]
      BY <1>2, <1>4, <2>2
    <3>2. CASE disk' = mem'
      BY <2>2, <3>1, <3>2 DEF OneLivePerFamily
    <3>3. CASE disk' = disk
      BY <2>2, <3>1, <3>3 DEF OneLivePerFamily
    <3> QED
      BY <1>0, <3>2, <3>3
  <2> QED
    BY <2>1, <2>2 DEF OneLivePerFamily
<1>7. Alone'
  <2>1. ASSUME NEW c \in Calls, sign'[c] # None
        PROVE  /\ sign'[c] \in Issued' /\ rotations'[sign'[c]] = 0
               /\ \A u \in Issued' : family'[u] = family'[sign'[c]] =>
                    mem'[u] # "live" /\ disk'[u] # "live"
    <3>1. sign'[c] = sign[c] /\ sign[c] \in Issued /\ rotations[sign[c]] = 0
      BY <1>0, <2>1 DEF Alone
    <3>2. ASSUME NEW u \in Issued', family'[u] = family'[sign'[c]]
          PROVE  mem'[u] # "live" /\ disk'[u] # "live"
      <4>1. u \in Issued
        BY <1>1, <1>2, <1>3, <3>1, <3>2
      <4> QED
        BY <1>2, <1>4, <2>1, <3>1, <3>2, <4>1 DEF Alone
    <3> QED
      BY <1>0, <1>1, <3>1, <3>2
  <2>2. ASSUME NEW c \in Calls, NEW d \in Calls, sign'[c] # None, sign'[d] # None,
               family'[sign'[c]] = family'[sign'[d]]
        PROVE  c = d
    BY <1>0, <1>2, <2>2 DEF Alone
  <2> QED
    BY <2>1, <2>2 DEF Alone
<1>8. Replaced' /\ RotatedOnce'
  BY <1>0 DEF Replaced, RotatedOnce, Fresh
<1>9. Least'
  <2>1. ASSUME NEW u \in Issued', NEW w \in Issued', family'[u] = family'[w],
               mem'[u] = "live" \/ disk'[u] = "live"
        PROVE  scope'[u] \subseteq scope'[w]
    <3>1. CASE u = t
      BY <1>1, <1>2, <1>3, <2>1, <3>1
    <3>2. CASE u # t
      <4>1. u \in Issued /\ w \in Issued
        BY <1>1, <1>2, <1>3, <2>1, <3>2
      <4> QED
        BY <1>2, <1>4, <2>1, <4>1 DEF Least
    <3> QED
      BY <3>1, <3>2
  <2>2. ASSUME NEW c \in Calls, sign'[c] # None, NEW u \in Issued',
               family'[u] = family'[sign'[c]]
        PROVE  signScope'[c] \subseteq scope'[u]
    <3>1. sign'[c] = sign[c] /\ sign[c] \in Issued
      BY <1>0, <2>2 DEF Alone
    <3>2. u \in Issued
      BY <1>1, <1>2, <1>3, <2>2, <3>1
    <3> QED
      BY <1>0, <1>2, <1>4, <2>2, <3>1, <3>2 DEF Least
  <2> QED
    BY <2>1, <2>2 DEF Least
<1> QED
  BY <1>5, <1>6, <1>7, <1>8, <1>9

\* A request takes the live token of its family, when the write succeeds.
LEMMA BeginStep ==
    ASSUME TypeOK, Rest, NEW c \in Calls, NEW t \in Tokens, NEW s \in SUBSET Scopes,
           MayRefresh(t, s), sign[c] = None, Saved(WithConsumed(t)),
           sign' = [sign EXCEPT ![c] = t], signScope' = [signScope EXCEPT ![c] = s],
           UNCHANGED <<family, scope, rotations>>
    PROVE  Rest'
<1> USE NoneAssumption DEF TypeOK, Rest, Status
<1>0. /\ mem' = [mem EXCEPT ![t] = "consumed"] /\ disk' = mem'
      /\ mem[t] = "live" /\ s \subseteq scope[t]
  BY DEF MayRefresh, WithinScope, Saved, WithConsumed
<1>1. Issued' = Issued /\ t \in Issued
  BY <1>0 DEF Issued, Fresh
<1>2. \A u \in Tokens : mem'[u] = "live" \/ disk'[u] = "live" => mem[u] = "live" /\ u # t
  BY <1>0
<1>3. Fresh'
  BY <1>0, <1>1 DEF Fresh, Issued
<1>4. OneLivePerFamily'
  BY <1>1, <1>2 DEF OneLivePerFamily, Issued
<1>5. Alone'
  <2>1. ASSUME NEW d \in Calls, sign'[d] # None
        PROVE  /\ sign'[d] \in Issued' /\ rotations'[sign'[d]] = 0
               /\ \A u \in Issued' : family'[u] = family'[sign'[d]] =>
                    mem'[u] # "live" /\ disk'[u] # "live"
    <3>1. CASE d = c
      <4>1. sign'[d] = t
        BY <3>1
      <4>2. rotations[t] = 0
        BY <1>0 DEF Replaced
      <4>3. \A u \in Issued : family[u] = family[t] => mem'[u] # "live" /\ disk'[u] # "live"
        BY <1>0, <1>1, <1>2 DEF OneLivePerFamily, Issued
      <4> QED
        BY <1>1, <4>1, <4>2, <4>3
    <3>2. CASE d # c
      BY <1>1, <1>2, <2>1, <3>2 DEF Alone, Issued
    <3> QED
      BY <3>1, <3>2
  <2>2. \A d \in Calls : sign[d] # None => family[sign[d]] # family[t]
    BY <1>0, <1>1 DEF Alone
  <2>3. ASSUME NEW d \in Calls, NEW e \in Calls, sign'[d] # None, sign'[e] # None,
               family'[sign'[d]] = family'[sign'[e]]
        PROVE  d = e
    BY <2>2, <2>3 DEF Alone
  <2> QED
    BY <2>1, <2>3 DEF Alone
<1>6. Replaced' /\ RotatedOnce'
  BY <1>2 DEF Replaced, RotatedOnce
<1>7. Least'
  <2>1. \A u, w \in Issued' : family'[u] = family'[w] /\ (mem'[u] = "live" \/ disk'[u] = "live") =>
          scope'[u] \subseteq scope'[w]
    BY <1>1, <1>2 DEF Least, Issued
  <2>2. ASSUME NEW d \in Calls, sign'[d] # None, NEW u \in Issued',
               family'[u] = family'[sign'[d]]
        PROVE  signScope'[d] \subseteq scope'[u]
    <3>1. CASE d = c
      <4>1. sign'[d] = t /\ signScope'[d] = s
        BY <3>1
      <4>2. scope[t] \subseteq scope[u]
        BY <1>0, <1>1, <2>2, <4>1 DEF Least
      <4> QED
        BY <1>0, <4>1, <4>2
    <3>2. CASE d # c
      BY <1>1, <2>2, <3>2 DEF Least
    <3> QED
      BY <3>1, <3>2
  <2> QED
    BY <2>1, <2>2 DEF Least
<1> QED
  BY <1>3, <1>4, <1>5, <1>6, <1>7

\* The successor is the only live token of its family, and has the least scope.
LEMMA EndStep ==
    ASSUME TypeOK, Rest, NEW c \in Calls, NEW n \in Tokens, RefreshEnd(c, n)
    PROVE  Rest'
<1> USE NoneAssumption DEF TypeOK, Rest, Status
<1> DEFINE old == sign[c]
<1>0. /\ old # None /\ family[n] = None
      /\ family' = [family EXCEPT ![n] = family[old]]
      /\ scope' = [scope EXCEPT ![n] = signScope[c]]
      /\ mem' = [mem EXCEPT ![n] = "live"] /\ disk' \in {mem', disk}
      /\ sign' = [sign EXCEPT ![c] = None] /\ signScope' = [signScope EXCEPT ![c] = {}]
      /\ rotations' = [rotations EXCEPT ![old] = @ + 1]
  BY DEF RefreshEnd, NewToken, Saved, NotSaved, WithLive
<1>1. old \in Issued /\ rotations[old] = 0 /\ old # n /\ family[old] \in Issued
      /\ \A t \in Issued : family[t] = family[old] => mem[t] # "live" /\ disk[t] # "live"
  BY <1>0 DEF Alone, Fresh, Issued
<1>2. Issued' = Issued \cup {n} /\ n \notin Issued
  BY <1>0, <1>1 DEF Issued
<1>3. /\ family'[n] = family[old] /\ scope'[n] = signScope[c]
      /\ \A u \in Issued : /\ u # n /\ u \in Tokens /\ family'[u] = family[u]
                           /\ scope'[u] = scope[u] /\ mem'[u] = mem[u]
                           /\ disk'[u] \in {mem[u], disk[u]}
  BY <1>0, <1>2 DEF Issued
<1>4. \A d \in Calls : sign'[d] # None =>
        /\ d # c /\ sign'[d] = sign[d] /\ signScope'[d] = signScope[d]
        /\ sign[d] \in Issued /\ family[sign[d]] # family[old]
  BY <1>0 DEF Alone
<1>5. Fresh'
  <2>1. ASSUME NEW u \in Tokens, family'[u] = None
        PROVE  mem'[u] = "absent" /\ disk'[u] = "absent" /\ rotations'[u] = 0
    <3>1. u # n /\ family[u] = None /\ u # old
      BY <1>0, <1>1, <2>1 DEF Issued
    <3> QED
      BY <1>0, <3>1 DEF Fresh
  <2>2. \A u \in Issued : family[u] \in Issued
    BY DEF Fresh, Issued
  <2>3. \A u \in Issued' : family'[family'[u]] = family'[u]
    BY <1>1, <1>2, <1>3, <2>2 DEF Fresh
  <2> QED
    BY <2>1, <2>3 DEF Fresh
<1>6. OneLivePerFamily'
  <2>1. \A u, w \in Issued : family'[u] = family'[w] /\ u # w =>
          ~(mem'[u] = "live" /\ mem'[w] = "live") /\ ~(disk'[u] = "live" /\ disk'[w] = "live")
    <3>1. \A u, w \in Issued : family'[u] = family'[w] => family[u] = family[w]
      BY <1>3
    <3>2. CASE disk' = mem'
      BY <1>3, <3>1, <3>2 DEF OneLivePerFamily
    <3>3. CASE disk' = disk
      BY <1>3, <3>1, <3>3 DEF OneLivePerFamily
    <3> QED
      BY <1>0, <3>2, <3>3
  <2>2. \A u \in Issued : family'[u] = family'[n] => mem'[u] # "live" /\ disk'[u] # "live"
    BY <1>1, <1>3
  <2> QED
    BY <1>2, <2>1, <2>2 DEF OneLivePerFamily
<1>7. Alone'
  <2>1. ASSUME NEW d \in Calls, sign'[d] # None
        PROVE  /\ sign'[d] \in Issued' /\ rotations'[sign'[d]] = 0
               /\ \A u \in Issued' : family'[u] = family'[sign'[d]] =>
                    mem'[u] # "live" /\ disk'[u] # "live"
    <3>1. sign'[d] = sign[d] /\ sign[d] \in Issued /\ family[sign[d]] # family[old]
      BY <1>4, <2>1
    <3>2. rotations'[sign[d]] = 0
      BY <1>0, <2>1, <3>1 DEF Alone, Issued
    <3>3. \A u \in Issued' : family'[u] = family'[sign[d]] => u \in Issued
      BY <1>2, <1>3, <3>1
    <3>4. \A u \in Issued : family'[u] = family'[sign[d]] => mem'[u] # "live" /\ disk'[u] # "live"
      BY <1>3, <2>1, <3>1 DEF Alone
    <3> QED
      BY <1>2, <3>1, <3>2, <3>3, <3>4
  <2>2. ASSUME NEW d \in Calls, NEW e \in Calls, sign'[d] # None, sign'[e] # None,
               family'[sign'[d]] = family'[sign'[e]]
        PROVE  d = e
    BY <1>3, <1>4, <2>2 DEF Alone
  <2> QED
    BY <2>1, <2>2 DEF Alone
<1>8. Replaced'
  <2>1. ASSUME NEW t \in Tokens, rotations'[t] > 0
        PROVE  mem'[t] # "live" /\ disk'[t] # "live"
    <3>1. CASE t = old
      BY <1>1, <1>3, <3>1
    <3>2. CASE t # old
      <4>1. rotations[t] > 0 /\ t # n
        BY <1>0, <2>1, <3>2 DEF Fresh
      <4> QED
        BY <1>0, <4>1 DEF Replaced
    <3> QED
      BY <3>1, <3>2
  <2> QED
    BY <2>1 DEF Replaced
<1>9. RotatedOnce'
  BY <1>0, <1>1 DEF RotatedOnce, Issued
<1>10. Least'
  <2>1. \A u \in Issued : family[u] = family[old] => signScope[c] \subseteq scope[u]
    BY <1>0 DEF Least
  <2>2. ASSUME NEW u \in Issued', NEW w \in Issued', family'[u] = family'[w],
               mem'[u] = "live" \/ disk'[u] = "live"
        PROVE  scope'[u] \subseteq scope'[w]
    <3>1. CASE u = n
      BY <1>2, <1>3, <2>1, <2>2, <3>1
    <3>2. CASE u # n
      <4>1. u \in Issued /\ (mem[u] = "live" \/ disk[u] = "live")
        BY <1>2, <1>3, <2>2, <3>2
      <4>2. w # n
        BY <1>1, <1>3, <2>2, <4>1
      <4> QED
        BY <1>2, <1>3, <2>2, <4>1, <4>2 DEF Least
    <3> QED
      BY <3>1, <3>2
  <2>3. ASSUME NEW d \in Calls, sign'[d] # None, NEW u \in Issued',
               family'[u] = family'[sign'[d]]
        PROVE  signScope'[d] \subseteq scope'[u]
    <3>1. sign'[d] = sign[d] /\ signScope'[d] = signScope[d]
          /\ sign[d] \in Issued /\ family[sign[d]] # family[old]
      BY <1>4, <2>3
    <3>2. u \in Issued /\ family[u] = family[sign[d]]
      BY <1>2, <1>3, <2>3, <3>1
    <3> QED
      BY <1>3, <2>3, <3>1, <3>2 DEF Least
  <2> QED
    BY <2>2, <2>3 DEF Least
<1> QED
  BY <1>5, <1>6, <1>7, <1>8, <1>9, <1>10

\* No token is issued before the first grant.
LEMMA InitInv == Init => IInv
<1> SUFFICES ASSUME Init PROVE IInv
  OBVIOUS
<1> USE NoneAssumption DEF Init
<1>1. Issued = {}
  BY DEF Issued
<1>2. TypeOK
  BY DEF TypeOK, Status
<1>3. Fresh /\ OneLivePerFamily /\ Alone /\ Replaced /\ RotatedOnce /\ Least
  BY <1>1 DEF Fresh, OneLivePerFamily, Alone, Replaced, RotatedOnce, Least
<1> QED
  BY <1>2, <1>3 DEF IInv, Rest

LEMMA NextInv == IInv /\ [Next]_vars => IInv'
<1> SUFFICES ASSUME IInv, [Next]_vars PROVE IInv'
  OBVIOUS
<1>0. TypeOK /\ Rest /\ TypeOK'
  BY TypeStep DEF IInv, Rest
<1>a. \A m : Below(m, m)
  BY DEF Below
<1>1. ASSUME NEW cl \in Clients, Register(cl) PROVE Rest'
  BY <1>0, <1>1, <1>a, QuietStep DEF Register, issueVars
<1>2. ASSUME NEW cl \in Clients, NEW t \in Tokens, Grant(cl, t) PROVE Rest'
  BY <1>0, <1>2, GrantStep
<1>3. ASSUME NEW t \in Tokens, RefreshReused(t) PROVE Rest'
  <2>1. Below(WithRevoked(t), mem)
    BY <1>0 DEF Below, WithRevoked, TypeOK, Status
  <2> QED
    BY <1>0, <1>3, <1>a, <2>1, QuietStep DEF RefreshReused, Saved, NotSaved, issueVars
<1>4. ASSUME NEW c \in Calls, NEW t \in Tokens, NEW s \in SUBSET Scopes, RefreshBegin(c, t, s)
      PROVE Rest'
  <2>1. CASE Saved(WithConsumed(t)) /\ sign' = [sign EXCEPT ![c] = t]
             /\ signScope' = [signScope EXCEPT ![c] = s]
    BY <1>0, <1>4, <2>1, BeginStep DEF RefreshBegin, issueVars
  <2>2. CASE NotSaved(WithConsumed(t)) /\ UNCHANGED <<sign, signScope>>
    <3>1. Below(WithConsumed(t), mem)
      BY <1>0, <1>4 DEF Below, WithConsumed, RefreshBegin, MayRefresh, TypeOK, Status
    <3> QED
      BY <1>0, <1>4, <1>a, <2>2, <3>1, QuietStep DEF RefreshBegin, NotSaved, issueVars
  <2> QED
    BY <1>4, <2>1, <2>2 DEF RefreshBegin
<1>5. ASSUME NEW c \in Calls, NEW n \in Tokens, RefreshEnd(c, n) PROVE Rest'
  BY <1>0, <1>5, EndStep
<1>6. ASSUME NEW t \in Tokens, Expire(t) PROVE Rest'
  BY <1>0, <1>6, <1>a, QuietStep DEF Expire, issueVars
<1>7. ASSUME Restart PROVE Rest'
  <2>1. \A c \in Calls : sign'[c] = None
    BY <1>7 DEF Restart
  <2>2. Below([t \in Tokens |-> "absent"], mem)
    BY DEF Below
  <2>3. Below(mem', mem) \/ Below(mem', disk)
    BY <1>7, <1>a, <2>2 DEF Restart, TokensLoaded
  <2>4. UNCHANGED <<family, scope, rotations>> /\ Below(disk', disk)
    BY <1>7 DEF Restart, issueVars, Below
  <2> QED
    BY <1>0, <2>1, <2>3, <2>4, QuietStep
<1>8. ASSUME UNCHANGED vars PROVE Rest'
  BY <1>0, <1>8, <1>a, QuietStep DEF vars
<1> QED
  BY <1>0, <1>1, <1>2, <1>3, <1>4, <1>5, <1>6, <1>7, <1>8 DEF IInv, Next

LEMMA Invariance == Spec => []IInv
<1> QED
  BY InitInv, NextInv, PTL DEF Spec

-----------------------------------------------------------------------------
(***************************************************************************)
(* The theorems.                                                           *)
(***************************************************************************)

\* Every variable of the OAuth stores keeps its type.
THEOREM TypeCorrect == Spec => []TypeOK
<1> QED
  BY Invariance, PTL DEF IInv

\* A family of refresh tokens never has two that are accepted, in memory or
\* in the file a restart reads, whichever writes fail and wherever the
\* server stops (RefreshTokenStore, refresh_token branch of /oauth/token).
THEOREM OneLive == Spec => []OneLivePerFamily
<1> QED
  BY Invariance, PTL DEF IInv, Rest

\* No refresh token is traded for two successors, by concurrent requests or
\* by a retry after a crash.
THEOREM TradedOnce == Spec => []RotatedOnce
<1> QED
  BY Invariance, PTL DEF IInv, Rest

\* A refresh never widens what a family may do: the new token's scope is
\* within that of every token of its family (scopeIsSubset, oauth.ts).
THEOREM ScopesOnlyNarrow == Spec => ScopesNarrow
<1>1. IInv /\ [Next]_vars =>
        [\A n \in Tokens : family[n] = None /\ family'[n] \notin {None, n} =>
          \A t \in Kin(family'[n]) : scope'[n] \subseteq scope[t]]_vars
  <2> SUFFICES ASSUME IInv, [Next]_vars, NEW n \in Tokens,
                      family[n] = None, family'[n] \notin {None, n},
                      NEW t \in Kin(family'[n])
               PROVE  scope'[n] \subseteq scope[t]
    OBVIOUS
  <2> USE NoneAssumption DEF IInv, Rest, TypeOK
  <2>1. PICK c \in Calls, m \in Tokens : RefreshEnd(c, m)
    <3>1. \A cl \in Clients, u \in Tokens : ~Grant(cl, u)
      BY DEF Grant, NewToken
    <3>2. family' # family
      OBVIOUS
    <3> QED
      BY <3>1, <3>2 DEF Next, vars, Register, RefreshReused, RefreshBegin, Expire, Restart,
                        issueVars
  <2>2. m = n /\ sign[c] # None /\ family'[n] = family[sign[c]] /\ scope'[n] = signScope[c]
    BY <2>1 DEF RefreshEnd, NewToken
  <2>3. t \in Issued /\ family[t] = family[sign[c]]
    BY <2>2 DEF Kin, Fresh, Alone
  <2> QED
    BY <2>2, <2>3 DEF Least
<1> QED
  BY <1>1, Invariance, PTL DEF Spec, ScopesNarrow

\* A client that was answered 201 stays registered, in memory and in the
\* file, unless a start of the server could not read the file.
THEOREM ClientsStay == Spec => []ClientsKept
<1>1. Init => ClientsKept
  BY DEF Init, ClientsKept
<1>2. ClientsKept /\ [Next]_vars => ClientsKept'
  <2> SUFFICES ASSUME ClientsKept, [Next]_vars PROVE ClientsKept'
    OBVIOUS
  <2> USE DEF ClientsKept
  <2>1. ASSUME NEW cl \in Clients, Register(cl) PROVE ClientsKept'
    BY <2>1 DEF Register, ClientsWritten
  <2>2. CASE UNCHANGED clientVars
    BY <2>2 DEF clientVars
  <2>3. CASE Restart
    BY <2>3 DEF Restart, ClientsLoaded
  <2> QED
    BY <2>1, <2>2, <2>3 DEF Next, vars, clientVars, Grant, RefreshReused, RefreshBegin,
                            RefreshEnd, Expire
<1> QED
  BY <1>1, <1>2, PTL DEF Spec

-----------------------------------------------------------------------------
(***************************************************************************)
(* Nobody is stranded.  NotStranded leans on two facts it does not state:  *)
(* the client of every token is still registered, because memory and file  *)
(* of the client store agree until a start fails to read the file; and no  *)
(* token is past its time before it is issued.                             *)
(***************************************************************************)
Served(f) ==
    \/ \E t \in Kin(f) : MayRefresh(t, {})
    \/ \E c \in Calls : sign[c] \in Kin(f)

Unharmed == {f \in Issued \ hurt : family[f] = f}

HeldInv ==
    /\ expired \subseteq Issued
    /\ ~clientsLost =>
         /\ clients = clientsDisk
         /\ \A t \in Issued : owner[t] \in clients
         /\ \A f \in Unharmed : Served(f)

\* What nobody touched is served as before: the tokens of family f stay in
\* memory and with their client, and its requests go on waiting.
LEMMA UntouchedServed ==
    ASSUME NEW f \in Issued, family[f] = f, Served(f),
           clients \subseteq clients', known \subseteq known',
           \A t \in Kin(f) : /\ family'[t] = family[t] /\ owner'[t] = owner[t]
                             /\ mem'[t] = mem[t] /\ (t \in expired' => t \in expired),
           \A c \in Calls : sign[c] \in Kin(f) => sign'[c] = sign[c]
    PROVE  Served(f)'
<1>1. f \in Kin(f) /\ \A t \in Kin(f) : family'[t] = f /\ family'[t] # None
  BY DEF Kin, Issued
<1>2. Kin(f) \subseteq Kin(f)'
  BY <1>1 DEF Kin, Issued
<1>3. ASSUME NEW t \in Kin(f), MayRefresh(t, {}) PROVE MayRefresh(t, {})'
  BY <1>3 DEF MayRefresh, WithinScope
<1>4. ASSUME NEW c \in Calls, sign[c] \in Kin(f) PROVE sign'[c] \in Kin(f)'
  BY <1>2, <1>4
<1> QED
  BY <1>2, <1>3, <1>4 DEF Served

\* A new token serves its family as soon as its client was told of it.
LEMMA IssuedServed ==
    ASSUME IInv, HeldInv, NEW n \in Tokens, NEW f \in Tokens, NEW cl \in clients, NEW s,
           NewToken(n, f, cl, s), family[f] = f \/ f = n, f \notin hurt',
           mem' = WithLive(n), UNCHANGED <<clients, expired>>,
           Replied(n) \/ Unreplied(n)
    PROVE  n \in Kin(f)' /\ MayRefresh(n, {})'
<1> USE NoneAssumption DEF IInv, Rest, TypeOK
<1>1. family'[n] = f /\ owner'[n] = cl /\ mem'[n] = "live" /\ n \notin Issued
  BY DEF NewToken, WithLive, Issued
<1>2. family'[f] = f
  BY <1>1 DEF NewToken, Fresh, Issued
<1>3. n \in known'
  BY <1>1 DEF Replied, Unreplied
<1>4. n \notin expired'
  BY <1>1 DEF HeldInv
<1> QED
  BY <1>1, <1>2, <1>3, <1>4 DEF Kin, Issued, MayRefresh, WithinScope

\* A family no step harmed was unharmed before, unless the step began it.
LEMMA GrantHeld ==
    ASSUME IInv, HeldInv, NEW cl \in Clients, NEW n \in Tokens, Grant(cl, n)
    PROVE  HeldInv'
<1> USE NoneAssumption DEF IInv, Rest, TypeOK
<1>1. /\ NewToken(n, n, cl, Scopes) /\ cl \in clients /\ mem' = WithLive(n)
      /\ UNCHANGED <<clients, clientsDisk, clientsLost, expired, sign>>
      /\ Replied(n) \/ Unreplied(n)
  BY DEF Grant, Saved, NotSaved, clientVars
<1>2. /\ Issued' = Issued \cup {n} /\ n \notin Issued
      /\ \A u \in Issued : family'[u] = family[u] /\ owner'[u] = owner[u] /\ mem'[u] = mem[u]
      /\ family'[n] = n /\ owner'[n] = cl
  BY <1>1 DEF NewToken, Issued, WithLive
<1>3. known \subseteq known' /\ hurt \subseteq hurt'
  BY <1>1 DEF Replied, Unreplied
<1>4. ASSUME ~clientsLost, NEW f \in Unharmed' PROVE Served(f)'
  <2>1. CASE f = n
    BY <1>1, <1>4, <2>1, IssuedServed DEF Served, Unharmed
  <2>2. CASE f # n
    <3>1. f \in Issued /\ family[f] = f /\ Served(f)
      BY <1>2, <1>3, <1>4, <2>2 DEF Unharmed, HeldInv
    <3> QED
      BY <1>1, <1>2, <1>3, <3>1, UntouchedServed DEF Kin
  <2> QED
    BY <2>1, <2>2
<1> QED
  BY <1>1, <1>2, <1>4 DEF HeldInv

\* The successor of a refresh serves the family its request waited for.
LEMMA EndHeld ==
    ASSUME IInv, HeldInv, NEW c \in Calls, NEW n \in Tokens, RefreshEnd(c, n)
    PROVE  HeldInv'
<1> USE NoneAssumption DEF IInv, Rest, TypeOK
<1> DEFINE g == family[sign[c]]
<1>0. sign[c] \in Issued /\ g \in Issued /\ family[g] = g
  BY DEF RefreshEnd, Alone, Fresh, Issued
<1>1. /\ NewToken(n, g, owner[sign[c]], signScope[c]) /\ mem' = WithLive(n)
      /\ UNCHANGED <<clients, clientsDisk, clientsLost, expired>>
      /\ sign' = [sign EXCEPT ![c] = None]
      /\ Replied(n) \/ Unreplied(n)
  BY DEF RefreshEnd, Saved, NotSaved, clientVars
<1> HIDE DEF g
<1>2. /\ Issued' = Issued \cup {n} /\ n \notin Issued
      /\ \A u \in Issued : family'[u] = family[u] /\ owner'[u] = owner[u] /\ mem'[u] = mem[u]
      /\ family'[n] = g /\ owner'[n] = owner[sign[c]]
  BY <1>0, <1>1 DEF NewToken, Issued, WithLive
<1>3. known \subseteq known' /\ hurt \subseteq hurt'
  BY <1>1 DEF Replied, Unreplied
<1>4. ASSUME ~clientsLost, NEW f \in Unharmed' PROVE Served(f)'
  <2>1. f # n
    BY <1>0, <1>2, <1>4 DEF Unharmed
  <2>2. f \in Issued /\ f \notin hurt /\ f \notin hurt' /\ family[f] = f /\ Served(f)
    BY <1>2, <1>3, <1>4, <2>1 DEF Unharmed, HeldInv
  <2>3. CASE f = g
    <3>1. owner[sign[c]] \in clients
      BY <1>0, <1>4 DEF HeldInv
    <3>2. n \in Kin(f)' /\ MayRefresh(n, {})'
      BY <1>0, <1>1, <2>2, <2>3, <3>1, IssuedServed DEF Issued
    <3> QED
      BY <3>2 DEF Served
  <2>4. CASE f # g
    <3>1. \A d \in Calls : sign[d] \in Kin(f) => sign'[d] = sign[d]
      BY <1>1, <2>2, <2>4 DEF Kin, g
    <3> QED
      BY <1>1, <1>2, <1>3, <2>2, <3>1, UntouchedServed DEF Kin
  <2> QED
    BY <2>3, <2>4
<1> QED
  BY <1>0, <1>1, <1>2, <1>4 DEF HeldInv

\* A request that begins waits for its family, or the failed write hurt it.
LEMMA BeginHeld ==
    ASSUME IInv, HeldInv, NEW c \in Calls, NEW t \in Tokens, NEW s \in SUBSET Scopes,
           RefreshBegin(c, t, s)
    PROVE  HeldInv'
<1> USE NoneAssumption DEF IInv, Rest, TypeOK
<1>1. /\ mem' = [mem EXCEPT ![t] = "consumed"] /\ sign[c] = None
      /\ UNCHANGED <<clients, clientsDisk, clientsLost, family, owner, expired, known>>
      /\ \/ sign' = [sign EXCEPT ![c] = t] /\ UNCHANGED hurt
         \/ sign' = sign /\ hurt' = hurt \cup {family[t]}
  BY DEF RefreshBegin, Saved, NotSaved, WithConsumed, clientVars, issueVars
<1>2. Issued' = Issued /\ t \in Issued
  BY <1>1 DEF Issued, RefreshBegin, MayRefresh, Fresh
<1>3. ASSUME ~clientsLost, NEW f \in Unharmed' PROVE Served(f)'
  <2>1. f \in Issued /\ family[f] = f /\ Served(f)
    BY <1>1, <1>2, <1>3 DEF Unharmed, HeldInv
  <2>2. CASE f = family[t]
    <3>1. sign'[c] = t
      BY <1>1, <1>3, <2>2 DEF Unharmed
    <3>2. t \in Kin(f)'
      BY <1>1, <1>2, <2>1, <2>2 DEF Kin, Issued
    <3> QED
      BY <3>1, <3>2 DEF Served
  <2>3. CASE f # family[t]
    <3>1. \A u \in Kin(f) : u # t /\ mem'[u] = mem[u]
      BY <1>1, <2>1, <2>3 DEF Kin, Issued
    <3>2. \A d \in Calls : sign[d] \in Kin(f) => sign'[d] = sign[d]
      BY <1>1 DEF Kin, Issued
    <3> QED
      BY <1>1, <2>1, <3>1, <3>2, UntouchedServed
  <2> QED
    BY <2>2, <2>3
<1> QED
  BY <1>1, <1>2, <1>3 DEF HeldInv

\* A step in which nothing is issued, no request ends, and every token that
\* memory, its client or its time gives up hurts its family.
LEMMA OthersHeld ==
    ASSUME IInv, HeldInv, UNCHANGED issueVars,
           known \subseteq known', hurt \subseteq hurt', expired' \subseteq Issued,
           clientsLost => clientsLost',
           ~clientsLost' => clients \subseteq clients' /\ clients' = clientsDisk',
           \A t \in Issued : mem'[t] # mem[t] \/ (t \in expired' /\ t \notin expired)
                               => family[t] \in hurt',
           \A c \in Calls : sign[c] # None /\ sign'[c] # sign[c] => family[sign[c]] \in hurt'
    PROVE  HeldInv'
<1> USE NoneAssumption DEF IInv, Rest, TypeOK
<1>1. Issued' = Issued /\ UNCHANGED <<family, owner, scope>>
  BY DEF Issued, issueVars
<1>2. ASSUME ~clientsLost', NEW f \in Unharmed' PROVE Served(f)'
  <2>1. f \in Issued /\ family[f] = f /\ f \notin hurt' /\ Served(f)
    BY <1>1, <1>2 DEF Unharmed, HeldInv
  <2>2. \A t \in Kin(f) : family[t] \notin hurt' /\ t \in Issued
    BY <2>1 DEF Kin
  <2>3. \A t \in Kin(f) : mem'[t] = mem[t] /\ (t \in expired' => t \in expired)
    BY <2>2
  <2>4. \A c \in Calls : sign[c] \in Kin(f) => sign'[c] = sign[c]
    BY <2>2 DEF Issued
  <2> QED
    BY <1>1, <1>2, <2>1, <2>3, <2>4, UntouchedServed
<1> QED
  BY <1>1, <1>2 DEF HeldInv

LEMMA HeldStep == IInv /\ HeldInv /\ [Next]_vars => HeldInv'
<1> SUFFICES ASSUME IInv, HeldInv, [Next]_vars PROVE HeldInv'
  OBVIOUS
<1> USE NoneAssumption DEF IInv, Rest, TypeOK
<1>0. \A t \in Tokens : mem[t] # "absent" => t \in Issued
  BY DEF Fresh, Issued
<1>a. expired \subseteq Issued /\ (~clientsLost => clients = clientsDisk)
  BY DEF HeldInv
<1>1. ASSUME NEW cl \in Clients, Register(cl) PROVE HeldInv'
  BY <1>1, <1>a, OthersHeld DEF Register, ClientsWritten, issueVars
<1>2. ASSUME NEW cl \in Clients, NEW t \in Tokens, Grant(cl, t) PROVE HeldInv'
  BY <1>2, GrantHeld
<1>3. ASSUME NEW t \in Tokens, RefreshReused(t) PROVE HeldInv'
  <2>1. mem' = WithRevoked(t) /\ hurt' = hurt \cup {family[t]}
        /\ UNCHANGED <<clientVars, issueVars, expired, sign, known>>
    BY <1>3 DEF RefreshReused, Saved, NotSaved
  <2>2. \A u \in Issued : mem'[u] # mem[u] => family[u] \in hurt'
    BY <2>1 DEF WithRevoked, Kin, Issued
  <2> QED
    BY <1>a, <2>1, <2>2, OthersHeld DEF clientVars
<1>4. ASSUME NEW c \in Calls, NEW t \in Tokens, NEW s \in SUBSET Scopes, RefreshBegin(c, t, s)
      PROVE  HeldInv'
  BY <1>4, BeginHeld
<1>5. ASSUME NEW c \in Calls, NEW n \in Tokens, RefreshEnd(c, n) PROVE HeldInv'
  BY <1>5, EndHeld
<1>6. ASSUME NEW t \in Tokens, Expire(t) PROVE HeldInv'
  BY <1>0, <1>6, <1>a, OthersHeld DEF Expire, clientVars
<1>7. ASSUME Restart PROVE HeldInv'
  <2>1. /\ UNCHANGED <<clientsDisk, issueVars, expired, known>>
        /\ \/ clients' = clientsDisk /\ UNCHANGED clientsLost
           \/ clientsLost'
    BY <1>7 DEF Restart, ClientsLoaded
  <2>2. /\ hurt \subseteq hurt'
        /\ \A t \in Issued : mem'[t] # mem[t] => family[t] \in hurt'
        /\ \A c \in Calls : sign[c] # None => family[sign[c]] \in hurt'
    BY <1>7 DEF Restart
  <2>3. clientsLost => clientsLost'
    BY <1>7 DEF Restart, ClientsLoaded
  <2> QED
    BY <1>a, <2>1, <2>2, <2>3, OthersHeld
<1>8. CASE UNCHANGED vars
  BY <1>8, <1>a, OthersHeld DEF vars, issueVars
<1> QED
  BY <1>1, <1>2, <1>3, <1>4, <1>5, <1>6, <1>7, <1>8 DEF Next

\* A client whose family met no accident holds a token the server accepts, or
\* its one request is being answered (the refresh_token branch of /oauth/token
\* with the stores it saves to), whatever happens to the other families.
THEOREM NobodyStranded == Spec => []NotStranded
<1>1. Init => HeldInv
  BY DEF Init, HeldInv, Issued, Unharmed
<1>2. HeldInv => NotStranded
  BY DEF HeldInv, NotStranded, Unharmed, Served
<1> QED
  BY <1>1, <1>2, HeldStep, Invariance, PTL DEF Spec
=============================================================================
