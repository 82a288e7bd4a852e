---------------------------- MODULE OAuthLoginProofs ----------------------------
(***************************************************************************)
(* Proofs about OAuthLogin, for any number of keys, requests and tabs, and *)
(* for every subset of the faults: that it implements LoginRequest, that   *)
(* its index of pending requests is sound, and that a page is told the     *)
(* truth when it is told that its request is over.                         *)
(*                                                                         *)
(* The argument.  Every step does one of four things to the requests: it   *)
(* opens a fresh one, closes some, grants one that is open, or leaves them *)
(* alone.  A request that is over therefore stays over, and a code can be  *)
(* exchanged as often as codes were issued and no more, because a code is  *)
(* taken from the map before the signature that redeems it is awaited.     *)
(***************************************************************************)
EXTENDS OAuthLogin, TLAPS

\* A tab that is open belongs to a request that was opened; another has
\* nothing under way.
Tabbed ==
    \A t \in Tabs :
        IF page[t] = "closed" THEN t \notin timer /\ poll[t] = "none" /\ nsec[t] = "none"
        ELSE tabId[t] \in Ids /\ pending[tabId[t]] # "unused"

\* Of the codes that a request was given, those that are live, being signed
\* for, and exchanged are different ones.
Counted ==
    \A i \in Ids :
        signing[i] + exchanged[i] + (IF code[i] = "live" THEN 1 ELSE 0) <= issued[i]

IInv == TypeOK /\ Tabbed /\ Counted /\ IndexSound /\ ExpiredMeansOver

-----------------------------------------------------------------------------
(***************************************************************************)
(* Types.                                                                  *)
(***************************************************************************)

LEMMA SweptTypes ==
    ASSUME TypeOK
    PROVE  /\ Swept \in [Ids -> {"unused", "open", "granted", "closed"}]
           /\ SweptIndex \in [Keys -> Ids \cup {None}]
           /\ \A I, ix : ix \in [Keys -> Ids \cup {None}] =>
                Unindexed(ix, I) \in [Keys -> Ids \cup {None}]
<1>1. Swept \in [Ids -> {"unused", "open", "granted", "closed"}]
  BY DEF TypeOK, Swept
<1>2. \A I, ix : ix \in [Keys -> Ids \cup {None}] =>
        Unindexed(ix, I) \in [Keys -> Ids \cup {None}]
  BY DEF Unindexed
<1>3. SweptIndex \in [Keys -> Ids \cup {None}]
  BY <1>2 DEF SweptIndex, TypeOK
<1> QED
  BY <1>1, <1>2, <1>3

\* What a reply may do to a page.
LEMMA ToldTypes ==
    ASSUME TypeOK, NEW t \in Tabs, NEW answer, Told(t, answer) \/ ToldNsec(t, answer)
    PROVE  page' \in [Tabs -> Pages] /\ timer' \subseteq Tabs
<1>1. CASE Told(t, answer)
  BY <1>1 DEF Told, TypeOK, Pages
<1>2. CASE ToldNsec(t, answer)
  BY <1>2 DEF ToldNsec, TypeOK, Pages
<1> QED
  BY <1>1, <1>2

\* Every variable keeps its type.
LEMMA TypeStep == TypeOK /\ Tabbed /\ [Next]_vars => TypeOK'
<1> SUFFICES ASSUME TypeOK, Tabbed, [Next]_vars PROVE TypeOK'
  OBVIOUS
<1> USE DEF TypeOK
<1>a. /\ Swept \in [Ids -> {"unused", "open", "granted", "closed"}]
      /\ SweptIndex \in [Keys -> Ids \cup {None}]
      /\ \A I, ix : ix \in [Keys -> Ids \cup {None}] =>
           Unindexed(ix, I) \in [Keys -> Ids \cup {None}]
  BY SweptTypes
<1>b. ASSUME NEW i \in Ids, IssueCode(i) \/ NoCode
      PROVE  /\ code' \in [Ids -> {"none", "live", "gone"}] /\ issued' \in [Ids -> Nat]
             /\ pending' \in [Ids -> {"unused", "open", "granted", "closed"}]
             /\ index' \in [Keys -> Ids \cup {None}]
  BY <1>a, <1>b DEF IssueCode, NoCode
<1>c. ASSUME NEW i \in Ids, JustSweep \/ SweepAndRemove(i)
      PROVE  /\ pending' \in [Ids -> {"unused", "open", "granted", "closed"}]
             /\ index' \in [Keys -> Ids \cup {None}]
  BY <1>a, <1>c DEF JustSweep, SweepAndRemove
<1>d. \A t \in Tabs : page[t] # "closed" \/ t \in timer \/ poll[t] # "none" \/ nsec[t] # "none"
        => tabId[t] \in Ids
  BY DEF Tabbed
<1>e. ASSUME NEW t \in Tabs, PageOpens(t, t) \/ \E c \in Tabs : PageOpens(t, c)
      PROVE  /\ shown' \in [Tabs -> Tabs \cup {None}] /\ page' \in [Tabs -> Pages]
             /\ timer' \subseteq Tabs /\ UNCHANGED <<tabId, poll, nsec>>
  BY <1>e DEF PageOpens, Pages
<1>f. ASSUME NEW t \in Tabs, Built(t)
      PROVE  connect' \in [Ids -> Tabs \cup {None}] /\ wait' \in [Ids -> Tabs \cup {None}]
  BY <1>f DEF Built
<1>g. ASSUME NEW i, NEW answer \in Polls
      PROVE  PollsAnswered(i, answer) \in [Tabs -> Polls]
  BY DEF PollsAnswered
<1>1. ASSUME NEW t \in Tabs, NEW k \in Keys, Authorize(t, k) PROVE TypeOK'
  <2>1. PICK i \in Ids : /\ pending' = [Swept EXCEPT ![i] = "open"]
                         /\ index' = [SweptIndex EXCEPT ![k] = i]
                         /\ keyOf' = [keyOf EXCEPT ![i] = k]
                         /\ tabId' = [tabId EXCEPT ![t] = i]
    <3>1. Reused(k) \cup Fresh(k) \subseteq Ids
      BY <1>a DEF Reused, Fresh
    <3> QED
      BY <1>1, <3>1 DEF Authorize
  <2>2. /\ pending' \in [Ids -> {"unused", "open", "granted", "closed"}]
        /\ index' \in [Keys -> Ids \cup {None}]
        /\ keyOf' \in [Ids -> Keys \cup {None}] /\ tabId' \in [Tabs -> Ids \cup {None}]
    BY <1>a, <2>1
  <2> QED
    BY <1>1, <2>2 DEF Authorize, daemonVars, Pages
<1>2. ASSUME NEW t \in Tabs, StartFinds(t) PROVE TypeOK'
  <2>1. CASE connect[tabId[t]] # None /\ PageOpens(t, connect[tabId[t]])
             /\ wait' = [wait EXCEPT ![tabId[t]] = IF @ = None THEN connect[tabId[t]] ELSE @]
    <3>1. connect[tabId[t]] \in Tabs
      BY <1>2, <1>d, <2>1 DEF StartFinds
    <3>2. wait' \in [Ids -> Tabs \cup {None}]
      BY <2>1, <3>1
    <3> QED
      BY <1>2, <1>e, <2>1, <3>1, <3>2 DEF StartFinds, serverVars
  <2>2. CASE page' = [page EXCEPT ![t] = "building"]
             /\ UNCHANGED <<wait, tabId, shown, timer, poll, nsec>>
    BY <1>2, <2>2 DEF StartFinds, serverVars, Pages
  <2> QED
    BY <1>2, <2>1, <2>2 DEF StartFinds
<1>3. ASSUME NEW t \in Tabs, StartBuilds(t) PROVE TypeOK'
  BY <1>3, <1>e, <1>f DEF StartBuilds, serverVars
<1>4. ASSUME NEW t \in Tabs, StartRefused(t) PROVE TypeOK'
  BY <1>4 DEF StartRefused, daemonVars, Pages
<1>5. ASSUME NEW t \in Tabs, StartThrows(t) PROVE TypeOK'
  BY <1>5, <1>f DEF StartThrows, serverVars, daemonVars, Pages
<1>6. ASSUME NEW t \in Tabs, TimerSkipped(t) PROVE TypeOK'
  BY <1>6 DEF TimerSkipped, serverVars, daemonVars
<1>7. ASSUME NEW t \in Tabs, PollFails(t) PROVE TypeOK'
  <2>1. page' \in [Tabs -> Pages] /\ timer' \subseteq Tabs
    BY <1>7, ToldTypes DEF PollFails
  <2>2. /\ pending' \in [Ids -> {"unused", "open", "granted", "closed"}]
        /\ index' \in [Keys -> Ids \cup {None}]
    BY <1>7, <1>c, <1>d DEF PollFails
  <2> QED
    BY <1>7, <2>1, <2>2 DEF PollFails, Told, Polls, daemonVars
<1>8. ASSUME NEW t \in Tabs, PollWaits(t) PROVE TypeOK'
  <2>1. tabId[t] \in Ids
    BY <1>8, <1>d DEF PollWaits
  <2>2. /\ pending' \in [Ids -> {"unused", "open", "granted", "closed"}]
        /\ index' \in [Keys -> Ids \cup {None}]
    BY <1>8, <1>c, <2>1 DEF PollWaits
  <2>3. wait' \in [Ids -> Tabs \cup {None}]
    BY <1>8, <2>1 DEF PollWaits
  <2> QED
    BY <1>8, <2>2, <2>3 DEF PollWaits, Polls
<1>9. ASSUME NEW t \in Tabs, Approve(t) PROVE TypeOK'
  <2>1. poll' \in [Tabs -> Polls]
    BY <1>9, <1>g DEF Approve, Polls
  <2>2. connect' \in [Ids -> Tabs \cup {None}] /\ wait' \in [Ids -> Tabs \cup {None}]
    BY <1>9 DEF Approve
  <2> QED
    BY <1>9, <2>1, <2>2 DEF Approve, serverVars
<1>10. ASSUME NEW i \in Ids, WaitFails(i) PROVE TypeOK'
  <2>1. poll' \in [Tabs -> Polls]
    BY <1>10, <1>g DEF WaitFails, Polls
  <2> QED
    BY <1>10, <2>1 DEF WaitFails, serverVars
<1>11. ASSUME NEW t \in Tabs, PollSucceeds(t) PROVE TypeOK'
  <2>1. page' \in [Tabs -> Pages] /\ timer' \subseteq Tabs
    BY <1>11, ToldTypes DEF PollSucceeds
  <2>2. /\ code' \in [Ids -> {"none", "live", "gone"}] /\ issued' \in [Ids -> Nat]
        /\ pending' \in [Ids -> {"unused", "open", "granted", "closed"}]
        /\ index' \in [Keys -> Ids \cup {None}]
    BY <1>11, <1>b, <1>d DEF PollSucceeds, IssueThrows
  <2>3. poll' \in [Tabs -> Polls]
    BY <1>11 DEF PollSucceeds, Told, Polls
  <2> QED
    BY <1>11, <2>1, <2>2, <2>3 DEF PollSucceeds, daemonVars
<1>12. ASSUME NEW t \in Tabs, PollUnknown(t) PROVE TypeOK'
  <2>1. page' \in [Tabs -> Pages] /\ timer' \subseteq Tabs
    BY <1>12, ToldTypes DEF PollUnknown
  <2> QED
    BY <1>12, <1>a, <2>1 DEF PollUnknown, Told, Polls, daemonVars
<1>13. ASSUME NEW t \in Tabs, PollPending(t) PROVE TypeOK'
  <2>1. page' \in [Tabs -> Pages] /\ timer' \subseteq Tabs
    BY <1>13, ToldTypes DEF PollPending
  <2> QED
    BY <1>13, <2>1 DEF PollPending, Told, Polls, serverVars, daemonVars
<1>14. ASSUME NEW t \in Tabs, SubmitNsec(t) PROVE TypeOK'
  <2>1. /\ page' \in [Tabs -> Pages] /\ timer' \subseteq Tabs
        /\ nsec' \in [Tabs -> {"none", "asked"}]
    BY <1>14, ToldTypes DEF SubmitNsec, ToldNsec
  <2>2. /\ pending' \in [Ids -> {"unused", "open", "granted", "closed"}]
        /\ index' \in [Keys -> Ids \cup {None}]
    BY <1>14, <1>a DEF SubmitNsec, JustSweep
  <2> QED
    BY <1>14, <2>1, <2>2 DEF SubmitNsec, daemonVars
<1>15. ASSUME NEW t \in Tabs, NsecAccepted(t) PROVE TypeOK'
  <2>1. /\ page' \in [Tabs -> Pages] /\ timer' \subseteq Tabs
        /\ nsec' \in [Tabs -> {"none", "asked"}]
    BY <1>15, ToldTypes DEF NsecAccepted, ToldNsec
  <2>2. /\ code' \in [Ids -> {"none", "live", "gone"}] /\ issued' \in [Ids -> Nat]
        /\ pending' \in [Ids -> {"unused", "open", "granted", "closed"}]
        /\ index' \in [Keys -> Ids \cup {None}]
    BY <1>15, <1>b, <1>d DEF NsecAccepted, IssueThrows
  <2>3. connect' \in [Ids -> Tabs \cup {None}] /\ wait' \in [Ids -> Tabs \cup {None}]
    BY <1>15 DEF NsecAccepted, Forgotten
  <2> QED
    BY <1>15, <2>1, <2>2, <2>3 DEF NsecAccepted
<1>16. ASSUME NEW t \in Tabs, NsecRefused(t) PROVE TypeOK'
  <2>1. /\ page' \in [Tabs -> Pages] /\ timer' \subseteq Tabs
        /\ nsec' \in [Tabs -> {"none", "asked"}]
    BY <1>16, ToldTypes DEF NsecRefused, ToldNsec
  <2>2. connect' \in [Ids -> Tabs \cup {None}] /\ wait' \in [Ids -> Tabs \cup {None}]
    BY <1>16 DEF NsecRefused, Forgotten, daemonVars
  <2> QED
    BY <1>16, <2>1, <2>2 DEF NsecRefused, serverVars
<1>17. ASSUME NEW t \in Tabs, Cancel(t) PROVE TypeOK'
  <2>1. /\ pending' \in [Ids -> {"unused", "open", "granted", "closed"}]
        /\ index' \in [Keys -> Ids \cup {None}]
    BY <1>17, <1>c, <1>d DEF Cancel
  <2> QED
    BY <1>17, <2>1 DEF Cancel, Pages, daemonVars
<1>18. ASSUME NEW i \in Ids, ExchangeBegin(i) PROVE TypeOK'
  <2>1. /\ pending' \in [Ids -> {"unused", "open", "granted", "closed"}]
        /\ index' \in [Keys -> Ids \cup {None}]
    BY <1>18, <1>c DEF ExchangeBegin
  <2>2. code' \in [Ids -> {"none", "live", "gone"}] /\ signing' \in [Ids -> Nat]
    BY <1>18 DEF ExchangeBegin
  <2>3. UNCHANGED <<keyOf, old, issued, exchanged, connect, wait, tabId, shown, page, timer,
                    poll, nsec>>
    BY <1>18 DEF ExchangeBegin, daemonVars, browserVars
  <2> QED
    BY <2>1, <2>2, <2>3
<1>19. ASSUME NEW i \in Ids, ExchangeEnd(i) PROVE TypeOK'
  BY <1>19 DEF ExchangeEnd, daemonVars, browserVars
<1>20. ASSUME NEW i \in Ids, RequestAges(i) \/ CodeExpires(i) PROVE TypeOK'
  BY <1>20 DEF RequestAges, CodeExpires, daemonVars, browserVars
<1>21. ASSUME NEW broken, DaemonGone(broken)
       PROVE  /\ connect' \in [Ids -> Tabs \cup {None}] /\ wait' \in [Ids -> Tabs \cup {None}]
              /\ page' \in [Tabs -> Pages] /\ poll' \in [Tabs -> Polls]
              /\ nsec' \in [Tabs -> {"none", "asked"}] /\ timer' \subseteq Tabs
              /\ UNCHANGED <<tabId, shown>>
  BY <1>21 DEF DaemonGone, Pages, Polls
<1>22. CASE DaemonExits
  BY <1>21, <1>22 DEF DaemonExits, serverVars
<1>23. CASE ServerRestarts
  BY <1>21, <1>23 DEF ServerRestarts
<1>24. CASE UNCHANGED vars
  BY <1>24 DEF vars
<1> QED
  BY <1>1, <1>2, <1>3, <1>4, <1>5, <1>6, <1>7, <1>8, <1>9, <1>10, <1>11, <1>12, <1>13, <1>14,
     <1>15, <1>16, <1>17, <1>18, <1>19, <1>20, <1>22, <1>23, <1>24 DEF Next

-----------------------------------------------------------------------------
(***************************************************************************)
(* What a step does to the requests.                                       *)
(***************************************************************************)

\* The requests of C, all open, are closed and leave the index.
Closes(C) ==
    /\ C \subseteq Ids /\ \A i \in C : pending[i] = "open"
    /\ pending' = [i \in Ids |-> IF i \in C THEN "closed" ELSE pending[i]]
    /\ \A k \in Keys : index'[k] = None \/ (index'[k] = index[k] /\ index[k] \notin C)
    /\ UNCHANGED <<keyOf, issued>>

\* Request i, open, is given a code and leaves the index.
Grants(i) ==
    /\ pending[i] = "open"
    /\ pending' = [pending EXCEPT ![i] = "granted"]
    /\ \A k \in Keys : index'[k] = None \/ (index'[k] = index[k] /\ index[k] # i)
    /\ issued' = [issued EXCEPT ![i] = @ + 1]
    /\ UNCHANGED <<keyOf, exchanged>>

\* Request i, unused, is opened for key k, and those of C are closed.
Opens(i, k, C) ==
    /\ pending[i] = "unused"
    /\ C \subseteq Ids /\ \A j \in C : pending[j] = "open"
    /\ pending' = [[j \in Ids |-> IF j \in C THEN "closed" ELSE pending[j]]
                      EXCEPT ![i] = "open"]
    /\ index'[k] = i /\ keyOf' = [keyOf EXCEPT ![i] = k]
    /\ \A l \in Keys \ {k} : index'[l] = None \/ (index'[l] = index[l] /\ index[l] \notin C)
    /\ UNCHANGED <<issued, exchanged>>

\* The requests that a sweep closes.
Aged == {i \in Ids : pending[i] = "open" /\ i \in old}

LEMMA SweepCloses ==
    ASSUME TypeOK, UNCHANGED <<keyOf, issued>>
    PROVE  /\ JustSweep => Closes(Aged)
           /\ \A i \in Ids : IsOpen(i) /\ SweepAndRemove(i) => Closes(Aged \cup {i})
<1> USE NoneAssumption DEF TypeOK
<1>1. {i \in Ids : Swept[i] # pending[i]} = Aged
  BY DEF Swept, Aged
<1>2. \A k \in Keys : SweptIndex[k] = IF index[k] \in Aged THEN None ELSE index[k]
  BY <1>1 DEF SweptIndex, Unindexed
<1>3. Swept = [i \in Ids |-> IF i \in Aged THEN "closed" ELSE pending[i]]
  BY DEF Swept, Aged
<1>4. ASSUME JustSweep PROVE Closes(Aged)
  BY <1>2, <1>3, <1>4 DEF JustSweep, Closes, Aged
<1>5. ASSUME NEW i \in Ids, IsOpen(i), SweepAndRemove(i) PROVE Closes(Aged \cup {i})
  <2>1. pending[i] = "open"
    BY <1>5 DEF IsOpen, Swept
  <2>2. pending' = [j \in Ids |-> IF j \in Aged \cup {i} THEN "closed" ELSE pending[j]]
    BY <1>3, <1>5 DEF SweepAndRemove
  <2>3. \A k \in Keys : index'[k] = IF SweptIndex[k] = i THEN None ELSE SweptIndex[k]
    BY <1>5 DEF SweepAndRemove, Unindexed
  <2>4. \A k \in Keys : index'[k] = None \/ (index'[k] = index[k] /\ index[k] \notin Aged \cup {i})
    BY <1>2, <2>3
  <2> QED
    BY <2>1, <2>2, <2>4 DEF Closes, Aged
<1> QED
  BY <1>4, <1>5

\* No request is touched.
LEMMA NothingCloses ==
    ASSUME TypeOK, UNCHANGED <<pending, index, keyOf, issued>>
    PROVE  Closes({})
BY DEF Closes, TypeOK

\* A code is issued for an open request, or nothing happens to any.
LEMMA CodeGrants ==
    ASSUME TypeOK, NEW i \in Ids, UNCHANGED <<keyOf, exchanged>>
    PROVE  /\ IsActive(i) /\ IssueCode(i) => Grants(i)
           /\ NoCode => Closes({})
<1>1. ASSUME IsActive(i), IssueCode(i) PROVE Grants(i)
  BY <1>1, NoneAssumption DEF IsActive, IssueCode, Grants, Unindexed, TypeOK
<1>2. ASSUME NoCode PROVE Closes({})
  BY <1>2, NothingCloses DEF NoCode
<1> QED
  BY <1>1, <1>2

\* Authorize reuses the open request of its key or opens a fresh one.
LEMMA AuthorizeShape ==
    ASSUME TypeOK, IndexSound, NEW t \in Tabs, NEW k \in Keys, Authorize(t, k)
    PROVE  \E i \in Ids :
             /\ tabId' = [tabId EXCEPT ![t] = i] /\ pending'[i] = "open"
             /\ \/ Closes(Aged)
                \/ Opens(i, k, Aged)
<1> USE NoneAssumption DEF TypeOK
<1>1. \A l \in Keys : SweptIndex[l] = IF index[l] \in Aged THEN None ELSE index[l]
  <2>1. {i \in Ids : Swept[i] # pending[i]} = Aged
    BY DEF Swept, Aged
  <2> QED
    BY <2>1 DEF SweptIndex, Unindexed
<1>2. Swept = [i \in Ids |-> IF i \in Aged THEN "closed" ELSE pending[i]]
  BY DEF Swept, Aged
<1>3. PICK i \in Reused(k) \cup Fresh(k) :
        /\ pending' = [Swept EXCEPT ![i] = "open"] /\ index' = [SweptIndex EXCEPT ![k] = i]
        /\ keyOf' = [keyOf EXCEPT ![i] = k] /\ tabId' = [tabId EXCEPT ![t] = i]
  BY DEF Authorize
<1>4. SweptIndex \in [Keys -> Ids \cup {None}]
  BY SweptTypes
<1>5. CASE i \in Reused(k)
  <2>1. i \in Ids /\ SweptIndex[k] = i /\ Swept[i] = "open"
    BY <1>4, <1>5 DEF Reused, IsOpen
  <2>2. index[k] = i /\ keyOf[i] = k
    BY <1>1, <2>1 DEF IndexSound
  <2>3. pending' = Swept /\ index' = SweptIndex /\ keyOf' = keyOf
    BY <1>2, <1>3, <1>4, <2>1, <2>2
  <2>4. UNCHANGED issued
    BY DEF Authorize
  <2>5. Closes(Aged)
    BY <2>3, <2>4, SweepCloses DEF JustSweep
  <2> QED
    BY <1>3, <2>1, <2>3, <2>5
<1>6. CASE i \in Fresh(k)
  <2>1. i \in Ids /\ pending[i] = "unused"
    BY <1>6 DEF Fresh
  <2>2. \A l \in Keys \ {k} : index'[l] = None \/ (index'[l] = index[l] /\ index[l] \notin Aged)
    BY <1>1, <1>3, <1>4
  <2>3. UNCHANGED <<issued, exchanged>>
    BY DEF Authorize
  <2>4. index'[k] = i /\ pending'[i] = "open"
    BY <1>2, <1>3, <1>4, <2>1
  <2>5. Opens(i, k, Aged)
    BY <1>2, <1>3, <2>1, <2>2, <2>3, <2>4 DEF Opens, Aged
  <2> QED
    BY <1>3, <2>1, <2>4, <2>5
<1> QED
  BY <1>3, <1>5, <1>6

\* Every other step closes requests or grants one.
LEMMA RequestShape ==
    ASSUME TypeOK, Tabbed, IndexSound, [Next]_vars,
           \A t \in Tabs, k \in Keys : ~Authorize(t, k)
    PROVE  (\E C \in SUBSET Ids : Closes(C)) \/ (\E i \in Ids : Grants(i))
<1> USE NoneAssumption
<1>a. \A t \in Tabs : page[t] # "closed" \/ t \in timer \/ poll[t] # "none" \/ nsec[t] # "none"
        => tabId[t] \in Ids
  BY DEF Tabbed, TypeOK
<1>b. {} \in SUBSET Ids /\ Aged \in SUBSET Ids /\ \A i \in Ids : Aged \cup {i} \in SUBSET Ids
  BY DEF Aged
<1>c. CASE UNCHANGED <<pending, index, keyOf, issued>>
  BY <1>b, <1>c, NothingCloses
<1>1. ASSUME NEW t \in Tabs, PollFails(t) \/ Cancel(t) PROVE \E C \in SUBSET Ids : Closes(C)
  BY <1>1, <1>a, <1>b, SweepCloses DEF PollFails, Cancel
<1>2. ASSUME NEW t \in Tabs, PollWaits(t) \/ SubmitNsec(t)
      PROVE  \E C \in SUBSET Ids : Closes(C)
  BY <1>2, <1>b, SweepCloses DEF PollWaits, SubmitNsec
<1>3. ASSUME NEW i \in Ids, ExchangeBegin(i) PROVE \E C \in SUBSET Ids : Closes(C)
  BY <1>3, <1>b, SweepCloses DEF ExchangeBegin
<1>4. ASSUME NEW t \in Tabs, PollSucceeds(t) \/ NsecAccepted(t)
      PROVE  (\E C \in SUBSET Ids : Closes(C)) \/ Grants(tabId[t])
  BY <1>4, <1>a, <1>b, CodeGrants DEF PollSucceeds, NsecAccepted, IssueThrows
<1>5. ASSUME NEW t \in Tabs, StartRefused(t) PROVE \E C \in SUBSET Ids : Closes(C)
  <2>1. tabId[t] \in Ids
    BY <1>5, <1>a DEF StartRefused
  <2> DEFINE C == {i \in Ids : i = tabId[t] /\ pending[i] = "open"}
  <2>2. pending' = [i \in Ids |-> IF i \in C THEN "closed" ELSE pending[i]]
    BY <1>5, <2>1 DEF StartRefused, TypeOK
  <2>3. \A k \in Keys : index'[k] = None \/ (index'[k] = index[k] /\ k # keyOf[tabId[t]])
    BY <1>5 DEF StartRefused, TypeOK
  <2>4. \A k \in Keys : index'[k] = None \/ (index'[k] = index[k] /\ index[k] \notin C)
    BY <2>3 DEF IndexSound
  <2>5. UNCHANGED <<keyOf, issued>>
    BY <1>5 DEF StartRefused
  <2>6. Closes(C)
    BY <2>2, <2>4, <2>5 DEF Closes
  <2> QED
    BY <2>6
<1>6. ASSUME NEW t \in Tabs, PollUnknown(t) PROVE \E C \in SUBSET Ids : Closes(C)
  <2>1. tabId[t] \in Ids
    BY <1>6, <1>a DEF PollUnknown
  <2> DEFINE C == {i \in Ids : i = tabId[t] /\ pending[i] = "open"}
  <2>2. pending' = [i \in Ids |-> IF i \in C THEN "closed" ELSE pending[i]]
    BY <1>6, <2>1 DEF PollUnknown, TypeOK
  <2>3. \A k \in Keys : index'[k] = None \/ (index'[k] = index[k] /\ index[k] \notin C)
    BY <1>6 DEF PollUnknown, Unindexed
  <2>4. UNCHANGED <<keyOf, issued>>
    BY <1>6 DEF PollUnknown
  <2>5. Closes(C)
    BY <2>2, <2>3, <2>4 DEF Closes
  <2> QED
    BY <2>5
<1>7. CASE ServerRestarts
  <2> DEFINE C == {i \in Ids : pending[i] = "open"}
  <2>1. Closes(C)
    BY <1>7 DEF ServerRestarts, Closes
  <2> QED
    BY <2>1
<1>8. ASSUME NEW t \in Tabs,
             StartFinds(t) \/ StartBuilds(t) \/ StartThrows(t) \/ TimerSkipped(t) \/ Approve(t)
             \/ PollPending(t) \/ NsecRefused(t)
      PROVE  UNCHANGED <<pending, index, keyOf, issued>>
  BY <1>8 DEF StartFinds, StartBuilds, StartThrows, TimerSkipped, Approve, PollPending,
              NsecRefused, serverVars
<1>9. ASSUME NEW i \in Ids, WaitFails(i) \/ ExchangeEnd(i) \/ RequestAges(i) \/ CodeExpires(i)
      PROVE  UNCHANGED <<pending, index, keyOf, issued>>
  BY <1>9 DEF WaitFails, ExchangeEnd, RequestAges, CodeExpires, serverVars
<1>10. CASE DaemonExits
  BY <1>10, <1>c DEF DaemonExits, serverVars
<1>11. CASE UNCHANGED vars
  BY <1>11, <1>c DEF vars
<1>12. ASSUME NEW t \in Tabs, PollSucceeds(t) \/ NsecAccepted(t) PROVE tabId[t] \in Ids
  BY <1>12, <1>a DEF PollSucceeds, NsecAccepted
<1> QED
  BY <1>c, <1>1, <1>2, <1>3, <1>4, <1>5, <1>6, <1>7, <1>8, <1>9, <1>10, <1>11, <1>12 DEF Next

-----------------------------------------------------------------------------
(***************************************************************************)
(* The invariant.                                                          *)
(***************************************************************************)

\* A request that is over stays over, and one that was opened stays so.
LEMMA StaysOver ==
    ASSUME TypeOK, NEW i \in Ids,
           \/ \E C \in SUBSET Ids : Closes(C) \/ \E j \in Ids, k \in Keys : Opens(j, k, C)
           \/ \E j \in Ids : Grants(j)
    PROVE  /\ pending[i] # "unused" => pending'[i] # "unused"
           /\ pending[i] \notin {"unused", "open"} => pending'[i] # "open"
<1> USE DEF TypeOK
<1>1. ASSUME NEW C \in SUBSET Ids, Closes(C)
      PROVE  /\ pending[i] # "unused" => pending'[i] # "unused"
             /\ pending[i] \notin {"unused", "open"} => pending'[i] # "open"
  BY <1>1 DEF Closes
<1>2. ASSUME NEW C \in SUBSET Ids, NEW j \in Ids, NEW k \in Keys, Opens(j, k, C)
      PROVE  /\ pending[i] # "unused" => pending'[i] # "unused"
             /\ pending[i] \notin {"unused", "open"} => pending'[i] # "open"
  BY <1>2 DEF Opens
<1>3. ASSUME NEW j \in Ids, Grants(j)
      PROVE  /\ pending[i] # "unused" => pending'[i] # "unused"
             /\ pending[i] \notin {"unused", "open"} => pending'[i] # "open"
  BY <1>3 DEF Grants
<1> QED
  BY <1>1, <1>2, <1>3

LEMMA IndexStep ==
    ASSUME TypeOK, IndexSound, TypeOK',
           \/ \E C \in SUBSET Ids : Closes(C) \/ \E j \in Ids, k \in Keys : Opens(j, k, C)
           \/ \E j \in Ids : Grants(j)
    PROVE  IndexSound'
<1> USE NoneAssumption DEF TypeOK, IndexSound
<1>1. ASSUME NEW C \in SUBSET Ids, Closes(C) PROVE IndexSound'
  BY <1>1 DEF Closes
<1>2. ASSUME NEW C \in SUBSET Ids, NEW j \in Ids, NEW k \in Keys, Opens(j, k, C)
      PROVE  IndexSound'
  <2>1. pending'[j] = "open" /\ keyOf'[j] = k /\ index'[k] = j
    BY <1>2 DEF Opens
  <2>2. ASSUME NEW l \in Keys \ {k}, index'[l] # None
        PROVE  pending'[index'[l]] = "open" /\ keyOf'[index'[l]] = l
    <3>1. index'[l] = index[l] /\ index[l] \in Ids \ C /\ pending[index[l]] = "open"
          /\ keyOf[index[l]] = l /\ index[l] # j
      BY <1>2, <2>2 DEF Opens
    <3> QED
      BY <1>2, <3>1 DEF Opens
  <2> QED
    BY <2>1, <2>2
<1>3. ASSUME NEW j \in Ids, Grants(j) PROVE IndexSound'
  BY <1>3 DEF Grants
<1> QED
  BY <1>1, <1>2, <1>3

\* What a step of another kind than Authorize may do to a tab: it does not
\* open or close it, and a page that comes to say "expired" is right.
Honest(u) ==
    /\ tabId'[u] = tabId[u]
    /\ page'[u] = "closed" <=> page[u] = "closed"
    /\ page[u] = "closed" => u \notin timer' /\ poll'[u] = "none" /\ nsec'[u] = "none"
    /\ page'[u] = "expired" /\ page[u] # "expired" => pending'[tabId[u]] # "open"

\* A reply changes the page it comes to, if that is open, and only "gone"
\* makes it say that it expired.
LEMMA ToldHonest ==
    ASSUME TypeOK, Tabbed, NEW t \in Tabs, page[t] # "closed", NEW answer, UNCHANGED tabId,
           (Told(t, answer) /\ UNCHANGED nsec) \/ (ToldNsec(t, answer) /\ UNCHANGED poll),
           answer = "gone" => pending'[tabId[t]] # "open",
           NEW u \in Tabs
    PROVE  Honest(u)
<1>1. CASE Told(t, answer) /\ UNCHANGED nsec
  BY <1>1 DEF Told, Honest, TypeOK, Tabbed, Pages
<1>2. CASE ToldNsec(t, answer) /\ UNCHANGED poll
  BY <1>2 DEF ToldNsec, Honest, TypeOK, Tabbed, Pages
<1> QED
  BY <1>1, <1>2

LEMMA PageStep ==
    ASSUME TypeOK, Tabbed, [Next]_vars, \A t \in Tabs, k \in Keys : ~Authorize(t, k),
           NEW u \in Tabs
    PROVE  Honest(u)
<1> USE NoneAssumption
<1>a. \A t \in Tabs : t \in timer \/ poll[t] # "none" \/ nsec[t] # "none" \/ page[t] = "open"
        => page[t] # "closed" /\ tabId[t] \in Ids
  BY DEF Tabbed
<1>b. CASE UNCHANGED <<tabId, page, timer, poll, nsec>>
  BY <1>b DEF Honest, Tabbed
<1>1. ASSUME NEW t \in Tabs, StartFinds(t) \/ StartBuilds(t) PROVE Honest(u)
  BY <1>1 DEF StartFinds, StartBuilds, PageOpens, Honest, Tabbed, TypeOK
<1>2. ASSUME NEW t \in Tabs, StartRefused(t) \/ StartThrows(t) PROVE Honest(u)
  BY <1>2 DEF StartRefused, StartThrows, Honest, Tabbed, TypeOK
<1>3. ASSUME NEW t \in Tabs, TimerSkipped(t) PROVE Honest(u)
  BY <1>3 DEF TimerSkipped, Honest, Tabbed
<1>4. ASSUME NEW t \in Tabs, PollFails(t) PROVE Honest(u)
  <2>1. page[t] # "closed" /\ tabId[t] \in Ids
    BY <1>4, <1>a DEF PollFails
  <2>2. pending'[tabId[t]] # "open"
    BY <1>4, <2>1, SweptTypes DEF PollFails, JustSweep, SweepAndRemove, IsOpen
  <2> QED
    BY <1>4, <2>1, <2>2, ToldHonest DEF PollFails
<1>5. ASSUME NEW t \in Tabs, PollWaits(t) PROVE Honest(u)
  BY <1>5, <1>a DEF PollWaits, Honest, Tabbed, TypeOK
<1>6. ASSUME NEW t \in Tabs, Approve(t) PROVE Honest(u)
  BY <1>6 DEF Approve, PollsAnswered, Honest, Tabbed
<1>7. ASSUME NEW i \in Ids, WaitFails(i) PROVE Honest(u)
  BY <1>7 DEF WaitFails, PollsAnswered, Honest, Tabbed
<1>8. ASSUME NEW t \in Tabs, PollSucceeds(t) PROVE Honest(u)
  <2>1. page[t] # "closed"
    BY <1>8, <1>a DEF PollSucceeds
  <2>2. CASE \E answer \in {"redirect", "pending"} : Told(t, answer)
    BY <1>8, <2>1, <2>2, ToldHonest DEF PollSucceeds
  <2>3. CASE ~IsActive(tabId[t]) /\ NoCode /\ Told(t, "gone")
    BY <1>8, <2>1, <2>3, ToldHonest DEF PollSucceeds, IsActive, NoCode
  <2> QED
    BY <1>8, <2>2, <2>3 DEF PollSucceeds
<1>9. ASSUME NEW t \in Tabs, PollUnknown(t) PROVE Honest(u)
  <2>1. page[t] # "closed" /\ tabId[t] \in Ids
    BY <1>9, <1>a DEF PollUnknown
  <2>2. pending'[tabId[t]] # "open"
    BY <1>9, <2>1 DEF PollUnknown, TypeOK
  <2> QED
    BY <1>9, <2>1, <2>2, ToldHonest DEF PollUnknown
<1>10. ASSUME NEW t \in Tabs, PollPending(t) PROVE Honest(u)
  BY <1>10, <1>a, ToldHonest DEF PollPending
<1>11. ASSUME NEW t \in Tabs, SubmitNsec(t) PROVE Honest(u)
  <2>1. CASE nsec' = [nsec EXCEPT ![t] = "asked"] /\ UNCHANGED <<page, timer>>
    BY <1>11, <2>1 DEF SubmitNsec, Honest, Tabbed, TypeOK
  <2>2. CASE ToldNsec(t, "refused")
    BY <1>11, <1>a, <2>2, ToldHonest DEF SubmitNsec
  <2> QED
    BY <1>11, <2>1, <2>2 DEF SubmitNsec
<1>12. ASSUME NEW t \in Tabs, NsecAccepted(t) \/ NsecRefused(t) PROVE Honest(u)
  <2>1. \E answer \in {"redirect", "refused"} : ToldNsec(t, answer)
    BY <1>12 DEF NsecAccepted, NsecRefused
  <2> QED
    BY <1>12, <1>a, <2>1, ToldHonest DEF NsecAccepted, NsecRefused
<1>13. ASSUME NEW t \in Tabs, Cancel(t) PROVE Honest(u)
  <2>1. tabId[t] \in Ids
    BY <1>13, <1>a DEF Cancel
  <2>2. CASE ~IsOpen(tabId[t]) /\ JustSweep /\ page' = [page EXCEPT ![t] = "expired"]
    BY <1>13, <2>1, <2>2 DEF Cancel, IsOpen, JustSweep, Honest, Tabbed, TypeOK
  <2>3. CASE page' = [page EXCEPT ![t] = "cancelled"]
    BY <1>13, <2>3 DEF Cancel, Honest, Tabbed, TypeOK
  <2> QED
    BY <1>13, <2>2, <2>3 DEF Cancel
<1>14. ASSUME NEW i \in Ids,
              ExchangeBegin(i) \/ ExchangeEnd(i) \/ RequestAges(i) \/ CodeExpires(i)
       PROVE  Honest(u)
  BY <1>14, <1>b DEF ExchangeBegin, ExchangeEnd, RequestAges, CodeExpires, browserVars
<1>15. ASSUME NEW broken, DaemonGone(broken) PROVE Honest(u)
  BY <1>15 DEF DaemonGone, Honest, Tabbed
<1>16. CASE DaemonExits
  BY <1>15, <1>16 DEF DaemonExits
<1>17. CASE ServerRestarts
  BY <1>15, <1>17 DEF ServerRestarts
<1>18. CASE UNCHANGED vars
  BY <1>18, <1>b DEF vars
<1> QED
  BY <1>1, <1>2, <1>3, <1>4, <1>5, <1>6, <1>7, <1>8, <1>9, <1>10, <1>11, <1>12, <1>13, <1>14,
     <1>16, <1>17, <1>18 DEF Next

\* How many of the codes of request i are somewhere.
Spent(i) == signing[i] + exchanged[i] + (IF code[i] = "live" THEN 1 ELSE 0)

\* A code moves from the map to a signature and from there to the client, and
\* only an issue makes one.
LEMMA CountedStep ==
    ASSUME TypeOK, Tabbed, Counted, [Next]_vars
    PROVE  Counted'
<1> USE DEF TypeOK
<1>a. Counted <=> \A i \in Ids : Spent(i) <= issued[i]
  BY DEF Counted, Spent
<1>b. CASE UNCHANGED <<code, issued, signing, exchanged>>
  BY <1>b DEF Counted
<1>1. ASSUME NEW j \in Ids, IssueCode(j), UNCHANGED <<signing, exchanged>> PROVE Counted'
  BY <1>1 DEF IssueCode, Counted
<1>2. ASSUME NEW t \in Tabs, PollSucceeds(t) \/ NsecAccepted(t) PROVE Counted'
  <2>1. tabId[t] \in Ids
    BY <1>2 DEF PollSucceeds, NsecAccepted, Tabbed
  <2>2. UNCHANGED <<signing, exchanged>> /\ (IssueCode(tabId[t]) \/ NoCode)
    BY <1>2 DEF PollSucceeds, NsecAccepted, IssueThrows
  <2> QED
    BY <1>1, <1>b, <2>1, <2>2 DEF NoCode
<1>3. ASSUME NEW j \in Ids, ExchangeBegin(j) PROVE Counted'
  BY <1>3 DEF ExchangeBegin, Counted
<1>4. ASSUME NEW j \in Ids, ExchangeEnd(j) PROVE Counted'
  BY <1>4 DEF ExchangeEnd, Counted
<1>5. ASSUME NEW j \in Ids, CodeExpires(j) PROVE Counted'
  BY <1>5 DEF CodeExpires, Counted
<1>6. CASE ServerRestarts
  BY <1>6 DEF ServerRestarts, Counted
<1>7. ASSUME NEW t \in Tabs, NEW k \in Keys, Authorize(t, k)
      PROVE  UNCHANGED <<code, issued, signing, exchanged>>
  BY <1>7 DEF Authorize
<1>8. ASSUME NEW t \in Tabs,
             StartFinds(t) \/ StartBuilds(t) \/ StartRefused(t) \/ StartThrows(t)
             \/ TimerSkipped(t) \/ PollFails(t) \/ PollWaits(t) \/ Approve(t)
      PROVE  UNCHANGED <<code, issued, signing, exchanged>>
  BY <1>8 DEF StartFinds, StartBuilds, StartRefused, StartThrows, TimerSkipped, PollFails,
              PollWaits, Approve, serverVars
<1>9. ASSUME NEW t \in Tabs,
             PollUnknown(t) \/ PollPending(t) \/ SubmitNsec(t) \/ NsecRefused(t) \/ Cancel(t)
      PROVE  UNCHANGED <<code, issued, signing, exchanged>>
  BY <1>9 DEF PollUnknown, PollPending, SubmitNsec, NsecRefused, Cancel, serverVars
<1>10. ASSUME NEW i \in Ids, WaitFails(i) \/ RequestAges(i)
       PROVE  UNCHANGED <<code, issued, signing, exchanged>>
  BY <1>10 DEF WaitFails, RequestAges, serverVars
<1>11. CASE DaemonExits
  BY <1>11, <1>b DEF DaemonExits, serverVars
<1>12. CASE UNCHANGED vars
  BY <1>12, <1>b DEF vars
<1> QED
  BY <1>b, <1>2, <1>3, <1>4, <1>5, <1>6, <1>7, <1>8, <1>9, <1>10, <1>11, <1>12 DEF Next

LEMMA InitInv == Init => IInv
BY DEF Init, IInv, TypeOK, Tabbed, Counted, IndexSound, ExpiredMeansOver, Pages, Polls

LEMMA NextInv == IInv /\ [Next]_vars => IInv'
<1> SUFFICES ASSUME IInv, [Next]_vars PROVE IInv'
  OBVIOUS
<1> USE DEF IInv
<1>1. TypeOK' /\ Counted'
  BY TypeStep, CountedStep
<1>2. ASSUME NEW t \in Tabs, NEW k \in Keys, Authorize(t, k)
      PROVE  Tabbed' /\ IndexSound' /\ ExpiredMeansOver'
  <2>1. PICK i \in Ids : /\ tabId' = [tabId EXCEPT ![t] = i] /\ pending'[i] = "open"
                         /\ Closes(Aged) \/ Opens(i, k, Aged)
    BY <1>2, AuthorizeShape
  <2>2. Aged \in SUBSET Ids
    BY DEF Aged
  <2>3. IndexSound'
    BY <1>1, <2>1, <2>2, IndexStep
  <2>4. \A j \in Ids : /\ pending[j] # "unused" => pending'[j] # "unused"
                       /\ pending[j] \notin {"unused", "open"} => pending'[j] # "open"
    BY <2>1, <2>2, StaysOver
  <2>5. page' = [page EXCEPT ![t] = "starting"] /\ UNCHANGED <<timer, poll, nsec>>
    BY <1>2 DEF Authorize
  <2>6. \A u \in Tabs \ {t} : tabId'[u] = tabId[u] /\ page'[u] = page[u]
    BY <2>1, <2>5 DEF TypeOK
  <2>7. tabId'[t] = i /\ page'[t] = "starting"
    BY <2>1, <2>5 DEF TypeOK
  <2>8. Tabbed'
    BY <2>1, <2>4, <2>5, <2>6, <2>7 DEF Tabbed
  <2>9. ExpiredMeansOver'
    BY <2>4, <2>6, <2>7 DEF ExpiredMeansOver, Tabbed
  <2> QED
    BY <2>3, <2>8, <2>9
<1>3. CASE \A t \in Tabs, k \in Keys : ~Authorize(t, k)
  <2>1. (\E C \in SUBSET Ids : Closes(C)) \/ (\E i \in Ids : Grants(i))
    BY <1>3, RequestShape
  <2>2. IndexSound'
    BY <1>1, <2>1, IndexStep
  <2>3. \A j \in Ids : /\ pending[j] # "unused" => pending'[j] # "unused"
                       /\ pending[j] \notin {"unused", "open"} => pending'[j] # "open"
    BY <2>1, StaysOver
  <2>4. \A u \in Tabs : Honest(u)
    BY <1>3, PageStep
  <2>5. Tabbed'
    BY <2>3, <2>4 DEF Tabbed, Honest
  <2>6. ExpiredMeansOver'
    BY <2>3, <2>4 DEF ExpiredMeansOver, Honest, Tabbed
  <2> QED
    BY <1>1, <2>2, <2>5, <2>6
<1> QED
  BY <1>1, <1>2, <1>3

LEMMA Invariance == Spec => []IInv
<1> QED
  BY InitInv, NextInv, PTL DEF Spec

-----------------------------------------------------------------------------
(***************************************************************************)
(* The theorems.                                                           *)
(***************************************************************************)

\* Every variable of the login keeps its type.
THEOREM TypeCorrect == Spec => []TypeOK
<1> QED
  BY Invariance, PTL DEF IInv

\* authorizationRequestIds leads an authorize request only to a pending
\* authorization of its own key, whatever is swept, removed or restarted.
THEOREM IndexCorrect == Spec => []IndexSound
<1> QED
  BY Invariance, PTL DEF IInv

\* A page that was told that its sign-in code is over is right for good: no
\* later poll, nsec or tab opens that request again.
THEOREM ExpiredIsOver == Spec => []ExpiredMeansOver
<1> QED
  BY Invariance, PTL DEF IInv

\* OAuthLogin implements LoginRequest: a request ends once, with at most one
\* code, and a code is exchanged at most once.
THEOREM Implements == Spec => KeepsRequest
<1>1. Init => Request!LoginRequestInit
  BY DEF Init, Request!LoginRequestInit
<1>2. IInv /\ [Next]_vars => [Request!LoginRequestNext]_<<pending, issued, exchanged>>
  <2> SUFFICES ASSUME IInv, [Next]_vars
               PROVE  [Request!LoginRequestNext]_<<pending, issued, exchanged>>
    OBVIOUS
  <2> USE DEF IInv, TypeOK
  <2>1. ASSUME NEW C \in SUBSET Ids, Closes(C), UNCHANGED exchanged
        PROVE  Request!LoginRequestNext
    <3>1. C \in SUBSET Request!OpenRequests
      BY <2>1 DEF Closes, Request!OpenRequests
    <3>2. Request!Close(C)
      BY <2>1 DEF Closes, Request!Close, Request!Closed
    <3> QED
      BY <3>1, <3>2 DEF Request!LoginRequestNext
  <2>2. ASSUME NEW i \in Ids, Grants(i) PROVE Request!LoginRequestNext
    <3>1. Request!GrantCode(i)
      BY <2>2 DEF Grants, Request!GrantCode
    <3> QED
      BY <3>1 DEF Request!LoginRequestNext
  <2>3. ASSUME NEW t \in Tabs, NEW k \in Keys, Authorize(t, k) PROVE Request!LoginRequestNext
    <3>1. PICK i \in Ids : Closes(Aged) \/ Opens(i, k, Aged)
      BY <2>3, AuthorizeShape
    <3>2. UNCHANGED exchanged /\ Aged \in SUBSET Ids /\ Aged \in SUBSET Request!OpenRequests
      BY <2>3 DEF Authorize, Aged, Request!OpenRequests
    <3>3. CASE Opens(i, k, Aged)
      <4>1. Request!Open(i, Aged)
        BY <3>3 DEF Opens, Request!Open, Request!Closed
      <4> QED
        BY <3>2, <4>1 DEF Request!LoginRequestNext
    <3> QED
      BY <2>1, <3>1, <3>2, <3>3
  <2>4. ASSUME NEW i \in Ids, ExchangeEnd(i)
        PROVE  [Request!LoginRequestNext]_<<pending, issued, exchanged>>
    <3>1. UNCHANGED <<pending, issued>> /\ signing[i] > 0
          /\ (UNCHANGED exchanged \/ exchanged' = [exchanged EXCEPT ![i] = @ + 1])
      BY <2>4 DEF ExchangeEnd
    <3>2. exchanged[i] < issued[i]
      BY <3>1 DEF Counted
    <3>3. CASE exchanged' = [exchanged EXCEPT ![i] = @ + 1]
      BY <3>1, <3>2, <3>3 DEF Request!Exchange, Request!LoginRequestNext
    <3> QED
      BY <3>1, <3>3
  <2>5. CASE /\ \A t \in Tabs, k \in Keys : ~Authorize(t, k)
             /\ \A i \in Ids : ~ExchangeEnd(i)
    <3>1. UNCHANGED exchanged
      BY <2>5 DEF Next, vars, serverVars, StartFinds, StartBuilds, StartRefused, StartThrows,
                  TimerSkipped, PollFails, PollWaits, Approve, PollSucceeds, PollUnknown,
                  PollPending, SubmitNsec, NsecAccepted, NsecRefused, Cancel, WaitFails,
                  ExchangeBegin, RequestAges, CodeExpires, DaemonExits, ServerRestarts
    <3> QED
      BY <2>1, <2>2, <2>5, <3>1, RequestShape
  <2> QED
    BY <2>3, <2>4, <2>5
<1> QED
  BY <1>1, <1>2, Invariance, PTL DEF Spec, KeepsRequest, Request!LoginRequestSpec
=============================================================================
