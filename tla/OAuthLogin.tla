------------------------------- MODULE OAuthLogin -------------------------------
(***************************************************************************)
(* The in-memory half of the MCP server's OAuth endpoints (auth/oauth.ts): *)
(* an authorization request, the sign-in page with its polling script, the *)
(* Nostr Connect and nsec completions that ask the stdio daemon, and the   *)
(* code that is exchanged for the first tokens.                            *)
(*                                                                         *)
(* A handler is cut at its await: the daemon's answer and the rest of the  *)
(* handler are steps of their own, and other handlers, other tabs, the     *)
(* user, time, and restarts of the server or the daemon come in between.   *)
(* The page reads a reply in a step of its own too.                        *)
(***************************************************************************)
EXTENDS Naturals, FiniteSets

CONSTANTS
    Keys,       \* what authorizationRequestKey tells apart
    Ids,        \* the request ids randomToken may hand out: a bound on the run
    Tabs,       \* the pages that may be opened, each in a tab of its own
    Faults,     \* what may go wrong, a subset of FaultPoints
    None        \* no id, no tab

FaultPoints == {"start", "signer", "call", "reply", "write", "restart", "daemon exit"}

ASSUME FaultsAssumption == Faults \subseteq FaultPoints
ASSUME NoneAssumption == None \notin Ids \cup Tabs

VARIABLES
    \* The MCP server.
    pending,    \* pendingAuthorizations, with how a removed request ended
    keyOf,      \* the key each request was opened for
    index,      \* authorizationRequestIds
    old,        \* requests older than pendingAuthorizationTtlMs
    code,       \* authorizationCodes, by the request they were issued for
    issued,     \* how many codes each request was given
    signing,    \* code exchanges that wait for signAccessToken
    exchanged,  \* code exchanges that were answered with tokens
    \* The daemon (_pendingOAuthNostrConnect and _pendingOAuthNostrConnectWaits).
    connect,    \* the connection a request is served with, by the tab that built it
    wait,       \* the connection the running wait of a request listens on
    \* The browser.
    tabId,      \* the request a tab's page is about
    shown,      \* the connection whose QR code the page shows
    page,       \* what the tab shows
    timer,      \* tabs with a pending call of complete()
    poll,       \* the tab's completion request, by what the daemon answered
    nsec        \* the tab's nsec request; the page is stopped while it is asked

serverVars  == <<pending, keyOf, index, old, code, issued, signing, exchanged>>
daemonVars  == <<connect, wait>>
browserVars == <<tabId, shown, page, timer, poll, nsec>>
vars == <<pending, keyOf, index, old, code, issued, signing, exchanged,
          connect, wait, tabId, shown, page, timer, poll, nsec>>

Pages == {"closed", "starting", "building", "open", "failed", "expired",
          "cancelled", "redirected"}
Polls == {"none", "waiting", "approved", "unknown", "failed"}

TypeOK ==
    /\ pending \in [Ids -> {"unused", "open", "granted", "closed"}]
    /\ keyOf \in [Ids -> Keys \cup {None}]
    /\ index \in [Keys -> Ids \cup {None}]
    /\ old \subseteq Ids
    /\ code \in [Ids -> {"none", "live", "gone"}]
    /\ issued \in [Ids -> Nat]
    /\ signing \in [Ids -> Nat]
    /\ exchanged \in [Ids -> Nat]
    /\ connect \in [Ids -> Tabs \cup {None}]
    /\ wait \in [Ids -> Tabs \cup {None}]
    /\ tabId \in [Tabs -> Ids \cup {None}]
    /\ shown \in [Tabs -> Tabs \cup {None}]
    /\ page \in [Tabs -> Pages]
    /\ timer \subseteq Tabs
    /\ poll \in [Tabs -> Polls]
    /\ nsec \in [Tabs -> {"none", "asked"}]

Init ==
    /\ pending = [i \in Ids |-> "unused"]
    /\ keyOf = [i \in Ids |-> None]
    /\ index = [k \in Keys |-> None]
    /\ old = {}
    /\ code = [i \in Ids |-> "none"]
    /\ issued = [i \in Ids |-> 0]
    /\ signing = [i \in Ids |-> 0]
    /\ exchanged = [i \in Ids |-> 0]
    /\ connect = [i \in Ids |-> None]
    /\ wait = [i \in Ids |-> None]
    /\ tabId = [t \in Tabs |-> None]
    /\ shown = [t \in Tabs |-> None]
    /\ page = [t \in Tabs |-> "closed"]
    /\ timer = {}
    /\ poll = [t \in Tabs |-> "none"]
    /\ nsec = [t \in Tabs |-> "none"]

-----------------------------------------------------------------------------
(***************************************************************************)
(* The maps.  Every endpoint starts with sweepExpiredOAuthState, so the    *)
(* actions that begin a handler change the maps from their swept values.   *)
(***************************************************************************)
Swept == [i \in Ids |-> IF pending[i] = "open" /\ i \in old THEN "closed" ELSE pending[i]]

\* Mutated form of Unindexed: the index is never cleaned.
UnindexedNever(ix, I) == ix

\* An index without the entries of the requests in I.
Unindexed(ix, I) == [k \in Keys |-> IF ix[k] \in I THEN None ELSE ix[k]]

SweptIndex == Unindexed(index, {i \in Ids : Swept[i] # pending[i]})

IsOpen(i) == Swept[i] = "open"

JustSweep == pending' = Swept /\ index' = SweptIndex

\* Mutated form of SweepAndRemove: the request is told to be over and kept.
SweepOnly(i) == JustSweep

\* removePendingAuthorization, after a sweep.
SweepAndRemove(i) ==
    /\ pending' = [Swept EXCEPT ![i] = "closed"]
    /\ index' = Unindexed(SweptIndex, {i})

\* pendingAuthorizationIsActive.
IsActive(i) == pending[i] = "open"

\* authorizationRedirectUrl: the code is stored and the request removed.
IssueCode(i) ==
    /\ code' = [code EXCEPT ![i] = "live"]
    /\ issued' = [issued EXCEPT ![i] = @ + 1]
    /\ pending' = [pending EXCEPT ![i] = "granted"]
    /\ index' = Unindexed(index, {i})

NoCode == UNCHANGED <<code, issued, pending, index>>

\* The session store cannot be written, before the code exists: 500.
IssueThrows(i) == "write" \in Faults /\ IsActive(i) /\ NoCode

\* The polls that wait on request i's future are answered together.
PollsAnswered(i, answer) ==
    [t \in Tabs |-> IF tabId[t] = i /\ poll[t] = "waiting" THEN answer ELSE poll[t]]

-----------------------------------------------------------------------------
(***************************************************************************)
(* GET /oauth/authorize.  A request with the same key that is still        *)
(* pending is reused, by the same browser or by another tab of it.         *)
(***************************************************************************)
Reused(k) == IF SweptIndex[k] # None /\ IsOpen(SweptIndex[k]) THEN {SweptIndex[k]} ELSE {}

Fresh(k) == IF Reused(k) = {} THEN {i \in Ids : pending[i] = "unused"} ELSE {}

Authorize(t, k) ==
    /\ page[t] = "closed"
    /\ \E i \in Reused(k) \cup Fresh(k) :
        /\ pending' = [Swept EXCEPT ![i] = "open"]
        /\ index' = [SweptIndex EXCEPT ![k] = i]
        /\ keyOf' = [keyOf EXCEPT ![i] = k]
        /\ tabId' = [tabId EXCEPT ![t] = i]
    /\ page' = [page EXCEPT ![t] = "starting"]
    /\ UNCHANGED <<old, code, issued, signing, exchanged, daemonVars, shown,
                   timer, poll, nsec>>

\* The page arrives and its script calls complete() at once.
PageOpens(t, c) ==
    /\ shown' = [shown EXCEPT ![t] = c]
    /\ page' = [page EXCEPT ![t] = "open"]
    /\ timer' = timer \cup {t}
    /\ UNCHANGED <<tabId, poll, nsec>>

\* startOAuthNostrConnect finds a connection, or goes to build one and awaits.
StartFinds(t) ==
    /\ page[t] = "starting"
    /\ \/ /\ connect[tabId[t]] # None
          /\ wait' = [wait EXCEPT ![tabId[t]] = IF @ = None THEN connect[tabId[t]] ELSE @]
          /\ PageOpens(t, connect[tabId[t]])
       \/ /\ connect[tabId[t]] = None
          /\ page' = [page EXCEPT ![t] = "building"]
          /\ UNCHANGED <<wait, tabId, shown, timer, poll, nsec>>
    /\ UNCHANGED <<serverVars, connect>>

\* The daemon stores the connection it built, over one that another start of
\* the same request built meanwhile; a wait that runs already stays.
Built(t) ==
    /\ connect' = [connect EXCEPT ![tabId[t]] = t]
    /\ wait' = [wait EXCEPT ![tabId[t]] = IF @ = None THEN t ELSE @]

StartBuilds(t) ==
    /\ page[t] = "building"
    /\ Built(t)
    /\ PageOpens(t, t)
    /\ UNCHANGED <<serverVars>>

\* The daemon answers that it could not: the request is dropped, and so is
\* whatever request its key stands for by now.
StartRefused(t) ==
    /\ "start" \in Faults
    /\ page[t] = "building"
    /\ pending' = [pending EXCEPT ![tabId[t]] = IF @ = "open" THEN "closed" ELSE @]
    /\ index' = [index EXCEPT ![keyOf[tabId[t]]] = None]
    /\ page' = [page EXCEPT ![t] = "failed"]
    /\ UNCHANGED <<keyOf, old, code, issued, signing, exchanged, daemonVars,
                   tabId, shown, timer, poll, nsec>>

\* The call itself fails, before or after the daemon did its part: 500, and
\* the request stays pending.
StartThrows(t) ==
    /\ "call" \in Faults
    /\ page[t] \in {"starting", "building"}
    /\ page' = [page EXCEPT ![t] = "failed"]
    /\ \/ page[t] = "building" /\ Built(t)
       \/ UNCHANGED daemonVars
    /\ UNCHANGED <<serverVars, tabId, shown, timer, poll, nsec>>

-----------------------------------------------------------------------------
(***************************************************************************)
(* The page's script.  A reply is read in the step that sends it: one that *)
(* is overtaken by the nsec form is dropped either way.                    *)
(***************************************************************************)

\* complete() reads a reply, which is dropped when the page stopped meanwhile.
\* A reply that is lost makes fetch throw, which the script takes for "not yet".
Told(t, answer) ==
    /\ poll' = [poll EXCEPT ![t] = "none"]
    /\ IF page[t] # "open" \/ nsec[t] = "asked" THEN UNCHANGED <<page, timer>>
       ELSE \/ /\ answer = "redirect"
               /\ page' = [page EXCEPT ![t] = "redirected"]
               /\ timer' = timer \ {t}
            \/ /\ answer = "gone"
               /\ page' = [page EXCEPT ![t] = "expired"]
               /\ timer' = timer \ {t}
            \/ /\ answer = "pending" \/ "reply" \in Faults
               /\ timer' = timer \cup {t}
               /\ UNCHANGED page

\* Mutated form of ToldNsec: a refusal does not start the polling again.
ToldNsecAndStopped(t, answer) ==
    /\ nsec' = [nsec EXCEPT ![t] = "none"]
    /\ timer' = timer \ {t}
    /\ IF page[t] = "open" /\ answer = "redirect"
       THEN page' = [page EXCEPT ![t] = "redirected"] ELSE UNCHANGED page

\* The nsec form reads its reply; whatever is not a redirect resumes polling.
ToldNsec(t, answer) ==
    /\ nsec' = [nsec EXCEPT ![t] = "none"]
    /\ IF page[t] # "open" THEN UNCHANGED <<page, timer>>
       ELSE \/ /\ answer = "redirect"
               /\ page' = [page EXCEPT ![t] = "redirected"]
               /\ timer' = timer \ {t}
            \/ /\ answer = "refused" \/ "reply" \in Faults
               /\ timer' = timer \cup {t}
               /\ UNCHANGED page

-----------------------------------------------------------------------------
(***************************************************************************)
(* POST /oauth/nostr-connect/complete.  The page's complete() returns at   *)
(* once while an nsec is being tried; two of one tab's calls that wait for *)
(* the same answer are one.                                                *)
(***************************************************************************)
TimerSkipped(t) ==
    /\ t \in timer
    /\ nsec[t] = "asked" \/ poll[t] # "none"
    /\ timer' = timer \ {t}
    /\ UNCHANGED <<serverVars, daemonVars, tabId, shown, page, poll, nsec>>

\* The request is unknown to the server, unknown to the daemon, or waited for.
PollFails(t) ==
    /\ t \in timer /\ nsec[t] = "none" /\ poll[t] = "none"
    /\ \/ ~IsOpen(tabId[t]) /\ JustSweep
       \/ IsOpen(tabId[t]) /\ connect[tabId[t]] = None /\ SweepAndRemove(tabId[t])
    /\ Told(t, "gone")
    /\ UNCHANGED <<keyOf, old, code, issued, signing, exchanged, daemonVars, tabId,
                   shown, nsec>>

PollWaits(t) ==
    /\ t \in timer /\ nsec[t] = "none" /\ poll[t] = "none"
    /\ IsOpen(tabId[t]) /\ connect[tabId[t]] # None
    /\ JustSweep
    /\ timer' = timer \ {t}
    /\ poll' = [poll EXCEPT ![t] = "waiting"]
    /\ wait' = [wait EXCEPT ![tabId[t]] = IF @ = None THEN connect[tabId[t]] ELSE @]
    /\ UNCHANGED <<keyOf, old, code, issued, signing, exchanged, connect, tabId,
                   shown, page, nsec>>

\* The user approves in the signer what tab t shows.  The wait that listens on
\* that connection ends: for every poll that waits on it with success when the
\* connection is still the request's, else with unknown_oauth_request.
Approve(t) ==
    /\ page[t] = "open"
    /\ wait[tabId[t]] = shown[t]
    /\ wait' = [wait EXCEPT ![tabId[t]] = None]
    /\ \/ /\ connect[tabId[t]] = shown[t]
          /\ connect' = [connect EXCEPT ![tabId[t]] = None]
          /\ poll' = PollsAnswered(tabId[t], "approved")
       \/ /\ connect[tabId[t]] # shown[t]
          /\ UNCHANGED connect
          /\ poll' = PollsAnswered(tabId[t], "unknown")
    /\ UNCHANGED <<serverVars, tabId, shown, page, timer, nsec>>

\* The wait fails in the daemon, which forgets it and keeps the connection.
WaitFails(i) ==
    /\ "signer" \in Faults
    /\ wait[i] # None
    /\ wait' = [wait EXCEPT ![i] = None]
    /\ poll' = PollsAnswered(i, "failed")
    /\ UNCHANGED <<serverVars, connect, tabId, shown, page, timer, nsec>>

\* The handler goes on: after success it looks at the request again.
PollSucceeds(t) ==
    /\ poll[t] = "approved"
    /\ \/ IsActive(tabId[t]) /\ IssueCode(tabId[t]) /\ Told(t, "redirect")
       \/ IssueThrows(tabId[t]) /\ Told(t, "pending")
       \/ ~IsActive(tabId[t]) /\ NoCode /\ Told(t, "gone")
    /\ UNCHANGED <<keyOf, old, signing, exchanged, daemonVars, tabId, shown, nsec>>

PollUnknown(t) ==
    /\ poll[t] = "unknown"
    /\ pending' = [pending EXCEPT ![tabId[t]] = IF @ = "open" THEN "closed" ELSE @]
    /\ index' = Unindexed(index, {tabId[t]})
    /\ Told(t, "gone")
    /\ UNCHANGED <<keyOf, old, code, issued, signing, exchanged, daemonVars, tabId,
                   shown, nsec>>

\* The wait failed, or the 180 s of the poll or its call ran out.
PollPending(t) ==
    /\ poll[t] \in {"waiting", "failed"}
    /\ Told(t, "pending")
    /\ UNCHANGED <<serverVars, daemonVars, tabId, shown, nsec>>

-----------------------------------------------------------------------------
(***************************************************************************)
(* POST /oauth/nsec/complete.                                              *)
(***************************************************************************)
SubmitNsec(t) ==
    /\ page[t] = "open" /\ nsec[t] = "none"
    /\ JustSweep
    /\ \/ /\ IsOpen(tabId[t])
          /\ nsec' = [nsec EXCEPT ![t] = "asked"]
          /\ UNCHANGED <<page, timer>>
       \/ ~IsOpen(tabId[t]) /\ ToldNsec(t, "refused")
    /\ UNCHANGED <<keyOf, old, code, issued, signing, exchanged, daemonVars, tabId,
                   shown, poll>>

\* The daemon signs in and drops the request's connection and wait; polls that
\* wait on the old future are left to time out.
Forgotten(i) ==
    /\ connect' = [connect EXCEPT ![i] = None]
    /\ wait' = [wait EXCEPT ![i] = None]

NsecAccepted(t) ==
    /\ nsec[t] = "asked"
    /\ Forgotten(tabId[t])
    /\ \/ IsActive(tabId[t]) /\ IssueCode(tabId[t]) /\ ToldNsec(t, "redirect")
       \/ IssueThrows(tabId[t]) /\ ToldNsec(t, "refused")
       \/ ~IsActive(tabId[t]) /\ NoCode /\ ToldNsec(t, "refused")
    /\ UNCHANGED <<keyOf, old, signing, exchanged, tabId, shown, poll>>

\* A wrong key, or a call that fails before or after the daemon did its part.
NsecRefused(t) ==
    /\ nsec[t] = "asked"
    /\ ToldNsec(t, "refused")
    /\ \/ UNCHANGED daemonVars
       \/ "call" \in Faults /\ Forgotten(tabId[t])
    /\ UNCHANGED <<serverVars, tabId, shown, poll>>

-----------------------------------------------------------------------------
\* GET /oauth/cancel, the page's link.  The daemon is not told.
Cancel(t) ==
    /\ page[t] = "open"
    /\ timer' = timer \ {t}
    /\ \/ /\ IsOpen(tabId[t])
          /\ SweepAndRemove(tabId[t])
          /\ page' = [page EXCEPT ![t] = "cancelled"]
       \/ /\ ~IsOpen(tabId[t])
          /\ JustSweep
          /\ page' = [page EXCEPT ![t] = "expired"]
    /\ UNCHANGED <<keyOf, old, code, issued, signing, exchanged, daemonVars, tabId,
                   shown, poll, nsec>>

-----------------------------------------------------------------------------
(***************************************************************************)
(* POST /oauth/token, authorization_code: the code is deleted before the   *)
(* signature is awaited.                                                   *)
(***************************************************************************)
\* Mutated form of ExchangeBegin: the code lives until the tokens are signed.
ExchangeBeginKeepsCode(i) ==
    /\ \E t \in Tabs : page[t] = "redirected" /\ tabId[t] = i
    /\ code[i] = "live"
    /\ signing[i] < 2
    /\ signing' = [signing EXCEPT ![i] = @ + 1]
    /\ JustSweep
    /\ UNCHANGED <<keyOf, old, code, issued, exchanged, daemonVars, browserVars>>

ExchangeBegin(i) ==
    /\ \E t \in Tabs : page[t] = "redirected" /\ tabId[t] = i
    /\ code[i] = "live"
    /\ code' = [code EXCEPT ![i] = "gone"]
    /\ signing' = [signing EXCEPT ![i] = @ + 1]
    /\ JustSweep
    /\ UNCHANGED <<keyOf, old, issued, exchanged, daemonVars, browserVars>>

\* The tokens go out, or the refresh token cannot be stored: 500.
ExchangeEnd(i) ==
    /\ signing[i] > 0
    /\ signing' = [signing EXCEPT ![i] = @ - 1]
    /\ \/ exchanged' = [exchanged EXCEPT ![i] = @ + 1]
       \/ "write" \in Faults /\ UNCHANGED exchanged
    /\ UNCHANGED <<pending, keyOf, index, old, code, issued, daemonVars,
                   browserVars>>

-----------------------------------------------------------------------------
(***************************************************************************)
(* Time and restarts.                                                      *)
(***************************************************************************)
RequestAges(i) ==
    /\ pending[i] = "open"
    /\ i \notin old
    /\ old' = old \cup {i}
    /\ UNCHANGED <<pending, keyOf, index, code, issued, signing, exchanged,
                   daemonVars, browserVars>>

CodeExpires(i) ==
    /\ code[i] = "live"
    /\ code' = [code EXCEPT ![i] = "gone"]
    /\ UNCHANGED <<pending, keyOf, index, old, issued, signing, exchanged,
                   daemonVars, browserVars>>

\* The calls that wait on the daemon fail, and it forgets its connections.
\* Pages whose request was being answered go back to polling.
DaemonGone(broken) ==
    /\ connect' = [i \in Ids |-> None]
    /\ wait' = [i \in Ids |-> None]
    /\ page' = [t \in Tabs |->
                   IF page[t] \in {"starting", "building"} THEN "failed" ELSE page[t]]
    /\ poll' = [t \in Tabs |-> IF poll[t] \in broken THEN "none" ELSE poll[t]]
    /\ nsec' = [t \in Tabs |-> "none"]
    /\ timer' = timer \cup {t \in Tabs : page[t] = "open"
                                       /\ (poll[t] \in broken \/ nsec[t] = "asked")}
    /\ UNCHANGED <<tabId, shown>>

DaemonExits ==
    /\ "daemon exit" \in Faults
    /\ DaemonGone({"waiting"})
    /\ UNCHANGED serverVars

\* The server's maps live in memory, and the daemon is its child.
ServerRestarts ==
    /\ "restart" \in Faults
    /\ DaemonGone(Polls \ {"none"})
    /\ pending' = [i \in Ids |-> IF pending[i] = "open" THEN "closed" ELSE pending[i]]
    /\ index' = [k \in Keys |-> None]
    /\ code' = [i \in Ids |-> IF code[i] = "live" THEN "gone" ELSE code[i]]
    /\ signing' = [i \in Ids |-> 0]
    /\ UNCHANGED <<keyOf, old, issued, exchanged>>

Next ==
    \/ \E t \in Tabs, k \in Keys : Authorize(t, k)
    \/ \E t \in Tabs :
          \/ StartFinds(t) \/ StartBuilds(t) \/ StartRefused(t) \/ StartThrows(t)
          \/ TimerSkipped(t) \/ PollFails(t) \/ PollWaits(t) \/ Approve(t)
          \/ PollSucceeds(t) \/ PollUnknown(t) \/ PollPending(t)
          \/ SubmitNsec(t) \/ NsecAccepted(t) \/ NsecRefused(t) \/ Cancel(t)
    \/ \E i \in Ids :
          WaitFails(i) \/ ExchangeBegin(i) \/ ExchangeEnd(i) \/ RequestAges(i) \/ CodeExpires(i)
    \/ DaemonExits
    \/ ServerRestarts

Spec == Init /\ [][Next]_vars

(***************************************************************************)
(* Fairness: timers fire, calls to the daemon return or time out, a reply  *)
(* or its loss reaches the page, and ten minutes pass.  Nothing is asked   *)
(* of the user.                                                            *)
(***************************************************************************)
PageFairness(t) ==
    /\ WF_vars(StartFinds(t)) /\ WF_vars(StartBuilds(t))
    /\ WF_vars(TimerSkipped(t)) /\ WF_vars(PollFails(t)) /\ WF_vars(PollWaits(t))
    /\ WF_vars(PollSucceeds(t)) /\ WF_vars(PollUnknown(t)) /\ WF_vars(PollPending(t))
    /\ WF_vars(NsecAccepted(t) \/ NsecRefused(t))

FairSpec ==
    /\ Spec
    /\ \A t \in Tabs : PageFairness(t)
    /\ \A i \in Ids : WF_vars(RequestAges(i))

-----------------------------------------------------------------------------
(***************************************************************************)
(* Properties.                                                             *)
(***************************************************************************)

\* Each authorization request ends once and gives at most one code, which is
\* exchanged at most once, whatever tabs, polls, nsec attempts, retries and
\* restarts do to it (the re-checks after each await of oauth.ts).
Request == INSTANCE LoginRequest WITH status <- pending, codes <- issued,
                                      exchanges <- exchanged
KeepsRequest == Request!LoginRequestSpec

\* authorizationRequestIds never leads an authorize request to a pending
\* authorization that is over or that was opened for another key.
IndexSound ==
    \A k \in Keys : index[k] # None =>
        pending[index[k]] = "open" /\ keyOf[index[k]] = k

\* A page that tells the user its sign-in code is over is right: no later poll
\* or nsec could still complete that request (stopWithExpired).
ExpiredMeansOver ==
    \A t \in Tabs : page[t] = "expired" => pending[tabId[t]] # "open"

\* A page that is left open comes to an end: it redirects, or says that it
\* expired, but does not poll for ever for a request the server has dropped,
\* nor stop polling after an nsec that failed.
LoginEnds == \A t \in Tabs : page[t] = "open" ~> page[t] # "open"
=============================================================================
