------------------------------ MODULE SignerNotices ------------------------------
(***************************************************************************)
(* How a request that waits in a user's Nostr signer becomes known to the  *)
(* conversation whose tool call waits for it: the daemon's                 *)
(* SignerRequestNotificationBridge (hostr_daemon.dart), the lines of its   *)
(* notifications, and the listener each tool call keeps in mcp/server.ts,  *)
(* which puts the request among the notices of its answer and asks the     *)
(* user with a form (an elicitation) while the call still runs.            *)
(*                                                                         *)
(* Notifications and answers share the daemon's output and keep their      *)
(* order on it.  Several calls of one account run at once, and each is     *)
(* told of the requests of all of them.                                    *)
(***************************************************************************)
EXTENDS FiniteSets, Sequences, SequencesExt

CONSTANTS
    Calls,      \* tool calls, each with a notification token of its own
    Accounts,   \* the accounts whose signers are asked
    Requests,   \* the requests that are raised, under ids of their own
    Quiet,      \* those of a kind nobody waits for (_nonBlockingSignerRequestEventKinds)
    None        \* no account

ASSUME QuietAssumption == Quiet \subseteq Requests
ASSUME NoneAssumption == None \notin Accounts
ASSUME FiniteAssumption == IsFiniteSet(Calls) /\ IsFiniteSet(Requests)

VARIABLES
    \* The daemon.
    work,       \* where the daemon is with each call
    attached,   \* accounts whose signer the bridge listens to
    raised,     \* the account each request was raised for
    open,       \* requests that are pending in a signer
    seen,       \* _seenRequestIds of an account
    tokens,     \* _operationTokens: the calls that are told
    out,        \* lines on their way to the server
    owed,       \* requests the bridge saw while the call's action ran
    \* The server.
    account,    \* the account each call was made for
    pc,         \* where the handler of each call is
    notices,    \* criticalNotices of each call
    forms,      \* forms that are shown, each by a call for a request
    inFlight    \* hostrElicitationsInFlight

vars == <<work, attached, raised, open, seen, tokens, out, owed, account, pc, notices, forms,
          inFlight>>
signerSide == <<attached, raised, open, seen>>
serverSide == <<account, pc, notices, forms, inFlight>>

Notice(c, r) == [call |-> c, says |-> "signer", request |-> {r}]
Answer(c) == [call |-> c, says |-> "answer", request |-> {}]

TypeOK ==
    /\ work \in [Calls -> {"none", "queued", "running", "done"}]
    /\ attached \subseteq Accounts
    /\ raised \in [Requests -> Accounts \cup {None}]
    /\ open \subseteq Requests
    /\ seen \in [Accounts -> SUBSET Requests]
    /\ tokens \subseteq Calls
    /\ out \in Seq([call : Calls, says : {"signer", "answer"}, request : SUBSET Requests])
    /\ owed \in [Calls -> SUBSET Requests]
    /\ account \in [Calls -> Accounts \cup {None}]
    /\ pc \in [Calls -> {"idle", "waiting", "answered", "gave up"}]
    /\ notices \in [Calls -> Seq(Requests)]
    /\ forms \subseteq [call : Calls, request : Requests]
    /\ inFlight \subseteq Requests

Init ==
    /\ work = [c \in Calls |-> "none"]
    /\ attached = {}
    /\ raised = [r \in Requests |-> None]
    /\ open = {}
    /\ seen = [a \in Accounts |-> {}]
    /\ tokens = {}
    /\ out = <<>>
    /\ owed = [c \in Calls |-> {}]
    /\ account = [c \in Calls |-> None]
    /\ pc = [c \in Calls |-> "idle"]
    /\ notices = [c \in Calls |-> <<>>]
    /\ forms = {}
    /\ inFlight = {}

OpenOf(a) == {r \in open : raised[r] = a}
TokensOf(a) == {c \in tokens : account[c] = a}

-----------------------------------------------------------------------------
(***************************************************************************)
(* A tool call.                                                            *)
(***************************************************************************)

\* The handler listens before it calls the daemon.
Call(c, a) ==
    /\ pc[c] = "idle"
    /\ pc' = [pc EXCEPT ![c] = "waiting"]
    /\ account' = [account EXCEPT ![c] = a]
    /\ work' = [work EXCEPT ![c] = "queued"]
    /\ UNCHANGED <<signerSide, tokens, out, owed, notices, forms, inFlight>>

\* _callInitializedSession: attachSession and addOperation.  What is pending
\* when the bridge begins to listen counts as seen.
Begins(c) ==
    /\ work[c] = "queued"
    /\ work' = [work EXCEPT ![c] = "running"]
    /\ LET a == account[c] IN
        /\ attached' = attached \cup {a}
        /\ seen' = IF a \in attached THEN seen ELSE [seen EXCEPT ![a] = OpenOf(a)]
    /\ tokens' = tokens \cup {c}
    /\ UNCHANGED <<raised, open, out, owed, serverSide>>

\* The action has ended.  bookAndPay may go on after its answer
\* (continuesInBackground), and its token stays as long.
Ends(c) ==
    /\ work[c] = "running"
    /\ work' = [work EXCEPT ![c] = "done"]
    /\ out' = Append(out, Answer(c))
    /\ tokens' \in {tokens, tokens \ {c}}
    /\ UNCHANGED <<signerSide, owed, serverSide>>

\* cleanup() of a booking that went on.
BackgroundEnds(c) ==
    /\ work[c] = "done" /\ c \in tokens
    /\ tokens' = tokens \ {c}
    /\ UNCHANGED <<work, signerSide, out, owed, serverSide>>

\* The call times out, and the handler stops listening.
GivesUp(c) ==
    /\ pc[c] = "waiting"
    /\ pc' = [pc EXCEPT ![c] = "gave up"]
    /\ UNCHANGED <<work, signerSide, tokens, out, owed, account, notices, forms, inFlight>>

-----------------------------------------------------------------------------
(***************************************************************************)
(* The signer.                                                             *)
(***************************************************************************)

\* Mutated form of Told: one call of the account is told.
ToldToOne(a, r) ==
    IF TokensOf(a) = {} \/ r \in Quiet THEN {} ELSE {CHOOSE c \in TokensOf(a) : TRUE}

\* Every call of the account is told, unless nobody waits for the request.
Told(a, r) ==
    IF r \in Quiet THEN {} ELSE TokensOf(a)

\* The lines for the requests the bridge had not seen, in some order.
Lines(a, fresh) == SetToSeq(UNION {{Notice(c, r) : c \in Told(a, r)} : r \in fresh})

\* A request is raised, by a call that runs or by the account's background
\* work.  The bridge knows what it has seen (_handlePendingRequests).
Raise(r, a) ==
    /\ raised[r] = None
    /\ raised' = [raised EXCEPT ![r] = a]
    /\ open' = open \cup {r}
    /\ IF a \in attached
       THEN LET fresh == (OpenOf(a) \cup {r}) \ seen[a] IN
            /\ seen' = [seen EXCEPT ![a] = OpenOf(a) \cup {r}]
            /\ out' = out \o Lines(a, fresh)
            /\ owed' = [c \in Calls |-> IF c \in TokensOf(a) /\ work[c] = "running"
                                         THEN owed[c] \cup ({r} \ Quiet) ELSE owed[c]]
       ELSE UNCHANGED <<seen, out, owed>>
    /\ UNCHANGED <<work, attached, tokens, serverSide>>

\* The user approves it, or refuses.
Settle(r) ==
    /\ r \in open
    /\ open' = open \ {r}
    /\ seen' = IF raised[r] \in attached
               THEN [seen EXCEPT ![raised[r]] = OpenOf(raised[r]) \ {r}] ELSE seen
    /\ UNCHANGED <<work, attached, raised, tokens, out, owed, serverSide>>

-----------------------------------------------------------------------------
(***************************************************************************)
(* The server reads a line.                                                *)
(***************************************************************************)

\* Mutated form of Listeners: a handler takes the notices of every call.
EveryListener(line) == {c \in Calls : pc[c] = "waiting"}

\* A handler takes the notices with its own token, while it listens.
Listeners(line) == {c \in Calls : c = line.call /\ pc[c] = "waiting"}

\* Mutated form of Asks: a request may be asked about twice.
AsksAgain(c, r) ==
    \/ forms' = forms \cup {[call |-> c, request |-> r]} /\ inFlight' = inFlight \cup {r}
    \/ UNCHANGED <<forms, inFlight>>

\* sendHostrElicitation: where the client can show forms, and no form for the
\* request is shown by any call.
Asks(c, r) ==
    \/ /\ r \notin inFlight
       /\ forms' = forms \cup {[call |-> c, request |-> r]}
       /\ inFlight' = inFlight \cup {r}
    \/ UNCHANGED <<forms, inFlight>>

Noticed(c, r) == r \in ToSet(notices[c])

ReadNotice ==
    /\ out # <<>> /\ Head(out).says = "signer"
    /\ out' = Tail(out)
    /\ \E r \in Head(out).request :
        LET fresh == {c \in Listeners(Head(out)) : ~Noticed(c, r)} IN
        /\ notices' = [c \in Calls |-> IF c \in fresh THEN Append(notices[c], r)
                                        ELSE notices[c]]
        /\ IF fresh = {} THEN UNCHANGED <<forms, inFlight>> ELSE \E c \in fresh : Asks(c, r)
    /\ UNCHANGED <<work, signerSide, tokens, owed, account, pc>>

\* The answer goes out with the notices so far.
ReadAnswer ==
    /\ out # <<>> /\ Head(out).says = "answer"
    /\ out' = Tail(out)
    /\ LET c == Head(out).call IN
        pc' = [pc EXCEPT ![c] = IF @ = "waiting" THEN "answered" ELSE @]
    /\ UNCHANGED <<work, signerSide, tokens, owed, account, notices, forms, inFlight>>

\* The user answers a form, or it times out (hostrElicitationTimeoutMs).
FormEnds(f) ==
    /\ f \in forms
    /\ forms' = forms \ {f}
    /\ inFlight' = inFlight \ {f.request}
    /\ UNCHANGED <<work, signerSide, tokens, out, owed, account, pc, notices>>

Next ==
    \/ \E c \in Calls : Begins(c) \/ Ends(c) \/ BackgroundEnds(c) \/ GivesUp(c)
    \/ \E c \in Calls, a \in Accounts : Call(c, a)
    \/ \E r \in Requests, a \in Accounts : Raise(r, a)
    \/ \E r \in Requests : Settle(r)
    \/ ReadNotice \/ ReadAnswer
    \/ \E f \in forms : FormEnds(f)

Spec == Init /\ [][Next]_vars

-----------------------------------------------------------------------------
(***************************************************************************)
(* Properties.                                                             *)
(***************************************************************************)

\* A conversation hears of the signer requests of its own account only.
OwnRequests == \A c \in Calls : \A r \in ToSet(notices[c]) : raised[r] = account[c]

\* An answer tells, once each, every request that was raised for its account
\* while its action ran: none is still on its way, or taken for seen, when
\* the answer goes out.
AnswerTellsAll ==
    \A c \in Calls : pc[c] = "answered" =>
        owed[c] \subseteq ToSet(notices[c]) /\ IsInjective(notices[c])

\* The user has at most one form open for a request, however many calls wait
\* for it, and it is counted as shown until it ends.
OneForm ==
    /\ \A f, g \in forms : f.request = g.request => f = g
    /\ inFlight = {f.request : f \in forms}
=============================================================================
