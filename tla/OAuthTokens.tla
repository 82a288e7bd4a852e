------------------------------ MODULE OAuthTokens ------------------------------
(***************************************************************************)
(* The persisted half of the MCP server's OAuth endpoints: the registered  *)
(* clients (auth/client-store.ts, POST /oauth/register) and the rotating   *)
(* refresh tokens (auth/refresh-token-store.ts, the refresh_token branch   *)
(* of POST /oauth/token in auth/oauth.ts).                                 *)
(*                                                                         *)
(* Each store is a map in memory and a JSON file that every change         *)
(* rewrites as a whole.  The rewrite is a write to a temporary file and a  *)
(* rename, so a crash leaves the old file or the new one; when it fails    *)
(* the handler throws, Express answers 500, and memory keeps the change    *)
(* (registration alone takes it back).  A handler runs without a break     *)
(* except at "await signAccessToken", where others run.                    *)
(***************************************************************************)
EXTENDS Naturals, FiniteSets

CONSTANTS
    Clients,    \* the clients that may register
    Tokens,     \* the refresh tokens that may be issued: the bound on the run
    Scopes,     \* the scopes the server supports
    Calls,      \* the refresh requests that may wait for a signature at once
    Faults,     \* what may go wrong, a subset of FaultPoints
    None        \* no token

FaultPoints == {"persist", "load", "reply", "crash"}

ASSUME FaultsAssumption == Faults \subseteq FaultPoints
ASSUME NoneAssumption == None \notin Tokens

VARIABLES
    \* client-store.ts
    clients,        \* registeredClients
    clientsDisk,    \* oauth-clients.json
    acked,          \* the clients that were answered 201
    clientsLost,    \* a start of the server could not read the file
    \* refresh-token-store.ts
    family,         \* the family of each issued token, its first token
    owner,          \* the client of each issued token
    scope,          \* the scope of each issued token
    mem,            \* refreshTokens: what a lookup would say of each token
    disk,           \* oauth-refresh-tokens.json
    expired,        \* tokens past their expiresAt
    \* oauth.ts
    sign,           \* the token each waiting request has consumed
    signScope,      \* the scope it asked for
    \* The clients' side.
    known,          \* the tokens that reached their client
    rotations,      \* how many successors each token was given
    hurt            \* families that met a lost reply, a failed write, a crash
                    \* in their rotation, a reused token or expiry

clientVars == <<clients, clientsDisk, acked, clientsLost>>
issueVars  == <<family, owner, scope>>
vars == <<clients, clientsDisk, acked, clientsLost, family, owner, scope, mem,
          disk, expired, sign, signScope, known, rotations, hurt>>

\* A revoked token that was consumed before is "revoked": a lookup asks for
\* revocation first and nothing else tells the two apart.
Status == {"absent", "live", "consumed", "revoked"}

TypeOK ==
    /\ clients \subseteq Clients
    /\ clientsDisk \subseteq Clients
    /\ acked \subseteq Clients
    /\ clientsLost \in BOOLEAN
    /\ family \in [Tokens -> Tokens \cup {None}]
    /\ owner \in [Tokens -> Clients \cup {None}]
    /\ scope \in [Tokens -> SUBSET Scopes]
    /\ mem \in [Tokens -> Status]
    /\ disk \in [Tokens -> Status]
    /\ expired \subseteq Tokens
    /\ sign \in [Calls -> Tokens \cup {None}]
    /\ signScope \in [Calls -> SUBSET Scopes]
    /\ known \subseteq Tokens
    /\ rotations \in [Tokens -> Nat]
    /\ hurt \subseteq Tokens

Issued == {t \in Tokens : family[t] # None}
Kin(t) == {u \in Issued : family[u] = family[t]}

Init ==
    /\ clients = {}
    /\ clientsDisk = {}
    /\ acked = {}
    /\ clientsLost = FALSE
    /\ family = [t \in Tokens |-> None]
    /\ owner = [t \in Tokens |-> None]
    /\ scope = [t \in Tokens |-> {}]
    /\ mem = [t \in Tokens |-> "absent"]
    /\ disk = [t \in Tokens |-> "absent"]
    /\ expired = {}
    /\ sign = [c \in Calls |-> None]
    /\ signScope = [c \in Calls |-> {}]
    /\ known = {}
    /\ rotations = [t \in Tokens |-> 0]
    /\ hurt = {}

-----------------------------------------------------------------------------
\* saveRegisteredClientsAtomic.
ClientsWritten == clientsDisk' = clients'

(***************************************************************************)
(* POST /oauth/register.  The client is in memory before the file is       *)
(* written and is taken out again when the write fails.                    *)
(***************************************************************************)
Register(cl) ==
    /\ cl \notin acked \cup clients
    /\ \/ /\ clients' = clients \cup {cl}
          /\ ClientsWritten
          /\ acked' = acked \cup {cl}
       \/ /\ "persist" \in Faults
          /\ UNCHANGED <<clients, clientsDisk, acked>>
    /\ UNCHANGED <<clientsLost, issueVars, mem, disk, expired, sign, signScope,
                   known, rotations, hurt>>

-----------------------------------------------------------------------------
(***************************************************************************)
(* RefreshTokenStore.                                                      *)
(***************************************************************************)

\* The map with token t live, as issue() leaves it in memory.
WithLive(t) == [mem EXCEPT ![t] = "live"]

\* Mutated form of WithConsumed: the token is only marked for later.
WithNothingConsumed(t) == mem

\* consume() of a token that lookup() called valid.
WithConsumed(t) == [mem EXCEPT ![t] = "consumed"]

\* Mutated form of WithRevoked: every token of the same client is revoked.
WithClientRevoked(t) ==
    [u \in Tokens |-> IF owner[u] = owner[t] /\ mem[u] # "absent" THEN "revoked" ELSE mem[u]]

\* revokeFamily() of the family of token t.
WithRevoked(t) ==
    [u \in Tokens |-> IF u \in Kin(t) /\ mem[u] # "absent" THEN "revoked" ELSE mem[u]]

\* Memory changes and the file follows.
Saved(m) == mem' = m /\ disk' = m

\* Memory changes and the write fails: the handler throws.
NotSaved(m) == "persist" \in Faults /\ mem' = m /\ UNCHANGED disk

\* A new record under the next free id.
NewToken(t, f, cl, s) ==
    /\ family[t] = None
    /\ family' = [family EXCEPT ![t] = f]
    /\ owner' = [owner EXCEPT ![t] = cl]
    /\ scope' = [scope EXCEPT ![t] = s]

\* The reply with the new token arrives, or is lost on its way.
Replied(t) ==
    \/ known' = known \cup {t} /\ UNCHANGED hurt
    \/ "reply" \in Faults /\ UNCHANGED known /\ hurt' = hurt \cup {family'[t]}

\* The write failed: the client is answered 500 and never learns the token.
Unreplied(t) == UNCHANGED known /\ hurt' = hurt \cup {family'[t]}

-----------------------------------------------------------------------------
(***************************************************************************)
(* POST /oauth/token, authorization_code: the first token of a family, for *)
(* a code that OAuthLogin redeems.                                         *)
(***************************************************************************)
Grant(cl, t) ==
    /\ cl \in clients
    /\ NewToken(t, t, cl, Scopes)
    /\ \/ Saved(WithLive(t)) /\ Replied(t)
       \/ NotSaved(WithLive(t)) /\ Unreplied(t)
    /\ UNCHANGED <<clientVars, expired, sign, signScope, rotations>>

-----------------------------------------------------------------------------
(***************************************************************************)
(* POST /oauth/token, refresh_token: a client sends a token it was given,  *)
(* the newest or, as a retry, an older one.                                *)
(***************************************************************************)

\* lookup() says consumed or revoked: the whole family is revoked.
RefreshReused(t) ==
    /\ t \in known
    /\ mem[t] \in {"consumed", "revoked"}
    /\ Saved(WithRevoked(t)) \/ NotSaved(WithRevoked(t))
    /\ hurt' = hurt \cup {family[t]}
    /\ UNCHANGED <<clientVars, issueVars, expired, sign, signScope, known, rotations>>

\* clientAllowsScopes and scopeIsSubset: what is asked for, s, is nothing the
\* server does not support (every client registers for all of it) and nothing
\* the token was not issued with.
WithinScope(s, t) == s \subseteq Scopes \cap scope[t]

\* lookup() says valid and the request is within the token's bounds.  Then
\* consume() in the same breath cannot fail to find it, and signing begins.
MayRefresh(t, s) ==
    /\ t \in known
    /\ mem[t] = "live"
    /\ t \notin expired
    /\ owner[t] \in clients
    /\ WithinScope(s, t)

\* Mutated form of RefreshBegin: the consumed token is left to the next write.
RefreshBeginUnwritten(c, t, s) ==
    /\ sign[c] = None
    /\ MayRefresh(t, s)
    /\ mem' = WithConsumed(t)
    /\ sign' = [sign EXCEPT ![c] = t]
    /\ signScope' = [signScope EXCEPT ![c] = s]
    /\ UNCHANGED <<clientVars, issueVars, disk, expired, known, rotations, hurt>>

RefreshBegin(c, t, s) ==
    /\ sign[c] = None
    /\ MayRefresh(t, s)
    /\ \/ /\ Saved(WithConsumed(t))
          /\ sign' = [sign EXCEPT ![c] = t]
          /\ signScope' = [signScope EXCEPT ![c] = s]
          /\ UNCHANGED hurt
       \/ /\ NotSaved(WithConsumed(t))
          /\ hurt' = hurt \cup {family[t]}
          /\ UNCHANGED <<sign, signScope>>
    /\ UNCHANGED <<clientVars, issueVars, expired, known, rotations>>

\* signAccessToken resolves; the successor joins the family.
RefreshEnd(c, n) ==
    /\ sign[c] # None
    /\ NewToken(n, family[sign[c]], owner[sign[c]], signScope[c])
    /\ \/ Saved(WithLive(n)) /\ Replied(n)
       \/ NotSaved(WithLive(n)) /\ Unreplied(n)
    /\ rotations' = [rotations EXCEPT ![sign[c]] = @ + 1]
    /\ sign' = [sign EXCEPT ![c] = None]
    /\ signScope' = [signScope EXCEPT ![c] = {}]
    /\ UNCHANGED <<clientVars, expired>>

-----------------------------------------------------------------------------
\* A token's time runs out.
Expire(t) ==
    /\ mem[t] = "live"
    /\ t \notin expired
    /\ expired' = expired \cup {t}
    /\ hurt' = hurt \cup {family[t]}
    /\ UNCHANGED <<clientVars, issueVars, mem, disk, sign, signScope, known, rotations>>

\* A store whose file cannot be read is marked as loaded before the read
\* throws, so it stays empty.
TokensLoaded ==
    \/ mem' = disk
    \/ "load" \in Faults /\ mem' = [t \in Tokens |-> "absent"]

ClientsLoaded ==
    \/ clients' = clientsDisk /\ UNCHANGED clientsLost
    \/ "load" \in Faults /\ clients' = {} /\ clientsLost' = TRUE

\* The server stops and starts again.
Restart ==
    /\ "crash" \in Faults
    /\ TokensLoaded
    /\ ClientsLoaded
    /\ hurt' = hurt \cup {family[t] : t \in {u \in Issued : mem'[u] # mem[u]}}
                    \cup {family[sign[c]] : c \in {d \in Calls : sign[d] # None}}
    /\ sign' = [c \in Calls |-> None]
    /\ signScope' = [c \in Calls |-> {}]
    /\ UNCHANGED <<clientsDisk, acked, issueVars, disk, expired, known, rotations>>

Next ==
    \/ \E cl \in Clients : Register(cl)
    \/ \E cl \in Clients, t \in Tokens : Grant(cl, t)
    \/ \E t \in Tokens : RefreshReused(t)
    \/ \E c \in Calls, t \in Tokens, s \in SUBSET Scopes : RefreshBegin(c, t, s)
    \/ \E c \in Calls, n \in Tokens : RefreshEnd(c, n)
    \/ \E t \in Tokens : Expire(t)
    \/ Restart

Spec == Init /\ [][Next]_vars

-----------------------------------------------------------------------------
(***************************************************************************)
(* Properties.                                                             *)
(***************************************************************************)

\* A family never has two tokens that would be accepted, in memory or in the
\* file a restart reads: rotation consumes the old token before it signs and
\* issues the new one after (oauth.ts, refresh_token branch).
OneLivePerFamily ==
    \A t, u \in Issued : family[t] = family[u] /\ t # u =>
        /\ ~(mem[t] = "live" /\ mem[u] = "live")
        /\ ~(disk[t] = "live" /\ disk[u] = "live")

\* A token is never traded for two successors, not even by a retry after a
\* crash: consume() is in the file before the signature is asked for.
RotatedOnce == \A t \in Tokens : rotations[t] <= 1

\* A client whose family met no accident can always refresh: it holds a token
\* the server accepts, or its one request is being answered.  What happens to
\* other families (a reused token, a failed write) is not its concern.
NotStranded ==
    ~clientsLost =>
        \A f \in Issued \ hurt : family[f] = f =>
            \/ \E t \in Kin(f) : MayRefresh(t, {})
            \/ \E c \in Calls : sign[c] \in Kin(f)

\* No token of a family may do more than the one before it could: a narrower
\* scope, once asked for, is never widened again by a later refresh.
ScopesNarrow ==
    [][\A n \in Tokens : family[n] = None /\ family'[n] \notin {None, n} =>
          \A t \in Kin(family'[n]) : scope'[n] \subseteq scope[t]]_vars

\* A client that was answered 201 survives restarts and failed registrations
\* of others, as long as every start could read the file: a start that could
\* not lets the next registration overwrite it.
ClientsKept == ~clientsLost => acked \subseteq clients \cap clientsDisk
=============================================================================
