-------------------------------- MODULE Uploads --------------------------------
(***************************************************************************)
(* The image upload endpoint of the MCP server (http/uploads.ts), on top   *)
(* of the daemon client.  The calls of other users of the client do what   *)
(* those of a second upload do, so none are added.                         *)
(*                                                                         *)
(* A request is identified, counted against a sliding window, read, handed *)
(* to the daemon when it has an account, and put on the Blossom server     *)
(* directly when it has none or when the daemon did not deliver.           *)
(***************************************************************************)
EXTENDS DaemonClient

CONSTANTS
    Images,     \* the upload requests, all from one address
    Window,     \* uploadRateLimitWindowMs, in ticks
    MaxHits,    \* how many requests of each class a window admits
    LastTick    \* bound of the clock

Classes == {"auth", "anon"}

ASSUME WindowAssumption == Window \in Nat \ {0}
ASSUME MaxHitsAssumption == MaxHits \in [Classes -> Nat \ {0}]
ASSUME LastTickAssumption == LastTick \in Nat

VARIABLES
    now,        \* Date.now()
    hits,       \* uploadRateLimitHits: the requests whose time each class keeps
    stage,      \* where the handler is with each request
    class,      \* the class each request was counted in
    admitted,   \* when each request was let in
    call,       \* the daemon call made for it, 0 for none
    put         \* requests whose bytes Blossom stored directly

uploadVars == <<now, hits, stage, class, admitted, call, put>>
vars == <<daemonVars, uploadVars>>

Stages == {"new", "reading", "daemon", "direct", "ok", "failed", "limited"}

TypeOK ==
    /\ DaemonTypeOK
    /\ now \in 0..LastTick
    /\ hits \in [Classes -> SUBSET Images]
    /\ stage \in [Images -> Stages]
    /\ class \in [Images -> Classes \cup {"none"}]
    /\ admitted \in [Images -> 0..LastTick]
    /\ call \in [Images -> Calls \cup {0}]
    /\ put \subseteq Images

Init ==
    /\ DaemonInit
    /\ now = 0
    /\ hits = [k \in Classes |-> {}]
    /\ stage = [i \in Images |-> "new"]
    /\ class = [i \in Images |-> "none"]
    /\ admitted = [i \in Images |-> 0]
    /\ call = [i \in Images |-> 0]
    /\ put = {}

-----------------------------------------------------------------------------
\* Mutated form of Counting: a hit is dropped one tick early.
CountingShort(k) == {i \in hits[k] : now - admitted[i] < Window - 1}

\* The hits of class k that still count.
Counting(k) == {i \in hits[k] : now - admitted[i] < Window}

\* uploadRateLimitExceeded.
Exceeded(k) == Cardinality(Counting(k)) >= MaxHits[k]

\* handleImageUpload up to its first await on the body: a token whose session
\* has an active account makes the class "auth".
Arrive(i) ==
    /\ stage[i] = "new"
    /\ \E k \in Classes :
        /\ class' = [class EXCEPT ![i] = k]
        /\ \/ /\ Exceeded(k)
              /\ hits' = [hits EXCEPT ![k] = Counting(k)]
              /\ stage' = [stage EXCEPT ![i] = "limited"]
              /\ UNCHANGED admitted
           \/ /\ ~Exceeded(k)
              /\ hits' = [hits EXCEPT ![k] = Counting(k) \cup {i}]
              /\ stage' = [stage EXCEPT ![i] = "reading"]
              /\ admitted' = [admitted EXCEPT ![i] = now]
    /\ UNCHANGED <<daemonVars, now, call, put>>

\* The body does not parse, is too large, or its sender went away.
BadBody(i) ==
    /\ stage[i] = "reading"
    /\ stage' = [stage EXCEPT ![i] = "failed"]
    /\ UNCHANGED <<daemonVars, now, hits, class, admitted, call, put>>

\* The body is there: the daemon uploads it for an account.
ToDaemon(i) ==
    /\ stage[i] = "reading"
    /\ class[i] = "auth"
    /\ stage' = [stage EXCEPT ![i] = "daemon"]
    /\ \E c \in Calls : Request(c) /\ call' = [call EXCEPT ![i] = c]
    /\ UNCHANGED <<now, hits, class, admitted, put>>

\* Mutated form of Fallback: only an answer of the daemon leads to it.
FallbackOnAnswer(i) ==
    /\ \/ stage[i] = "reading" /\ class[i] = "anon"
       \/ stage[i] = "daemon" /\ outcome[call[i]] \in {"ok", "error"}
    /\ stage' = [stage EXCEPT ![i] = "direct"]
    /\ UNCHANGED <<daemonVars, now, hits, class, admitted, call, put>>

\* uploadImageWithBestAvailableAuth: whatever the daemon made of it, an
\* upload without a usable answer goes to Blossom directly.
Fallback(i) ==
    /\ \/ stage[i] = "reading" /\ class[i] = "anon"
       \/ stage[i] = "daemon" /\ outcome[call[i]] \in Settled
    /\ stage' = [stage EXCEPT ![i] = "direct"]
    /\ UNCHANGED <<daemonVars, now, hits, class, admitted, call, put>>

\* Mutated form of DaemonDelivered: a call that was answered has delivered.
DaemonAnswered(i) ==
    /\ stage[i] = "daemon"
    /\ outcome[call[i]] \in {"ok", "error"}
    /\ stage' = [stage EXCEPT ![i] = "ok"]
    /\ UNCHANGED <<daemonVars, now, hits, class, admitted, call, put>>

DaemonDelivered(i) ==
    /\ stage[i] = "daemon"
    /\ outcome[call[i]] = "ok"
    /\ stage' = [stage EXCEPT ![i] = "ok"]
    /\ UNCHANGED <<daemonVars, now, hits, class, admitted, call, put>>

\* uploadToBlossom returns: with the descriptor of what is stored, or with an
\* error, an unreadable answer or an abort after 60 s (what is stored then,
\* nobody was promised).
DirectEnds(i) ==
    /\ stage[i] = "direct"
    /\ \/ stage' = [stage EXCEPT ![i] = "ok"] /\ put' = put \cup {i}
       \/ stage' = [stage EXCEPT ![i] = "failed"] /\ UNCHANGED put
    /\ UNCHANGED <<daemonVars, now, hits, class, admitted, call>>

\* Only arrivals read the clock, so it stops with the last of them.
Tick ==
    /\ now < LastTick
    /\ \E i \in Images : stage[i] = "new"
    /\ now' = now + 1
    /\ UNCHANGED <<daemonVars, hits, stage, class, admitted, call, put>>

Upload(i) ==
    Arrive(i) \/ BadBody(i) \/ ToDaemon(i) \/ Fallback(i) \/ DaemonDelivered(i)
    \/ DirectEnds(i)

DaemonMoves == DaemonStep /\ UNCHANGED uploadVars

Next == (\E i \in Images : Upload(i)) \/ DaemonMoves \/ Tick

Spec == Init /\ [][Next]_vars

\* Timers fire (the call's, the abort's and the server's requestTimeout) and
\* a continuation whose promise is settled runs.
Fairness ==
    /\ \A c \in Calls : WF_vars(Timeout(c) /\ UNCHANGED uploadVars)
    /\ \A i \in Images : /\ WF_vars(BadBody(i))
                         /\ WF_vars(Fallback(i))
                         /\ WF_vars(DirectEnds(i))

FairSpec == Spec /\ Fairness

-----------------------------------------------------------------------------
(***************************************************************************)
(* Properties.                                                             *)
(***************************************************************************)

\* A sender that is told "ok" has its image on a Blossom server, put there
\* directly or by the daemon, over timeouts, lost children and fallbacks.
OkMeansStored ==
    \A i \in Images : stage[i] = "ok" => i \in put \/ call[i] \in effect

\* No window of ten minutes, wherever it starts, admits more requests of a
\* class than its limit.
RateBound ==
    \A k \in Classes, t \in 0..LastTick :
        Cardinality({i \in Images : /\ class[i] = k
                                    /\ stage[i] \notin {"new", "limited"}
                                    /\ admitted[i] \in t..(t + Window - 1)}) <= MaxHits[k]

\* Every request that was let in is answered.
UploadEnds == \A i \in Images : stage[i] = "reading" ~> stage[i] \in {"ok", "failed"}
=============================================================================
