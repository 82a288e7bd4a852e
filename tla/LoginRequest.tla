------------------------------ MODULE LoginRequest ------------------------------
(***************************************************************************)
(* What the authorization-code half of the MCP server's OAuth promises of  *)
(* each authorization request: it is opened once, it ends once, either     *)
(* with one code or with none, and the code is exchanged at most once.     *)
(* Several requests may end in one step, because every endpoint begins by  *)
(* sweeping the expired ones.                                              *)
(***************************************************************************)
EXTENDS Naturals

CONSTANT Ids                \* the requests

VARIABLES
    status,                 \* "unused", "open", "granted" or "closed"
    codes,                  \* how many codes each request was given
    exchanges               \* how often its code was exchanged for tokens

LoginRequestInit ==
    /\ status = [i \in Ids |-> "unused"]
    /\ codes = [i \in Ids |-> 0]
    /\ exchanges = [i \in Ids |-> 0]

\* The requests of C end without a code.
Closed(C) == [i \in Ids |-> IF i \in C THEN "closed" ELSE status[i]]

OpenRequests == {i \in Ids : status[i] = "open"}

Open(i, C) ==
    /\ status[i] = "unused"
    /\ status' = [Closed(C) EXCEPT ![i] = "open"]
    /\ UNCHANGED <<codes, exchanges>>

Close(C) ==
    /\ status' = Closed(C)
    /\ UNCHANGED <<codes, exchanges>>

GrantCode(i) ==
    /\ status[i] = "open"
    /\ status' = [status EXCEPT ![i] = "granted"]
    /\ codes' = [codes EXCEPT ![i] = @ + 1]
    /\ UNCHANGED exchanges

Exchange(i) ==
    /\ exchanges[i] < codes[i]
    /\ exchanges' = [exchanges EXCEPT ![i] = @ + 1]
    /\ UNCHANGED <<status, codes>>

LoginRequestNext ==
    \/ \E C \in SUBSET OpenRequests : Close(C) \/ \E i \in Ids : Open(i, C)
    \/ \E i \in Ids : GrantCode(i) \/ Exchange(i)

LoginRequestSpec ==
    LoginRequestInit /\ [][LoginRequestNext]_<<status, codes, exchanges>>
=============================================================================
