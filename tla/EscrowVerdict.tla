----------------------------- MODULE EscrowVerdict -----------------------------
(***************************************************************************)
(* What the escrow promises about a trade, whatever crashes, retries or    *)
(* lost calls lie behind it: a trade is ruled on at most once, the ruling  *)
(* is made on evidence that exists when it is made, and it is final once   *)
(* published.  A ruling that was made but not yet published may be lost,   *)
(* and is then made again from the evidence.                               *)
(***************************************************************************)
EXTENDS OrderGroups

CONSTANT Trades

VARIABLES
    funding,   \* what the escrow contract holds: "pending", "funded", "short"
    terms,     \* [autoAccept, proof] of the trade's listing and order
    hostActed, \* the seller has published an order of its own
    ruling     \* what the escrow has made of the trade

vars == <<funding, terms, hostActed, ruling>>

Fundings   == {"pending", "funded", "short"}
TradeTerms == [autoAccept : BOOLEAN, proof : Proofs]
Rulings    == {"open", "approving", "rejecting", "confirmed", "cancelled"}

TypeOK ==
    /\ funding \in [Trades -> Fundings]
    /\ terms \in [Trades -> TradeTerms]
    /\ hostActed \in [Trades -> BOOLEAN]
    /\ ruling \in [Trades -> Rulings]

Init ==
    /\ funding = [t \in Trades |-> "pending"]
    /\ terms \in [Trades -> TradeTerms]
    /\ hostActed = [t \in Trades |-> FALSE]
    /\ ruling = [t \in Trades |-> "open"]

Fund(t) ==
    /\ funding[t] = "pending"
    /\ \E f \in {"funded", "short"} : funding' = [funding EXCEPT ![t] = f]
    /\ UNCHANGED <<terms, hostActed, ruling>>

HostActs(t) ==
    /\ ~hostActed[t]
    /\ hostActed' = [hostActed EXCEPT ![t] = TRUE]
    /\ UNCHANGED <<funding, terms, ruling>>

\* An approval needs the money in escrow and the seller's agreement.
Approve(t) ==
    /\ ruling[t] = "open"
    /\ funding[t] = "funded"
    /\ terms[t].proof = "escrow"
    /\ terms[t].autoAccept \/ hostActed[t]
    /\ ruling' = [ruling EXCEPT ![t] = "approving"]
    /\ UNCHANGED <<funding, terms, hostActed>>

\* A rejection needs an order that claims this escrow's protection, and a
\* reason that no later event can remove.
Reject(t) ==
    /\ ruling[t] = "open"
    /\ HasEscrowProof(terms[t].proof)
    /\ \/ funding[t] = "short"
       \/ ~WellFormed(terms[t].proof)
       \/ ~terms[t].autoAccept
    /\ ruling' = [ruling EXCEPT ![t] = "rejecting"]
    /\ UNCHANGED <<funding, terms, hostActed>>

Publish(t) ==
    /\ \/ /\ ruling[t] = "approving"
          /\ ruling' = [ruling EXCEPT ![t] = "confirmed"]
       \/ /\ ruling[t] = "rejecting"
          /\ ruling' = [ruling EXCEPT ![t] = "cancelled"]
    /\ UNCHANGED <<funding, terms, hostActed>>

\* A crash or an error forgets what was decided but not published.
Forget(S) ==
    /\ \A t \in S : ruling[t] \in {"approving", "rejecting"}
    /\ ruling' = [t \in Trades |-> IF t \in S THEN "open" ELSE ruling[t]]
    /\ UNCHANGED <<funding, terms, hostActed>>

Next ==
    \/ \E t \in Trades : Fund(t) \/ HostActs(t) \/ Approve(t) \/ Reject(t) \/ Publish(t)
    \/ \E S \in SUBSET Trades : Forget(S)

Spec == Init /\ [][Next]_vars
=============================================================================
