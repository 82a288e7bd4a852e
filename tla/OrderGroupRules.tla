----------------------------- MODULE OrderGroupRules -----------------------------
(***************************************************************************)
(* One trade's order group as its readers see it grow: every role may      *)
(* publish, cancel and replace its own order, and after each of them the   *)
(* clients judge the group by default and the escrow judges it by force.   *)
(* The two modes must agree on what is safe to agree on.                   *)
(***************************************************************************)
EXTENDS OrderGroups

VARIABLES
    group,    \* the orders published so far
    listing,  \* what the lookup of the listing found
    proof,    \* the payment proof that the buyer's orders carry
    answer    \* what the chain says of the trade, or that nobody asks it

vars == <<group, listing, proof, answer>>

TypeOK ==
    /\ group \in Groups
    /\ listing \in Listings
    /\ proof \in Proofs
    /\ answer \in AllAnswers

Init ==
    /\ group = NoOrders
    /\ listing \in Listings
    /\ proof \in Proofs
    /\ answer \in AllAnswers

\* A role publishes its first order or replaces the one it has, which keeps its
\* proof (Orders.cancel); an order that is still being negotiated is never
\* broadcast (Orders.beforeUpsert).
Publish(role) ==
    /\ \E stage \in {"commit", "cancel"} : group' = [group EXCEPT ![role] = stage]
    /\ UNCHANGED <<listing, proof, answer>>

\* Somebody judges again: money may have arrived, the node may be down, and
\* there may be no verifier at hand.
Ask ==
    /\ answer' \in AllAnswers
    /\ UNCHANGED <<group, listing, proof>>

Next == Ask \/ \E role \in Roles : Publish(role)

Spec == Init /\ [][Next]_vars

Judged(force) == VerifyGroupOnChain(group, listing, force, proof, answer)

\* What the escrow accepts by force, no client rejects by default: a group
\* the escrow is about to confirm is not shown as invalid to anybody.
ForceIsStricter == Judged(TRUE).valid => Judged(FALSE).valid

\* "When [forceValidateSelfSigned] is true the buyer's escrow proof is checked
\* regardless of whether a seller confirmation exists": where there is a proof
\* to check and somebody to ask, a forced verdict of Valid has the chain's word
\* behind it, and no order of the seller or of the escrow, nor a cancellation,
\* stands in for it.  Without an escrow proof or a verifier it says nothing of
\* money; the daemon does not judge such groups (FirstStep of EscrowDaemon).
ForcedMeansFunded ==
    /\ Judged(TRUE).valid
    /\ group["buyer"] # "none" /\ HasEscrowProof(proof) /\ answer # "no verifier"
    => answer = "funded"

\* "Seller-published orders are valid by authority": once the seller has
\* published, no state of the chain, of the listing or of the buyer's proof,
\* and no later cancellation, makes the clients reject the group.
SellerHasAuthority == group["seller"] # "none" => Judged(FALSE).valid
=============================================================================
