------------------------------ MODULE OrderGroups ------------------------------
(***************************************************************************)
(* The pure rules about an order group: the orders of one trade, one per   *)
(* role, as hostr_sdk/lib/usecase/order_groups/order_groups.dart judges    *)
(* them.  An order is reduced to its stage, "none" standing for no order   *)
(* of that role; a listing is reduced to its autoAccept flag, "unknown"    *)
(* standing for the null that a lookup returns when it finds nothing; the  *)
(* payment proof on the buyer's order and the answer of the on-chain check *)
(* are reduced to their classes.                                           *)
(***************************************************************************)
EXTENDS Naturals

Roles    == {"buyer", "seller", "escrow"}
Stages   == {"none", "commit", "cancel"}
Groups   == [Roles -> Stages]
NoOrders == [r \in Roles |-> "none"]

Listings == {"auto", "manual", "unknown"}

\* The payment proof of the buyer's order: Order.validate takes a sound zap
\* receipt or a sound escrow proof, and refuses one that is missing or bad.
Proofs == {"none", "zap", "bad escrow", "escrow"}
WellFormed(proof) == proof \in {"zap", "escrow"}
HasEscrowProof(proof) == proof \in {"bad escrow", "escrow"}

\* "unfunded" is `Escrow logs do not contain a funding event', "unreachable"
\* is `Failed to query escrow logs for trade', "short" any other reason.
ChainAnswers == {"funded", "short", "unfunded", "unreachable"}

\* A caller may have no EscrowVerification to ask.
AllAnswers == ChainAnswers \cup {"no verifier"}

Valid   == [valid |-> TRUE,  reason |-> "none"]
Invalid(why) == [valid |-> FALSE, reason |-> why]
Results == {Valid} \cup
           {Invalid(why) : why \in (ChainAnswers \ {"funded"}) \cup
                                   {"no order", "not auto-accepted", "bad proof"}}

-----------------------------------------------------------------------------
\* OrderGroup.cancelled and hasCommitConfirmation of the marketplace_models
\* package, as order_groups_test.dart and cancel_confirm_test.dart fix them.
Cancelled(g) == \E r \in Roles : g[r] = "cancel"
HasCommitConfirmation(g) == g["seller"] = "commit" \/ g["escrow"] = "commit"

\* Mutated form of VerifyBuyer: the listing is not asked.
VerifyProofOnly(g, listing, proofOk) == IF proofOk THEN Valid ELSE Invalid("bad proof")

\* The check that a buyer-only group was one the seller pre-authorised, and
\* whose payment proof is well formed.
VerifyBuyer(g, listing, proofOk) ==
    IF g["seller"] = "none" /\ listing = "manual" THEN Invalid("not auto-accepted")
    ELSE IF proofOk THEN Valid ELSE Invalid("bad proof")

\* OrderGroups.verifyGroup: Nostr-level rules only.
VerifyGroup(g, listing, force, proofOk) ==
    CASE Cancelled(g) -> Valid
      [] ~Cancelled(g) /\ g["buyer"] = "none" ->
           IF \/ g["seller"] # "none"
              \/ ~force /\ g["escrow"] = "commit"
           THEN Valid ELSE Invalid("no order")
      [] ~Cancelled(g) /\ g["buyer"] # "none" ->
           IF ~force /\ (g["seller"] # "none" \/ g["escrow"] = "commit")
           THEN Valid ELSE VerifyBuyer(g, listing, proofOk)

\* Mutated form of NeedsOnChain: a confirmed group is never checked.
NeedsOnChainUnlessConfirmed(g, force, proof) ==
    g["buyer"] # "none" /\ ~HasCommitConfirmation(g) /\ HasEscrowProof(proof)

\* Whether verifyGroupOnChain goes on to ask the chain, if it can, after a
\* Valid answer of verifyGroup.  A buyer's order without an escrow proof stays
\* Valid without the chain's word, forced or not.
NeedsOnChain(g, force, proof) ==
    /\ g["buyer"] # "none"
    /\ force \/ ~HasCommitConfirmation(g)
    /\ HasEscrowProof(proof)

\* Mutated forms of OnChainResult: the seller's order outweighs the chain even
\* when verification is forced; the chain's word is final.
OnChainSellerWins(g, force, answer) ==
    IF answer = "funded" \/ g["seller"] # "none" THEN Valid ELSE Invalid(answer)
OnChainOnly(g, force, answer) ==
    IF answer = "funded" THEN Valid ELSE Invalid(answer)

\* What verifyGroupOnChain makes of the chain's answer.
OnChainResult(g, force, answer) ==
    IF answer = "funded" \/ (~force /\ g["seller"] # "none")
    THEN Valid ELSE Invalid(answer)

VerifyGroupOnChain(g, listing, force, proof, answer) ==
    LET nostr == VerifyGroup(g, listing, force, WellFormed(proof))
    IN  IF nostr.valid /\ NeedsOnChain(g, force, proof) /\ answer # "no verifier"
        THEN OnChainResult(g, force, answer)
        ELSE nostr

\* Mutated forms of IsRetryable: one of the two reasons is taken as final.
IsRetryableUnfunded(reason) == reason = "unfunded"
IsRetryableUnreachable(reason) == reason = "unreachable"

\* EscrowDaemon.isRetryableOrderVerificationFailure: the failures that time
\* may cure.
IsRetryable(reason) == reason \in {"unfunded", "unreachable"}
=============================================================================
