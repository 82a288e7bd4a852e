----------------------------- MODULE MCOAuthTokens -----------------------------
(***************************************************************************)
(* Instances of OAuthTokens for TLC.                                       *)
(***************************************************************************)
EXTENDS OAuthTokens, TLC

\* A token is a number's worth of freshness: which one is free does not matter.
Symmetry == Permutations(Tokens) \cup Permutations(Calls) \cup Permutations(Clients)
=============================================================================
