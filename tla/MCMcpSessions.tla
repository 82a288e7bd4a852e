----------------------------- MODULE MCMcpSessions -----------------------------
(* Instances of McpSessions for TLC. *)
EXTENDS McpSessions

MCSymmetry == Permutations(Accounts) \cup Permutations(Transports) \cup Permutations(Handlers)
=============================================================================
