----------------------------- MODULE MCEscrowDaemon -----------------------------
(***************************************************************************)
(* Instances of EscrowDaemon for TLC.                                      *)
(***************************************************************************)
EXTENDS EscrowDaemon

AllTerms == [autoAccept : BOOLEAN, proof : Proofs]

\* Every fault but a listing lookup that finds nothing.
MostFaults == FaultPoints \ {"noListing"}
NoFaults == {}

\* Listings that do not hold a trade up.
PlainTerms == {[autoAccept |-> TRUE, proof |-> "escrow"]}

\* What another holder of the escrow's key may do.
DaemonMoves == {"operator"}

\* Every move but the operator's.
OwnMoves == MovePoints \ {"operator"}
=============================================================================
