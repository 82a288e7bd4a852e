---------------------------- MODULE MCToolAnswers ----------------------------
(***************************************************************************)
(* Instances of ToolAnswers for TLC.                                       *)
(***************************************************************************)
EXTENDS ToolAnswers, TLC

MCSymmetry == Permutations(Ids)
=============================================================================
