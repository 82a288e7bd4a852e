---------------------------- MODULE MCSignerNotices ----------------------------
(***************************************************************************)
(* Instances of SignerNotices for TLC.                                     *)
(***************************************************************************)
EXTENDS SignerNotices
=============================================================================
