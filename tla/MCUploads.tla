------------------------------- MODULE MCUploads -------------------------------
(* Instances of Uploads for TLC. *)
EXTENDS Uploads

MCMaxHits == [auth |-> 1, anon |-> 1]
=============================================================================
