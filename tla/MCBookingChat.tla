----------------------------- MODULE MCBookingChat -----------------------------
(* Instances of BookingChat for TLC. *)
EXTENDS BookingChat

AllChatFaults == ChatFaultPoints
=============================================================================
