-------------------------- MODULE MCPhoneTransport --------------------------
(***************************************************************************)
(* Instances of PhoneTransport for TLC: a short queue of inbound frames.   *)
(***************************************************************************)
EXTENDS PhoneTransport
=============================================================================
