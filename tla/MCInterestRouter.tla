-------------------------- MODULE MCInterestRouter --------------------------
(* InterestRouter for TLC. *)
EXTENDS InterestRouter
=============================================================================
