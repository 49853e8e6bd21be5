------------------------------ MODULE MCCaller ------------------------------
(* Caller for TLC. *)
EXTENDS Caller
=============================================================================
