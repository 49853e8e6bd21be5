--------------------------- MODULE MCIntentRouter ---------------------------
(* IntentRouter for TLC. *)
EXTENDS IntentRouter
=============================================================================
