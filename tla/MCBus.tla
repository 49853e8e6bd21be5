------------------------------- MODULE MCBus --------------------------------
(* Three requests, the second of another type. *)
EXTENDS Bus

MCOtherType == {2}
=============================================================================
