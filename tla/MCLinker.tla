------------------------------ MODULE MCLinker ------------------------------
(* Linker for TLC: objects of one kind are interchangeable. *)
EXTENDS Linker, TLC

Symmetry ==
    Permutations(Route) \cup Permutations(Intent) \cup Permutations(Interest)
        \cup Permutations(Link) \cup Permutations(Sender)
=============================================================================
