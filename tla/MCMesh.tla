------------------------------- MODULE MCMesh -------------------------------
(* Three nodes; a and b are configured with the seed s. *)
EXTENDS Mesh, TLC

MCSeeds == ("s" :> {}) @@ ("a" :> {"s"}) @@ ("b" :> {"s"})

Start(joined, failures, redials) ==
    [seeds |-> MCSeeds, joined |-> joined, breaks |-> 0, failures |-> failures,
     redials |-> redials]

\* All at once and undisturbed; or a has joined before, and a dial fails or is repeated.
MCJoin == {Start({}, 0, 0), Start({<<"a", "s", 1>>}, 1, 0), Start({<<"a", "s", 1>>}, 0, 1)}
\* A connection breaks at any point, for a alone with the seed: with both it is too much for TLC.
MCBreak == {[Start({}, 0, 1) EXCEPT !.breaks = 1, !.seeds["b"] = {}]}
MCStarts == MCJoin \cup MCBreak
=============================================================================
