------------------------------ MODULE MCRemote ------------------------------
(* Remote for TLC: a plain route and a hashed one. *)
EXTENDS Remote

MCPath == <<<<"a">>, <<"b">>>>
MCRoutes == {NewRoute(MCPath, <<"T">>), NewHashedRoute(<<<<"a">>>>, MCPath, <<"T">>)}

(* RouteFromString undoes String for every route that can be made of short *)
(* paths, and the two kinds are never taken for each other.                *)
MCChar  == {<<"a">>, <<"b">>, At, Mark}
MCPaths == UNION {[1..k -> MCChar] : k \in 0..3}
ASSUME TextRoundTrip ==
    \A p, q \in MCPaths : \A r \in {NewRoute(p, <<"T">>), NewHashedRoute(q, p, <<"T">>)} :
        r.kind # "invalid" => LET s == RouteFromString(String(r))
                              IN Equal(s, r) /\ s.kind = r.kind /\ s.path = r.path
=============================================================================
