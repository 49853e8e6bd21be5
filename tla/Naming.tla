------------------------------- MODULE Naming -------------------------------
(***************************************************************************)
(* Routes and peers of dndm (route.go, peer.go).                           *)
(*                                                                         *)
(* A text is a sequence of symbols.  A symbol is a tuple: <<c>> for a      *)
(* character c or for the name of a message type, Sha1(..) for the base64  *)
(* of a hash, which contains neither "@" nor "#" and determines what was   *)
(* hashed.                                                                 *)
(***************************************************************************)
EXTENDS Naturals, Sequences, SequencesExt, FiniteSets

At   == <<"@">>
Mark == <<"#">>
NoType == <<>>          \* Type() of a route made from text is nil
InvalidRoute == [kind |-> "invalid", route |-> <<>>, path |-> <<>>, type |-> NoType]

Symbols(text) == {text[k] : k \in DOMAIN text}
Count(text, c) == Cardinality({k \in DOMAIN text : text[k] = c})
Position(text, c) == CHOOSE k \in DOMAIN text : text[k] = c
Before(text, c) == SubSeq(text, 1, Position(text, c) - 1)
After(text, c)  == SubSeq(text, Position(text, c) + 1, Len(text))

routeString(path, type) == <<type, At>> \o path
Sha1(text) == <<"sha1", text>>

NewRoute(path, type) ==
    IF path = <<>> \/ Symbols(path) \cap {At, Mark} # {}
    THEN InvalidRoute
    ELSE [kind |-> "plain", route |-> routeString(path, type), path |-> path, type |-> type]

NewHashedRoute(prefix, path, type) ==
    IF \/ path = <<>> \/ prefix = <<>>
       \/ Symbols(prefix) \cap {At, Mark} # {}
       \/ ~IsPrefix(prefix, path)
    THEN InvalidRoute
    ELSE [kind |-> "hashed", route |-> <<Sha1(routeString(path, type))>>,
          path |-> prefix, type |-> type]

ID(r) == r.route

String(r) == IF r.kind = "hashed" THEN r.path \o <<Mark>> \o r.route ELSE r.route

Equal(r, s) == ID(r) = ID(s)

plainRouteFromString(text) ==
    IF Count(text, At) # 1 \/ Before(text, At) = <<>> \/ After(text, At) = <<>>
    THEN InvalidRoute
    ELSE [kind |-> "plain", route |-> text, path |-> After(text, At), type |-> NoType]

hashedRouteFromString(text) ==
    IF Count(text, Mark) # 1 \/ After(text, Mark) = <<>>
    THEN InvalidRoute
    ELSE [kind |-> "hashed", route |-> After(text, Mark),
          path |-> Before(text, Mark), type |-> NoType]

RouteFromString(text) ==
    CASE At \in Symbols(text) -> plainRouteFromString(text)
      [] At \notin Symbols(text) /\ Mark \in Symbols(text) -> hashedRouteFromString(text)
      [] OTHER -> InvalidRoute

-----------------------------------------------------------------------------
(* Peers [scheme]://[address]/[path]?[params]. *)

NewPeer(scheme, address, path) == [scheme |-> scheme, addr |-> address, path |-> path]

HasPrefix(p, r) == IsPrefix(p.path, r.path)
=============================================================================
