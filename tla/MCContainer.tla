---------------------------- MODULE MCContainer -----------------------------
(* Container for TLC.  Endpoint shy has peers with paths: the path of its  *)
(* local peer keeps it from publishing r1, the path of its remote peer     *)
(* does not keep it from subscribing (container.go:244, container.go:292). *)
EXTENDS Container, Naming

CONSTANTS shy, r1

MCRoute  == NewRoute(<<<<"a">>, <<"b">>>>, <<"T">>)
MCLocal  == NewPeer("tcp", "host1", <<<<"c">>>>)
MCRemote == NewPeer("tcp", "host2", <<<<"a">>>>)

MCRefused == {<<shy, k>> : k \in {k \in {<<"intent", r1>>, <<"interest", r1>>} :
                                   ~HasPrefix(IF k[1] = "intent" THEN MCLocal ELSE MCRemote, MCRoute)}}
=============================================================================
