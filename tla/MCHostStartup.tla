---------------------------- MODULE MCHostStartup ----------------------------
(* Two connections of one editor, the hosts they launch, and how those end. *)
EXTENDS HostStartup

CONSTANTS n1, n2

MCProxies == {n1, n2}
=============================================================================
