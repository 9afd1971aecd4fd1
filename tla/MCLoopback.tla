----------------------------- MODULE MCLoopback -----------------------------
(* Two threads send at one endpoint and two receive at the other; with two *)
(* endpoints the other direction is the same by symmetry of the code.      *)
EXTENDS LoopbackTransport, TLC

CONSTANTS client, server, s1, s2, r1, r2

MCEndOf == (s1 :> client) @@ (s2 :> client) @@ (r1 :> server) @@ (r2 :> server)
=============================================================================
