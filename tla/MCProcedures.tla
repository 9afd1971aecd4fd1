---------------------------- MODULE MCProcedures ----------------------------
(* Unit 0 shares a secret with the client, unit 1 has another one than the *)
(* client thinks, 2 does not answer, 3 is a standard unit.                 *)
EXTENDS ClientProcedures, TLC

CONSTANTS good, other

MCCredential == (0 :> good) @@ (1 :> good)
MCSecretOf == (0 :> good) @@ (1 :> other) @@ (3 :> good)
=============================================================================
