----------------------------- MODULE MCStreams -----------------------------
(* A frame without a body, one with two cells, one that declares nothing   *)
(* and one that declares less than it has.                                 *)
EXTENDS StreamTransport, TLC

CONSTANTS bare, full, mute, short

MCBody == (bare :> 0) @@ (full :> 2) @@ (mute :> 1) @@ (short :> 2)
MCDeclared == (bare :> 1) @@ (full :> 3) @@ (mute :> 0) @@ (short :> 2)
=============================================================================
