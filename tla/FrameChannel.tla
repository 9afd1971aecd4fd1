---------------------------- MODULE FrameChannel ----------------------------
(***************************************************************************)
(* What a Transport promises to the layers above it (transport.hpp): every *)
(* endpoint is handed the frames its peer sent it, whole, each once and in *)
(* the order in which they were sent.                                      *)
(***************************************************************************)
EXTENDS Naturals, Sequences

CONSTANTS Ends, Frames

VARIABLES sent, received    \* per endpoint: the frames sent to it, handed to it

vars == <<sent, received>>

Init ==
    /\ sent = [e \in Ends |-> << >>]
    /\ received = [e \in Ends |-> << >>]

Send(e, f) ==
    /\ sent' = [sent EXCEPT ![e] = Append(@, f)]
    /\ UNCHANGED received

Receive(e) ==
    /\ Len(received[e]) < Len(sent[e])
    /\ received' = [received EXCEPT
                       ![e] = Append(@, sent[e][Len(@) + 1])]
    /\ UNCHANGED sent

Next == \E e \in Ends : Receive(e) \/ \E f \in Frames : Send(e, f)

Spec == Init /\ [][Next]_vars
=============================================================================
