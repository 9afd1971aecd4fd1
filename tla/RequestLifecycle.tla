-------------------------- MODULE RequestLifecycle --------------------------
(***************************************************************************)
(* What the pipeline promises about one request, whatever the threads, the *)
(* queue and the frames do: it is refused or accepted once; an accepted    *)
(* one leaves the queue once, by its own response, by expiry or by a       *)
(* cancellation; only the first two run its callback, once, and with that  *)
(* outcome.                                                                *)
(***************************************************************************)
EXTENDS Naturals, FiniteSets

CONSTANTS Requests, Limit            \* Limit = 0: no limit

VARIABLE stage

Stages == {"new", "refused", "open", "matched", "expired", "dropped",
           "answered", "timedout"}

InStage(s) == {r \in Requests : stage[r] = s}

Move(r, from, to) == stage[r] = from /\ stage' = [stage EXCEPT ![r] = to]

Init == stage = [r \in Requests |-> "new"]

Accept(r) ==
    /\ Limit = 0 \/ Cardinality(InStage("open")) < Limit
    /\ Move(r, "new", "open")

Refuse(r) == Move(r, "new", "refused")

Match(r) == Move(r, "open", "matched")

Drop(r) == Move(r, "open", "dropped")

(* A sweep takes out any set of open requests at once.                     *)
Expire(S) ==
    /\ S \subseteq InStage("open")
    /\ stage' = [r \in Requests |-> IF r \in S THEN "expired" ELSE stage[r]]

Answer(r) == Move(r, "matched", "answered")

TimeOut(r) == Move(r, "expired", "timedout")

Next ==
    \/ \E r \in Requests : \/ Accept(r) \/ Refuse(r) \/ Match(r) \/ Drop(r)
                           \/ Answer(r) \/ TimeOut(r)
    \/ \E S \in SUBSET Requests : Expire(S)

Spec == Init /\ [][Next]_stage

=============================================================================
