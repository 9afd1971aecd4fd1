-------------------------- MODULE LoopbackTransport --------------------------
(***************************************************************************)
(* The in-process transport: two endpoints, two queues, each with a mutex  *)
(* and a condition variable, and threads that call send and receive on     *)
(* them while others connect and disconnect.                               *)
(*                                                                         *)
(* One step is one critical section or one access to an atomic.  notify_one *)
(* is called after the lock is released, so it is a step of its own, and   *)
(* the wait of receive is split where the mutex is given up: a thread      *)
(* sleeps, is woken (by a notification, by disconnect or spuriously) or    *)
(* runs out of time, and only then gets the mutex and looks at the queue.  *)
(***************************************************************************)
EXTENDS Naturals, Sequences, FiniteSets

CONSTANTS
    Ends,        \* the two endpoints of create_pair
    Senders,     \* threads that call send
    Receivers,   \* threads that call receive
    EndOf,       \* the endpoint a thread calls
    Frames,
    MaxSends,    \* bound: frames pushed to one queue
    MaxBreaks    \* bound: disconnects and injected errors

Threads == Senders \union Receivers

ASSUME LoopbackAssumption ==
    /\ Senders \intersect Receivers = {}
    /\ IsFiniteSet(Threads)
    /\ EndOf \in [Threads -> Ends]
    /\ \A e \in Ends : \E d \in Ends : Ends = {d, e} /\ d # e
    /\ MaxSends \in Nat /\ MaxBreaks \in Nat

Peer(e) == CHOOSE d \in Ends : d # e

VARIABLES
    connected_,   \* per endpoint
    next_error_,  \* per endpoint: an error is injected
    queue,        \* rx_queue_->messages of each endpoint
    pc,           \* where each thread is
    frame,        \* the frame a sender is sending
    pushed,       \* history: what was pushed to the queue of each endpoint
    taken,        \* history: what was popped from it
    breaks        \* bound: see MaxBreaks

vars == <<connected_, next_error_, queue, pc, frame, pushed, taken, breaks>>

SenderAt == {"idle", "checked", "push", "notify"}
ReceiverAt == {"idle", "checked", "asleep", "woken", "late"}

Init ==
    /\ connected_ = [e \in Ends |-> FALSE]
    /\ next_error_ = [e \in Ends |-> FALSE]
    /\ queue = [e \in Ends |-> << >>]
    /\ pc = [t \in Threads |-> "idle"]
    /\ frame \in [Senders -> Frames]
    /\ pushed = [e \in Ends |-> << >>]
    /\ taken = [e \in Ends |-> << >>]
    /\ breaks = 0

-----------------------------------------------------------------------------
(* send                                                                    *)

Goto(t, from, to) ==
    /\ pc[t] = from
    /\ pc' = [pc EXCEPT ![t] = to]

(* The call returns at once when the endpoint is not connected.            *)
SendCheck(t) ==
    /\ connected_[EndOf[t]]
    /\ Goto(t, "idle", "checked")
    /\ \E f \in Frames : frame' = [frame EXCEPT ![t] = f]
    /\ UNCHANGED <<connected_, next_error_, queue, pushed, taken, breaks>>

(* An injected error is used up by the send that meets it; error_rate_     *)
(* makes any other send fail.                                              *)
SendFails(t) ==
    /\ Goto(t, "checked", "idle")
    /\ next_error_' = [next_error_ EXCEPT ![EndOf[t]] = FALSE]
    /\ UNCHANGED <<connected_, queue, frame, pushed, taken, breaks>>

SendGoesOn(t) ==
    /\ ~next_error_[EndOf[t]]
    /\ Goto(t, "checked", "push")
    /\ UNCHANGED <<connected_, next_error_, queue, frame, pushed, taken, breaks>>

(* Mutant of SendPush: the frame goes to the front.                        *)
SendPushFront(t) ==
    LET e == Peer(EndOf[t]) IN
    /\ Goto(t, "push", "notify")
    /\ Len(pushed[e]) < MaxSends
    /\ queue' = [queue EXCEPT ![e] = <<frame[t]>> \o @]
    /\ pushed' = [pushed EXCEPT ![e] = Append(@, frame[t])]
    /\ UNCHANGED <<connected_, next_error_, frame, taken, breaks>>

(* The latency passes before this step: the endpoint may have been         *)
(* disconnected meanwhile.                                                 *)
SendPush(t) ==
    LET e == Peer(EndOf[t]) IN
    /\ Goto(t, "push", "notify")
    /\ Len(pushed[e]) < MaxSends
    /\ queue' = [queue EXCEPT ![e] = Append(@, frame[t])]
    /\ pushed' = [pushed EXCEPT ![e] = Append(@, frame[t])]
    /\ UNCHANGED <<connected_, next_error_, frame, taken, breaks>>

Sleepers(e) == {t \in Receivers : EndOf[t] = e /\ pc[t] = "asleep"}

(* Mutant of SendNotify: only the first frame of a queue is announced.     *)
SendNotifyFirst(t) ==
    LET e == Peer(EndOf[t]) IN
    /\ pc[t] = "notify"
    /\ \/ /\ Sleepers(e) = {} \/ Len(queue[e]) > 1
          /\ pc' = [pc EXCEPT ![t] = "idle"]
       \/ /\ Len(queue[e]) <= 1
          /\ \E r \in Sleepers(e) : pc' = [pc EXCEPT ![t] = "idle", ![r] = "woken"]
    /\ UNCHANGED <<connected_, next_error_, queue, frame, pushed, taken, breaks>>

(* notify_one wakes one of the threads asleep, if there is one.            *)
SendNotify(t) ==
    LET asleep == Sleepers(Peer(EndOf[t])) IN
    /\ pc[t] = "notify"
    /\ \/ /\ asleep = {}
          /\ pc' = [pc EXCEPT ![t] = "idle"]
       \/ \E r \in asleep : pc' = [pc EXCEPT ![t] = "idle", ![r] = "woken"]
    /\ UNCHANGED <<connected_, next_error_, queue, frame, pushed, taken, breaks>>

-----------------------------------------------------------------------------
(* receive                                                                 *)

ReceiveCheck(t) ==
    /\ connected_[EndOf[t]]
    /\ Goto(t, "idle", "checked")
    /\ UNCHANGED <<connected_, next_error_, queue, frame, pushed, taken, breaks>>

(* With the mutex held: a frame in the queue is returned, however the      *)
(* thread got here.                                                        *)
ReceiveTake(t) ==
    LET e == EndOf[t] IN
    /\ pc[t] \in {"checked", "woken", "late"}
    /\ queue[e] # << >>
    /\ taken' = [taken EXCEPT ![e] = Append(@, Head(queue[e]))]
    /\ queue' = [queue EXCEPT ![e] = Tail(@)]
    /\ pc' = [pc EXCEPT ![t] = "idle"]
    /\ UNCHANGED <<connected_, next_error_, frame, pushed, breaks>>

(* Mutant of ReceiveSleep: wait_for without a predicate.                   *)
ReceiveSleepBlindly(t) ==
    /\ pc[t] = "checked"
    /\ pc' = [pc EXCEPT ![t] = "asleep"]
    /\ UNCHANGED <<connected_, next_error_, queue, frame, pushed, taken, breaks>>

(* The predicate of wait_for is false: the mutex is given up and the       *)
(* thread sleeps, in one step.                                             *)
ReceiveSleep(t) ==
    /\ pc[t] \in {"checked", "woken"}
    /\ queue[EndOf[t]] = << >>
    /\ pc' = [pc EXCEPT ![t] = "asleep"]
    /\ UNCHANGED <<connected_, next_error_, queue, frame, pushed, taken, breaks>>

SpuriousWake(t) ==
    /\ Goto(t, "asleep", "woken")
    /\ UNCHANGED <<connected_, next_error_, queue, frame, pushed, taken, breaks>>

TimeRunsOut(t) ==
    /\ Goto(t, "asleep", "late")
    /\ UNCHANGED <<connected_, next_error_, queue, frame, pushed, taken, breaks>>

(* TimeoutExpired: the predicate is evaluated once more before.            *)
ReceiveGivesUp(t) ==
    /\ Goto(t, "late", "idle")
    /\ queue[EndOf[t]] = << >>
    /\ UNCHANGED <<connected_, next_error_, queue, frame, pushed, taken, breaks>>

-----------------------------------------------------------------------------
(* connect, disconnect, set_next_error                                     *)

(* The queues are not cleared.                                             *)
Connect(e) ==
    /\ ~connected_[e]
    /\ connected_' = [connected_ EXCEPT ![e] = TRUE]
    /\ UNCHANGED <<next_error_, queue, pc, frame, pushed, taken, breaks>>

(* Everyone asleep on either queue is notified; connected_ is not part of  *)
(* what they wait for.                                                     *)
Disconnect(e) ==
    /\ connected_[e]
    /\ breaks < MaxBreaks
    /\ breaks' = breaks + 1
    /\ connected_' = [connected_ EXCEPT ![e] = FALSE]
    /\ pc' = [t \in Threads |-> IF pc[t] = "asleep" THEN "woken" ELSE pc[t]]
    /\ UNCHANGED <<next_error_, queue, frame, pushed, taken>>

SetNextError(e) ==
    /\ breaks < MaxBreaks
    /\ breaks' = breaks + 1
    /\ next_error_' = [next_error_ EXCEPT ![e] = TRUE]
    /\ UNCHANGED <<connected_, queue, pc, frame, pushed, taken>>

SenderStep(t) ==
    SendCheck(t) \/ SendFails(t) \/ SendGoesOn(t) \/ SendPush(t) \/ SendNotify(t)

ReceiverStep(t) == ReceiveCheck(t) \/ ReceiveTake(t) \/ ReceiveSleep(t)

Next ==
    \/ \E t \in Senders : SenderStep(t)
    \/ \E t \in Receivers :
          ReceiverStep(t) \/ SpuriousWake(t) \/ TimeRunsOut(t) \/ ReceiveGivesUp(t)
    \/ \E e \in Ends : Connect(e) \/ Disconnect(e) \/ SetNextError(e)

Spec == Init /\ [][Next]_vars

(* A thread that can run does; nobody has to run out of time.              *)
FairSpec ==
    /\ Spec
    /\ \A t \in Senders : WF_vars(SendNotify(t))
    /\ \A t \in Receivers : WF_vars(ReceiveTake(t) \/ ReceiveSleep(t))

-----------------------------------------------------------------------------
(* Properties                                                              *)

(* The types of the variables: what connected_, the queues and the         *)
(* threads' program counters may hold.                                     *)
TypeOK ==
    /\ connected_ \in [Ends -> BOOLEAN]
    /\ next_error_ \in [Ends -> BOOLEAN]
    /\ queue \in [Ends -> Seq(Frames)]
    /\ pushed \in [Ends -> Seq(Frames)]
    /\ taken \in [Ends -> Seq(Frames)]
    /\ pc \in [Threads -> SenderAt \union ReceiverAt]
    /\ \A t \in Senders : pc[t] \in SenderAt
    /\ \A t \in Receivers : pc[t] \in ReceiverAt
    /\ frame \in [Senders -> Frames]
    /\ breaks \in Nat

Notifying(e) == {t \in Senders : EndOf[t] = Peer(e) /\ pc[t] = "notify"}
Awake(e) == {t \in Receivers : EndOf[t] = e /\ pc[t] \in {"woken", "late"}}

(* No wake-up is lost although notify_one is called without the lock and   *)
(* threads wake for other reasons: while someone sleeps, every frame in    *)
(* the queue has a notification still to come or a thread awake to take    *)
(* it.                                                                     *)
NoLostWakeup ==
    \A e \in Ends :
        Sleepers(e) # {} =>
            Len(queue[e]) <= Cardinality(Notifying(e)) + Cardinality(Awake(e))

(* The queue never loses, repeats or reorders a frame, over disconnects    *)
(* and reconnects too: the transport is the channel the layers above rely  *)
(* on.                                                                     *)
Channel == INSTANCE FrameChannel WITH sent <- pushed, received <- taken
IsChannel == Channel!Spec

(* A thread that sleeps in receive while a frame is in its queue does not  *)
(* have to wait for its timeout: it is woken, or another takes the frame.  *)
SleeperServed ==
    \A t \in Receivers :
        pc[t] = "asleep" /\ queue[EndOf[t]] # << >>
            ~> pc[t] # "asleep" \/ queue[EndOf[t]] = << >>
=============================================================================
