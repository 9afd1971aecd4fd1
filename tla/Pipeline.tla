------------------------------ MODULE Pipeline ------------------------------
(***************************************************************************)
(* The pipelined transaction manager of modbus_pp: Pipeline::submit,       *)
(* submit_sync, poll and cancel over the RequestQueue and the              *)
(* CorrelationIDGenerator, called by any number of threads.                *)
(*                                                                         *)
(* A critical section of the queue's mutex, an atomic fetch_add and a call *)
(* of the transport are one step each; everything between two of them is   *)
(* local to the calling thread.  The peer and the network are external:    *)
(* a request frame is answered at any time and in any order, or never (it  *)
(* or its response is lost), and frames of the transport's other users may *)
(* arrive in between.                                                      *)
(*                                                                         *)
(* A frame is represented by the request it belongs to.  The id a frame    *)
(* carries is id[r], written once by submit.                               *)
(*                                                                         *)
(* A definition followed by one that reads almost the same is a faulty     *)
(* variant of it (FirstIdZero of FirstId, ...): replacing the definition   *)
(* by the variant must break a property.                                   *)
(***************************************************************************)
EXTENDS Naturals, FiniteSets, Sequences

CONSTANTS
    Threads,        \* threads of the application
    Pollers,        \* the threads that keep calling poll from an event loop
    Requests,       \* the calls of submit and submit_sync made in a run
    SyncRequests,   \* those made through submit_sync
    ZeroTimeout,    \* the synchronous ones called with a timeout of 0 ms
    IdModulus,      \* number of correlation ids (2^16 in the code)
    MaxInFlight,    \* PipelineConfig::max_in_flight, 0 for unlimited
    MaxForeign,     \* bound: frames for other users of the transport that arrive
    ForeignFrames,  \* their kinds, some of Foreign and Garbage
    NoReq,          \* no request
    Foreign,        \* a frame that parses but has no extended header
    Garbage         \* a frame PDU::deserialize rejects

ASSUME PipelineAssumption ==
    /\ Pollers \subseteq Threads
    /\ SyncRequests \subseteq Requests
    /\ ZeroTimeout \subseteq SyncRequests
    /\ IdModulus \in Nat \ {0, 1}
    /\ MaxInFlight \in Nat
    /\ MaxForeign \in Nat
    /\ NoReq \notin Requests
    /\ Foreign \notin Requests \union {NoReq}
    /\ Garbage \notin Requests \union {NoReq, Foreign}
    /\ ForeignFrames \subseteq {Foreign, Garbage}

Ids == 0 .. IdModulus - 1
NoId == IdModulus
Timeout == NoReq                         \* what a callback gets on expiry

VARIABLES
    counter,    \* CorrelationIDGenerator::counter_
    id,         \* the correlation id given to each request
    pending,    \* RequestQueue::pending_, a map keyed by id
    age,        \* 0 fresh, 1 expired in the queue, 2 past submit_sync's deadline
    outbox,     \* request frames sent and not answered (yet, or ever)
    inbox,      \* frames waiting to be received, in order
    foreign,    \* foreign frames that have arrived so far
    pc,         \* where each thread is
    cur,        \* the request a thread is submitting or waiting for
    frame,      \* the frame poll has received
    hold,       \* the pending request poll has matched with it
    due,        \* the expired requests poll has taken out of the queue
    done,       \* synchronous requests whose callback has set done
    ret,        \* what submit, submit_sync or cancel has returned for a request
    calls,      \* how often the callback of each request has run
    got         \* what it was given: the request a response answers, or Timeout

netVars   == <<outbox, inbox, foreign>>
queueVars == <<counter, id, pending, age>>
localVars == <<pc, cur, frame, hold, due>>
userVars  == <<done, ret, calls, got>>
vars == <<counter, id, pending, age, outbox, inbox, foreign,
          pc, cur, frame, hold, due, done, ret, calls, got>>

Labels == {"idle", "send", "insert", "recv", "match", "callback", "sweep",
           "expire", "wait", "deadline"}
Returns == {"none", "accepted", "overflow", "senderror",
            "cancelled", "response", "timeout"}

(* The counter of the id generator starts at 1: no request has id 0 before *)
(* it wraps around.                                                        *)
FirstIdZero == 0
FirstId == 1

Init ==
    /\ counter = FirstId
    /\ id = [r \in Requests |-> NoId]
    /\ pending = {}
    /\ age = [r \in Requests |-> 0]
    /\ outbox = {}
    /\ inbox = << >>
    /\ foreign = 0
    /\ pc = [t \in Threads |-> "idle"]
    /\ cur = [t \in Threads |-> NoReq]
    /\ frame = [t \in Threads |-> NoReq]
    /\ hold = [t \in Threads |-> NoReq]
    /\ due = [t \in Threads |-> {}]
    /\ done = {}
    /\ ret = [r \in Requests |-> "none"]
    /\ calls = [r \in Requests |-> 0]
    /\ got = [r \in Requests |-> NoReq]

-----------------------------------------------------------------------------
(* RequestQueue: pending_ holds at most one request for an id.             *)

Find(i) == {q \in pending : id[q] = i}

AtCapacityLate == MaxInFlight > 0 /\ Cardinality(pending) > MaxInFlight
AtCapacity == MaxInFlight > 0 /\ Cardinality(pending) >= MaxInFlight

(* unordered_map::emplace leaves the map alone when the key is present.    *)
Emplace(r) == IF Find(id[r]) = {} THEN pending \union {r} ELSE pending

Expired == {q \in pending : age[q] >= 1}

(* The id poll reads from a frame: 0 when there is no extended header.     *)
FrameId(f) == IF f \in Requests THEN id[f] ELSE 0

Goto(t, l) == pc' = [pc EXCEPT ![t] = l]

(* Where poll returns to: its caller is submit_sync or the event loop.     *)
AfterPoll(t) == IF cur[t] = NoReq THEN "idle" ELSE "wait"

(* Running the callback of r; that of submit_sync sets done.               *)
RunCallback(r, outcome) ==
    /\ calls' = [calls EXCEPT ![r] = @ + 1]
    /\ got' = [got EXCEPT ![r] = outcome]
    /\ done' = IF r \in SyncRequests THEN done \union {r} ELSE done

-----------------------------------------------------------------------------
(* submit                                                                  *)

(* fetch_add on a counter of the width of an id.                           *)
NextIdWide == counter + 1
NextId == (counter + 1) % IdModulus

SubmitBegin(t, r) ==
    /\ pc[t] = "idle"
    /\ id[r] = NoId
    /\ id' = [id EXCEPT ![r] = counter]
    /\ counter' = NextId
    /\ cur' = [cur EXCEPT ![t] = r]
    /\ Goto(t, "send")
    /\ UNCHANGED <<pending, age, netVars, frame, hold, due, userVars>>

SubmitSend(t) ==
    /\ pc[t] = "send"
    /\ outbox' = outbox \union {cur[t]}
    /\ Goto(t, "insert")
    /\ UNCHANGED <<queueVars, inbox, foreign, cur, frame, hold, due, userVars>>

(* An error return of submit, which submit_sync passes on.                 *)
SubmitReturns(t, result) ==
    /\ ret' = [ret EXCEPT ![cur[t]] = result]
    /\ cur' = [cur EXCEPT ![t] = NoReq]
    /\ Goto(t, "idle")
    /\ UNCHANGED <<frame, hold, due, done, calls, got>>

SubmitSendFails(t) ==
    /\ pc[t] = "send"
    /\ SubmitReturns(t, "senderror")
    /\ UNCHANGED <<queueVars, netVars>>

SubmitOverflow(t) ==
    /\ pc[t] = "insert"
    /\ AtCapacity
    /\ SubmitReturns(t, "overflow")
    /\ UNCHANGED <<queueVars, netVars>>

SubmitInsert(t) ==
    /\ pc[t] = "insert"
    /\ ~AtCapacity
    /\ pending' = Emplace(cur[t])
    /\ cur[t] \notin SyncRequests
    /\ SubmitReturns(t, "accepted")
    /\ UNCHANGED <<counter, id, age, netVars>>

(* submit returns to submit_sync, which enters its polling loop.           *)
SubmitSyncInsert(t) ==
    /\ pc[t] = "insert"
    /\ ~AtCapacity
    /\ pending' = Emplace(cur[t])
    /\ cur[t] \in SyncRequests
    /\ ret' = [ret EXCEPT ![cur[t]] = "accepted"]
    /\ Goto(t, "recv")
    /\ UNCHANGED <<counter, id, age, netVars, cur, frame, hold, due,
                   done, calls, got>>

-----------------------------------------------------------------------------
(* poll, called by an event loop (pc "idle") or by submit_sync ("recv")    *)

PollReceivePeeks(t) ==
    /\ pc[t] \in {"idle", "recv"}
    /\ inbox # << >>
    /\ frame' = [frame EXCEPT ![t] = Head(inbox)]
    /\ Goto(t, "match")
    /\ UNCHANGED <<queueVars, netVars, cur, hold, due, userVars>>

PollReceive(t) ==
    /\ pc[t] \in {"idle", "recv"}
    /\ inbox # << >>
    /\ frame' = [frame EXCEPT ![t] = Head(inbox)]
    /\ inbox' = Tail(inbox)
    /\ Goto(t, "match")
    /\ UNCHANGED <<queueVars, outbox, foreign, cur, hold, due, userVars>>

(* receive(0 ms) finds nothing or fails with frames waiting: the early     *)
(* return of poll inside submit_sync.                                      *)
PollEmpty(t) ==
    /\ pc[t] = "recv"
    /\ Goto(t, "wait")
    /\ UNCHANGED <<queueVars, netVars, cur, frame, hold, due, userVars>>

PollUnmatched(t) ==
    /\ pc[t] = "match"
    /\ frame[t] = Garbage \/ Find(FrameId(frame[t])) = {}
    /\ frame' = [frame EXCEPT ![t] = NoReq]
    /\ Goto(t, AfterPoll(t))
    /\ UNCHANGED <<queueVars, netVars, cur, hold, due, userVars>>

PollMatchFinds(t) ==
    /\ pc[t] = "match"
    /\ frame[t] # Garbage
    /\ \E q \in Find(FrameId(frame[t])) : hold' = [hold EXCEPT ![t] = q]
    /\ Goto(t, "callback")
    /\ UNCHANGED <<queueVars, netVars, cur, frame, due, userVars>>

PollMatch(t) ==
    /\ pc[t] = "match"
    /\ frame[t] # Garbage
    /\ \E q \in Find(FrameId(frame[t])) :
         /\ pending' = pending \ {q}
         /\ hold' = [hold EXCEPT ![t] = q]
    /\ Goto(t, "callback")
    /\ UNCHANGED <<counter, id, age, netVars, cur, frame, due, userVars>>

PollCallback(t) ==
    /\ pc[t] = "callback"
    /\ RunCallback(hold[t], frame[t])
    /\ hold' = [hold EXCEPT ![t] = NoReq]
    /\ frame' = [frame EXCEPT ![t] = NoReq]
    /\ Goto(t, "sweep")
    /\ UNCHANGED <<queueVars, netVars, cur, due, ret>>

PollSweepErases(t) ==
    /\ pc[t] = "sweep"
    /\ pending' = pending \ Expired
    /\ Goto(t, AfterPoll(t))
    /\ UNCHANGED <<counter, id, age, netVars, cur, frame, hold, due, userVars>>

(* remove_expired: one critical section takes out every expired request.   *)
PollSweep(t) ==
    /\ pc[t] = "sweep"
    /\ pending' = pending \ Expired
    /\ due' = [due EXCEPT ![t] = Expired]
    /\ Goto(t, IF Expired = {} THEN AfterPoll(t) ELSE "expire")
    /\ UNCHANGED <<counter, id, age, netVars, cur, frame, hold, userVars>>

(* One callback of the loop over the expired requests, in map order.       *)
PollExpire(t) ==
    /\ pc[t] = "expire"
    /\ \E q \in due[t] :
         /\ RunCallback(q, Timeout)
         /\ due' = [due EXCEPT ![t] = @ \ {q}]
         /\ Goto(t, IF due[t] = {q} THEN AfterPoll(t) ELSE "expire")
    /\ UNCHANGED <<queueVars, netVars, cur, frame, hold, ret>>

-----------------------------------------------------------------------------
(* submit_sync after each poll: wait_for(1 ms), then the deadline          *)

SyncReturns(t, result) ==
    /\ ret' = [ret EXCEPT ![cur[t]] = result]
    /\ cur' = [cur EXCEPT ![t] = NoReq]
    /\ Goto(t, "idle")

SyncDone(t) ==
    /\ pc[t] = "wait"
    /\ cur[t] \in done
    /\ SyncReturns(t, IF got[cur[t]] = Timeout THEN "timeout" ELSE "response")
    /\ UNCHANGED <<queueVars, netVars, frame, hold, due, done, calls, got>>

SyncWaitEnds(t) ==
    /\ pc[t] = "wait"
    /\ cur[t] \notin done
    /\ Goto(t, "deadline")
    /\ UNCHANGED <<queueVars, netVars, cur, frame, hold, due, userVars>>

(* deadline is now() + timeout with the timeout as given, 0 included.      *)
DeadlineMoves(r) == FALSE
DeadlinePassed(r) == age[r] = 2 \/ r \in ZeroTimeout

SyncPollAgain(t) ==
    /\ pc[t] = "deadline"
    /\ ~DeadlinePassed(cur[t])
    /\ Goto(t, "recv")
    /\ UNCHANGED <<queueVars, netVars, cur, frame, hold, due, userVars>>

SyncGivesUpUncancelled(t) ==
    /\ pc[t] = "deadline"
    /\ DeadlinePassed(cur[t])
    /\ SyncReturns(t, "timeout")
    /\ UNCHANGED <<queueVars, netVars, frame, hold, due, done, calls, got>>

SyncGivesUp(t) ==
    /\ pc[t] = "deadline"
    /\ DeadlinePassed(cur[t])
    /\ pending' = pending \ Find(id[cur[t]])
    /\ SyncReturns(t, "timeout")
    /\ UNCHANGED <<counter, id, age, netVars, frame, hold, due,
                   done, calls, got>>

CancelKeeps(t, r) ==
    /\ pc[t] = "idle"
    /\ r \notin SyncRequests
    /\ ret[r] = "accepted"
    /\ Find(id[r]) # {}
    /\ ret' = [ret EXCEPT ![r] = "cancelled"]
    /\ UNCHANGED <<queueVars, netVars, localVars, done, calls, got>>

(* cancel(id) by the user of submit; erase reports whether it removed one. *)
Cancel(t, r) ==
    /\ pc[t] = "idle"
    /\ r \notin SyncRequests
    /\ ret[r] = "accepted"
    /\ Find(id[r]) # {}
    /\ pending' = pending \ Find(id[r])
    /\ ret' = [ret EXCEPT ![r] = "cancelled"]
    /\ UNCHANGED <<counter, id, age, netVars, localVars, done, calls, got>>

-----------------------------------------------------------------------------
(* The clock, the peer and the network                                     *)

(* Time is kept where it is read: for an entry of the queue and for the    *)
(* request a thread is submitting or waiting for.                          *)
Age(r) ==
    /\ r \in pending \/ \E t \in Threads : cur[t] = r
    /\ age[r] < (IF r \in SyncRequests THEN 2 ELSE 1)
    /\ age' = [age EXCEPT ![r] = @ + 1]
    /\ UNCHANGED <<counter, id, pending, netVars, localVars, userVars>>

PeerAnswers(r) ==
    /\ r \in outbox
    /\ outbox' = outbox \ {r}
    /\ inbox' = Append(inbox, r)
    /\ UNCHANGED <<foreign, queueVars, localVars, userVars>>

ForeignFrame(f) ==
    /\ foreign < MaxForeign
    /\ foreign' = foreign + 1
    /\ inbox' = Append(inbox, f)
    /\ UNCHANGED <<outbox, queueVars, localVars, userVars>>

Environment ==
    \/ \E r \in Requests : Age(r) \/ PeerAnswers(r)
    \/ \E f \in ForeignFrames : ForeignFrame(f)

(* The steps of a call that is under way.                                  *)
Continue(t) ==
    \/ SubmitSend(t) \/ SubmitSendFails(t)
    \/ SubmitInsert(t) \/ SubmitSyncInsert(t) \/ SubmitOverflow(t)
    \/ PollEmpty(t) \/ PollUnmatched(t) \/ PollMatch(t) \/ PollCallback(t)
    \/ PollSweep(t) \/ PollExpire(t)
    \/ SyncDone(t) \/ SyncWaitEnds(t) \/ SyncPollAgain(t) \/ SyncGivesUp(t)

Next ==
    \/ \E t \in Threads :
         \/ Continue(t)
         \/ PollReceive(t)
         \/ \E r \in Requests : SubmitBegin(t, r) \/ Cancel(t, r)
    \/ Environment

Spec == Init /\ [][Next]_vars

(* Threads are scheduled, a call under way proceeds, the event loops keep  *)
(* polling and time passes.  Nothing is assumed of the peer.               *)
Fairness ==
    /\ \A t \in Threads : WF_vars(Continue(t) \/ (pc[t] = "recv" /\ PollReceive(t)))
    /\ \A t \in Pollers : WF_vars(PollReceive(t))
    /\ \A r \in Requests : WF_vars(Age(r))

LiveSpec == Spec /\ Fairness

-----------------------------------------------------------------------------
(* Properties                                                              *)

(* Every variable keeps its type, and a queue entry has been given an id.  *)
TypeOK ==
    /\ counter \in Ids
    /\ id \in [Requests -> Ids \union {NoId}]
    /\ pending \subseteq Requests
    /\ age \in [Requests -> 0 .. 2]
    /\ outbox \subseteq Requests
    /\ inbox \in Seq(Requests \union ForeignFrames)
    /\ foreign \in 0 .. MaxForeign
    /\ pc \in [Threads -> Labels]
    /\ cur \in [Threads -> Requests \union {NoReq}]
    /\ frame \in [Threads -> Requests \union ForeignFrames \union {NoReq}]
    /\ hold \in [Threads -> Requests \union {NoReq}]
    /\ due \in [Threads -> SUBSET Requests]
    /\ done \subseteq SyncRequests
    /\ ret \in [Requests -> Returns]
    /\ calls \in [Requests -> Nat]
    /\ got \in [Requests -> Requests \union ForeignFrames \union {Timeout}]

(* No callback runs twice, whichever of a response, an expiry sweep, a     *)
(* cancellation and several pollers reach the request at the same time     *)
(* (RequestQueue::remove, remove_expired and cancel each take it out).     *)
AtMostOneCallback == \A r \in Requests : calls[r] <= 1

(* A callback gets the response to its own request or TimeoutExpired:      *)
(* neither another request's response nor a frame of another user of the   *)
(* transport (the matching by correlation id in poll).                     *)
OwnResponse ==
    \A r \in Requests : calls[r] > 0 => got[r] \in {r, Timeout}

(* submit returned an error, or cancel returned true: the callback never   *)
(* runs, before or after (the error paths of submit, and cancel).          *)
NoCallbackOnRefusal ==
    \A r \in Requests :
        ret[r] \in {"overflow", "senderror", "cancelled"} => calls[r] = 0

(* Thread t has taken r out of the queue and owes its callback a run.      *)
Owes(t, r) == hold[t] = r \/ r \in due[t]

(* An accepted request is never dropped silently: until it is cancelled or *)
(* given up it is in the queue, or in the hands of a poller about to run   *)
(* its callback, or its callback has run (emplace in RequestQueue::insert  *)
(* ignores an id that is taken and still reports success).                 *)
NothingForgotten ==
    \A r \in Requests :
        ret[r] = "accepted" =>
            r \in pending \/ calls[r] = 1 \/ \E t \in Threads : Owes(t, r)

(* No more than max_in_flight requests are in the queue, with several      *)
(* threads between the send and the insert of submit.                      *)
CapacityBound == MaxInFlight > 0 => Cardinality(pending) <= MaxInFlight

(* Once submit_sync has returned, nothing refers to the locals its         *)
(* callback captured: the request has left the queue and no poller is      *)
(* about to run the callback.                                              *)
SyncScope ==
    \A r \in SyncRequests :
        ret[r] \notin {"none", "accepted"} =>
            r \notin pending /\ \A t \in Threads : ~Owes(t, r)

(* A response is matched back to its request: when poll looks up the id of *)
(* a response, the request is in the queue or its outcome is settled.      *)
AnswerFindsRequest ==
    \A t \in Threads, r \in Requests :
        pc[t] = "match" /\ frame[t] = r =>
            \/ r \in pending \/ calls[r] = 1
            \/ ret[r] \notin {"none", "accepted"}

(* submit_sync returns, whatever the peer does.                            *)
SyncTerminates ==
    \A r \in SyncRequests :
        id[r] # NoId ~> ret[r] \notin {"none", "accepted"}

(* A response that has arrived in the transport gets its request settled   *)
(* as long as somebody polls, wherever the request was when it came.  With *)
(* several threads it need not: poll may take the response between the     *)
(* send and the insert of submit, and drops it.                            *)
InInbox(r) == \E i \in 1 .. Len(inbox) : inbox[i] = r

AnswerSettles ==
    \A r \in Requests :
        InInbox(r) ~> calls[r] = 1 \/ ret[r] \notin {"none", "accepted"}

(* An expired request is cleaned up without further traffic: its callback  *)
(* runs or it is cancelled.                                                *)
ExpiryNotified ==
    \A r \in Requests \ SyncRequests :
        r \in Expired ~> calls[r] = 1 \/ ret[r] = "cancelled"

(* The stage of a request in the abstract specification.                   *)
StageOf(r) ==
    IF r \in pending THEN "open"
    ELSE IF \E t \in Threads : hold[t] = r THEN "matched"
    ELSE IF \E t \in Threads : r \in due[t] THEN "expired"
    ELSE IF calls[r] = 1 /\ got[r] = r THEN "answered"
    ELSE IF calls[r] = 1 /\ got[r] = Timeout THEN "timedout"
    ELSE IF ret[r] \in {"overflow", "senderror"} THEN "refused"
    ELSE IF ret[r] \in {"cancelled", "timeout"} THEN "dropped"
    ELSE "new"

Lifecycle == INSTANCE RequestLifecycle
                 WITH Limit <- MaxInFlight,
                      stage <- [r \in Requests |-> StageOf(r)]

(* The pipeline implements the lifecycle of a request.                     *)
LifecycleSpec == Lifecycle!Spec

=============================================================================
