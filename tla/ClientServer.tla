---------------------------- MODULE ClientServer ----------------------------
(***************************************************************************)
(* Client::transact and the register calls built on it, against the event  *)
(* loop of Server, over one pair of transport queues.                      *)
(*                                                                         *)
(* The application calls the client from one thread: next_transaction_id_  *)
(* is a plain counter, so a Client is not shared.  The server runs its     *)
(* loop in another thread and its publisher sends event frames over the    *)
(* same transport.  receive(default_timeout) may give up at any time.      *)
(* A register call is reduced to one register; write_single_register and   *)
(* write_multiple_registers differ only in the length of the frame.        *)
(***************************************************************************)
EXTENDS Naturals, Sequences

CONSTANTS
    Addresses, Values,
    Unreadable,     \* addresses for which the read handler returns an error
    Unwritable,     \* addresses for which the write handler returns an error
    Units,          \* unit ids the client addresses
    ServerUnit,     \* ServerConfig::unit_id
    Broadcast,      \* unit id 0
    InitialValue,   \* what the registers hold at first
    NoValue,        \* a value field that is not used
    Junk,           \* what a read decodes from the echo of a write
    MaxCalls,       \* bound: calls of the client
    MaxEvents       \* bound: event frames sent by the publisher

ASSUME ClientServerAssumption ==
    /\ Unreadable \subseteq Addresses
    /\ Unwritable \subseteq Addresses
    /\ ServerUnit # Broadcast
    /\ {ServerUnit, Broadcast} \subseteq Units
    /\ InitialValue \in Values
    /\ NoValue \notin Values
    /\ Junk \notin Values \union {NoValue}
    /\ MaxCalls \in Nat
    /\ MaxEvents \in Nat

VARIABLES
    toServer, toClient,   \* the two queues of the transport pair
    store,                \* the registers behind the server's handlers
    loop,                 \* where Server::run is
    running,              \* Server::running_
    reply,                \* the frame handle_request is about to send, in a sequence
    events,               \* event frames sent so far
    txn,                  \* Client::next_transaction_id_
    call,                 \* the request of the call under way
    at,                   \* where the client is
    last,                 \* how the last call ended and the frame it consumed
    quiet,                \* the call began with no older frame under way
    possible              \* values a register may have, as far as the client knows

serverVars == <<store, loop, running, reply, events>>
clientVars == <<txn, call, at, last, quiet, possible>>
vars == <<toServer, toClient, store, loop, running, reply, events,
          txn, call, at, last, quiet, possible>>

Requests ==
    [kind : {"read", "extended"}, txn : 0 .. MaxCalls, unit : Units,
     addr : Addresses, val : {NoValue}]
    \union
    [kind : {"write"}, txn : 0 .. MaxCalls, unit : Units,
     addr : Addresses, val : Values]

Replies ==
    [kind : {"values", "echo", "exception"}, txn : 0 .. MaxCalls,
     val : Values \union {NoValue}]

Event == [kind |-> "event", txn |-> 0, val |-> NoValue]
NoFrame == [kind |-> "none", txn |-> 0, val |-> NoValue]

Outcomes == {"none", "ok", "exception", "invalid", "timeout", "senderror"}

Init ==
    /\ toServer = << >> /\ toClient = << >>
    /\ store = [a \in Addresses |-> InitialValue]
    /\ loop = "created" /\ running = FALSE
    /\ reply = << >> /\ events = 0
    /\ txn = 1
    /\ call \in {q \in Requests : q.kind = "read" /\ q.txn = 0
                                 /\ q.unit = ServerUnit}
    /\ at = "idle"
    /\ last = [outcome |-> "none", value |-> NoValue, frame |-> NoFrame]
    /\ quiet = TRUE
    /\ possible = [a \in Addresses |-> {InitialValue}]

-----------------------------------------------------------------------------
(* Client                                                                  *)

(* transact takes the next id and sends.  A write that may reach the       *)
(* server makes its value possible.                                        *)
Begin(q) ==
    /\ at = "idle"
    /\ txn <= MaxCalls
    /\ q.txn = txn
    /\ txn' = txn + 1
    /\ call' = q
    /\ quiet' = (toServer = << >> /\ toClient = << >> /\ reply = << >>)

CallSend(q) ==
    /\ Begin(q)
    /\ toServer' = Append(toServer, q)
    /\ at' = "receive"
    /\ possible' = IF q.kind = "write"
                   THEN [possible EXCEPT ![q.addr] = @ \union {q.val}]
                   ELSE possible
    /\ UNCHANGED <<toClient, serverVars, last>>

CallSendFails(q) ==
    /\ Begin(q)
    /\ last' = [outcome |-> "senderror", value |-> NoValue, frame |-> NoFrame]
    /\ UNCHANGED <<toServer, toClient, serverVars, at, possible>>

CallTimesOut ==
    /\ at = "receive"
    /\ at' = "idle"
    /\ last' = [outcome |-> "timeout", value |-> NoValue, frame |-> NoFrame]
    /\ UNCHANGED <<toServer, toClient, serverVars, txn, call, quiet, possible>>

(* What a call makes of the frame it receives: neither the transaction id  *)
(* nor the unit id of the response is looked at.                           *)
Outcome(f) ==
    CASE f.kind = "event" -> "invalid"
      [] f.kind = "exception" -> "exception"
      [] OTHER -> "ok"

Decoded(f) ==
    CASE call.kind # "read" \/ Outcome(f) # "ok" -> NoValue
      [] f.kind = "values" -> f.val
      [] OTHER -> Junk

Accepted(f) ==
    [outcome |-> Outcome(f), value |-> Decoded(f), frame |-> f]

CallReceive ==
    /\ at = "receive"
    /\ toClient # << >>
    /\ last' = Accepted(Head(toClient))
    /\ toClient' = Tail(toClient)
    /\ at' = "idle"
    /\ possible' = IF /\ call.kind = "write" /\ quiet
                      /\ Outcome(Head(toClient)) = "ok"
                   THEN [possible EXCEPT ![call.addr] = {call.val}]
                   ELSE possible
    /\ UNCHANGED <<toServer, serverVars, txn, call, quiet>>

(* A turn of Subscriber::poll, which another thread may call while a call  *)
(* waits for its response: what it takes is lost to the call.              *)
SubscriberPoll ==
    /\ toClient # << >>
    /\ toClient' = Tail(toClient)
    /\ UNCHANGED <<toServer, serverVars, clientVars>>

-----------------------------------------------------------------------------
(* Server                                                                  *)

Run ==
    /\ loop \in {"created", "exited"}
    /\ running' = TRUE
    /\ loop' = "test"
    /\ UNCHANGED <<toServer, toClient, store, reply, events, clientVars>>

Stop ==
    /\ running
    /\ running' = FALSE
    /\ UNCHANGED <<toServer, toClient, store, loop, reply, events, clientVars>>

LoopTestIgnored ==
    /\ loop = "test"
    /\ loop' = "process"
    /\ UNCHANGED <<toServer, toClient, store, running, reply, events, clientVars>>

LoopTest ==
    /\ loop = "test"
    /\ loop' = IF running THEN "process" ELSE "exited"
    /\ UNCHANGED <<toServer, toClient, store, running, reply, events, clientVars>>

(* receive(10 ms) ends without a frame.                                    *)
ProcessNothing ==
    /\ loop = "process"
    /\ toServer = << >>
    /\ loop' = "scan"
    /\ UNCHANGED <<toServer, toClient, store, running, reply, events, clientVars>>

AddressedAny(q) == TRUE
Addressed(q) == q.unit \in {ServerUnit, Broadcast}

AnswerUntagged(q, kind, val) == << [kind |-> kind, txn |-> 0, val |-> val] >>
Answer(q, kind, val) == << [kind |-> kind, txn |-> q.txn, val |-> val] >>

(* handle_request: the reply to a request, if there is one.  A write is    *)
(* echoed whatever its handler returned; no other function code has one.   *)
ReplyStale(q) ==
    CASE q.kind = "read" /\ q.addr \notin Unreadable -> Answer(q, "values", InitialValue)
      [] q.kind = "read" /\ q.addr \in Unreadable -> Answer(q, "exception", NoValue)
      [] q.kind = "write" -> Answer(q, "echo", NoValue)
      [] OTHER -> << >>

ReplyTo(q) ==
    CASE q.kind = "read" /\ q.addr \notin Unreadable -> Answer(q, "values", store[q.addr])
      [] q.kind = "read" /\ q.addr \in Unreadable -> Answer(q, "exception", NoValue)
      [] q.kind = "write" -> Answer(q, "echo", NoValue)
      [] OTHER -> << >>

(* The write handler is called and accepts the values.                     *)
WritesAny(q) == q.addr \notin Unwritable
Writes(q) == q.kind = "write" /\ q.addr \notin Unwritable

(* process_one: the handler runs and its reply is built.                   *)
Process ==
    /\ loop = "process"
    /\ toServer # << >>
    /\ toServer' = Tail(toServer)
    /\ LET q == Head(toServer) IN
         /\ store' = IF Addressed(q) /\ Writes(q)
                     THEN [store EXCEPT ![q.addr] = q.val]
                     ELSE store
         /\ reply' = IF Addressed(q) THEN ReplyTo(q) ELSE << >>
         /\ loop' = IF reply' = << >> THEN "scan" ELSE "reply"
    /\ UNCHANGED <<toClient, running, events, clientVars>>

SendReplyTwice ==
    /\ loop = "reply"
    /\ toClient' = toClient \o reply \o reply
    /\ reply' = << >>
    /\ loop' = "scan"
    /\ UNCHANGED <<toServer, store, running, events, clientVars>>

SendReply ==
    /\ loop = "reply"
    /\ toClient' = toClient \o reply
    /\ reply' = << >>
    /\ loop' = "scan"
    /\ UNCHANGED <<toServer, store, running, events, clientVars>>

(* The result of the transport's send is not looked at.                    *)
SendReplyFails ==
    /\ loop = "reply"
    /\ reply' = << >>
    /\ loop' = "scan"
    /\ UNCHANGED <<toServer, toClient, store, running, events, clientVars>>

(* scan_and_notify, which may send an event frame (see PubSub).            *)
Scan ==
    /\ loop = "scan"
    /\ loop' = "test"
    /\ UNCHANGED <<toServer, toClient, store, running, reply, events, clientVars>>

ScanNotifies ==
    /\ loop = "scan"
    /\ events < MaxEvents
    /\ events' = events + 1
    /\ toClient' = Append(toClient, Event)
    /\ loop' = "test"
    /\ UNCHANGED <<toServer, store, running, reply, clientVars>>

ServerStep ==
    \/ LoopTest \/ ProcessNothing \/ Process \/ SendReply \/ SendReplyFails
    \/ Scan \/ ScanNotifies

ClientStep ==
    \/ \E q \in Requests : CallSend(q) \/ CallSendFails(q)
    \/ CallTimesOut \/ CallReceive \/ SubscriberPoll

Next == ClientStep \/ Run \/ Stop \/ ServerStep

Spec == Init /\ [][Next]_vars

(* The server's thread is scheduled; receive ends at its timeout at the    *)
(* latest.                                                                 *)
Fairness == WF_vars(ServerStep) /\ WF_vars(CallTimesOut \/ CallReceive)

LiveSpec == Spec /\ Fairness

-----------------------------------------------------------------------------
(* Properties                                                              *)

TypeOK ==
    /\ toServer \in Seq(Requests)
    /\ toClient \in Seq(Replies \union {Event})
    /\ store \in [Addresses -> Values]
    /\ loop \in {"created", "test", "process", "reply", "scan", "exited"}
    /\ running \in BOOLEAN
    /\ reply = << >> \/ \E f \in Replies : reply = <<f>>
    /\ events \in 0 .. MaxEvents
    /\ txn \in 1 .. MaxCalls + 1
    /\ call \in Requests
    /\ at \in {"idle", "receive"}
    /\ last.outcome \in Outcomes
    /\ last.value \in Values \union {NoValue, Junk}
    /\ quiet \in BOOLEAN
    /\ possible \in [Addresses -> SUBSET Values]

Ended == at = "idle" /\ last.frame # NoFrame

(* The only way a call can end with the response to another call is that   *)
(* an older frame was under way when it began: a late response of a call   *)
(* that timed out, or an event frame, still in a queue (transact ignores   *)
(* the transaction id).                                                    *)
MatchedWhenQuiet ==
    Ended /\ quiet /\ last.frame # Event => last.frame.txn = call.txn

(* The response a call returns is the response to that call.               *)
TransactionMatched ==
    Ended /\ last.outcome = "ok" => last.frame.txn = call.txn

(* A read returns a value the register may have: the last one a quiet      *)
(* write was acknowledged for, or one of a write whose fate is unknown.    *)
ReadYourWrites ==
    Ended /\ quiet /\ call.kind = "read" /\ last.outcome = "ok" =>
        last.value \in possible[call.addr]

(* A device that is not the server's never seems to answer, and an error   *)
(* of the read handler always arrives as an exception, for a call that     *)
(* began with nothing under way (the unit check of process_one).           *)
QuietOutcome ==
    Ended /\ quiet /\ last.frame # Event =>
        /\ call.unit \in {ServerUnit, Broadcast}
        /\ call.kind = "read" =>
               (last.outcome = "exception" <=> call.addr \in Unreadable)

(* Replies arrive in the order of the calls and none arrives twice: every  *)
(* reply under way is newer than the one before it and than the one the    *)
(* last call consumed.                                                     *)
Answers(s) == {i \in DOMAIN s : s[i].kind # "event"}

Sorted(s) == \A i, j \in Answers(s) : i < j => s[i].txn < s[j].txn
Precedes(s, t) == \A i \in Answers(s), j \in Answers(t) : s[i].txn < t[j].txn

RepliesInOrder ==
    /\ Sorted(toClient) /\ Sorted(toServer)
    /\ Precedes(toClient, reply) /\ Precedes(toClient, toServer)
    /\ Precedes(reply, toServer)
    /\ \A s \in {toClient, reply, toServer} : Precedes(<<last.frame>>, s)

(* A stop that is called once run has set its flag makes run return, with  *)
(* requests still arriving (one that comes before is overwritten by run).  *)
StopEnds == (loop \notin {"created", "exited"} /\ ~running) ~> loop = "exited"

=============================================================================
