-------------------------- MODULE ClientServerProofs --------------------------
(***************************************************************************)
(* Proofs about ClientServer: types, the order of replies, and what a call *)
(* that began with nothing under way can end with, for any addresses,      *)
(* values, units and numbers of calls and events.                          *)
(***************************************************************************)
EXTENDS ClientServer, SequenceTheorems, TLAPS

Frames == Replies \union {Event}

-----------------------------------------------------------------------------
(* Frames                                                                  *)

LEMMA RequestFields ==
    ASSUME NEW q \in Requests
    PROVE  /\ q.kind \in {"read", "extended", "write"} /\ q.txn \in 0 .. MaxCalls
           /\ q.unit \in Units /\ q.addr \in Addresses
           /\ q.kind = "write" => q.val \in Values
  BY DEF Requests

LEMMA ReplyFields ==
    ASSUME NEW f \in Replies
    PROVE  /\ f.kind \in {"values", "echo", "exception"} /\ f.txn \in 0 .. MaxCalls
           /\ f.val \in Values \union {NoValue} /\ f.kind # "event"
  BY DEF Replies

(* What handle_request answers, when it does.                              *)
LEMMA ReplyShape ==
    ASSUME NEW q \in Requests, store \in [Addresses -> Values]
    PROVE  \/ ReplyTo(q) = << >> /\ q.kind = "extended"
           \/ \E f \in Replies :
                 /\ ReplyTo(q) = <<f>> /\ f.txn = q.txn
                 /\ q.kind = "read" => f.kind = (IF q.addr \in Unreadable THEN "exception"
                                                                          ELSE "values")
                 /\ q.kind = "write" => f.kind = "echo"
                 /\ f.kind = "values" => f.val = store[q.addr]
<1>1. /\ q.kind \in {"read", "extended", "write"} /\ q.txn \in 0 .. MaxCalls
      /\ store[q.addr] \in Values
  BY RequestFields
<1>2. CASE q.kind = "read" /\ q.addr \notin Unreadable
  <2> DEFINE f == [kind |-> "values", txn |-> q.txn, val |-> store[q.addr]]
  <2>1. f \in Replies /\ f.txn = q.txn /\ f.kind = "values" /\ f.val = store[q.addr]
    BY <1>1 DEF Replies
  <2>2. ReplyTo(q) = <<f>>
    BY <1>2 DEF ReplyTo, Answer
  <2> HIDE DEF f
  <2> QED
    BY <1>2, <2>1, <2>2
<1>3. CASE q.kind = "read" /\ q.addr \in Unreadable
  <2> DEFINE f == [kind |-> "exception", txn |-> q.txn, val |-> NoValue]
  <2>1. f \in Replies /\ f.txn = q.txn /\ f.kind = "exception"
    BY <1>1 DEF Replies
  <2>2. ReplyTo(q) = <<f>>
    BY <1>3 DEF ReplyTo, Answer
  <2> HIDE DEF f
  <2> QED
    BY <1>3, <2>1, <2>2
<1>4. CASE q.kind = "write"
  <2> DEFINE f == [kind |-> "echo", txn |-> q.txn, val |-> NoValue]
  <2>1. f \in Replies /\ f.txn = q.txn /\ f.kind = "echo"
    BY <1>1 DEF Replies
  <2>2. ReplyTo(q) = <<f>>
    BY <1>4 DEF ReplyTo, Answer
  <2> HIDE DEF f
  <2> QED
    BY <1>4, <2>1, <2>2
<1>5. CASE q.kind = "extended"
  BY <1>5 DEF ReplyTo
<1> QED
  BY <1>1, <1>2, <1>3, <1>4, <1>5

-----------------------------------------------------------------------------
(* Types                                                                   *)

LEMMA InitialTypes == Init => TypeOK
<1> SUFFICES ASSUME Init PROVE TypeOK
  OBVIOUS
<1> USE DEF Init
<1>1. call \in Requests /\ store \in [Addresses -> Values]
  BY ClientServerAssumption
<1>2. possible \in [Addresses -> SUBSET Values] /\ toServer \in Seq(Requests)
  BY ClientServerAssumption
<1>3. last.outcome \in Outcomes /\ last.value \in Values \union {NoValue, Junk}
  BY DEF Outcomes
<1>4. txn \in 1 .. MaxCalls + 1 /\ events \in 0 .. MaxEvents
  BY ClientServerAssumption
<1>5. toClient \in Seq(Frames) /\ reply = << >>
  OBVIOUS
<1>6. running \in BOOLEAN /\ quiet \in BOOLEAN
  OBVIOUS
<1>7. at = "idle" /\ loop = "created"
  OBVIOUS
<1> HIDE DEF Init
<1> QED
  BY <1>1, <1>2, <1>3, <1>4, <1>5, <1>6, <1>7 DEF TypeOK, Frames

LEMMA TypeStep == TypeOK /\ [Next]_vars => TypeOK'
<1> SUFFICES ASSUME TypeOK, [Next]_vars PROVE TypeOK'
  OBVIOUS
<1> USE DEF serverVars, clientVars
<1>0. /\ toServer \in Seq(Requests) /\ toClient \in Seq(Frames)
      /\ call \in Requests /\ store \in [Addresses -> Values]
  BY DEF TypeOK, Frames
<1>1. ASSUME NEW q \in Requests, CallSend(q) PROVE TypeOK'
  <2>1. txn' \in 1 .. MaxCalls + 1 /\ toServer' \in Seq(Requests) /\ quiet' \in BOOLEAN
    BY <1>0, <1>1, ClientServerAssumption DEF CallSend, Begin, TypeOK
  <2>2. possible' \in [Addresses -> SUBSET Values]
    BY <1>1, RequestFields DEF CallSend, TypeOK
  <2> QED
    BY <1>1, <2>1, <2>2 DEF CallSend, Begin, TypeOK
<1>2. ASSUME NEW q \in Requests, CallSendFails(q) PROVE TypeOK'
  <2>1. txn' \in 1 .. MaxCalls + 1 /\ quiet' \in BOOLEAN
    BY <1>2, ClientServerAssumption DEF CallSendFails, Begin, TypeOK
  <2>2. last'.outcome \in Outcomes /\ last'.value \in Values \union {NoValue, Junk}
    BY <1>2 DEF CallSendFails, Outcomes
  <2> QED
    BY <1>2, <2>1, <2>2 DEF CallSendFails, Begin, TypeOK
<1>3. CASE CallTimesOut
  <2>1. last'.outcome \in Outcomes /\ last'.value \in Values \union {NoValue, Junk}
    BY <1>3 DEF CallTimesOut, Outcomes
  <2> QED
    BY <1>3, <2>1 DEF CallTimesOut, TypeOK
<1>4. CASE CallReceive
  <2> DEFINE f == Head(toClient)
  <2>1. toClient' \in Seq(Frames) /\ f \in Frames
    BY <1>0, <1>4 DEF CallReceive
  <2>2. Outcome(f) \in Outcomes
    BY DEF Outcome, Outcomes
  <2>3. Decoded(f) \in Values \union {NoValue, Junk}
    <3>1. f \in Replies \/ f = Event
      BY <2>1 DEF Frames
    <3>2. f.val \in Values \union {NoValue}
      BY <3>1, ReplyFields DEF Event
    <3> QED
      BY <3>2 DEF Decoded
  <2>4. last'.outcome \in Outcomes /\ last'.value \in Values \union {NoValue, Junk}
    BY <1>4, <2>2, <2>3 DEF CallReceive, Accepted
  <2>5. possible' \in [Addresses -> SUBSET Values]
    BY <1>0, <1>4, RequestFields DEF CallReceive, TypeOK
  <2> QED
    BY <1>4, <2>1, <2>4, <2>5 DEF CallReceive, TypeOK, Frames
<1>5. CASE SubscriberPoll
  <2>1. toClient' \in Seq(Frames)
    BY <1>0, <1>5 DEF SubscriberPoll
  <2> QED
    BY <1>5, <2>1 DEF SubscriberPoll, TypeOK, Frames
<1>6. CASE Run \/ Stop \/ LoopTest \/ ProcessNothing \/ Scan
  BY <1>6 DEF Run, Stop, LoopTest, ProcessNothing, Scan, TypeOK
<1>7. CASE Process
  <2> DEFINE q == Head(toServer)
  <2>1. q \in Requests /\ toServer' \in Seq(Requests)
    BY <1>0, <1>7 DEF Process
  <2>2. store' \in [Addresses -> Values]
    BY <1>0, <1>7, <2>1, RequestFields DEF Process, Writes
  <2>3. reply' = << >> \/ \E f \in Replies : reply' = <<f>>
    BY <1>0, <1>7, <2>1, ReplyShape DEF Process
  <2>4. loop' \in {"created", "test", "process", "reply", "scan", "exited"}
    BY <1>7 DEF Process
  <2> QED
    BY <1>7, <2>1, <2>2, <2>3, <2>4 DEF Process, TypeOK
<1>8. CASE SendReply
  <2>1. reply \in Seq(Frames)
    <3>1. reply = << >> \/ \E f \in Frames : reply = <<f>>
      BY DEF TypeOK, Frames
    <3>2. ASSUME NEW f \in Frames PROVE <<f>> \in Seq(Frames)
      OBVIOUS
    <3>3. CASE reply = << >>
      BY <3>3
    <3>4. ASSUME NEW f \in Frames, reply = <<f>> PROVE reply \in Seq(Frames)
      BY <3>2, <3>4
    <3> QED
      BY <3>1, <3>3, <3>4
  <2>2. toClient' \in Seq(Frames)
    BY <1>0, <1>8, <2>1 DEF SendReply
  <2> QED
    BY <1>8, <2>2 DEF SendReply, TypeOK, Frames
<1>9. CASE SendReplyFails
  BY <1>9 DEF SendReplyFails, TypeOK
<1>10. CASE ScanNotifies
  <2>1. toClient' \in Seq(Frames)
    BY <1>0, <1>10 DEF ScanNotifies, Frames
  <2>2. events' \in 0 .. MaxEvents
    BY <1>10, ClientServerAssumption DEF ScanNotifies, TypeOK
  <2> QED
    BY <1>10, <2>1, <2>2 DEF ScanNotifies, TypeOK, Frames
<1>11. CASE UNCHANGED vars
  BY <1>11 DEF vars, TypeOK
<1> QED
  BY <1>1, <1>2, <1>3, <1>4, <1>5, <1>6, <1>7, <1>8, <1>9, <1>10, <1>11
     DEF Next, ClientStep, ServerStep

(* Types of the variables.                                                 *)
THEOREM TypeCorrect == Spec => []TypeOK
  BY InitialTypes, TypeStep, PTL DEF Spec

-----------------------------------------------------------------------------
(* The order of replies                                                    *)

Bounded(s, n) == \A i \in Answers(s) : s[i].txn \in 1 .. n

(* Ids are given out in order and belong to frames once; the call that     *)
(* waits has the youngest.                                                 *)
Issued ==
    /\ \A s \in {toClient, reply, toServer} : Bounded(s, txn - 1)
    /\ last.frame.txn \in 0 .. txn - 1
    /\ at = "receive" => call.txn = txn - 1

OrderInv == TypeOK /\ Issued /\ RepliesInOrder

(* Taking the first frame of a queue.                                      *)
LEMMA TailOrder ==
    ASSUME NEW S, NEW s \in Seq(S), s # << >>, NEW t, NEW n
    PROVE  /\ Sorted(s) => Sorted(Tail(s)) /\ Precedes(<<Head(s)>>, Tail(s))
           /\ Precedes(s, t) => Precedes(Tail(s), t) /\ Precedes(<<Head(s)>>, t)
           /\ Precedes(t, s) => Precedes(t, Tail(s))
           /\ Bounded(s, n) => Bounded(Tail(s), n)
<1> DEFINE r == Tail(s)
           h == <<Head(s)>>
<1>1. /\ \A i \in DOMAIN r : i + 1 \in DOMAIN s /\ r[i] = s[i + 1] /\ i \in Nat /\ 1 < i + 1
      /\ 1 \in DOMAIN s /\ Head(s) = s[1]
  OBVIOUS
<1>2. DOMAIN h = {1} /\ h[1] = s[1]
  BY <1>1
<1> HIDE DEF r, h
<1>3. Sorted(s) => Sorted(r) /\ Precedes(h, r)
  BY <1>1, <1>2 DEF Sorted, Precedes, Answers
<1>4. Precedes(s, t) => Precedes(r, t) /\ Precedes(h, t)
  BY <1>1, <1>2 DEF Precedes, Answers
<1>5. Precedes(t, s) => Precedes(t, r)
  BY <1>1 DEF Precedes, Answers
<1>6. Bounded(s, n) => Bounded(r, n)
  BY <1>1 DEF Bounded, Answers
<1> QED
  BY <1>3, <1>4, <1>5, <1>6 DEF r, h

(* Adding a frame at the end of a queue.                                   *)
LEMMA AppendOrder ==
    ASSUME NEW S, NEW s \in Seq(S), NEW e \in S, NEW t, NEW n
    PROVE  /\ Sorted(s) /\ Precedes(s, <<e>>) => Sorted(Append(s, e))
           /\ Precedes(s, t) /\ Precedes(<<e>>, t) => Precedes(Append(s, e), t)
           /\ Precedes(t, s) /\ Precedes(t, <<e>>) => Precedes(t, Append(s, e))
           /\ Bounded(s, n) /\ Bounded(<<e>>, n) => Bounded(Append(s, e), n)
<1> DEFINE r == Append(s, e)
           m == Len(s) + 1
           h == <<e>>
<1>1. /\ Len(s) \in Nat /\ m \in DOMAIN r /\ r[m] = e
      /\ \A i \in DOMAIN r : i \in 1 .. m /\ (i # m => i \in DOMAIN s /\ r[i] = s[i])
  OBVIOUS
<1>2. DOMAIN h = {1} /\ h[1] = e
  OBVIOUS
<1> HIDE DEF r, m, h
<1>3. m \in Nat
  BY <1>1 DEF m
<1>4. Sorted(s) /\ Precedes(s, h) => Sorted(r)
  BY <1>1, <1>2, <1>3 DEF Sorted, Precedes, Answers
<1>5. Precedes(s, t) /\ Precedes(h, t) => Precedes(r, t)
  BY <1>1, <1>2 DEF Precedes, Answers
<1>6. Precedes(t, s) /\ Precedes(t, h) => Precedes(t, r)
  BY <1>1, <1>2 DEF Precedes, Answers
<1>7. Bounded(s, n) /\ Bounded(h, n) => Bounded(r, n)
  BY <1>1, <1>2 DEF Bounded, Answers
<1> QED
  BY <1>4, <1>5, <1>6, <1>7 DEF r, h

(* A frame with a new id comes after every frame with an older one.        *)
LEMMA NewestLast ==
    ASSUME NEW s, NEW n \in Nat, Bounded(s, n), NEW e, e.txn = n + 1
    PROVE  Precedes(s, <<e>>)
  BY DEF Bounded, Precedes, Answers

(* Events and empty sequences have no place in the order.                  *)
LEMMA Exempt ==
    ASSUME NEW s, NEW t, t = << >> \/ t = <<Event>>, NEW n
    PROVE  Precedes(s, t) /\ Precedes(t, s) /\ Sorted(t) /\ Bounded(t, n)
<1>1. Answers(t) = {}
  BY DEF Answers, Event
<1> QED
  BY <1>1 DEF Precedes, Sorted, Bounded

(* No frame has the id of a call that failed before it received one.       *)
LEMMA NoFrameFirst ==
    ASSUME NEW s, NEW n \in Nat, Bounded(s, n)
    PROVE  Precedes(<<NoFrame>>, s) /\ Bounded(s, n + 1)
<1>1. \A i \in DOMAIN <<NoFrame>> : <<NoFrame>>[i].txn = 0
  BY DEF NoFrame
<1> QED
  BY <1>1 DEF Bounded, Precedes, Answers

LEMMA InitialOrder == Init => OrderInv
<1> SUFFICES ASSUME Init PROVE OrderInv
  OBVIOUS
<1>1. toServer = << >> /\ toClient = << >> /\ reply = << >> /\ at = "idle" /\ txn = 1
  BY DEF Init
<1>2. last.frame = NoFrame /\ NoFrame.txn = 0
  BY DEF Init, NoFrame
<1>3. Issued
  BY <1>1, <1>2, Exempt DEF Issued
<1>4. RepliesInOrder
  BY <1>1, Exempt DEF RepliesInOrder
<1> QED
  BY <1>3, <1>4, InitialTypes DEF OrderInv

LEMMA OrderStep == OrderInv /\ [Next]_vars => OrderInv'
<1> SUFFICES ASSUME OrderInv, [Next]_vars PROVE Issued' /\ RepliesInOrder'
  BY TypeStep DEF OrderInv
<1> USE DEF serverVars, clientVars
<1>0. /\ toServer \in Seq(Requests) /\ toClient \in Seq(Frames)
      /\ txn \in Nat \ {0} /\ txn - 1 \in Nat /\ (txn - 1) + 1 = txn
      /\ (txn + 1) - 1 = txn
      /\ reply = << >> \/ \E f \in Replies : reply = <<f>>
      /\ store \in [Addresses -> Values]
  BY ClientServerAssumption DEF OrderInv, TypeOK, Frames
<1>00. /\ Bounded(toClient, txn - 1) /\ Bounded(reply, txn - 1)
       /\ Bounded(toServer, txn - 1)
       /\ last.frame.txn \in 0 .. txn - 1 /\ (at = "receive" => call.txn = txn - 1)
       /\ Sorted(toClient) /\ Sorted(toServer)
       /\ Precedes(toClient, reply) /\ Precedes(toClient, toServer)
       /\ Precedes(reply, toServer)
       /\ Precedes(<<last.frame>>, toClient) /\ Precedes(<<last.frame>>, reply)
       /\ Precedes(<<last.frame>>, toServer)
  BY DEF OrderInv, Issued, RepliesInOrder
<1> DEFINE Good == Issued' /\ RepliesInOrder'
<1> USE DEF Issued, RepliesInOrder
<1>1. CASE UNCHANGED <<toServer, toClient, reply, last, txn, at, call>>
  BY <1>00, <1>1
<1>2. ASSUME NEW q \in Requests, CallSend(q) PROVE Good
  <2>1. /\ q.txn = txn /\ txn' = txn + 1 /\ call' = q /\ at' = "receive"
        /\ toServer' = Append(toServer, q) /\ UNCHANGED <<toClient, reply, last>>
    BY <1>2 DEF CallSend, Begin
  <2>2. /\ Bounded(toClient, txn) /\ Bounded(reply, txn) /\ Bounded(toServer, txn)
    BY <1>0, <1>00, NoFrameFirst
  <2>3. /\ Precedes(toServer, <<q>>) /\ Precedes(toClient, <<q>>) /\ Precedes(reply, <<q>>)
    BY <1>0, <1>00, <2>1, NewestLast
  <2>4. Precedes(<<last.frame>>, <<q>>) /\ Bounded(<<q>>, txn)
    BY <1>0, <1>00, <2>1 DEF Precedes, Bounded, Answers
  <2>5. /\ Sorted(toServer') /\ Precedes(toClient, toServer') /\ Precedes(reply, toServer')
        /\ Precedes(<<last.frame>>, toServer') /\ Bounded(toServer', txn)
    BY <1>0, <1>00, <2>1, <2>2, <2>3, <2>4, AppendOrder
  <2> QED
    BY <1>0, <1>00, <2>1, <2>2, <2>5
<1>3. ASSUME NEW q \in Requests, CallSendFails(q) PROVE Good
  <2>1. /\ txn' = txn + 1 /\ last'.frame = NoFrame /\ at' = "idle"
        /\ UNCHANGED <<toServer, toClient, reply>>
    BY <1>3 DEF CallSendFails, Begin
  <2>2. /\ Bounded(toClient, txn) /\ Bounded(reply, txn) /\ Bounded(toServer, txn)
        /\ Precedes(<<NoFrame>>, toClient) /\ Precedes(<<NoFrame>>, reply)
        /\ Precedes(<<NoFrame>>, toServer)
    BY <1>0, <1>00, NoFrameFirst
  <2>3. NoFrame.txn = 0
    BY DEF NoFrame
  <2> QED
    BY <1>0, <1>00, <2>1, <2>2, <2>3
<1>4. CASE CallTimesOut
  <2>1. /\ last'.frame = NoFrame /\ at' = "idle"
        /\ UNCHANGED <<toServer, toClient, reply, txn, call>>
    BY <1>4 DEF CallTimesOut
  <2>2. /\ Precedes(<<NoFrame>>, toClient) /\ Precedes(<<NoFrame>>, reply)
        /\ Precedes(<<NoFrame>>, toServer)
    BY <1>0, <1>00, NoFrameFirst
  <2>3. NoFrame.txn = 0
    BY DEF NoFrame
  <2> QED
    BY <1>0, <1>00, <2>1, <2>2, <2>3
<1>5. CASE CallReceive
  <2> DEFINE f == Head(toClient)
  <2>1. /\ toClient # << >> /\ toClient' = Tail(toClient) /\ last'.frame = f
        /\ at' = "idle" /\ UNCHANGED <<toServer, reply, txn, call>>
    BY <1>5 DEF CallReceive, Accepted
  <2>2. /\ Sorted(toClient') /\ Precedes(<<f>>, toClient')
        /\ Precedes(toClient', reply) /\ Precedes(<<f>>, reply)
        /\ Precedes(toClient', toServer) /\ Precedes(<<f>>, toServer)
        /\ Bounded(toClient', txn - 1)
    BY <1>0, <1>00, <2>1, TailOrder
  <2>3. f.txn \in 0 .. txn - 1
    <3>1. 1 \in DOMAIN toClient /\ f = toClient[1] /\ f \in Frames
      BY <1>0, <2>1
    <3>2. CASE f = Event
      BY <1>0, <3>2 DEF Event
    <3>3. CASE f \in Replies
      BY <1>0, <1>00, <3>1, <3>3, ReplyFields DEF Bounded, Answers
    <3> QED
      BY <3>1, <3>2, <3>3 DEF Frames
  <2> HIDE DEF f
  <2> QED
    BY <1>00, <2>1, <2>2, <2>3
<1>6. CASE SubscriberPoll
  <2>1. /\ toClient # << >> /\ toClient' = Tail(toClient)
        /\ UNCHANGED <<toServer, reply, last, txn, at, call>>
    BY <1>6 DEF SubscriberPoll
  <2>2. /\ Sorted(toClient') /\ Precedes(toClient', reply)
        /\ Precedes(toClient', toServer) /\ Precedes(<<last.frame>>, toClient')
        /\ Bounded(toClient', txn - 1)
    BY <1>0, <1>00, <2>1, TailOrder
  <2> QED
    BY <1>00, <2>1, <2>2
<1>7. CASE Run \/ Stop \/ LoopTest \/ ProcessNothing \/ Scan
  BY <1>1, <1>7 DEF Run, Stop, LoopTest, ProcessNothing, Scan
<1>8. CASE Process
  <2> DEFINE q == Head(toServer)
  <2>1. /\ toServer # << >> /\ toServer' = Tail(toServer) /\ q \in Requests
        /\ UNCHANGED <<toClient, txn, at, call, last>>
    BY <1>0, <1>8 DEF Process
  <2>2. reply' = << >> \/ \E f \in Replies : reply' = <<f>> /\ f.txn = q.txn
    BY <1>0, <1>8, <2>1, ReplyShape DEF Process
  <2>3. /\ Sorted(toServer') /\ Precedes(<<q>>, toServer')
        /\ Precedes(toClient, toServer') /\ Precedes(<<last.frame>>, toServer')
        /\ Bounded(toServer', txn - 1)
    BY <1>0, <1>00, <2>1, TailOrder
  <2>4. 1 \in DOMAIN toServer /\ q = toServer[1] /\ q.kind # "event"
    BY <1>0, <2>1, RequestFields
  <2>5. /\ Precedes(toClient, <<q>>) /\ Precedes(<<last.frame>>, <<q>>)
        /\ q.txn \in 1 .. txn - 1
    BY <1>00, <2>4 DEF Precedes, Bounded, Answers
  <2> HIDE DEF q
  <2>6. CASE reply' = << >>
    BY <1>00, <2>1, <2>3, <2>6, Exempt
  <2>7. ASSUME NEW f \in Replies, reply' = <<f>>, f.txn = q.txn PROVE Good
    <3>1. Precedes(<<f>>, toServer') /\ Precedes(toClient, <<f>>)
      BY <2>3, <2>4, <2>5, <2>7 DEF Precedes, Answers
    <3>2. Precedes(<<last.frame>>, <<f>>) /\ Bounded(<<f>>, txn - 1)
      BY <2>4, <2>5, <2>7 DEF Precedes, Bounded, Answers
    <3> QED
      BY <1>00, <2>1, <2>3, <2>7, <3>1, <3>2
  <2> QED
    BY <2>2, <2>6, <2>7
<1>9. CASE SendReply
  <2>1. /\ toClient' = toClient \o reply /\ reply' = << >>
        /\ UNCHANGED <<toServer, txn, at, call, last>>
    BY <1>9 DEF SendReply
  <2>2. CASE reply = << >>
    <3>1. toClient' = toClient
      BY <1>0, <2>1, <2>2
    <3> QED
      BY <1>1, <2>1, <2>2, <3>1
  <2>3. ASSUME NEW f \in Replies, reply = <<f>> PROVE Good
    <3>1. toClient' = Append(toClient, f) /\ f \in Frames
      BY <1>0, <2>1, <2>3 DEF Frames
    <3>2. /\ Sorted(toClient') /\ Precedes(toClient', toServer)
          /\ Precedes(<<last.frame>>, toClient') /\ Bounded(toClient', txn - 1)
      BY <1>0, <1>00, <2>3, <3>1, AppendOrder
    <3> QED
      BY <1>00, <2>1, <3>2, Exempt
  <2> QED
    BY <1>0, <2>2, <2>3
<1>10. CASE SendReplyFails
  <2>1. reply' = << >> /\ UNCHANGED <<toServer, toClient, txn, at, call, last>>
    BY <1>10 DEF SendReplyFails
  <2> QED
    BY <1>00, <2>1, Exempt
<1>11. CASE ScanNotifies
  <2>1. /\ toClient' = Append(toClient, Event) /\ Event \in Frames
        /\ UNCHANGED <<toServer, reply, txn, at, call, last>>
    BY <1>11 DEF ScanNotifies, Frames
  <2>2. /\ Precedes(toClient, <<Event>>) /\ Precedes(<<Event>>, reply)
        /\ Precedes(<<Event>>, toServer) /\ Precedes(<<last.frame>>, <<Event>>)
        /\ Bounded(<<Event>>, txn - 1)
    BY Exempt
  <2>3. /\ Sorted(toClient') /\ Precedes(toClient', reply) /\ Precedes(toClient', toServer)
        /\ Precedes(<<last.frame>>, toClient') /\ Bounded(toClient', txn - 1)
    BY <1>0, <1>00, <2>1, <2>2, AppendOrder
  <2> QED
    BY <1>00, <2>1, <2>3
<1>12. CASE UNCHANGED vars
  BY <1>1, <1>12 DEF vars
<1> QED
  BY <1>2, <1>3, <1>4, <1>5, <1>6, <1>7, <1>8, <1>9, <1>10, <1>11, <1>12
     DEF Next, ClientStep, ServerStep

(* Replies under way are in the order of the calls, each once, and newer   *)
(* than the one the last call consumed (handle_request answers in the      *)
(* order of receive, and both queues are FIFO).                            *)
THEOREM Ordered == Spec => []RepliesInOrder
<1>1. OrderInv => RepliesInOrder
  BY DEF OrderInv
<1> QED
  BY InitialOrder, OrderStep, <1>1, PTL DEF Spec

-----------------------------------------------------------------------------
(* A call that began with nothing under way                                *)

(* The registers of an address that refuses writes cannot be read either.  *)
(* Without this, a refused write is acknowledged and a later read returns  *)
(* what was there before.                                                  *)
RefusedUnseen == Unwritable \subseteq Unreadable

(* Frame f is what handle_request makes of the call under way.             *)
Fits(f) ==
    /\ f.txn = call.txn
    /\ call.unit \in {ServerUnit, Broadcast}
    /\ call.kind \in {"read", "write"}
    /\ call.kind = "read" => f.kind = (IF call.addr \in Unreadable THEN "exception"
                                                                   ELSE "values")
    /\ call.kind = "write" =>
          f.kind = "echo" /\ (call.addr \notin Unwritable => store[call.addr] = call.val)
    /\ RefusedUnseen /\ f.kind = "values" => f.val \in possible[call.addr]

(* The request is on its way, or was handled and the only answer fits it.  *)
Alone ==
    at = "receive" /\ quiet =>
        /\ toServer # << >> =>
              toServer = <<call>> /\ Answers(toClient) = {} /\ Answers(reply) = {}
        /\ \A i \in Answers(toClient) : Fits(toClient[i])
        /\ \A i \in Answers(reply) : Fits(reply[i])

(* Readable registers hold what the client thinks possible, and so will    *)
(* they when the writes under way have been handled.                       *)
Known ==
    /\ RefusedUnseen => \A a \in Addresses \ Unreadable : store[a] \in possible[a]
    /\ \A i \in DOMAIN toServer :
          toServer[i].kind = "write" => toServer[i].val \in possible[toServer[i].addr]

QuietInv ==
    /\ TypeOK /\ Alone /\ Known /\ MatchedWhenQuiet /\ QuietOutcome
    /\ RefusedUnseen => ReadYourWrites

LEMMA InitialQuiet == Init => QuietInv
<1> SUFFICES ASSUME Init PROVE QuietInv
  OBVIOUS
<1>1. Alone /\ Known
  BY ClientServerAssumption DEF Init, Alone, Known
<1>2. MatchedWhenQuiet /\ QuietOutcome /\ ReadYourWrites
  BY DEF Init, MatchedWhenQuiet, QuietOutcome, ReadYourWrites, Ended
<1> QED
  BY <1>1, <1>2, InitialTypes DEF QuietInv

LEMMA QuietStep == QuietInv /\ [Next]_vars => QuietInv'
<1> DEFINE Results == MatchedWhenQuiet /\ QuietOutcome /\ (RefusedUnseen => ReadYourWrites)
<1> SUFFICES ASSUME QuietInv, [Next]_vars PROVE Alone' /\ Known' /\ Results'
  BY TypeStep DEF QuietInv
<1> USE DEF serverVars, clientVars
<1>0. /\ toServer \in Seq(Requests) /\ toClient \in Seq(Frames)
      /\ call \in Requests /\ store \in [Addresses -> Values]
      /\ possible \in [Addresses -> SUBSET Values]
      /\ reply = << >> \/ \E f \in Replies : reply = <<f>>
      /\ Alone /\ Known /\ Results
  BY DEF QuietInv, TypeOK, Frames
<1>01. at' = "receive" \/ last'.frame = NoFrame => Results'
  BY DEF MatchedWhenQuiet, QuietOutcome, ReadYourWrites, Ended
<1>02. UNCHANGED <<at, call, last, quiet, possible>> => Results'
  BY <1>0 DEF MatchedWhenQuiet, QuietOutcome, ReadYourWrites, Ended
<1>1. CASE UNCHANGED <<toServer, toClient, reply, store, at, call, last, quiet, possible>>
  BY <1>0, <1>02, <1>1 DEF Alone, Known, Fits
<1>2. ASSUME NEW q \in Requests, CallSend(q) PROVE Alone' /\ Known' /\ Results'
  <2>1. /\ call' = q /\ at' = "receive" /\ toServer' = Append(toServer, q)
        /\ quiet' = (toServer = << >> /\ toClient = << >> /\ reply = << >>)
        /\ UNCHANGED <<toClient, reply, store>>
    BY <1>2 DEF CallSend, Begin
  <2>2. Alone'
    <3>1. \A s : s = << >> => Answers(s) = {} /\ Append(s, q) = <<q>>
      BY DEF Answers
    <3>2. quiet' => toServer' = <<q>> /\ Answers(toClient) = {} /\ Answers(reply) = {}
      BY <2>1, <3>1
    <3>3. UNCHANGED <<Answers(toClient), Answers(reply)>>
      BY <2>1
    <3> QED
      BY <2>1, <3>2, <3>3 DEF Alone
  <2>3. /\ \A a \in Addresses : possible[a] \subseteq possible'[a]
        /\ q.kind = "write" => q.val \in possible'[q.addr]
    BY <1>0, <1>2, RequestFields DEF CallSend
  <2>4. \A i \in DOMAIN toServer' : \/ i \in DOMAIN toServer /\ toServer'[i] = toServer[i]
                                    \/ toServer'[i] = q
    BY <1>0, <2>1
  <2>5. \A i \in DOMAIN toServer : toServer[i].addr \in Addresses
    BY <1>0, RequestFields
  <2>6. \A i \in DOMAIN toServer' :
           toServer'[i].kind = "write" => toServer'[i].val \in possible'[toServer'[i].addr]
    BY <1>0, <2>3, <2>4, <2>5 DEF Known
  <2>7. RefusedUnseen => \A a \in Addresses \ Unreadable : store'[a] \in possible'[a]
    BY <1>0, <2>1, <2>3 DEF Known
  <2> QED
    BY <1>01, <2>1, <2>2, <2>6, <2>7 DEF Known
<1>3. ASSUME NEW q \in Requests, CallSendFails(q) PROVE Alone' /\ Known' /\ Results'
  BY <1>0, <1>01, <1>3 DEF CallSendFails, Begin, Alone, Known
<1>4. CASE CallTimesOut
  BY <1>0, <1>01, <1>4 DEF CallTimesOut, Alone, Known
<1>5. CASE CallReceive
  <2> DEFINE f == Head(toClient)
  <2>1. /\ at = "receive" /\ at' = "idle" /\ last' = Accepted(f)
        /\ UNCHANGED <<toServer, reply, store, call, quiet>>
    BY <1>5 DEF CallReceive
  <2>2. /\ last'.frame = f /\ last'.outcome = Outcome(f) /\ last'.value = Decoded(f)
    BY <2>1 DEF Accepted
  <2>3. 1 \in DOMAIN toClient /\ f = toClient[1] /\ f \in Frames
    BY <1>0, <1>5 DEF CallReceive
  <2> HIDE DEF f
  <2>4. quiet /\ f.kind # "event" => Fits(f) /\ toServer = << >>
    <3>1. f.kind # "event" => 1 \in Answers(toClient)
      BY <2>3 DEF Answers
    <3> QED
      BY <1>0, <2>1, <2>3, <3>1 DEF Alone
  <2>5. f = Event \/ f.kind # "event"
    BY <2>3, ReplyFields DEF Frames
  <2>6. /\ (Outcome(f) = "exception" <=> f.kind = "exception")
        /\ Outcome(f) = "ok" => f.kind # "exception" /\ f.kind # "event"
    BY DEF Outcome
  <2>7. MatchedWhenQuiet' /\ QuietOutcome'
    BY <2>1, <2>2, <2>4, <2>5, <2>6 DEF MatchedWhenQuiet, QuietOutcome, Ended, Fits
  <2>8. CASE call.kind = "write" /\ quiet /\ Outcome(f) = "ok"
    <3>1. Fits(f) /\ toServer = << >>
      BY <2>4, <2>6, <2>8
    <3>2. possible' = [possible EXCEPT ![call.addr] = {call.val}]
      BY <1>5, <2>8 DEF CallReceive, f
    <3>3. RefusedUnseen => \A a \in Addresses \ Unreadable : store[a] \in possible'[a]
      BY <1>0, <2>8, <3>1, <3>2 DEF Known, Fits, RefusedUnseen
    <3>4. ReadYourWrites' /\ Alone' /\ Known'
      BY <2>1, <2>8, <3>1, <3>3 DEF ReadYourWrites, Alone, Known
    <3> QED
      BY <2>7, <3>4
  <2>9. CASE ~(call.kind = "write" /\ quiet /\ Outcome(f) = "ok")
    <3>1. possible' = possible
      BY <1>5, <2>9 DEF CallReceive, f
    <3>2. Alone' /\ Known'
      BY <1>0, <2>1, <3>1 DEF Alone, Known
    <3>3. ASSUME RefusedUnseen, quiet, call.kind = "read", Outcome(f) = "ok"
          PROVE  Decoded(f) \in possible[call.addr]
      <4>1. Fits(f)
        BY <2>4, <2>6, <3>3
      <4>2. f.kind = "values"
        BY <2>6, <3>3, <4>1 DEF Fits
      <4> QED
        BY <3>3, <4>1, <4>2 DEF Decoded, Fits
    <3>4. RefusedUnseen => ReadYourWrites'
      BY <2>1, <2>2, <3>1, <3>3 DEF ReadYourWrites
    <3> QED
      BY <2>7, <3>2, <3>4
  <2> QED
    BY <2>8, <2>9
<1>6. CASE SubscriberPoll
  <2>1. /\ toClient # << >> /\ toClient' = Tail(toClient)
        /\ UNCHANGED <<toServer, reply, store, at, call, last, quiet, possible>>
    BY <1>6 DEF SubscriberPoll
  <2>2. \A i \in DOMAIN toClient' : i + 1 \in DOMAIN toClient /\ toClient'[i] = toClient[i + 1]
    BY <1>0, <2>1
  <2>3. \A i \in Answers(toClient') : i + 1 \in Answers(toClient)
    BY <2>2 DEF Answers
  <2>4. Alone'
    <3>1. ASSUME at = "receive", quiet, NEW i \in Answers(toClient') PROVE Fits(toClient'[i])
      BY <1>0, <2>2, <2>3, <3>1 DEF Alone, Answers
    <3>2. \A f : Fits(f) => Fits(f)'
      BY <2>1 DEF Fits
    <3>3. toServer # << >> /\ at = "receive" /\ quiet => Answers(toClient') = {}
      BY <1>0, <2>3 DEF Alone
    <3> QED
      BY <1>0, <2>1, <3>1, <3>2, <3>3 DEF Alone
  <2>5. Known'
    BY <1>0, <2>1 DEF Known
  <2> QED
    BY <1>02, <2>1, <2>4, <2>5
<1>7. CASE Run \/ Stop \/ LoopTest \/ ProcessNothing \/ Scan
  BY <1>1, <1>7 DEF Run, Stop, LoopTest, ProcessNothing, Scan
<1>8. CASE Process
  <2> DEFINE q == Head(toServer)
  <2>1. /\ toServer # << >> /\ toServer' = Tail(toServer)
        /\ UNCHANGED <<toClient, at, call, last, quiet, possible>>
        /\ store' = IF Addressed(q) /\ Writes(q) THEN [store EXCEPT ![q.addr] = q.val]
                                                 ELSE store
        /\ reply' = IF Addressed(q) THEN ReplyTo(q) ELSE << >>
    BY <1>8 DEF Process
  <2>2. /\ 1 \in DOMAIN toServer /\ q = toServer[1] /\ q \in Requests
        /\ \A i \in DOMAIN toServer' : i + 1 \in DOMAIN toServer /\ toServer'[i] = toServer[i + 1]
    BY <1>0, <2>1
  <2> HIDE DEF q
  <2>3. Known'
    <3>1. q.kind = "write" => q.val \in possible[q.addr]
      BY <1>0, <2>2 DEF Known
    <3>2. RefusedUnseen => \A a \in Addresses \ Unreadable : store'[a] \in possible[a]
      BY <1>0, <2>1, <3>1 DEF Known, Writes
    <3> QED
      BY <1>0, <2>1, <2>2, <3>2 DEF Known
  <2>4. ASSUME at = "receive", quiet
        PROVE  /\ toServer' = << >> /\ \A i \in Answers(toClient) : Fits(toClient[i])'
               /\ \A i \in Answers(reply)' : Fits(reply[i])'
    <3>1. toServer = <<call>> /\ Answers(toClient) = {} /\ q = call
      BY <1>0, <2>1, <2>2, <2>4 DEF Alone
    <3>2. toServer' = << >>
      BY <1>0, <2>1, <3>1
    <3>3. ASSUME NEW i \in Answers(reply)' PROVE Fits(reply[i])'
      <4>1. Addressed(call) /\ reply' = ReplyTo(call) /\ reply' # << >>
        BY <2>1, <3>1, <3>3 DEF Answers
      <4>2. PICK f \in Replies :
               /\ reply' = <<f>> /\ f.txn = call.txn
               /\ call.kind = "read" => f.kind = (IF call.addr \in Unreadable
                                                  THEN "exception" ELSE "values")
               /\ call.kind = "write" => f.kind = "echo"
               /\ f.kind = "values" => f.val = store[call.addr]
        BY <1>0, <4>1, ReplyShape
      <4>3. reply'[i] = f
        BY <3>3, <4>2 DEF Answers
      <4>4. call.kind \in {"read", "write"}
        BY <1>0, <4>1, RequestFields DEF ReplyTo
      <4>5. call.kind = "write" =>
               (call.addr \notin Unwritable => store'[call.addr] = call.val)
        BY <1>0, <2>1, <3>1, <4>1, RequestFields DEF Writes
      <4>6. RefusedUnseen /\ f.kind = "values" => f.val \in possible[call.addr]
        BY <1>0, <4>2, <4>4, RequestFields DEF Known
      <4>7. call.unit \in {ServerUnit, Broadcast}
        BY <4>1 DEF Addressed
      <4> QED
        BY <2>1, <4>2, <4>3, <4>4, <4>5, <4>6, <4>7 DEF Fits
    <3> QED
      BY <3>1, <3>2, <3>3
  <2>5. Alone'
    BY <2>1, <2>4 DEF Alone
  <2> QED
    BY <1>02, <2>1, <2>3, <2>5
<1>9. CASE SendReply
  <2>1. /\ toClient' = toClient \o reply /\ reply' = << >>
        /\ UNCHANGED <<toServer, store, at, call, last, quiet, possible>>
    BY <1>9 DEF SendReply
  <2>2. CASE reply = << >>
    <3>1. toClient' = toClient
      BY <1>0, <2>1, <2>2
    <3> QED
      BY <1>1, <2>1, <2>2, <3>1
  <2>3. ASSUME NEW f \in Replies, reply = <<f>> PROVE Alone' /\ Known' /\ Results'
    <3>1. toClient' = Append(toClient, f) /\ f.kind # "event"
      BY <1>0, <2>1, <2>3, ReplyFields
    <3>2. \A i \in DOMAIN toClient' : \/ i \in DOMAIN toClient /\ toClient'[i] = toClient[i]
                                      \/ toClient'[i] = f
      BY <1>0, <3>1
    <3>3. 1 \in Answers(reply) /\ reply[1] = f
      BY <2>3, <3>1 DEF Answers
    <3>4. ASSUME at = "receive", quiet
          PROVE  toServer = << >> /\ \A i \in Answers(toClient') : Fits(toClient'[i])
      <4>1. toServer = << >> /\ Fits(f) /\ \A i \in Answers(toClient) : Fits(toClient[i])
        BY <1>0, <3>3, <3>4 DEF Alone
      <4> QED
        BY <3>2, <4>1 DEF Answers
    <3>5. \A i \in Answers(toClient') : Fits(toClient'[i]) => Fits(toClient[i])'
      BY <2>1 DEF Fits
    <3>6. Alone'
      BY <2>1, <3>4, <3>5 DEF Alone, Answers
    <3> QED
      BY <1>0, <1>02, <2>1, <3>6 DEF Known
  <2> QED
    BY <1>0, <2>2, <2>3
<1>10. CASE SendReplyFails
  <2>1. reply' = << >>
        /\ UNCHANGED <<toServer, toClient, store, at, call, last, quiet, possible>>
    BY <1>10 DEF SendReplyFails
  <2> QED
    BY <1>0, <1>02, <2>1 DEF Alone, Known, Fits, Answers
<1>11. CASE ScanNotifies
  <2>1. /\ toClient' = Append(toClient, Event) /\ Event.kind = "event"
        /\ UNCHANGED <<toServer, reply, store, at, call, last, quiet, possible>>
    BY <1>11 DEF ScanNotifies, Event
  <2>2. Answers(toClient') \subseteq Answers(toClient)
        /\ \A i \in Answers(toClient') : toClient'[i] = toClient[i]
    BY <1>0, <2>1 DEF Answers
  <2>3. Alone'
    <3>1. \A i \in Answers(toClient') : Fits(toClient[i]) => Fits(toClient[i])'
      <4> SUFFICES ASSUME NEW i \in Answers(toClient'), Fits(toClient[i])
                   PROVE  Fits(toClient[i])'
        OBVIOUS
      <4>1. /\ call' = call /\ store' = store /\ possible' = possible
            /\ toClient'[i] = toClient[i]
        BY <2>1, <2>2
      <4> QED
        BY <4>1 DEF Fits
    <3>2. \A i \in Answers(reply) : Fits(reply[i]) => Fits(reply[i])'
      <4> SUFFICES ASSUME NEW i \in Answers(reply), Fits(reply[i]) PROVE Fits(reply[i])'
        OBVIOUS
      <4> QED
        BY <2>1 DEF Fits
    <3>3. Answers(toClient) = {} => Answers(toClient') = {}
      BY <2>2, Zenon
    <3>4. Answers(reply') = Answers(reply)
      BY <2>1
    <3> QED
      BY <1>0, <2>1, <2>2, <3>1, <3>2, <3>3, <3>4 DEF Alone
  <2> QED
    BY <1>0, <1>02, <2>1, <2>3 DEF Known
<1>12. CASE UNCHANGED vars
  BY <1>1, <1>12 DEF vars
<1> QED
  BY <1>2, <1>3, <1>4, <1>5, <1>6, <1>7, <1>8, <1>9, <1>10, <1>11, <1>12
     DEF Next, ClientStep, ServerStep

(* A call that began with nothing under way ends with the response to      *)
(* itself, or an event: transact, which ignores transaction ids, can only  *)
(* be deceived by what was there before.                                   *)
THEOREM ResponseMatched == Spec => []MatchedWhenQuiet
<1>1. QuietInv => MatchedWhenQuiet
  BY DEF QuietInv
<1> QED
  BY InitialQuiet, QuietStep, <1>1, PTL DEF Spec

(* Such a call is answered by the unit it addressed, and with an exception *)
(* exactly when the read handler failed.                                   *)
THEOREM OutcomeRight == Spec => []QuietOutcome
<1>1. QuietInv => QuietOutcome
  BY DEF QuietInv
<1> QED
  BY InitialQuiet, QuietStep, <1>1, PTL DEF Spec

(* A read that began with nothing under way sees the last acknowledged     *)
(* write, or a later one whose fate is unknown, if addresses that refuse   *)
(* writes refuse reads too.                                                *)
THEOREM WritesRead ==
    ASSUME RefusedUnseen
    PROVE  Spec => []ReadYourWrites
<1>1. QuietInv => ReadYourWrites
  BY RefusedUnseen DEF QuietInv
<1> QED
  BY InitialQuiet, QuietStep, <1>1, PTL DEF Spec

=============================================================================
