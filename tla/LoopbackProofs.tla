--------------------------- MODULE LoopbackProofs ---------------------------
(***************************************************************************)
(* The loopback transport for any number of threads on its two endpoints:  *)
(* it implements a channel, and no wake-up is lost.                        *)
(*                                                                         *)
(* The inductive invariant: what was pushed to a queue is what was taken   *)
(* from it followed by what it holds, and while a thread sleeps there are  *)
(* as many notifications to come and threads awake as there are frames.    *)
(***************************************************************************)
EXTENDS LoopbackTransport, FiniteSetTheorems, SequenceTheorems, TLAPS

(* What was pushed to a queue has been taken from it or is still in it.    *)
Kept == \A e \in Ends : pushed[e] = taken[e] \o queue[e]

IInv == TypeOK /\ Kept /\ NoLostWakeup

-----------------------------------------------------------------------------

(* Peer is an involution without a fixed point on the two endpoints.       *)
LEMMA PeerProperties ==
    \A e \in Ends : Peer(e) \in Ends /\ Peer(e) # e /\ Peer(Peer(e)) = e
BY LoopbackAssumption DEF Peer

(* A thread calls one of the two endpoints.                                *)
LEMMA EndProperties ==
    \A t \in Threads : EndOf[t] \in Ends /\ Peer(EndOf[t]) \in Ends
BY LoopbackAssumption, PeerProperties

(* A frame appended to a queue and to what was pushed keeps the history    *)
(* (SendPush).                                                             *)
LEMMA HistoryPush ==
    ASSUME NEW t \in Seq(Frames), NEW q \in Seq(Frames), NEW f \in Frames
    PROVE  Append(t \o q, f) = t \o Append(q, f)
<1>1. /\ t \o q \in Seq(Frames)
      /\ <<f>> \in Seq(Frames)
  BY ConcatProperties
<1>2. Append(t \o q, f) = (t \o q) \o <<f>>
  BY <1>1, AppendIsConcat
<1>3. Append(q, f) = q \o <<f>>
  BY AppendIsConcat
<1> QED
  BY <1>1, <1>2, <1>3, ConcatAssociative

(* A frame taken from a queue is the next one that was pushed, and moves   *)
(* from the queue to what was taken (ReceiveTake).                         *)
LEMMA HistoryTake ==
    ASSUME NEW t \in Seq(Frames), NEW q \in Seq(Frames), q # << >>
    PROVE  /\ Append(t, Head(q)) \o Tail(q) = t \o q
           /\ Len(t) < Len(t \o q)
           /\ (t \o q)[Len(t) + 1] = Head(q)
<1>1. /\ Head(q) \in Frames /\ Tail(q) \in Seq(Frames)
      /\ Len(q) \in Nat \ {0} /\ Len(t) \in Nat
      /\ Head(q) = q[1]
  BY HeadTailProperties, EmptySeq, LenProperties
<1>2. <<Head(q)>> \in Seq(Frames) /\ q = <<Head(q)>> \o Tail(q)
  <2>1. Len(q) \in 1 .. Len(q) /\ 1 \in 1 .. Len(q)
    BY <1>1
  <2>2. SubSeq(q, 1, Len(q)) = <<q[1]>> \o SubSeq(q, 2, Len(q))
    BY <2>1, SubSeqRecursiveFirst
  <2> QED
    BY <1>1, <2>2, SubSeqFull, TailIsSubSeq
<1>3. Append(t, Head(q)) = t \o <<Head(q)>>
  BY <1>1, AppendIsConcat
<1>4. Append(t, Head(q)) \o Tail(q) = t \o q
  BY <1>1, <1>2, <1>3, ConcatAssociative
<1>5. /\ Len(t \o q) = Len(t) + Len(q)
      /\ (t \o q)[Len(t) + 1] = q[1]
  <2>1. Len(t) + 1 \in 1 .. Len(t) + Len(q)
    BY <1>1
  <2>2. ~(Len(t) + 1 <= Len(t)) /\ Len(t) + 1 - Len(t) = 1
    BY <1>1
  <2> QED
    BY <2>1, <2>2, ConcatProperties
<1> QED
  BY <1>1, <1>4, <1>5

-----------------------------------------------------------------------------

(* Initially the queues and the histories are empty and nobody sleeps.     *)
LEMMA InitIInv == Init => IInv
<1> SUFFICES ASSUME Init PROVE IInv
  OBVIOUS
<1>1. TypeOK
  BY LoopbackAssumption DEF Init, TypeOK, SenderAt, ReceiverAt, Threads
<1>2. Kept
  BY DEF Init, Kept
<1>3. NoLostWakeup
  <2>1. ASSUME NEW e \in Ends PROVE Sleepers(e) = {}
    BY DEF Init, Sleepers, Threads
  <2> QED
    BY <2>1 DEF NoLostWakeup
<1> QED
  BY <1>1, <1>2, <1>3 DEF IInv

(* The types of the program counters; what a thread's step makes of them.  *)
PcOK ==
    /\ pc \in [Threads -> SenderAt \union ReceiverAt]
    /\ \A t \in Senders : pc[t] \in SenderAt
    /\ \A t \in Receivers : pc[t] \in ReceiverAt

LEMMA SenderMoves ==
    ASSUME PcOK, NEW t \in Senders, NEW to \in SenderAt, pc' = [pc EXCEPT ![t] = to]
    PROVE  PcOK'
BY LoopbackAssumption DEF PcOK, Threads

LEMMA ReceiverMoves ==
    ASSUME PcOK, NEW t \in Receivers, NEW to \in ReceiverAt, pc' = [pc EXCEPT ![t] = to]
    PROVE  PcOK'
BY LoopbackAssumption DEF PcOK, Threads

LEMMA BothMove ==
    ASSUME PcOK, NEW t \in Senders, NEW r \in Receivers,
           pc' = [pc EXCEPT ![t] = "idle", ![r] = "woken"]
    PROVE  PcOK'
BY LoopbackAssumption DEF PcOK, Threads, SenderAt, ReceiverAt

(* Every step keeps the types.                                             *)
LEMMA TypeStep == TypeOK /\ [Next]_vars => TypeOK'
<1> SUFFICES ASSUME TypeOK, [Next]_vars PROVE TypeOK'
  OBVIOUS
<1>0. /\ PcOK
      /\ "idle" \in SenderAt /\ "checked" \in SenderAt
      /\ "push" \in SenderAt /\ "notify" \in SenderAt
      /\ "idle" \in ReceiverAt /\ "checked" \in ReceiverAt /\ "asleep" \in ReceiverAt
      /\ "woken" \in ReceiverAt /\ "late" \in ReceiverAt
  BY DEF TypeOK, PcOK, SenderAt, ReceiverAt
<1>1. CASE UNCHANGED vars
  BY <1>1 DEF vars, TypeOK
<1>2. ASSUME NEW t \in Senders, SenderStep(t) PROVE TypeOK'
  <2>1. PcOK'
    <3>1. CASE SendNotify(t)
      <4>1. CASE pc' = [pc EXCEPT ![t] = "idle"]
        BY <1>0, <4>1, SenderMoves
      <4>2. ASSUME NEW r \in Sleepers(Peer(EndOf[t])),
                   pc' = [pc EXCEPT ![t] = "idle", ![r] = "woken"]
            PROVE  PcOK'
        BY <1>0, <4>2, BothMove DEF Sleepers
      <4> QED
        BY <3>1, <4>1, <4>2 DEF SendNotify
    <3>2. CASE SendCheck(t) \/ SendFails(t) \/ SendGoesOn(t) \/ SendPush(t)
      BY <1>0, <3>2, SenderMoves DEF SendCheck, SendFails, SendGoesOn, SendPush, Goto
    <3> QED
      BY <1>2, <3>1, <3>2 DEF SenderStep
  <2>2. EndOf[t] \in Ends /\ Peer(EndOf[t]) \in Ends
    BY EndProperties DEF Threads
  <2>3. CASE SendPush(t)
    <3>1. frame[t] \in Frames
      BY DEF TypeOK
    <3>2. queue' \in [Ends -> Seq(Frames)] /\ pushed' \in [Ends -> Seq(Frames)]
      BY <2>2, <2>3, <3>1, AppendProperties DEF SendPush, TypeOK
    <3> QED
      BY <2>1, <2>3, <3>2 DEF SendPush, TypeOK, PcOK
  <2>4. CASE SendCheck(t) \/ SendFails(t) \/ SendGoesOn(t) \/ SendNotify(t)
    BY <2>1, <2>2, <2>4 DEF SendCheck, SendFails, SendGoesOn, SendNotify, TypeOK, PcOK
  <2> QED
    BY <1>2, <2>3, <2>4 DEF SenderStep
<1>3. ASSUME NEW t \in Receivers,
             ReceiverStep(t) \/ SpuriousWake(t) \/ TimeRunsOut(t) \/ ReceiveGivesUp(t)
      PROVE  TypeOK'
  <2>1. PcOK'
    BY <1>0, <1>3, ReceiverMoves DEF ReceiverStep, ReceiveCheck, ReceiveTake,
       ReceiveSleep, SpuriousWake, TimeRunsOut, ReceiveGivesUp, Goto
  <2>2. CASE ReceiveTake(t)
    <3>1. queue' \in [Ends -> Seq(Frames)] /\ taken' \in [Ends -> Seq(Frames)]
      BY <2>2, EndProperties, HeadTailProperties, AppendProperties
      DEF ReceiveTake, TypeOK, Threads
    <3> QED
      BY <2>1, <2>2, <3>1 DEF ReceiveTake, TypeOK, PcOK
  <2>3. CASE ~ReceiveTake(t)
    BY <1>3, <2>1, <2>3 DEF ReceiverStep, ReceiveCheck, ReceiveSleep, SpuriousWake,
       TimeRunsOut, ReceiveGivesUp, TypeOK, PcOK
  <2> QED
    BY <2>2, <2>3
<1>4. ASSUME NEW e \in Ends, Connect(e) PROVE TypeOK'
  BY <1>4 DEF Connect, TypeOK
<1>5. ASSUME NEW e \in Ends, Disconnect(e) PROVE TypeOK'
  <2>1. PcOK'
    BY <1>0, <1>5, LoopbackAssumption
    DEF Disconnect, PcOK, Threads, SenderAt, ReceiverAt
  <2> QED
    BY <1>5, <2>1 DEF Disconnect, TypeOK, PcOK
<1>6. ASSUME NEW e \in Ends, SetNextError(e) PROVE TypeOK'
  BY <1>6 DEF SetNextError, TypeOK
<1> QED
  BY <1>1, <1>2, <1>3, <1>4, <1>5, <1>6 DEF Next

(* The two steps that touch a queue keep the history; the others leave it  *)
(* alone.                                                                  *)
LEMMA PushKeeps ==
    ASSUME IInv, NEW t \in Senders, SendPush(t) PROVE Kept'
<1> DEFINE e == Peer(EndOf[t])
<1>1. e \in Ends /\ frame[t] \in Frames /\ queue[e] \in Seq(Frames) /\ taken[e] \in Seq(Frames)
  BY EndProperties DEF Threads, IInv, TypeOK
<1>2. Append(taken[e] \o queue[e], frame[t]) = taken[e] \o Append(queue[e], frame[t])
  BY <1>1, HistoryPush
<1> QED
  BY <1>1, <1>2 DEF SendPush, Kept, IInv, TypeOK

LEMMA TakeKeeps ==
    ASSUME IInv, NEW t \in Receivers, ReceiveTake(t) PROVE Kept'
<1> DEFINE e == EndOf[t]
<1>1. e \in Ends /\ queue[e] \in Seq(Frames) /\ taken[e] \in Seq(Frames) /\ queue[e] # << >>
  BY EndProperties DEF Threads, IInv, TypeOK, ReceiveTake
<1>2. Append(taken[e], Head(queue[e])) \o Tail(queue[e]) = taken[e] \o queue[e]
  BY <1>1, HistoryTake
<1> QED
  BY <1>1, <1>2 DEF ReceiveTake, Kept, IInv, TypeOK

LEMMA OthersKeep ==
    ASSUME UNCHANGED <<queue, pushed, taken>>, Kept PROVE Kept'
BY DEF Kept

LEMMA Touching ==
    ASSUME [Next]_vars
    PROVE  \/ \E t \in Senders : SendPush(t)
           \/ \E t \in Receivers : ReceiveTake(t)
           \/ UNCHANGED <<queue, pushed, taken>>
<1>1. ASSUME NEW t \in Senders, SenderStep(t)
      PROVE  SendPush(t) \/ UNCHANGED <<queue, pushed, taken>>
  BY <1>1 DEF SenderStep, SendCheck, SendFails, SendGoesOn, SendNotify
<1>2. ASSUME NEW t \in Receivers,
             ReceiverStep(t) \/ SpuriousWake(t) \/ TimeRunsOut(t) \/ ReceiveGivesUp(t)
      PROVE  ReceiveTake(t) \/ UNCHANGED <<queue, pushed, taken>>
  BY <1>2 DEF ReceiverStep, ReceiveCheck, ReceiveSleep, SpuriousWake, TimeRunsOut,
              ReceiveGivesUp
<1>3. ASSUME NEW e \in Ends, Connect(e) \/ Disconnect(e) \/ SetNextError(e)
      PROVE  UNCHANGED <<queue, pushed, taken>>
  BY <1>3 DEF Connect, Disconnect, SetNextError
<1>4. CASE UNCHANGED vars
  BY <1>4 DEF vars
<1> QED
  BY <1>1, <1>2, <1>3, <1>4 DEF Next

-----------------------------------------------------------------------------
(* Wake-ups                                                                *)

(* The notifications to come and the threads awake for an endpoint are     *)
(* finitely many.                                                          *)
LEMMA ClaimsFinite ==
    ASSUME NEW e \in Ends
    PROVE  /\ IsFiniteSet(Notifying(e)) /\ IsFiniteSet(Awake(e))
           /\ IsFiniteSet(Notifying(e)') /\ IsFiniteSet(Awake(e)')
<1>1. /\ Notifying(e) \in SUBSET Threads /\ Awake(e) \in SUBSET Threads
      /\ Notifying(e)' \in SUBSET Threads /\ Awake(e)' \in SUBSET Threads
  BY DEF Notifying, Awake, Threads
<1> QED
  BY <1>1, FS_Subset, LoopbackAssumption

(* Sets of claims compared by the threads that join and leave them.        *)
LEMMA OneMore ==
    ASSUME NEW S, NEW T, NEW x, IsFiniteSet(S), x \notin S, S \union {x} \subseteq T,
           IsFiniteSet(T)
    PROVE  Cardinality(S) + 1 <= Cardinality(T)
<1>1. /\ IsFiniteSet(S \union {x})
      /\ Cardinality(S \union {x}) = Cardinality(S) + 1
  BY FS_AddElement
<1>2. Cardinality(S \union {x}) <= Cardinality(T)
  BY FS_Subset
<1>3. Cardinality(S) \in Nat /\ Cardinality(T) \in Nat
  BY FS_CardinalityType
<1> QED
  BY <1>1, <1>2, <1>3

LEMMA OneLess ==
    ASSUME NEW S, NEW T, NEW x, IsFiniteSet(S), S \ {x} \subseteq T, IsFiniteSet(T)
    PROVE  Cardinality(S) - 1 <= Cardinality(T)
<1>1. /\ IsFiniteSet(S \ {x})
      /\ Cardinality(S \ {x}) = IF x \in S THEN Cardinality(S) - 1 ELSE Cardinality(S)
  BY FS_RemoveElement
<1>2. Cardinality(S \ {x}) <= Cardinality(T)
  BY FS_Subset
<1>3. /\ Cardinality(S) \in Nat /\ Cardinality(S \ {x}) \in Nat
      /\ Cardinality(T) \in Nat
  BY <1>1, FS_CardinalityType
<1> QED
  BY <1>1, <1>2, <1>3

(* The bound of NoLostWakeup at one endpoint.                              *)
Served(e) ==
    Sleepers(e) # {} => Len(queue[e]) <= Cardinality(Notifying(e)) + Cardinality(Awake(e))

LEMMA Counts ==
    ASSUME NEW e \in Ends
    PROVE  /\ Cardinality(Notifying(e)) \in Nat /\ Cardinality(Awake(e)) \in Nat
           /\ Cardinality(Notifying(e)') \in Nat /\ Cardinality(Awake(e)') \in Nat
BY ClaimsFinite, FS_CardinalityType

(* A step at the other endpoint, or one that only adds claims.             *)
LEMMA ServedKept ==
    ASSUME NEW e \in Ends, TypeOK, Served(e), queue'[e] = queue[e],
           Notifying(e) \subseteq Notifying(e)', Awake(e) \subseteq Awake(e)',
           Sleepers(e)' \subseteq Sleepers(e)
    PROVE  Served(e)'
<1>1. /\ Cardinality(Notifying(e)) <= Cardinality(Notifying(e)')
      /\ Cardinality(Awake(e)) <= Cardinality(Awake(e)')
  BY ClaimsFinite, FS_Subset
<1>2. Len(queue[e]) \in Nat
  BY DEF TypeOK
<1> QED
  BY <1>1, <1>2, Counts DEF Served

(* The pushed frame comes with a notification.                             *)
LEMMA PushServed ==
    ASSUME TypeOK, NEW t \in Senders, SendPush(t), NEW e \in Ends, Served(e)
    PROVE  Served(e)'
<1>0. /\ t \in Threads /\ t \notin Receivers
      /\ EndOf[t] \in Ends /\ Peer(EndOf[t]) \in Ends
      /\ pc' = [pc EXCEPT ![t] = "notify"] /\ pc[t] = "push"
      /\ pc \in [Threads -> SenderAt \union ReceiverAt]
  BY EndProperties, LoopbackAssumption DEF Threads, SendPush, Goto, TypeOK
<1>1. Awake(e)' = Awake(e) /\ Sleepers(e)' = Sleepers(e)
  BY <1>0 DEF Awake, Sleepers
<1>2. CASE e = Peer(EndOf[t])
  <2>1. t \in Notifying(e)' /\ t \notin Notifying(e) /\ Notifying(e) \subseteq Notifying(e)'
    BY <1>0, <1>2, PeerProperties DEF Notifying, Threads
  <2>2. Cardinality(Notifying(e)) + 1 <= Cardinality(Notifying(e)')
    BY <2>1, OneMore, ClaimsFinite
  <2>3. Len(queue'[e]) = Len(queue[e]) + 1 /\ Len(queue[e]) \in Nat
    BY <1>2, AppendProperties DEF SendPush, TypeOK
  <2> QED
    BY <1>1, <2>2, <2>3, Counts DEF Served
<1>3. CASE e # Peer(EndOf[t])
  <2>1. Notifying(e) \subseteq Notifying(e)'
    BY <1>0 DEF Notifying, Threads
  <2>2. queue'[e] = queue[e]
    BY <1>0, <1>3 DEF SendPush, TypeOK
  <2> QED
    BY <1>1, <2>1, <2>2, ServedKept
<1> QED
  BY <1>2, <1>3

(* A notification that is used up wakes a thread, or nobody sleeps.        *)
LEMMA NotifyServed ==
    ASSUME TypeOK, NEW t \in Senders, SendNotify(t), NEW e \in Ends, Served(e)
    PROVE  Served(e)'
<1>0. /\ t \in Threads /\ t \notin Receivers
      /\ EndOf[t] \in Ends /\ Peer(EndOf[t]) \in Ends
      /\ pc[t] = "notify" /\ queue' = queue
      /\ pc \in [Threads -> SenderAt \union ReceiverAt]
  BY EndProperties, LoopbackAssumption DEF Threads, SendNotify, TypeOK
<1>1. CASE Sleepers(Peer(EndOf[t])) = {} /\ pc' = [pc EXCEPT ![t] = "idle"]
  <2>1. Awake(e)' = Awake(e) /\ Sleepers(e)' = Sleepers(e)
    BY <1>0, <1>1 DEF Awake, Sleepers
  <2>2. CASE e = Peer(EndOf[t])
    BY <1>1, <2>1, <2>2 DEF Served
  <2>3. CASE e # Peer(EndOf[t])
    <3>1. Notifying(e) \subseteq Notifying(e)'
      BY <1>0, <1>1, <2>3, PeerProperties DEF Notifying, Threads
    <3> QED
      BY <1>0, <2>1, <3>1, ServedKept
  <2> QED
    BY <2>2, <2>3
<1>2. ASSUME NEW r \in Sleepers(Peer(EndOf[t])),
             pc' = [pc EXCEPT ![t] = "idle", ![r] = "woken"]
      PROVE  Served(e)'
  <2>0. /\ r \in Receivers /\ r \in Threads /\ r # t
        /\ pc[r] = "asleep" /\ EndOf[r] = Peer(EndOf[t])
    BY <1>0 DEF Sleepers, Threads
  <2>1. Sleepers(e)' \subseteq Sleepers(e) /\ Awake(e) \subseteq Awake(e)'
    BY <1>0, <1>2, <2>0 DEF Sleepers, Awake, Threads
  <2>2. CASE e = Peer(EndOf[t])
    <3>1. r \in Awake(e)' /\ r \notin Awake(e) /\ Notifying(e) \ {t} \subseteq Notifying(e)'
      BY <1>0, <1>2, <2>0, <2>2 DEF Awake, Notifying, Threads
    <3>2. Cardinality(Awake(e)) + 1 <= Cardinality(Awake(e)')
      BY <2>1, <3>1, OneMore, ClaimsFinite
    <3>3. Cardinality(Notifying(e)) - 1 <= Cardinality(Notifying(e)')
      BY <3>1, OneLess, ClaimsFinite
    <3>4. Len(queue[e]) \in Nat
      BY DEF TypeOK
    <3>5. /\ Cardinality(Notifying(e)) \in Nat /\ Cardinality(Awake(e)) \in Nat
          /\ Cardinality(Notifying(e)') \in Nat /\ Cardinality(Awake(e)') \in Nat
      BY Counts
    <3>6. /\ queue[e]' = queue[e]
          /\ Sleepers(e)' # {} => Sleepers(e) # {}
      BY <1>0, <2>1
    <3>7. ASSUME NEW l \in Nat, NEW n \in Nat, NEW a \in Nat, NEW m \in Nat, NEW b \in Nat,
                 a + 1 <= b, n - 1 <= m, n + a >= l
          PROVE  m + b >= l
      BY <3>7
    <3> QED
      BY <3>2, <3>3, <3>4, <3>5, <3>6, <3>7 DEF Served
  <2>3. CASE e # Peer(EndOf[t])
    <3>1. Notifying(e) \subseteq Notifying(e)'
      BY <1>0, <1>2, <2>0, <2>3, PeerProperties, LoopbackAssumption DEF Notifying, Threads
    <3> QED
      BY <1>0, <2>1, <3>1, ServedKept
  <2> QED
    BY <2>2, <2>3
<1> QED
  BY <1>1, <1>2 DEF SendNotify

(* A frame that is taken takes the claim of its receiver with it.          *)
LEMMA TakeServed ==
    ASSUME TypeOK, NEW t \in Receivers, ReceiveTake(t), NEW e \in Ends, Served(e)
    PROVE  Served(e)'
<1>0. /\ t \in Threads /\ t \notin Senders /\ EndOf[t] \in Ends
      /\ pc[t] # "asleep" /\ pc' = [pc EXCEPT ![t] = "idle"]
      /\ pc \in [Threads -> SenderAt \union ReceiverAt]
  BY EndProperties, LoopbackAssumption DEF Threads, ReceiveTake, TypeOK
<1>1. Notifying(e)' = Notifying(e) /\ Sleepers(e)' \subseteq Sleepers(e)
  BY <1>0 DEF Notifying, Sleepers, Threads
<1>2. CASE e = EndOf[t]
  <2>1. Awake(e) \ {t} \subseteq Awake(e)'
    BY <1>0 DEF Awake, Threads
  <2>2. Cardinality(Awake(e)) - 1 <= Cardinality(Awake(e)')
    BY <2>1, OneLess, ClaimsFinite
  <2>3. Len(queue'[e]) = Len(queue[e]) - 1 /\ Len(queue[e]) \in Nat
    BY <1>2, HeadTailProperties DEF ReceiveTake, TypeOK
  <2> QED
    BY <1>1, <2>2, <2>3, Counts DEF Served
<1>3. CASE e # EndOf[t]
  <2>1. Awake(e) \subseteq Awake(e)' /\ queue'[e] = queue[e]
    BY <1>0, <1>3 DEF Awake, Threads, ReceiveTake, TypeOK
  <2> QED
    BY <1>1, <2>1, ServedKept
<1> QED
  BY <1>2, <1>3

(* A thread falls asleep, or gives up, only in front of an empty queue.    *)
LEMMA EmptyServed ==
    ASSUME TypeOK, NEW t \in Receivers, ReceiveSleep(t) \/ ReceiveGivesUp(t),
           NEW e \in Ends, Served(e)
    PROVE  Served(e)'
<1>0. /\ t \in Threads /\ t \notin Senders
      /\ queue' = queue /\ queue[EndOf[t]] = << >>
      /\ pc \in [Threads -> SenderAt \union ReceiverAt]
      /\ \E to \in ReceiverAt : pc' = [pc EXCEPT ![t] = to]
  BY LoopbackAssumption
  DEF Threads, ReceiveSleep, ReceiveGivesUp, Goto, TypeOK, ReceiverAt
<1>1. CASE e = EndOf[t]
  <2>1. Len(queue'[e]) = 0
    BY <1>0, <1>1
  <2> QED
    BY <2>1, Counts DEF Served
<1>2. CASE e # EndOf[t]
  <2>1. /\ Notifying(e) \subseteq Notifying(e)' /\ Awake(e) \subseteq Awake(e)'
        /\ Sleepers(e)' \subseteq Sleepers(e)
    BY <1>0, <1>2 DEF Notifying, Awake, Sleepers, Threads
  <2> QED
    BY <1>0, <2>1, ServedKept
<1> QED
  BY <1>1, <1>2

(* The remaining steps only add claims or wake everybody.                  *)
LEMMA OthersServed ==
    ASSUME TypeOK, NEW e \in Ends, Served(e),
           \/ \E t \in Senders : SendCheck(t) \/ SendFails(t) \/ SendGoesOn(t)
           \/ \E t \in Receivers : ReceiveCheck(t) \/ SpuriousWake(t) \/ TimeRunsOut(t)
           \/ \E d \in Ends : Connect(d) \/ Disconnect(d) \/ SetNextError(d)
           \/ UNCHANGED vars
    PROVE  Served(e)'
<1>0. /\ queue' = queue
      /\ pc \in [Threads -> SenderAt \union ReceiverAt]
      /\ Senders \subseteq Threads /\ Receivers \subseteq Threads
      /\ Senders \intersect Receivers = {}
  BY LoopbackAssumption
  DEF SendCheck, SendFails, SendGoesOn, ReceiveCheck, SpuriousWake, TimeRunsOut, Connect,
      Disconnect, SetNextError, vars, TypeOK, Threads
<1>1. ASSUME NEW t \in Senders, SendCheck(t) \/ SendFails(t) \/ SendGoesOn(t)
      PROVE  Served(e)'
  <2>1. /\ pc[t] # "notify" /\ \E to \in {"idle", "checked", "push"} : pc' = [pc EXCEPT ![t] = to]
    BY <1>1 DEF SendCheck, SendFails, SendGoesOn, Goto
  <2>2. /\ Notifying(e) \subseteq Notifying(e)' /\ Awake(e) \subseteq Awake(e)'
        /\ Sleepers(e)' \subseteq Sleepers(e)
    BY <1>0, <2>1 DEF Notifying, Awake, Sleepers
  <2> QED
    BY <1>0, <2>2, ServedKept
<1>2. ASSUME NEW t \in Receivers, ReceiveCheck(t) \/ SpuriousWake(t) \/ TimeRunsOut(t)
      PROVE  Served(e)'
  <2>1. \/ pc[t] = "idle" /\ pc' = [pc EXCEPT ![t] = "checked"]
        \/ pc[t] = "asleep" /\ pc' = [pc EXCEPT ![t] = "woken"]
        \/ pc[t] = "asleep" /\ pc' = [pc EXCEPT ![t] = "late"]
    BY <1>2 DEF ReceiveCheck, SpuriousWake, TimeRunsOut, Goto
  <2>2. /\ Notifying(e) \subseteq Notifying(e)' /\ Awake(e) \subseteq Awake(e)'
        /\ Sleepers(e)' \subseteq Sleepers(e)
    BY <1>0, <2>1 DEF Notifying, Awake, Sleepers
  <2> QED
    BY <1>0, <2>2, ServedKept
<1>3. ASSUME NEW d \in Ends, Disconnect(d) PROVE Served(e)'
  <2>1. pc' = [t \in Threads |-> IF pc[t] = "asleep" THEN "woken" ELSE pc[t]]
    BY <1>3 DEF Disconnect
  <2>2. Sleepers(e)' = {}
    BY <1>0, <2>1 DEF Sleepers
  <2> QED
    BY <2>2 DEF Served
<1>4. ASSUME NEW d \in Ends, Connect(d) \/ SetNextError(d) PROVE Served(e)'
  BY <1>4 DEF Connect, SetNextError, Served, Sleepers, Notifying, Awake
<1>5. CASE UNCHANGED vars
  BY <1>5 DEF vars, Served, Sleepers, Notifying, Awake
<1> QED
  BY <1>1, <1>2, <1>3, <1>4, <1>5

(* Every step of the transport is one of those.                            *)
LEMMA ServedStep ==
    ASSUME TypeOK, [Next]_vars, NEW e \in Ends, Served(e) PROVE Served(e)'
<1>1. ASSUME NEW t \in Senders, SenderStep(t) PROVE Served(e)'
  BY <1>1, PushServed, NotifyServed, OthersServed DEF SenderStep
<1>2. ASSUME NEW t \in Receivers,
             ReceiverStep(t) \/ SpuriousWake(t) \/ TimeRunsOut(t) \/ ReceiveGivesUp(t)
      PROVE  Served(e)'
  BY <1>2, TakeServed, EmptyServed, OthersServed DEF ReceiverStep
<1>3. ASSUME NEW d \in Ends, Connect(d) \/ Disconnect(d) \/ SetNextError(d)
      PROVE  Served(e)'
  BY <1>3, OthersServed
<1>4. CASE UNCHANGED vars
  BY <1>4, OthersServed
<1> QED
  BY <1>1, <1>2, <1>3, <1>4 DEF Next

(* Every step keeps the bound on the frames at each endpoint.              *)
LEMMA WakeupStep ==
    ASSUME TypeOK, NoLostWakeup, [Next]_vars PROVE NoLostWakeup'
<1>1. ASSUME NEW e \in Ends PROVE Served(e)'
  BY ServedStep DEF NoLostWakeup, Served
<1> QED
  BY <1>1 DEF NoLostWakeup, Served

-----------------------------------------------------------------------------
(* The theorems                                                            *)

(* In every state the variables have their types, what was pushed to a     *)
(* queue is what was taken followed by what it holds, and every frame that *)
(* waits beside a sleeping thread has a notification to come or a thread   *)
(* awake.                                                                  *)
THEOREM Invariance == Spec => []IInv
<1>1. IInv /\ [Next]_vars => IInv'
  <2> SUFFICES ASSUME IInv, [Next]_vars PROVE IInv'
    OBVIOUS
  <2>1. TypeOK'
    BY TypeStep DEF IInv
  <2>2. Kept'
    BY Touching, PushKeeps, TakeKeeps, OthersKeep DEF IInv
  <2>3. NoLostWakeup'
    BY WakeupStep DEF IInv
  <2> QED
    BY <2>1, <2>2, <2>3 DEF IInv
<1> QED
  BY InitIInv, <1>1, PTL DEF Spec

(* Every variable of the transport keeps its type.                         *)
THEOREM TypeCorrect == Spec => []TypeOK
BY Invariance, PTL DEF IInv

(* No wake-up is lost: while a thread sleeps in receive, every frame in    *)
(* its queue has a notification to come or a thread that is awake.         *)
THEOREM WakeupsKept == Spec => []NoLostWakeup
BY Invariance, PTL DEF IInv

-----------------------------------------------------------------------------
(* The refinement                                                          *)

(* The transport is a channel: a frame pushed is a frame sent, a frame     *)
(* taken is the next one of those sent, and no other step is visible, over *)
(* disconnects and reconnects too.                                         *)
THEOREM ImplementsChannel == Spec => IsChannel
<1>1. Init => Channel!Init
  BY DEF Init, Channel!Init
<1>2. IInv /\ [Next]_vars => [Channel!Next]_Channel!vars
  <2> SUFFICES ASSUME IInv, [Next]_vars PROVE [Channel!Next]_Channel!vars
    OBVIOUS
  <2>1. ASSUME NEW t \in Senders, SendPush(t)
        PROVE  Channel!Send(Peer(EndOf[t]), frame[t])
    BY <2>1 DEF SendPush, Channel!Send
  <2>2. ASSUME NEW t \in Senders, SendPush(t) PROVE Channel!Next
    <3>1. Peer(EndOf[t]) \in Ends /\ frame[t] \in Frames
      BY EndProperties DEF Threads, IInv, TypeOK
    <3> QED
      BY <2>1, <2>2, <3>1 DEF Channel!Next
  <2>3. ASSUME NEW t \in Receivers, ReceiveTake(t) PROVE Channel!Receive(EndOf[t])
    <3> DEFINE e == EndOf[t]
    <3>1. /\ e \in Ends /\ queue[e] \in Seq(Frames) /\ taken[e] \in Seq(Frames)
          /\ queue[e] # << >> /\ pushed[e] = taken[e] \o queue[e]
      BY <2>3, EndProperties DEF Threads, IInv, TypeOK, Kept, ReceiveTake
    <3>2. /\ Len(taken[e]) < Len(pushed[e])
          /\ pushed[e][Len(taken[e]) + 1] = Head(queue[e])
      BY <3>1, HistoryTake
    <3>3. /\ taken' = [taken EXCEPT ![e] = Append(taken[e], Head(queue[e]))]
          /\ pushed' = pushed
      BY <2>3 DEF ReceiveTake
    <3> HIDE DEF e
    <3>4. taken' = [taken EXCEPT ![e] = Append(taken[e], pushed[e][Len(taken[e]) + 1])]
      BY <3>2, <3>3
    <3>5. Channel!Receive(e)
      BY <3>2, <3>3, <3>4 DEF Channel!Receive
    <3> QED
      BY <3>5 DEF e
  <2>4. ASSUME NEW t \in Receivers, ReceiveTake(t) PROVE Channel!Next
    <3>1. EndOf[t] \in Ends
      BY EndProperties DEF Threads
    <3> QED
      BY <2>3, <2>4, <3>1 DEF Channel!Next
  <2>5. CASE UNCHANGED <<queue, pushed, taken>>
    BY <2>5 DEF Channel!vars
  <2> QED
    BY <2>2, <2>4, <2>5, Touching
<1> QED
  BY <1>1, <1>2, Invariance, PTL DEF Spec, IsChannel, Channel!Spec
=============================================================================
