---------------------------- MODULE PubSubProofs ----------------------------
(***************************************************************************)
(* Proofs about PubSub: types, that a notification is sent for a           *)
(* subscription which is there and fired, that a handler runs only while   *)
(* it is registered, and what a subscription was notified of between two   *)
(* scans.                                                                  *)
(***************************************************************************)
EXTENDS PubSub, SequenceTheorems, TLAPS

(* The variables indexed by sources, ids and threads are functions.        *)
Functions ==
    /\ registers = [s \in DOMAIN Sources |-> registers[s]]
    /\ baseline = [s \in DOMAIN Sources |-> baseline[s]]
    /\ noted = [i \in SubIds |-> noted[i]]
    /\ seen = [i \in SubIds |-> seen[i]]
    /\ event = [t \in Pollers |-> event[t]]

(* The values just read are there exactly inside the loop over the         *)
(* subscriptions, and outside of it the loop is at its start.              *)
Scanning ==
    IF at \in {"sub", "send"} THEN current \in Registers(src)
                              ELSE current = None /\ sub = 1

(* Ids are given out in order and once.                                    *)
Issued ==
    /\ \A k \in DOMAIN subs : subs[k].id < nextId
    /\ \A j, k \in DOMAIN subs : subs[j].id = subs[k].id => j = k
    /\ \A i \in SubIds : i >= nextId => noted[i] = None

IInv == TypeOK /\ Functions /\ Scanning /\ Issued /\ SendJustified /\ HandlerScope

-----------------------------------------------------------------------------
(* Values of a source                                                      *)

LEMMA SourceFacts ==
    ASSUME NEW s \in DOMAIN Sources
    PROVE  /\ Sources[s].start \in Nat /\ Sources[s].count \in Nat \ {0}
           /\ s \in 1 .. Len(Sources) /\ Len(Sources) \in Nat
<1> DEFINE R == [start : Nat, count : Nat \ {0}]
<1>1. Sources \in Seq(R)
  BY PubSubAssumption
<1>2. Sources[s] \in R /\ s \in 1 .. Len(Sources) /\ Len(Sources) \in Nat
  <2> HIDE DEF R
  <2> QED
    BY <1>1
<1> QED
  BY <1>2

(* A slice of the values of a source is a sequence of register values, and *)
(* its elements are those of the source from the offset of the request.    *)
LEMMA SliceShape ==
    ASSUME NEW s \in DOMAIN Sources, NEW q \in Requests, Covers(s, q),
           NEW values \in Registers(s)
    PROVE  LET offset == q.start - Sources[s].start
               end == offset + q.count
               n == IF end < Sources[s].count THEN end ELSE Sources[s].count
           IN /\ Slice(s, q, values) \in Seq(RegisterValues)
              /\ offset \in Nat /\ n \in Nat
              /\ Len(Slice(s, q, values)) = n - offset
              /\ \A i \in 1 .. n - offset :
                    i + offset \in 1 .. Sources[s].count
                    /\ Slice(s, q, values)[i] = values[i + offset]
<1> DEFINE offset == q.start - Sources[s].start
           end == offset + q.count
           n == IF end < Sources[s].count THEN end ELSE Sources[s].count
<1>1. /\ Sources[s].start \in Nat /\ Sources[s].count \in Nat \ {0}
      /\ q.start \in Nat /\ q.count \in Nat \ {0}
  BY SourceFacts, PubSubAssumption
<1>2. offset \in Nat /\ n \in Nat /\ offset + 1 <= n /\ n <= Sources[s].count
  BY <1>1 DEF Covers
<1>3. values \in Seq(RegisterValues) /\ Len(values) = Sources[s].count
  BY <1>1 DEF Registers
<1>4. Slice(s, q, values) = SubSeq(values, offset + 1, n)
  BY <1>3 DEF Slice
<1>5. /\ SubSeq(values, offset + 1, n) \in Seq(RegisterValues)
      /\ Len(SubSeq(values, offset + 1, n)) = n - (offset + 1) + 1
      /\ \A i \in 1 .. n - (offset + 1) + 1 :
            SubSeq(values, offset + 1, n)[i] = values[offset + 1 + i - 1]
  BY <1>2, <1>3, SubSeqProperties
<1>6. ASSUME NEW i \in 1 .. n - offset
      PROVE  /\ i + offset \in 1 .. Sources[s].count
             /\ Slice(s, q, values)[i] = values[i + offset]
  <2>1. offset + 1 + i - 1 = i + offset /\ n - (offset + 1) + 1 = n - offset
    BY <1>2
  <2>2. i + offset \in 1 .. Sources[s].count
    BY <1>1, <1>2
  <2> QED
    BY <1>4, <1>5, <2>1, <2>2
<1>7. Len(Slice(s, q, values)) = n - offset
  BY <1>2, <1>4, <1>5
<1>8. Slice(s, q, values) \in Seq(RegisterValues)
  BY <1>4, <1>5
<1> QED
  BY <1>2, <1>6, <1>7, <1>8

(* Without a dead band, values that have not changed are the same.         *)
LEMMA UnchangedSlice ==
    ASSUME NEW s \in DOMAIN Sources, NEW q \in Requests, Covers(s, q), q.band = 0,
           NEW now \in Registers(s), NEW before \in Registers(s),
           ~Changed(q, Slice(s, q, now), Slice(s, q, before))
    PROVE  Slice(s, q, now) = Slice(s, q, before)
<1> DEFINE a == Slice(s, q, now)
           b == Slice(s, q, before)
<1>1. /\ a \in Seq(RegisterValues) /\ b \in Seq(RegisterValues)
      /\ Len(a) = Len(b)
  BY SliceShape
<1>2. ASSUME NEW i \in 1 .. Len(a) PROVE a[i] = b[i]
  <2>1. ~Far(a[i], b[i], 0)
    BY <1>1 DEF Changed
  <2>2. a[i] \in Nat /\ b[i] \in Nat
    <3>1. a[i] \in RegisterValues /\ b[i] \in RegisterValues
      BY <1>1
    <3> QED
      BY <3>1, PubSubAssumption
  <2> QED
    BY <2>1, <2>2 DEF Far
<1> QED
  BY <1>1, <1>2

-----------------------------------------------------------------------------
(* Sequences of subscriptions and events                                   *)

(* An element is taken out of a sequence, the others keep their order.     *)
LEMMA TakenOut ==
    ASSUME NEW S, NEW q \in Seq(S), NEW k \in DOMAIN q
    PROVE  /\ Without(q, k) \in Seq(S)
           /\ Len(Without(q, k)) = Len(q) - 1
           /\ \A j \in DOMAIN Without(q, k) :
                 /\ j \in DOMAIN q /\ j + 1 \in DOMAIN q
                 /\ Without(q, k)[j] = q[IF j < k THEN j ELSE j + 1]
<1> DEFINE a == SubSeq(q, 1, k - 1)
           b == SubSeq(q, k + 1, Len(q))
           r == Without(q, k)
<1>0. r = a \o b
  BY DEF Without
<1>1. k \in 1 .. Len(q) /\ Len(q) \in Nat
  OBVIOUS
<1>2. a \in Seq(S) /\ Len(a) = k - 1 /\ \A j \in 1 .. k - 1 : a[j] = q[j]
  <2>1. \A i \in 1 .. k - 1 : i \in DOMAIN q
    BY <1>1
  <2>2. /\ a \in Seq(S) /\ Len(a) = (IF 1 <= k - 1 THEN k - 1 - 1 + 1 ELSE 0)
        /\ \A j \in 1 .. k - 1 - 1 + 1 : a[j] = q[1 + j - 1]
    BY <1>1, <2>1, SubSeqProperties
  <2> QED
    BY <1>1, <2>2
<1>3. b \in Seq(S) /\ Len(b) = Len(q) - k /\ \A j \in 1 .. Len(q) - k : b[j] = q[j + k]
  <2>1. \A i \in k + 1 .. Len(q) : i \in DOMAIN q
    BY <1>1
  <2>2. /\ b \in Seq(S)
        /\ Len(b) = (IF k + 1 <= Len(q) THEN Len(q) - (k + 1) + 1 ELSE 0)
        /\ \A j \in 1 .. Len(q) - (k + 1) + 1 : b[j] = q[k + 1 + j - 1]
    BY <1>1, <2>1, SubSeqProperties
  <2>3. \A j \in 1 .. Len(q) - k : k + 1 + j - 1 = j + k /\ j \in 1 .. Len(q) - (k + 1) + 1
    BY <1>1
  <2> QED
    BY <1>1, <2>2, <2>3
<1> HIDE DEF a, b, r
<1>4. /\ r \in Seq(S) /\ Len(r) = Len(a) + Len(b)
      /\ \A j \in 1 .. Len(a) + Len(b) : r[j] = IF j <= Len(a) THEN a[j] ELSE b[j - Len(a)]
  BY <1>0, <1>2, <1>3, ConcatProperties
<1>5. ASSUME NEW j \in DOMAIN r
      PROVE  /\ j \in DOMAIN q /\ j + 1 \in DOMAIN q
             /\ r[j] = q[IF j < k THEN j ELSE j + 1]
  <2>1. j \in 1 .. Len(q) - 1
    BY <1>1, <1>2, <1>3, <1>4
  <2>2. CASE j < k
    <3>1. /\ j \in 1 .. Len(a) + Len(b) /\ j <= Len(a) /\ j \in 1 .. k - 1
          /\ j \in DOMAIN q /\ j + 1 \in DOMAIN q
      BY <1>1, <1>2, <1>3, <2>1, <2>2
    <3>2. r[j] = a[j]
      BY <1>4, <3>1
    <3>3. a[j] = q[j]
      BY <1>2, <3>1
    <3> QED
      BY <2>2, <3>1, <3>2, <3>3
  <2>3. CASE ~(j < k)
    <3>1. j - Len(a) \in 1 .. Len(q) - k /\ ~(j <= Len(a)) /\ (j - Len(a)) + k = j + 1
      BY <1>1, <1>2, <2>1, <2>3
    <3>2. r[j] = b[j - Len(a)]
      BY <1>4, <2>1, <3>1
    <3>3. r[j] = q[j + 1]
      BY <1>3, <3>1, <3>2
    <3>4. j \in DOMAIN q /\ j + 1 \in DOMAIN q
      BY <1>1, <2>1
    <3> QED
      BY <2>3, <3>3, <3>4
  <2> QED
    BY <2>2, <2>3
<1>6. r \in Seq(S) /\ Len(r) = Len(q) - 1
  BY <1>1, <1>2, <1>3, <1>4
<1> QED
  BY <1>5, <1>6 DEF r

-----------------------------------------------------------------------------
(* What the steps of a scan and of a poller take for granted               *)

(* The request of the subscription under the iterator, and its slice of    *)
(* what was just read.                                                     *)
LEMMA UnderIterator ==
    ASSUME TypeOK, Scanning, at \in {"sub", "send"}, sub <= Len(subs)
    PROVE  /\ sub \in DOMAIN subs /\ subs[sub] \in Subscription
           /\ subs[sub].id \in SubIds /\ subs[sub].req \in Requests
           /\ src \in DOMAIN Sources /\ current \in Registers(src)
           /\ Covers(src, subs[sub].req) =>
                 Slice(src, subs[sub].req, current) \in Seq(RegisterValues)
<1>1. /\ subs \in Seq(Subscription) /\ sub \in 1 .. Len(subs)
      /\ src \in DOMAIN Sources /\ current \in Registers(src)
  BY DEF TypeOK, Scanning
<1>2. sub \in DOMAIN subs /\ subs[sub] \in Subscription
  BY <1>1
<1>3. subs[sub].id \in SubIds /\ subs[sub].req \in Requests
  BY <1>2 DEF Subscription
<1>4. Covers(src, subs[sub].req) =>
         Slice(src, subs[sub].req, current) \in Seq(RegisterValues)
  BY <1>1, <1>3, SliceShape
<1> QED
  BY <1>1, <1>2, <1>3, <1>4

(* No value that is notified is the absence of one.                        *)
LEMMA NoneIsNoEvent == None \notin Events
  BY PubSubAssumption DEF Events, SubIds

-----------------------------------------------------------------------------
(* The inductive invariant                                                 *)

LEMMA Initial == Init => IInv
<1> SUFFICES ASSUME Init PROVE IInv
  OBVIOUS
<1> USE DEF Init
<1>1. TypeOK
  <2>1. \A s \in DOMAIN Sources : registers[s] \in Registers(s)
    OBVIOUS
  <2>2. 1 \in DOMAIN Sources
    BY PubSubAssumption
  <2> QED
    BY <2>1, <2>2, PubSubAssumption DEF TypeOK, SubIds
<1>2. Functions
  <2>1. DOMAIN Sources = 1 .. Len(Sources)
    BY PubSubAssumption
  <2> QED
    BY <2>1 DEF Functions
<1>3. Scanning /\ Issued /\ SendJustified /\ HandlerScope
  BY DEF Scanning, Issued, SendJustified, HandlerScope
<1> QED
  BY <1>1, <1>2, <1>3 DEF IInv

LEMMA FunctionsStep == IInv /\ [Next]_vars => Functions'
<1> SUFFICES ASSUME Functions, [Next]_vars PROVE Functions'
  BY DEF IInv
<1> USE DEF Functions, pubVars, subVars
<1>1. ASSUME NEW q \in Requests, Accept(q) PROVE Functions'
  BY <1>1 DEF Accept
<1>2. ASSUME NEW i \in SubIds, Remove(i) PROVE Functions'
  BY <1>2 DEF Remove
<1>3. ASSUME NEW i \in SubIds, OnEvent(i) \/ RemoveHandler(i) \/ IntervalPasses(i)
      PROVE Functions'
  BY <1>3 DEF OnEvent, RemoveHandler, IntervalPasses
<1>4. ASSUME ScanBegin \/ ScanRead \/ ScanSkip \/ ScanNotify PROVE Functions'
  BY <1>4 DEF ScanBegin, ScanRead, ScanSkip, ScanNotify
<1>5. ASSUME ScanSend \/ ScanSendFails PROVE Functions'
  BY <1>5 DEF ScanSend, ScanSendFails, Notified
<1>6. ASSUME ScanSource PROVE Functions'
  BY <1>6 DEF ScanSource, Baseline
<1>7. ASSUME NEW t \in Pollers, PollStep(t) PROVE Functions'
  BY <1>7 DEF PollStep, PollReceive, PollCall, PollNoHandler, HandlerReturns
<1>8. ASSUME NEW s \in DOMAIN Sources, NEW i \in 1 .. Sources[s].count,
             NEW v \in RegisterValues, Change(s, i, v)
      PROVE Functions'
  BY <1>8 DEF Change
<1>9. ASSUME UNCHANGED vars PROVE Functions'
  BY <1>9 DEF vars
<1> QED
  BY <1>1, <1>2, <1>3, <1>4, <1>5, <1>6, <1>7, <1>8, <1>9 DEF Next, ScanStep

LEMMA TypeStep == IInv /\ [Next]_vars => TypeOK'
<1> SUFFICES ASSUME IInv, [Next]_vars PROVE TypeOK'
  OBVIOUS
<1> USE DEF pubVars, subVars
<1>0. TypeOK /\ Functions /\ Scanning /\ SendJustified
  BY DEF IInv
<1>1. ASSUME NEW q \in Requests, Accept(q) PROVE TypeOK'
  <2>1. nextId \in SubIds /\ [id |-> nextId, req |-> q] \in Subscription
    BY <1>0, <1>1, PubSubAssumption DEF Accept, TypeOK, SubIds, Subscription
  <2>2. subs' \in Seq(Subscription) /\ Len(subs') = Len(subs) + 1
    BY <1>0, <1>1, <2>1 DEF Accept, TypeOK
  <2>3. nextId' \in 1 .. MaxSubs + 1
    BY <1>1, <2>1, PubSubAssumption DEF Accept, SubIds
  <2>4. sub' \in 1 .. Len(subs') + (IF at' = "send" THEN 0 ELSE 1)
    BY <1>0, <1>1, <2>2 DEF Accept, TypeOK
  <2> QED
    BY <1>0, <1>1, <2>2, <2>3, <2>4 DEF Accept, TypeOK
<1>2. ASSUME NEW i \in SubIds, Remove(i) PROVE TypeOK'
  <2>1. subs' \in Seq(Subscription)
    BY <1>0, <1>2, TakenOut DEF Remove, TypeOK
  <2>2. sub' \in 1 .. Len(subs') + (IF at' = "send" THEN 0 ELSE 1)
    <3>1. sub' = 1 /\ at' = "idle"
      BY <1>0, <1>2 DEF Remove, Scanning
    <3>2. Len(subs') \in Nat
      BY <2>1
    <3> QED
      BY <3>1, <3>2
  <2> QED
    BY <1>0, <1>2, <2>1, <2>2 DEF Remove, TypeOK, Functions
<1>3. ASSUME NEW i \in SubIds, OnEvent(i) \/ RemoveHandler(i) \/ IntervalPasses(i)
      PROVE TypeOK'
  BY <1>0, <1>3 DEF OnEvent, RemoveHandler, IntervalPasses, TypeOK
<1>4. CASE ScanBegin
  <2>1. 1 \in DOMAIN Sources /\ current = None
    BY <1>0, <1>4, PubSubAssumption DEF ScanBegin, Scanning
  <2> QED
    BY <1>0, <1>4, <2>1 DEF ScanBegin, TypeOK
<1>5. CASE ScanRead
  BY <1>0, <1>5 DEF ScanRead, TypeOK
<1>6. CASE ScanSkip \/ ScanNotify
  BY <1>0, <1>6 DEF ScanSkip, ScanNotify, TypeOK
<1>7. CASE ScanSend \/ ScanSendFails
  <2> DEFINE x == subs[sub]
             values == Slice(src, x.req, current)
  <2>1. at = "send" /\ sub <= Len(subs) /\ Covers(src, x.req)
    BY <1>0, <1>7 DEF ScanSend, ScanSendFails, SendJustified, Notifies
  <2>2. x.id \in SubIds /\ values \in Seq(RegisterValues) /\ sub \in DOMAIN subs
    BY <1>0, <2>1, UnderIterator
  <2>3. [id |-> x.id, values |-> values] \in Events
    BY <2>2 DEF Events
  <2> HIDE DEF x, values
  <2>4. PICK frames \in {0, 1} : Notified(frames)
    BY <1>7 DEF ScanSend, ScanSendFails
  <2>5. wire' \in Seq(Events)
    <3>1. [f \in 1 .. frames |-> [id |-> x.id, values |-> values]] \in Seq(Events)
      BY <2>3
    <3>2. wire' = wire \o [f \in 1 .. frames |-> [id |-> x.id, values |-> values]]
      BY <2>4 DEF Notified, x, values
    <3>3. wire \in Seq(Events)
      BY <1>0 DEF TypeOK
    <3> QED
      BY <3>1, <3>2, <3>3, ConcatProperties
  <2>6. noted' = [noted EXCEPT ![x.id] = values]
    BY <2>4 DEF Notified, x, values
  <2>7. \A i \in SubIds : noted'[i] # None => noted'[i] \in Seq(RegisterValues)
    BY <1>0, <2>2, <2>6 DEF TypeOK, Functions
  <2>8. unsent' \subseteq SubIds /\ elapsed' \subseteq SubIds
    BY <1>0, <2>2, <2>4 DEF Notified, TypeOK, x
  <2>9. /\ sub' \in 1 .. Len(subs') + (IF at' = "send" THEN 0 ELSE 1)
        /\ at' = "sub"
    BY <1>0, <2>1, <2>2, <2>4 DEF Notified, TypeOK
  <2> QED
    BY <1>0, <2>4, <2>5, <2>7, <2>8, <2>9 DEF Notified, TypeOK
<1>8. CASE ScanSource
  <2>1. src' \in DOMAIN Sources /\ at' \in {"idle", "read", "sub", "send"}
    BY <1>0, <1>8, SourceFacts, PubSubAssumption DEF ScanSource, TypeOK
  <2>2. \A s \in DOMAIN Sources : baseline'[s] \in Registers(s) \union {None}
    BY <1>0, <1>8 DEF ScanSource, Baseline, TypeOK, Functions, Scanning
  <2>3. sub' \in 1 .. Len(subs') + (IF at' = "send" THEN 0 ELSE 1)
    BY <1>0, <1>8 DEF ScanSource, TypeOK
  <2> QED
    BY <1>0, <1>8, <2>1, <2>2, <2>3 DEF ScanSource, TypeOK
<1>9. ASSUME NEW t \in Pollers, PollReceive(t) PROVE TypeOK'
  <2>1. wire' \in Seq(Events) /\ Head(wire) \in Events
    BY <1>0, <1>9 DEF PollReceive, TypeOK
  <2>2. \A u \in Pollers : IF pc'[u] = "poll" THEN event'[u] = None ELSE event'[u] \in Events
    BY <1>0, <1>9, <2>1 DEF PollReceive, TypeOK, Functions
  <2> QED
    BY <1>0, <1>9, <2>1, <2>2 DEF PollReceive, TypeOK
<1>10. ASSUME NEW t \in Pollers, PollCall(t) PROVE TypeOK'
  BY <1>0, <1>10 DEF PollCall, TypeOK
<1>11. ASSUME NEW t \in Pollers, PollNoHandler(t) \/ HandlerReturns(t) PROVE TypeOK'
  <2>1. event[t] \in Events
    BY <1>0, <1>11 DEF PollNoHandler, HandlerReturns, TypeOK
  <2>2. event[t].id \in SubIds /\ event[t].values \in Seq(RegisterValues)
    BY <2>1 DEF Events
  <2>3. \A i \in SubIds : seen'[i] \notin {None, Missed} => seen'[i] \in Seq(RegisterValues)
    BY <1>0, <1>11, <2>2 DEF PollNoHandler, HandlerReturns, TypeOK, Functions
  <2>4. \A u \in Pollers : IF pc'[u] = "poll" THEN event'[u] = None ELSE event'[u] \in Events
    BY <1>0, <1>11 DEF PollNoHandler, HandlerReturns, TypeOK, Functions
  <2> QED
    BY <1>0, <1>11, <2>3, <2>4 DEF PollNoHandler, HandlerReturns, TypeOK
<1>12. ASSUME NEW s \in DOMAIN Sources, NEW i \in 1 .. Sources[s].count,
              NEW v \in RegisterValues, Change(s, i, v)
       PROVE TypeOK'
  <2>1. \A u \in DOMAIN Sources : registers'[u] \in Registers(u)
    BY <1>0, <1>12 DEF Change, TypeOK, Functions, Registers
  <2> QED
    BY <1>0, <1>12, <2>1 DEF Change, TypeOK
<1>13. CASE UNCHANGED vars
  BY <1>0, <1>13 DEF vars, TypeOK
<1> QED
  BY <1>1, <1>2, <1>3, <1>4, <1>5, <1>6, <1>7, <1>8, <1>9, <1>10, <1>11, <1>12, <1>13
     DEF Next, ScanStep, PollStep

LEMMA ScanningStep == IInv /\ [Next]_vars => Scanning'
<1> SUFFICES ASSUME TypeOK, Scanning, [Next]_vars PROVE Scanning'
  BY DEF IInv
<1> USE DEF Scanning, pubVars, subVars
<1>1. ASSUME NEW q \in Requests, Accept(q) PROVE Scanning'
  BY <1>1 DEF Accept
<1>2. ASSUME NEW i \in SubIds, Remove(i) PROVE Scanning'
  BY <1>2 DEF Remove
<1>3. ASSUME NEW i \in SubIds, OnEvent(i) \/ RemoveHandler(i) \/ IntervalPasses(i)
      PROVE Scanning'
  BY <1>3 DEF OnEvent, RemoveHandler, IntervalPasses
<1>4. CASE ScanRead
  BY <1>4 DEF ScanRead, TypeOK
<1>5. CASE ScanBegin \/ ScanSkip \/ ScanNotify
  BY <1>5 DEF ScanBegin, ScanSkip, ScanNotify
<1>6. CASE ScanSend \/ ScanSendFails
  BY <1>6 DEF ScanSend, ScanSendFails, Notified
<1>7. CASE ScanSource
  BY <1>7 DEF ScanSource
<1>8. ASSUME NEW t \in Pollers, PollStep(t) PROVE Scanning'
  BY <1>8 DEF PollStep, PollReceive, PollCall, PollNoHandler, HandlerReturns
<1>9. ASSUME NEW s \in DOMAIN Sources, NEW i \in 1 .. Sources[s].count,
             NEW v \in RegisterValues, Change(s, i, v)
      PROVE Scanning'
  BY <1>9 DEF Change
<1>10. CASE UNCHANGED vars
  BY <1>10 DEF vars
<1> QED
  BY <1>1, <1>2, <1>3, <1>4, <1>5, <1>6, <1>7, <1>8, <1>9, <1>10 DEF Next, ScanStep

LEMMA IssuedStep == IInv /\ [Next]_vars => Issued'
<1> SUFFICES ASSUME IInv, [Next]_vars PROVE Issued'
  OBVIOUS
<1> USE DEF pubVars, subVars
<1>0. TypeOK /\ Functions /\ Scanning /\ Issued /\ SendJustified
  BY DEF IInv
<1>1. ASSUME NEW q \in Requests, Accept(q) PROVE Issued'
  <2> DEFINE n == Len(subs) + 1
  <2>1. /\ subs \in Seq(Subscription) /\ nextId \in Nat /\ Len(subs) \in Nat
        /\ \A k \in DOMAIN subs : subs[k].id \in Nat
    <3>1. subs \in Seq(Subscription) /\ nextId \in Nat
      BY <1>0, PubSubAssumption DEF TypeOK
    <3>2. \A k \in DOMAIN subs : subs[k] \in Subscription
      BY <3>1
    <3>3. \A x \in Subscription : x.id \in Nat
      BY PubSubAssumption DEF Subscription, SubIds
    <3> QED
      BY <3>1, <3>2, <3>3
  <2>2. /\ DOMAIN subs' = 1 .. n /\ subs'[n].id = nextId
        /\ \A k \in 1 .. Len(subs) : subs'[k] = subs[k]
    BY <1>1, <2>1 DEF Accept
  <2>3. \A k \in 1 .. Len(subs) : subs[k].id < nextId
    BY <1>0, <2>1 DEF Issued
  <2>4. nextId' = nextId + 1 /\ noted' = noted
    BY <1>1 DEF Accept
  <2>5. \A j, k \in 1 .. Len(subs) : subs[j].id = subs[k].id => j = k
    BY <1>0, <2>1 DEF Issued
  <2>6. \A k \in 1 .. n : k = n \/ k \in 1 .. Len(subs)
    BY <2>1
  <2>7. ASSUME NEW k \in DOMAIN subs' PROVE subs'[k].id < nextId'
    BY <2>1, <2>2, <2>3, <2>4, <2>6, <2>7
  <2>8. ASSUME NEW j \in DOMAIN subs', NEW k \in DOMAIN subs', subs'[j].id = subs'[k].id
        PROVE  j = k
    BY <2>1, <2>2, <2>3, <2>5, <2>6, <2>8
  <2>9. \A i \in SubIds : i >= nextId' => noted'[i] = None
    BY <1>0, <2>1, <2>4 DEF Issued, SubIds
  <2> QED
    BY <2>7, <2>8, <2>9 DEF Issued
<1>2. ASSUME NEW i \in SubIds, Remove(i) PROVE Issued'
  <2>1. PICK k \in DOMAIN subs : subs[k].id = i /\ subs' = Without(subs, k)
    BY <1>2 DEF Remove
  <2>2. \A j \in DOMAIN subs' : /\ j \in DOMAIN subs /\ j + 1 \in DOMAIN subs
                                /\ subs'[j] = subs[IF j < k THEN j ELSE j + 1]
    BY <1>0, <2>1, TakenOut DEF TypeOK
  <2>3. DOMAIN subs \subseteq Nat /\ nextId' = nextId
    BY <1>0, <1>2 DEF TypeOK, Remove
  <2>4. \A j \in DOMAIN subs' : subs'[j].id < nextId'
    BY <1>0, <2>2, <2>3 DEF Issued
  <2>5. ASSUME NEW j \in DOMAIN subs', NEW l \in DOMAIN subs', subs'[j].id = subs'[l].id
        PROVE  j = l
    <3>1. (IF j < k THEN j ELSE j + 1) = (IF l < k THEN l ELSE l + 1)
      BY <1>0, <2>2, <2>5 DEF Issued
    <3>2. j \in Nat /\ l \in Nat /\ k \in Nat
      BY <2>2, <2>3
    <3> QED
      BY <3>1, <3>2
  <2>6. \A h \in SubIds : h >= nextId' => noted'[h] = None
    BY <1>0, <1>2, <2>3 DEF Issued, Remove, Functions
  <2> QED
    BY <2>4, <2>5, <2>6 DEF Issued
<1>3. ASSUME NEW i \in SubIds, OnEvent(i) \/ RemoveHandler(i) \/ IntervalPasses(i)
      PROVE Issued'
  BY <1>0, <1>3 DEF OnEvent, RemoveHandler, IntervalPasses, Issued
<1>4. CASE ScanBegin \/ ScanRead \/ ScanSkip \/ ScanNotify \/ ScanSource
  BY <1>0, <1>4 DEF ScanBegin, ScanRead, ScanSkip, ScanNotify, ScanSource, Issued
<1>5. CASE ScanSend \/ ScanSendFails
  <2>1. /\ subs' = subs /\ nextId' = nextId
        /\ \E v : noted' = [noted EXCEPT ![subs[sub].id] = v]
    BY <1>5 DEF ScanSend, ScanSendFails, Notified
  <2>2. at = "send" /\ sub <= Len(subs)
    BY <1>0, <1>5 DEF ScanSend, ScanSendFails, SendJustified
  <2>3. sub \in DOMAIN subs
    BY <1>0, <2>2, UnderIterator
  <2>4. subs[sub].id < nextId /\ subs[sub].id \in Nat /\ nextId \in Nat
    <3>1. subs[sub].id < nextId
      BY <1>0, <2>3 DEF Issued
    <3>2. subs[sub].id \in SubIds
      BY <1>0, <2>2, UnderIterator
    <3>3. subs[sub].id \in Nat
      BY <3>2, PubSubAssumption DEF SubIds
    <3>4. nextId \in Nat
      BY <1>0, PubSubAssumption DEF TypeOK
    <3> QED
      BY <3>1, <3>3, <3>4
  <2>5. \A i \in SubIds : i >= nextId => i # subs[sub].id
    BY <2>4, PubSubAssumption DEF SubIds
  <2>6. \A i \in SubIds : i >= nextId' => noted'[i] = None
    BY <1>0, <2>1, <2>5 DEF Issued, Functions
  <2> QED
    BY <1>0, <2>1, <2>6 DEF Issued
<1>6. ASSUME NEW t \in Pollers, PollStep(t) PROVE Issued'
  BY <1>0, <1>6 DEF PollStep, PollReceive, PollCall, PollNoHandler, HandlerReturns, Issued
<1>7. ASSUME NEW s \in DOMAIN Sources, NEW i \in 1 .. Sources[s].count,
             NEW v \in RegisterValues, Change(s, i, v)
      PROVE Issued'
  BY <1>0, <1>7 DEF Change, Issued
<1>8. CASE UNCHANGED vars
  BY <1>0, <1>8 DEF vars, Issued
<1> QED
  BY <1>1, <1>2, <1>3, <1>4, <1>5, <1>6, <1>7, <1>8 DEF Next, ScanStep

(* Only the steps of the scan and of the clock are possible while a        *)
(* notification is about to be sent; the clock makes more of them due.     *)
LEMMA JustifiedStep == IInv /\ [Next]_vars => SendJustified'
<1> SUFFICES ASSUME SendJustified, [Next]_vars, at' = "send"
             PROVE  sub' <= Len(subs') /\ Notifies'
  BY DEF IInv, SendJustified
<1> USE DEF pubVars, subVars
<1>1. CASE /\ UNCHANGED <<baseline, subs, at, src, sub, current>>
           /\ elapsed \subseteq elapsed'
  <2>1. sub <= Len(subs) /\ Notifies
    BY <1>1 DEF SendJustified
  <2>2. Notifies'
    BY <1>1, <2>1 DEF Notifies, ShouldNotify, Elapsed
  <2> QED
    BY <1>1, <2>1, <2>2
<1>2. ASSUME NEW q \in Requests, Accept(q) PROVE FALSE
  BY <1>2 DEF Accept
<1>3. ASSUME NEW i \in SubIds, Remove(i) PROVE FALSE
  BY <1>3 DEF Remove
<1>4. ASSUME NEW i \in SubIds, OnEvent(i) \/ RemoveHandler(i) \/ IntervalPasses(i)
      PROVE  sub' <= Len(subs') /\ Notifies'
  BY <1>1, <1>4 DEF OnEvent, RemoveHandler, IntervalPasses
<1>5. CASE ScanBegin \/ ScanRead \/ ScanSkip \/ ScanSource
  BY <1>5 DEF ScanBegin, ScanRead, ScanSkip, ScanSource
<1>6. CASE ScanNotify
  BY <1>6 DEF ScanNotify, Notifies, ShouldNotify, Elapsed
<1>7. CASE ScanSend \/ ScanSendFails
  BY <1>7 DEF ScanSend, ScanSendFails, Notified
<1>8. ASSUME NEW t \in Pollers, PollStep(t) PROVE sub' <= Len(subs') /\ Notifies'
  BY <1>1, <1>8 DEF PollStep, PollReceive, PollCall, PollNoHandler, HandlerReturns
<1>9. ASSUME NEW s \in DOMAIN Sources, NEW i \in 1 .. Sources[s].count,
             NEW v \in RegisterValues, Change(s, i, v)
      PROVE sub' <= Len(subs') /\ Notifies'
  BY <1>1, <1>9 DEF Change
<1>10. CASE UNCHANGED vars
  BY <1>1, <1>10 DEF vars
<1> QED
  BY <1>2, <1>3, <1>4, <1>5, <1>6, <1>7, <1>8, <1>9, <1>10 DEF Next, ScanStep

LEMMA ScopeStep == IInv /\ [Next]_vars => HandlerScope'
<1> SUFFICES ASSUME TypeOK, Functions, HandlerScope, [Next]_vars PROVE HandlerScope'
  BY DEF IInv
<1> USE DEF HandlerScope, pubVars, subVars
<1>1. ASSUME NEW q \in Requests, Accept(q) PROVE HandlerScope'
  BY <1>1 DEF Accept
<1>2. ASSUME NEW i \in SubIds, Remove(i) \/ OnEvent(i) \/ IntervalPasses(i)
      PROVE HandlerScope'
  BY <1>2 DEF Remove, OnEvent, IntervalPasses
<1>3. ASSUME NEW i \in SubIds, RemoveHandler(i) PROVE HandlerScope'
  BY <1>3 DEF RemoveHandler, Unlocked
<1>4. CASE ScanBegin \/ ScanRead \/ ScanSkip \/ ScanNotify \/ ScanSource
  BY <1>4 DEF ScanBegin, ScanRead, ScanSkip, ScanNotify, ScanSource
<1>5. CASE ScanSend \/ ScanSendFails
  BY <1>5 DEF ScanSend, ScanSendFails, Notified
<1>6. ASSUME NEW t \in Pollers, PollStep(t) PROVE HandlerScope'
  <2> SUFFICES ASSUME NEW u \in Pollers, pc'[u] = "run" PROVE event'[u].id \in handlers'
    OBVIOUS
  <2>1. CASE PollCall(t)
    BY <2>1 DEF PollCall, TypeOK, Unlocked
  <2>2. CASE PollReceive(t) \/ PollNoHandler(t) \/ HandlerReturns(t)
    <3>1. handlers' = handlers /\ pc'[t] # "run"
      BY <2>2 DEF PollReceive, PollNoHandler, HandlerReturns, TypeOK
    <3>2. u # t /\ pc'[u] = pc[u] /\ event'[u] = event[u]
      BY <2>2, <3>1 DEF PollReceive, PollNoHandler, HandlerReturns, TypeOK, Functions
    <3> QED
      BY <3>1, <3>2
  <2> QED
    BY <1>6, <2>1, <2>2 DEF PollStep
<1>7. ASSUME NEW s \in DOMAIN Sources, NEW i \in 1 .. Sources[s].count,
             NEW v \in RegisterValues, Change(s, i, v)
      PROVE HandlerScope'
  BY <1>7 DEF Change
<1>8. CASE UNCHANGED vars
  BY <1>8 DEF vars
<1> QED
  BY <1>1, <1>2, <1>3, <1>4, <1>5, <1>6, <1>7, <1>8 DEF Next, ScanStep

(* The invariant holds in every reachable state.                           *)
THEOREM Invariance == Spec => []IInv
<1>1. IInv /\ [Next]_vars => IInv'
  BY TypeStep, FunctionsStep, ScanningStep, IssuedStep, JustifiedStep, ScopeStep DEF IInv
<1> QED
  BY Initial, <1>1, PTL DEF Spec

(* Types of the variables, and that the loop over the subscriptions stays  *)
(* inside the vector (scan_and_notify under the publisher's mutex).        *)
THEOREM TypeCorrect == Spec => []TypeOK
<1>1. IInv => TypeOK
  BY DEF IInv
<1> QED
  BY Invariance, <1>1, PTL

(* What scan_and_notify sends is for a subscription that is still there    *)
(* and whose trigger has fired.                                            *)
THEOREM NotificationJustified == Spec => []SendJustified
<1>1. IInv => SendJustified
  BY DEF IInv
<1> QED
  BY Invariance, <1>1, PTL

(* A handler runs only while it is registered (poll and remove_handler     *)
(* under the subscriber's mutex).                                          *)
THEOREM HandlerInScope == Spec => []HandlerScope
<1>1. IInv => HandlerScope
  BY DEF IInv
<1> QED
  BY Invariance, <1>1, PTL

-----------------------------------------------------------------------------
(* What a subscription was notified of                                     *)

(* A request belongs to one source at most: sources do not overlap.        *)
DisjointSources ==
    \A q \in Requests : \A s, t \in DOMAIN Sources : Covers(s, q) /\ Covers(t, q) => s = t

(* The values of source s that subscription k was last compared with.      *)
LastCompared(k, s) ==
    IF at \in {"sub", "send"} /\ s = src /\ k < sub THEN current ELSE baseline[s]

(* Subscription x was notified of the values of s, if it should have been. *)
Tracks(x, s, values) ==
    \/ x.req.trigger = "OnChange" /\ x.req.band = 0
    \/ x.req.trigger = "OnThreshold" /\ Beyond(x.req, Slice(s, x.req, values))

InStepWith(x, s, values) ==
    Followed(x) /\ Covers(s, x.req) =>
        /\ values # None
        /\ Tracks(x, s, values) => noted[x.id] = Slice(s, x.req, values)

(* In the middle of a scan, the subscriptions before the iterator are in   *)
(* step with the values just read, the others with those of the scan       *)
(* before.                                                                 *)
Compared ==
    \A k \in DOMAIN subs : \A s \in DOMAIN Sources : InStepWith(subs[k], s, LastCompared(k, s))

LEMMA ComparedStep ==
    ASSUME DisjointSources
    PROVE  IInv /\ Compared /\ [Next]_vars => Compared'
<1> SUFFICES ASSUME IInv, Compared, [Next]_vars PROVE Compared'
  OBVIOUS
<1> USE DEF pubVars, subVars
<1>0. TypeOK /\ Functions /\ Scanning /\ Issued /\ SendJustified
  BY DEF IInv
<1>00. /\ subs \in Seq(Subscription) /\ sub \in Nat /\ Len(subs) \in Nat
       /\ DOMAIN subs = 1 .. Len(subs)
       /\ \A k \in DOMAIN subs : subs[k].id \in SubIds /\ subs[k].req \in Requests
  <2>1. subs \in Seq(Subscription) /\ sub \in Nat /\ Len(subs) \in Nat
    BY <1>0 DEF TypeOK
  <2>2. \A x \in Subscription : x.id \in SubIds /\ x.req \in Requests
    BY DEF Subscription
  <2> QED
    BY <2>1, <2>2
<1>1. CASE UNCHANGED <<baseline, subs, at, src, sub, current, noted>>
  BY <1>1 DEF Compared, InStepWith, LastCompared, Tracks, Followed
<1>2. ASSUME NEW q \in Requests, Accept(q) PROVE Compared'
  <2> SUFFICES ASSUME NEW k \in DOMAIN subs', NEW s \in DOMAIN Sources
               PROVE  InStepWith(subs[k], s, LastCompared(k, s))'
    BY DEF Compared
  <2>1. /\ at = "idle" /\ UNCHANGED <<baseline, at, src, sub, current, noted>>
        /\ nextId \in SubIds /\ subs' = Append(subs, [id |-> nextId, req |-> q])
    BY <1>0, <1>2, PubSubAssumption DEF Accept, TypeOK, SubIds
  <2>2. CASE k \in DOMAIN subs
    <3>1. subs'[k] = subs[k]
      BY <1>00, <2>1, <2>2
    <3> QED
      BY <2>1, <2>2, <3>1 DEF Compared, InStepWith, LastCompared, Tracks, Followed
  <2>3. CASE k \notin DOMAIN subs
    <3>1. subs'[k].id = nextId
      BY <1>00, <2>1, <2>3
    <3>2. noted[nextId] = None
      BY <1>0, <2>1, PubSubAssumption DEF Issued, SubIds
    <3> QED
      BY <2>1, <3>1, <3>2 DEF InStepWith, Followed
  <2> QED
    BY <2>2, <2>3
<1>3. ASSUME NEW i \in SubIds, Remove(i) PROVE Compared'
  <2> SUFFICES ASSUME NEW j \in DOMAIN subs', NEW s \in DOMAIN Sources
               PROVE  InStepWith(subs[j], s, LastCompared(j, s))'
    BY DEF Compared
  <2>1. /\ at = "idle" /\ UNCHANGED <<baseline, at, src, sub, current>>
        /\ noted' = [noted EXCEPT ![i] = None]
    BY <1>3 DEF Remove
  <2>2. PICK k \in DOMAIN subs : subs[k].id = i /\ subs' = Without(subs, k)
    BY <1>3 DEF Remove
  <2>3. PICK l \in DOMAIN subs : subs'[j] = subs[l]
    <3>1. /\ j \in DOMAIN subs /\ j + 1 \in DOMAIN subs
          /\ subs'[j] = subs[IF j < k THEN j ELSE j + 1]
      BY <1>00, <2>2, TakenOut
    <3> QED
      BY <3>1
  <2>4. noted'[subs[l].id] = None \/ noted'[subs[l].id] = noted[subs[l].id]
    BY <1>0, <1>00, <2>1 DEF Functions
  <2>5. InStepWith(subs[l], s, baseline[s])
    BY <2>1 DEF Compared, LastCompared
  <2>6. LastCompared(j, s)' = baseline[s]
    BY <2>1 DEF LastCompared
  <2> QED
    BY <2>3, <2>4, <2>5, <2>6 DEF InStepWith, Followed, Tracks
<1>4. ASSUME NEW i \in SubIds, OnEvent(i) \/ RemoveHandler(i) \/ IntervalPasses(i)
      PROVE  Compared'
  BY <1>1, <1>4 DEF OnEvent, RemoveHandler, IntervalPasses
<1>5. CASE ScanBegin
  BY <1>5 DEF ScanBegin, Compared, InStepWith, LastCompared, Tracks, Followed
<1>6. CASE ScanRead
  <2> SUFFICES ASSUME NEW k \in DOMAIN subs, NEW s \in DOMAIN Sources
               PROVE  InStepWith(subs[k], s, LastCompared(k, s))'
    BY <1>6 DEF ScanRead, Compared
  <2>1. ~(k < 1)
    BY <1>00
  <2>2. LastCompared(k, s)' = LastCompared(k, s)
    BY <1>6, <2>1 DEF ScanRead, LastCompared
  <2>3. InStepWith(subs[k], s, LastCompared(k, s))
    BY DEF Compared
  <2> QED
    BY <1>6, <2>2, <2>3 DEF ScanRead, InStepWith, Tracks, Followed
<1>7. CASE ScanSkip
  <2> SUFFICES ASSUME NEW k \in DOMAIN subs, NEW s \in DOMAIN Sources
               PROVE  InStepWith(subs[k], s, LastCompared(k, s))'
    BY <1>7 DEF ScanSkip, Compared
  <2>1. /\ at = "sub" /\ sub <= Len(subs) /\ sub' = sub + 1 /\ ~Notifies
        /\ UNCHANGED <<baseline, subs, at, src, current, noted>>
    BY <1>7 DEF ScanSkip
  <2>2. InStepWith(subs[k], s, LastCompared(k, s))
    BY DEF Compared
  <2>3. CASE k # sub \/ s # src
    <3>1. LastCompared(k, s)' = LastCompared(k, s)
      BY <1>00, <2>1, <2>3 DEF LastCompared
    <3> QED
      BY <2>1, <2>2, <3>1 DEF InStepWith, Tracks, Followed
  <2>4. CASE k = sub /\ s = src
    <3> DEFINE x == subs[sub]
               now == Slice(src, x.req, current)
               before == Slice(src, x.req, baseline[src])
    <3>1. LastCompared(k, s) = baseline[src] /\ LastCompared(k, s)' = current
      BY <1>00, <2>1, <2>4 DEF LastCompared
    <3>2. /\ src \in DOMAIN Sources /\ x.req \in Requests /\ current \in Registers(src)
          /\ baseline[src] \in Registers(src) \union {None}
      BY <1>0, <1>00, <2>1, <2>4, UnderIterator DEF TypeOK
    <3>3. current # None
      BY <3>2, PubSubAssumption DEF Registers
    <3>4. SUFFICES ASSUME Followed(x), Covers(src, x.req), Tracks(x, src, current)
                   PROVE  noted[x.id] = now
      BY <2>1, <2>4, <3>1, <3>3 DEF InStepWith, Followed, Tracks
    <3>5. ~ShouldNotify(src, x)
      BY <2>1, <3>4 DEF Notifies
    <3>6. /\ baseline[src] # None
          /\ Tracks(x, src, baseline[src]) => noted[x.id] = before
      BY <2>2, <2>4, <3>1, <3>4 DEF InStepWith
    <3>7. ~Beyond(x.req, now) \/ x.req.trigger # "OnThreshold"
      BY <3>5 DEF ShouldNotify
    <3>8. x.req.trigger = "OnChange" /\ x.req.band = 0
      BY <3>4, <3>7 DEF Tracks
    <3>9. ~Changed(x.req, now, before)
      BY <3>5, <3>6, <3>8 DEF ShouldNotify
    <3>10. now = before
      BY <3>2, <3>4, <3>6, <3>8, <3>9, UnchangedSlice
    <3> QED
      BY <3>6, <3>8, <3>10 DEF Tracks
  <2> QED
    BY <2>3, <2>4
<1>8. CASE ScanNotify
  BY <1>8 DEF ScanNotify, Compared, InStepWith, LastCompared, Tracks, Followed
<1>9. CASE ScanSend \/ ScanSendFails
  <2> SUFFICES ASSUME NEW k \in DOMAIN subs, NEW s \in DOMAIN Sources
               PROVE  InStepWith(subs[k], s, LastCompared(k, s))'
    BY <1>9 DEF ScanSend, ScanSendFails, Notified, Compared
  <2> DEFINE x == subs[sub]
             now == Slice(src, x.req, current)
  <2>1. /\ at = "send" /\ sub' = sub + 1 /\ at' = "sub"
        /\ noted' = [noted EXCEPT ![x.id] = now]
        /\ UNCHANGED <<baseline, subs, src, current>>
    BY <1>9 DEF ScanSend, ScanSendFails, Notified
  <2>2. sub <= Len(subs) /\ Covers(src, x.req)
    BY <1>0, <2>1 DEF SendJustified, Notifies
  <2>3. /\ sub \in DOMAIN subs /\ x.id \in SubIds /\ x.req \in Requests
        /\ src \in DOMAIN Sources /\ current \in Registers(src)
    BY <1>0, <2>1, <2>2, UnderIterator
  <2>4. current # None
    BY <2>3, PubSubAssumption DEF Registers
  <2>5. InStepWith(subs[k], s, LastCompared(k, s))
    BY DEF Compared
  <2>6. CASE k = sub
    <3>1. noted'[x.id] = now
      BY <1>0, <2>1, <2>3 DEF Functions
    <3>2. s = src => LastCompared(k, s)' = current
      BY <1>00, <2>1, <2>6 DEF LastCompared
    <3>3. Covers(s, x.req) => s = src
      BY <2>2, <2>3, DisjointSources DEF DisjointSources
    <3> QED
      BY <2>1, <2>4, <2>6, <3>1, <3>2, <3>3 DEF InStepWith
  <2>7. CASE k # sub
    <3>1. subs[k].id # x.id /\ subs[k].id \in SubIds
      BY <1>0, <1>00, <2>3, <2>7 DEF Issued
    <3>2. noted'[subs[k].id] = noted[subs[k].id]
      BY <1>0, <2>1, <3>1 DEF Functions
    <3>3. LastCompared(k, s)' = LastCompared(k, s)
      BY <1>00, <2>1, <2>7 DEF LastCompared
    <3> QED
      BY <2>1, <2>5, <3>2, <3>3 DEF InStepWith, Tracks, Followed
  <2> QED
    BY <2>6, <2>7
<1>10. CASE ScanSource
  <2> SUFFICES ASSUME NEW k \in DOMAIN subs, NEW s \in DOMAIN Sources
               PROVE  InStepWith(subs[k], s, LastCompared(k, s))'
    BY <1>10 DEF ScanSource, Compared
  <2>1. /\ at = "sub" /\ at' \in {"read", "idle"} /\ sub > Len(subs)
        /\ baseline' = [baseline EXCEPT ![src] = current]
        /\ UNCHANGED <<subs, noted>>
    BY <1>10 DEF ScanSource, Baseline
  <2>2. LastCompared(k, s)' = baseline'[s]
    BY <2>1 DEF LastCompared
  <2>3. baseline'[s] = IF s = src THEN current ELSE baseline[s]
    BY <1>0, <2>1 DEF Functions
  <2>4. LastCompared(k, s) = baseline'[s]
    BY <1>00, <2>1, <2>3 DEF LastCompared
  <2>5. InStepWith(subs[k], s, LastCompared(k, s))
    BY DEF Compared
  <2> QED
    BY <2>1, <2>2, <2>4, <2>5 DEF InStepWith, Tracks, Followed
<1>11. ASSUME NEW t \in Pollers, PollStep(t) PROVE Compared'
  BY <1>1, <1>11 DEF PollStep, PollReceive, PollCall, PollNoHandler, HandlerReturns
<1>12. ASSUME NEW s \in DOMAIN Sources, NEW i \in 1 .. Sources[s].count,
              NEW v \in RegisterValues, Change(s, i, v)
       PROVE Compared'
  BY <1>1, <1>12 DEF Change
<1>13. CASE UNCHANGED vars
  BY <1>1, <1>13 DEF vars
<1> QED
  BY <1>2, <1>3, <1>4, <1>5, <1>6, <1>7, <1>8, <1>9, <1>10, <1>11, <1>12, <1>13
     DEF Next, ScanStep

(* Sources that do not overlap: between two scans no change the last scan  *)
(* read has been kept from a subscription (should_notify against           *)
(* last_values, and their update after the loop).                          *)
THEOREM NoChangeMissed ==
    ASSUME DisjointSources
    PROVE  Spec => []NotifiedOfLastScan
<1>1. Init => Compared
  BY DEF Init, Compared
<1>2. IInv /\ Compared /\ [Next]_vars => Compared'
  BY ComparedStep
<1>3. Compared => NotifiedOfLastScan
  <2> SUFFICES ASSUME Compared, at = "idle", NEW x \in Subscribed,
                      NEW s \in DOMAIN Sources, Followed(x), Covers(s, x.req),
                      Tracks(x, s, baseline[s])
               PROVE  noted[x.id] = LastScan(x, s)
    BY DEF NotifiedOfLastScan, Tracks, LastScan
  <2>1. PICK k \in DOMAIN subs : x = subs[k]
    BY DEF Subscribed
  <2>2. InStepWith(x, s, baseline[s])
    BY <2>1 DEF Compared, LastCompared
  <2> QED
    BY <2>2 DEF InStepWith, LastScan
<1> QED
  BY Invariance, <1>1, <1>2, <1>3, PTL DEF Spec

-----------------------------------------------------------------------------
(* What a handler was last called with                                     *)

OnePoller == \A t, u \in Pollers : t = u

(* Event frames are for ids that were given out.                           *)
FreshIds ==
    /\ \A k \in DOMAIN wire : wire[k].id < nextId
    /\ \A t \in Pollers : event[t] # None => event[t].id < nextId
    /\ \A i \in SubIds : i >= nextId => seen[i] = None

OnWire(i) == \E k \in DOMAIN wire : wire[k].id = i
Dispatched(i) == \E t \in Pollers : event[t] # None /\ event[t].id = i

(* The last event of a subscription, wherever it is on its way to the      *)
(* handler, carries what the subscription was last notified of.            *)
Carried(i) ==
    /\ \A k \in DOMAIN wire :
          wire[k].id = i /\ (\A j \in DOMAIN wire : wire[j].id = i => j <= k) =>
              wire[k].values = noted[i]
    /\ ~OnWire(i) => \A t \in Pollers :
                        event[t] # None /\ event[t].id = i => event[t].values = noted[i]
    /\ ~OnWire(i) /\ ~Dispatched(i) => seen[i] \in {Missed, noted[i]}

Delivery ==
    /\ FreshIds
    /\ \A x \in Subscribed : x.id \in unsent \/ Carried(x.id)

LEMMA FreshStep == IInv /\ FreshIds /\ [Next]_vars => FreshIds'
<1> SUFFICES ASSUME IInv, FreshIds, [Next]_vars PROVE FreshIds'
  OBVIOUS
<1> USE DEF pubVars, subVars
<1>0. TypeOK /\ Functions /\ Scanning /\ Issued /\ SendJustified
  BY DEF IInv
<1>1. nextId \in Nat /\ wire \in Seq(Events) /\ \A e \in Events : e.id \in Nat
  BY <1>0, PubSubAssumption DEF TypeOK, Events, SubIds
<1>2. CASE UNCHANGED <<nextId, wire, event, seen>>
  BY <1>2 DEF FreshIds
<1>3. ASSUME NEW q \in Requests, Accept(q) PROVE FreshIds'
  <2>1. nextId' = nextId + 1 /\ UNCHANGED <<wire, event, seen>>
    BY <1>3 DEF Accept
  <2>2. \A k \in DOMAIN wire : wire[k].id \in Nat
    BY <1>1
  <2>3. \A t \in Pollers : event[t] # None => event[t].id \in Nat
    BY <1>0, <1>1 DEF TypeOK
  <2> QED
    BY <1>1, <2>1, <2>2, <2>3 DEF FreshIds, SubIds
<1>4. ASSUME NEW i \in SubIds,
             Remove(i) \/ OnEvent(i) \/ RemoveHandler(i) \/ IntervalPasses(i)
      PROVE  FreshIds'
  BY <1>2, <1>4 DEF Remove, OnEvent, RemoveHandler, IntervalPasses
<1>5. CASE ScanBegin \/ ScanRead \/ ScanSkip \/ ScanNotify \/ ScanSource
  BY <1>2, <1>5 DEF ScanBegin, ScanRead, ScanSkip, ScanNotify, ScanSource
<1>6. CASE ScanSend \/ ScanSendFails
  <2> DEFINE values == Slice(src, subs[sub].req, current)
             e == [id |-> subs[sub].id, values |-> values]
  <2>1. at = "send" /\ sub <= Len(subs) /\ Covers(src, subs[sub].req)
    BY <1>0, <1>6 DEF ScanSend, ScanSendFails, SendJustified, Notifies
  <2>2. sub \in DOMAIN subs /\ e \in Events /\ e.id < nextId
    BY <1>0, <2>1, UnderIterator DEF Issued, Events
  <2>3. PICK frames \in {0, 1} : Notified(frames)
    BY <1>6 DEF ScanSend, ScanSendFails
  <2> HIDE DEF e
  <2>4. /\ wire' = wire \o [f \in 1 .. frames |-> e]
        /\ UNCHANGED <<nextId, event, seen>>
    BY <2>3 DEF Notified, e
  <2>5. \A k \in DOMAIN wire' : wire'[k] = e \/ (k \in DOMAIN wire /\ wire'[k] = wire[k])
    <3>1. [f \in 1 .. frames |-> e] \in Seq(Events) /\ Len([f \in 1 .. frames |-> e]) = frames
      BY <2>2
    <3> QED
      BY <1>1, <2>4, <3>1
  <2> QED
    BY <2>2, <2>4, <2>5 DEF FreshIds
<1>7. ASSUME NEW t \in Pollers, PollReceive(t) PROVE FreshIds'
  <2>1. \A k \in DOMAIN wire' : k + 1 \in DOMAIN wire /\ wire'[k] = wire[k + 1]
    BY <1>1, <1>7 DEF PollReceive
  <2>2. event' = [event EXCEPT ![t] = wire[1]] /\ 1 \in DOMAIN wire
    BY <1>1, <1>7 DEF PollReceive
  <2>3. \A u \in Pollers : event'[u] = event[u] \/ event'[u] = wire[1]
    BY <1>0, <2>2 DEF Functions
  <2> QED
    BY <1>7, <2>1, <2>2, <2>3 DEF PollReceive, FreshIds
<1>8. ASSUME NEW t \in Pollers, PollNoHandler(t) \/ HandlerReturns(t) PROVE FreshIds'
  <2>1. event[t] \in Events /\ event[t] # None
    BY <1>0, <1>8, NoneIsNoEvent DEF PollNoHandler, HandlerReturns, TypeOK
  <2>2. event[t].id < nextId /\ event[t].id \in Nat
    BY <1>1, <2>1 DEF FreshIds
  <2>3. \A i \in SubIds : i >= nextId => i # event[t].id
    BY <1>1, <2>2
  <2>4. \A i \in SubIds : i >= nextId => seen'[i] = None
    BY <1>0, <1>8, <2>3 DEF PollNoHandler, HandlerReturns, FreshIds, Functions
  <2>5. \A u \in Pollers : event'[u] = None \/ event'[u] = event[u]
    BY <1>0, <1>8 DEF PollNoHandler, HandlerReturns, Functions
  <2> QED
    BY <1>8, <2>4, <2>5 DEF PollNoHandler, HandlerReturns, FreshIds
<1>9. ASSUME NEW t \in Pollers, PollCall(t) PROVE FreshIds'
  BY <1>2, <1>9 DEF PollCall
<1>10. ASSUME NEW s \in DOMAIN Sources, NEW i \in 1 .. Sources[s].count,
              NEW v \in RegisterValues, Change(s, i, v)
       PROVE FreshIds'
  BY <1>2, <1>10 DEF Change
<1>11. CASE UNCHANGED vars
  BY <1>2, <1>11 DEF vars
<1> QED
  BY <1>3, <1>4, <1>5, <1>6, <1>7, <1>8, <1>9, <1>10, <1>11 DEF Next, ScanStep, PollStep

LEMMA DeliveryStep ==
    ASSUME OnePoller
    PROVE  IInv /\ Delivery /\ [Next]_vars => Delivery'
<1> SUFFICES ASSUME IInv, Delivery, [Next]_vars
             PROVE  \A x \in Subscribed' : x.id \in unsent' \/ Carried(x.id)'
  BY FreshStep DEF Delivery
<1> USE DEF pubVars, subVars
<1>0. /\ TypeOK /\ Functions /\ Scanning /\ Issued /\ SendJustified /\ FreshIds
      /\ \A x \in Subscribed : x.id \in unsent \/ Carried(x.id)
  BY DEF IInv, Delivery
<1>00. /\ subs \in Seq(Subscription) /\ wire \in Seq(Events)
       /\ nextId \in Nat /\ Len(wire) \in Nat /\ DOMAIN wire = 1 .. Len(wire)
       /\ \A x \in Subscribed : x.id \in SubIds
  <2>1. /\ subs \in Seq(Subscription) /\ wire \in Seq(Events)
        /\ nextId \in Nat /\ Len(wire) \in Nat /\ DOMAIN wire = 1 .. Len(wire)
    BY <1>0, PubSubAssumption DEF TypeOK
  <2>2. \A x \in Subscription : x.id \in SubIds
    BY DEF Subscription
  <2> QED
    BY <2>1, <2>2 DEF Subscribed
<1> DEFINE Good == \A x \in Subscribed' : x.id \in unsent' \/ Carried(x.id)'
<1>1. CASE UNCHANGED <<subs, wire, event, seen, noted, unsent>>
  BY <1>0, <1>1 DEF Subscribed, Carried, OnWire, Dispatched
<1>2. ASSUME NEW q \in Requests, Accept(q) PROVE Good
  <2>1. /\ UNCHANGED <<wire, event, seen, noted, unsent>>
        /\ subs' = Append(subs, [id |-> nextId, req |-> q])
        /\ nextId \in SubIds
    BY <1>0, <1>2, PubSubAssumption DEF Accept, TypeOK, SubIds
  <2> SUFFICES ASSUME NEW x \in Subscribed' PROVE x.id \in unsent' \/ Carried(x.id)'
    OBVIOUS
  <2>2. x \in Subscribed \/ x.id = nextId
    BY <1>00, <2>1 DEF Subscribed
  <2>3. CASE x \in Subscribed
    BY <1>0, <2>1, <2>3 DEF Carried, OnWire, Dispatched
  <2>4. CASE x.id = nextId
    <3>1. noted[nextId] = None /\ seen[nextId] = None
      BY <1>0, <1>00, <2>1 DEF Issued, FreshIds
    <3>2. ~OnWire(nextId) /\ ~Dispatched(nextId)
      BY <1>0, <1>00 DEF FreshIds, OnWire, Dispatched
    <3>3. Carried(nextId)
      BY <3>1, <3>2 DEF Carried, OnWire, Dispatched
    <3> QED
      BY <2>1, <2>4, <3>3 DEF Carried, OnWire, Dispatched
  <2> QED
    BY <2>2, <2>3, <2>4
<1>3. ASSUME NEW i \in SubIds, Remove(i) PROVE Good
  <2>1. PICK k \in DOMAIN subs : subs[k].id = i /\ subs' = Without(subs, k)
    BY <1>3 DEF Remove
  <2>2. \A j \in DOMAIN subs' : /\ j \in DOMAIN subs /\ j + 1 \in DOMAIN subs
                                /\ subs'[j] = subs[IF j < k THEN j ELSE j + 1]
    BY <1>00, <2>1, TakenOut
  <2>3. /\ UNCHANGED <<wire, event, seen>> /\ unsent' = unsent \ {i}
        /\ noted' = [noted EXCEPT ![i] = None]
    BY <1>3 DEF Remove
  <2> SUFFICES ASSUME NEW y \in Subscribed' PROVE y.id \in unsent' \/ Carried(y.id)'
    OBVIOUS
  <2>4. y \in Subscribed /\ y.id # i
    <3>1. PICK j \in DOMAIN subs' : y = subs'[j]
      BY DEF Subscribed
    <3>2. PICK l \in DOMAIN subs : l # k /\ y = subs[l]
      <4>1. (IF j < k THEN j ELSE j + 1) # k /\ (IF j < k THEN j ELSE j + 1) \in DOMAIN subs
        BY <1>00, <2>2
      <4> QED
        BY <2>2, <3>1, <4>1
    <3> QED
      BY <1>0, <2>1, <3>2 DEF Issued, Subscribed
  <2>5. noted'[y.id] = noted[y.id] /\ y.id \in SubIds
    BY <1>0, <1>00, <2>3, <2>4 DEF Functions
  <2>6. y.id \in unsent \/ Carried(y.id)
    BY <1>0, <2>4
  <2> QED
    BY <2>3, <2>4, <2>5, <2>6 DEF Carried, OnWire, Dispatched
<1>4. ASSUME NEW i \in SubIds, OnEvent(i) \/ RemoveHandler(i) \/ IntervalPasses(i) PROVE Good
  BY <1>1, <1>4 DEF OnEvent, RemoveHandler, IntervalPasses
<1>5. CASE ScanBegin \/ ScanRead \/ ScanSkip \/ ScanNotify \/ ScanSource
  BY <1>1, <1>5 DEF ScanBegin, ScanRead, ScanSkip, ScanNotify, ScanSource
<1>6. CASE ScanSend \/ ScanSendFails
  <2> DEFINE x == subs[sub]
             values == Slice(src, x.req, current)
             e == [id |-> x.id, values |-> values]
  <2>1. at = "send" /\ sub <= Len(subs) /\ Covers(src, x.req)
    BY <1>0, <1>6 DEF ScanSend, ScanSendFails, SendJustified, Notifies
  <2>2. sub \in DOMAIN subs /\ x.id \in SubIds /\ e \in Events
    BY <1>0, <2>1, UnderIterator DEF Events
  <2>3. e.id = x.id /\ e.values = values
    OBVIOUS
  <2>4. UNCHANGED <<subs, event, seen>> /\ noted' = [noted EXCEPT ![x.id] = values]
    BY <1>6 DEF ScanSend, ScanSendFails, Notified
  <2>5. /\ noted'[x.id] = values
        /\ \A i \in SubIds : i # x.id => noted'[i] = noted[i]
    BY <1>0, <2>2, <2>4 DEF Functions
  <2>6. CASE ScanSendFails
    <3>1. wire' = wire /\ unsent' = unsent \union {x.id}
      <4>1. /\ wire' = wire \o [f \in 1 .. 0 |-> e]
            /\ unsent' = unsent \union {x.id}
        BY <2>6 DEF ScanSendFails, Notified
      <4>2. [f \in 1 .. 0 |-> e] = << >>
        OBVIOUS
      <4> QED
        BY <1>00, <4>1, <4>2
    <3> HIDE DEF x, values, e
    <3> SUFFICES ASSUME NEW y \in Subscribed, y.id # x.id
                 PROVE  y.id \in unsent' \/ Carried(y.id)'
      BY <2>4, <3>1 DEF Subscribed
    <3>2. noted'[y.id] = noted[y.id]
      BY <1>00, <2>5
    <3>3. y.id \in unsent \/ Carried(y.id)
      BY <1>0
    <3> QED
      BY <2>4, <3>1, <3>2, <3>3 DEF Carried, OnWire, Dispatched
  <2>7. CASE ScanSend
    <3>1. /\ wire' = wire \o [f \in 1 .. 1 |-> e]
          /\ unsent' = unsent \ {x.id}
      BY <2>7 DEF ScanSend, Notified
    <3> HIDE DEF x, values, e
    <3>2. /\ DOMAIN wire' = 1 .. Len(wire) + 1
          /\ wire'[Len(wire) + 1] = e
          /\ \A k \in 1 .. Len(wire) : wire'[k] = wire[k]
      <4>1. [f \in 1 .. 1 |-> e] \in Seq(Events) /\ Len([f \in 1 .. 1 |-> e]) = 1
        BY <2>2
      <4> QED
        BY <1>00, <3>1, <4>1
    <3> SUFFICES ASSUME NEW y \in Subscribed, y.id \notin unsent'
                 PROVE  Carried(y.id)'
      BY <2>4 DEF Subscribed
    <3>3. CASE y.id = x.id
      <4>1. OnWire(y.id)'
        BY <1>00, <2>3, <3>2, <3>3 DEF OnWire
      <4>2. ASSUME NEW k \in DOMAIN wire', wire'[k].id = y.id,
                   \A j \in DOMAIN wire' : wire'[j].id = y.id => j <= k
            PROVE  wire'[k].values = noted'[y.id]
        <5>1. k = Len(wire) + 1
          BY <1>00, <2>3, <3>2, <3>3, <4>2
        <5> QED
          BY <2>3, <2>5, <3>2, <3>3, <5>1
      <4> QED
        BY <4>1, <4>2 DEF Carried
    <3>4. CASE y.id # x.id
      <4>1. y.id \notin unsent /\ noted'[y.id] = noted[y.id]
        BY <1>00, <2>5, <3>1, <3>4
      <4>2. Carried(y.id)
        BY <1>0, <4>1
      <4>3. \A k \in DOMAIN wire' : wire'[k].id = y.id =>
               k \in DOMAIN wire /\ wire'[k] = wire[k]
        BY <1>00, <2>3, <3>2, <3>4
      <4>4. \A k \in DOMAIN wire : k \in DOMAIN wire' /\ wire'[k] = wire[k]
        BY <1>00, <3>2
      <4>5. OnWire(y.id)' <=> OnWire(y.id)
        BY <4>3, <4>4 DEF OnWire
      <4>6. ASSUME NEW k \in DOMAIN wire', wire'[k].id = y.id,
                   \A j \in DOMAIN wire' : wire'[j].id = y.id => j <= k
            PROVE  wire'[k].values = noted'[y.id]
        <5>1. /\ k \in DOMAIN wire /\ wire[k].id = y.id /\ wire'[k] = wire[k]
              /\ \A j \in DOMAIN wire : wire[j].id = y.id => j <= k
          BY <4>3, <4>4, <4>6
        <5> QED
          BY <4>1, <4>2, <5>1 DEF Carried
      <4> QED
        BY <2>4, <4>1, <4>2, <4>5, <4>6 DEF Carried, Dispatched
    <3> QED
      BY <3>3, <3>4
  <2> QED
    BY <1>6, <2>6, <2>7
<1>7. ASSUME NEW t \in Pollers, PollReceive(t) PROVE Good
  <2>1. /\ UNCHANGED <<subs, seen, noted, unsent>>
        /\ event[t] = None /\ event' = [event EXCEPT ![t] = wire[1]]
        /\ wire # << >> /\ wire' = Tail(wire)
    BY <1>0, <1>00, <1>7 DEF PollReceive, TypeOK
  <2>2. /\ 1 \in DOMAIN wire /\ wire[1] # None
        /\ DOMAIN wire' = 1 .. Len(wire) - 1
        /\ \A k \in DOMAIN wire' : k + 1 \in DOMAIN wire /\ wire'[k] = wire[k + 1]
    <3>1. wire[1] \in Events
      BY <1>00, <2>1
    <3> QED
      BY <1>00, <2>1, <3>1, NoneIsNoEvent
  <2>3. \A u \in Pollers : event[u] = None /\ event'[u] = wire[1]
    BY <1>0, <2>1, OnePoller DEF Functions, OnePoller
  <2>4. \A k \in DOMAIN wire : k = 1 \/ (k - 1 \in DOMAIN wire' /\ wire'[k - 1] = wire[k])
    BY <1>00, <2>2
  <2> SUFFICES ASSUME NEW y \in Subscribed, y.id \notin unsent
               PROVE  Carried(y.id)'
    BY <2>1 DEF Subscribed
  <2>5. Carried(y.id)
    BY <1>0
  <2>6. ASSUME NEW k \in DOMAIN wire', wire'[k].id = y.id,
               \A j \in DOMAIN wire' : wire'[j].id = y.id => j <= k
        PROVE  wire'[k].values = noted'[y.id]
    <3>1. k + 1 \in DOMAIN wire /\ wire[k + 1].id = y.id /\ k \in Nat
      BY <1>00, <2>2, <2>6
    <3>2. ASSUME NEW j \in DOMAIN wire, wire[j].id = y.id PROVE j <= k + 1
      <4>1. CASE j = 1
        BY <3>1, <4>1
      <4>2. CASE j # 1
        <5>1. j - 1 \in DOMAIN wire' /\ wire'[j - 1].id = y.id /\ j \in Nat
          BY <1>00, <2>4, <3>2, <4>2
        <5> QED
          BY <2>6, <3>1, <5>1
      <4> QED
        BY <4>1, <4>2
    <3> QED
      BY <2>1, <2>2, <2>5, <3>1, <3>2 DEF Carried
  <2>7. ASSUME ~OnWire(y.id)', NEW u \in Pollers, event'[u].id = y.id
        PROVE  event'[u].values = noted'[y.id]
    <3>1. wire[1].id = y.id
      BY <2>3, <2>7
    <3>2. \A j \in DOMAIN wire : wire[j].id = y.id => j <= 1
      BY <1>00, <2>4, <2>7 DEF OnWire
    <3> QED
      BY <2>1, <2>2, <2>3, <2>5, <3>1, <3>2 DEF Carried
  <2>8. ASSUME ~OnWire(y.id)', ~Dispatched(y.id)'
        PROVE  seen'[y.id] \in {Missed, noted'[y.id]}
    <3>1. wire[1].id # y.id
      BY <1>7, <2>2, <2>3, <2>8 DEF Dispatched
    <3>2. ~OnWire(y.id)
      BY <2>4, <2>8, <3>1 DEF OnWire
    <3>3. ~Dispatched(y.id)
      BY <2>3 DEF Dispatched
    <3> QED
      BY <2>1, <2>5, <3>2, <3>3 DEF Carried
  <2> QED
    BY <2>6, <2>7, <2>8 DEF Carried
<1>8. ASSUME NEW t \in Pollers, PollNoHandler(t) \/ HandlerReturns(t) PROVE Good
  <2>1. /\ UNCHANGED <<subs, noted, unsent, wire>>
        /\ event' = [event EXCEPT ![t] = None]
        /\ \/ seen' = [seen EXCEPT ![event[t].id] = Missed]
           \/ seen' = [seen EXCEPT ![event[t].id] = event[t].values]
    BY <1>8 DEF PollNoHandler, HandlerReturns
  <2>2. event[t] \in Events /\ event[t] # None
    BY <1>0, <1>8, NoneIsNoEvent DEF PollNoHandler, HandlerReturns, TypeOK
  <2>3. \A u \in Pollers : u = t /\ event'[u] = None
    BY <1>0, <2>1, OnePoller DEF Functions, OnePoller
  <2> SUFFICES ASSUME NEW y \in Subscribed, y.id \notin unsent
               PROVE  Carried(y.id)'
    BY <2>1 DEF Subscribed
  <2>4. Carried(y.id) /\ y.id \in SubIds
    BY <1>0, <1>00
  <2>5. ASSUME ~OnWire(y.id) PROVE seen'[y.id] \in {Missed, noted[y.id]}
    <3>1. CASE event[t].id = y.id
      <4>1. event[t].values = noted[y.id]
        BY <1>8, <2>2, <2>4, <2>5, <3>1 DEF Carried
      <4>2. \/ seen'[y.id] = Missed
            \/ seen'[y.id] = event[t].values
        BY <1>0, <2>1, <2>4, <3>1 DEF Functions
      <4> QED
        BY <4>1, <4>2
    <3>2. CASE event[t].id # y.id
      <4>1. ~Dispatched(y.id)
        BY <2>3, <3>2 DEF Dispatched
      <4>2. seen'[y.id] = seen[y.id]
        BY <1>0, <2>1, <2>4, <3>2 DEF Functions
      <4> QED
        BY <2>4, <2>5, <4>1, <4>2 DEF Carried
    <3> QED
      BY <3>1, <3>2
  <2> QED
    BY <2>1, <2>3, <2>4, <2>5 DEF Carried, OnWire
<1>9. ASSUME NEW t \in Pollers, PollCall(t) PROVE Good
  BY <1>1, <1>9 DEF PollCall
<1>10. ASSUME NEW s \in DOMAIN Sources, NEW i \in 1 .. Sources[s].count,
              NEW v \in RegisterValues, Change(s, i, v)
       PROVE Good
  BY <1>1, <1>10 DEF Change
<1>11. CASE UNCHANGED vars
  BY <1>1, <1>11 DEF vars
<1> QED
  BY <1>2, <1>3, <1>4, <1>5, <1>6, <1>7, <1>8, <1>9, <1>10, <1>11
     DEF Next, ScanStep, PollStep

(* With one poller: a handler with nothing under way was last called with  *)
(* what its subscription was last notified of (FIFO frames, one dispatch   *)
(* at a time).                                                             *)
THEOREM HandlerCaughtUp ==
    ASSUME OnePoller
    PROVE  Spec => []CaughtUp
<1>1. Init => Delivery
  BY DEF Init, Delivery, FreshIds, Subscribed
<1>2. IInv /\ Delivery /\ [Next]_vars => Delivery'
  BY DeliveryStep
<1>3. Delivery => CaughtUp
  <2> SUFFICES ASSUME Delivery, NEW x \in Subscribed, ~UnderWay(x.id),
                      x.id \notin unsent, seen[x.id] # Missed
               PROVE  seen[x.id] = noted[x.id]
    BY DEF CaughtUp
  <2>1. ~OnWire(x.id) /\ ~Dispatched(x.id)
    BY DEF UnderWay, OnWire, Dispatched
  <2> QED
    BY <2>1 DEF Delivery, Carried
<1> QED
  BY Invariance, <1>1, <1>2, <1>3, PTL DEF Spec

=============================================================================
