--------------------------- MODULE PipelineProofs ---------------------------
(***************************************************************************)
(* Safety of the pipeline for any number of threads and requests.          *)
(*                                                                         *)
(* The inductive invariant says who has a request.  One that has not       *)
(* returned from submit is in nobody's hands but the submitter's; one in   *)
(* the queue is owed by no poller and has had no callback; one that a      *)
(* poller owes has left the queue, belongs to that poller alone and has    *)
(* had no callback.                                                        *)
(*                                                                         *)
(* From it follow the invariants, the action properties and, in the second *)
(* half, that the pipeline implements RequestLifecycle, and what it owes   *)
(* to being called by one thread.                                          *)
(***************************************************************************)
EXTENDS Pipeline, FiniteSetTheorems, TLAPS

(* What the local variables of a thread are at each point of its code.     *)
ThreadOK ==
    \A t \in Threads :
        /\ pc[t] = "idle" => cur[t] = NoReq
        /\ pc[t] \in {"send", "insert"} => cur[t] \in Requests /\ ret[cur[t]] = "none"
        /\ pc[t] \in {"recv", "wait", "deadline"} => cur[t] \in SyncRequests
        /\ pc[t] \notin {"send", "insert"} /\ cur[t] # NoReq =>
               cur[t] \in SyncRequests /\ ret[cur[t]] # "none"
        /\ pc[t] \in {"match", "callback"} => frame[t] \in Requests \union ForeignFrames
        /\ hold[t] # NoReq <=> pc[t] = "callback"
        /\ due[t] # {} <=> pc[t] = "expire"

(* A request is submitted by one thread, and not before it has an id.      *)
SubmittersOK ==
    /\ \A t \in Threads : cur[t] # NoReq => id[cur[t]] # NoId
    /\ \A t, u \in Threads : cur[t] = cur[u] => t = u \/ cur[t] = NoReq
    /\ \A r \in Requests : id[r] = NoId => ret[r] = "none"

(* Who has a request.                                                      *)
CustodyOK ==
    \A r \in Requests :
        /\ ret[r] = "none" =>
               r \notin pending /\ calls[r] = 0 /\ \A t \in Threads : ~Owes(t, r)
        /\ r \in pending => calls[r] = 0 /\ \A t \in Threads : ~Owes(t, r)
        /\ \A t \in Threads : Owes(t, r) => calls[r] = 0
        /\ \A t, u \in Threads : Owes(t, r) /\ Owes(u, r) => t = u
        /\ calls[r] \in {0, 1}

(* The queue is a map: no two of its entries have the same id.             *)
KeyedById == \A q, r \in pending : id[q] = id[r] => q = r

BoundOK == IsFiniteSet(pending) /\ CapacityBound

IInv == TypeOK /\ ThreadOK /\ SubmittersOK /\ CustodyOK /\ KeyedById /\ BoundOK

-----------------------------------------------------------------------------

(* The initial states of the pipeline satisfy the invariant.               *)
LEMMA InitIInv == Init => IInv
<1> SUFFICES ASSUME Init PROVE IInv
  OBVIOUS
<1>1. TypeOK
  BY PipelineAssumption DEF Init, TypeOK, Ids, NoId, FirstId, Labels, Returns, Timeout
<1>2. ThreadOK /\ SubmittersOK /\ CustodyOK /\ KeyedById
  BY PipelineAssumption DEF Init, ThreadOK, SubmittersOK, CustodyOK, KeyedById, Owes
<1>3. BoundOK
  BY PipelineAssumption, FS_EmptySet DEF Init, BoundOK, CapacityBound
<1> QED
  BY <1>1, <1>2, <1>3 DEF IInv

(* Every step of the pipeline keeps the types.                             *)
LEMMA TypeStep == IInv /\ [Next]_vars => TypeOK'
<1> SUFFICES ASSUME IInv, [Next]_vars PROVE TypeOK'
  OBVIOUS
<1> USE PipelineAssumption
<1> USE DEF IInv, TypeOK, queueVars, netVars, localVars, userVars, Goto, Labels, Returns
<1>1. CASE UNCHANGED vars
  BY <1>1 DEF vars
<1>2. ASSUME NEW t \in Threads, NEW r \in Requests, SubmitBegin(t, r) PROVE TypeOK'
  BY <1>2 DEF SubmitBegin, NextId, Ids, NoId
<1>3. ASSUME NEW t \in Threads, SubmitSend(t) PROVE TypeOK'
  BY <1>3 DEF SubmitSend, ThreadOK
<1>4. ASSUME NEW t \in Threads, cur[t] \in Requests, NEW result \in Returns,
             ret' = [ret EXCEPT ![cur[t]] = result]
      PROVE  ret' \in [Requests -> Returns]
  BY <1>4
<1>5. ASSUME NEW t \in Threads,
             \/ SubmitSendFails(t) \/ SubmitOverflow(t)
             \/ SubmitInsert(t) \/ SubmitSyncInsert(t)
      PROVE  TypeOK'
  <2> cur[t] \in Requests
    BY <1>5 DEF SubmitSendFails, SubmitOverflow, SubmitInsert, SubmitSyncInsert, ThreadOK
  <2>1. CASE SubmitSendFails(t)
    BY <1>4, <2>1 DEF SubmitSendFails, SubmitReturns
  <2>2. CASE SubmitOverflow(t)
    BY <1>4, <2>2 DEF SubmitOverflow, SubmitReturns
  <2>3. CASE SubmitInsert(t)
    BY <1>4, <2>3 DEF SubmitInsert, SubmitReturns, Emplace
  <2>4. CASE SubmitSyncInsert(t)
    BY <1>4, <2>4 DEF SubmitSyncInsert, Emplace
  <2> QED
    BY <1>5, <2>1, <2>2, <2>3, <2>4
<1>6. ASSUME NEW t \in Threads, PollReceive(t) PROVE TypeOK'
  BY <1>6 DEF PollReceive
<1>7. ASSUME NEW t \in Threads, PollEmpty(t) \/ PollUnmatched(t) PROVE TypeOK'
  <2>1. CASE PollEmpty(t)
    BY <2>1 DEF PollEmpty
  <2>2. CASE PollUnmatched(t)
    BY <2>2 DEF PollUnmatched, AfterPoll
  <2> QED
    BY <1>7, <2>1, <2>2
<1>8. ASSUME NEW t \in Threads, PollMatch(t) PROVE TypeOK'
  BY <1>8 DEF PollMatch, Find
<1>9. ASSUME NEW t \in Threads, PollCallback(t) PROVE TypeOK'
  BY <1>9 DEF PollCallback, RunCallback, ThreadOK, Timeout
<1>10. ASSUME NEW t \in Threads, PollSweep(t) PROVE TypeOK'
  BY <1>10 DEF PollSweep, Expired, AfterPoll
<1>11. ASSUME NEW t \in Threads, PollExpire(t) PROVE TypeOK'
  BY <1>11 DEF PollExpire, RunCallback, AfterPoll, Timeout
<1>12. ASSUME NEW t \in Threads, SyncDone(t) \/ SyncGivesUp(t) PROVE TypeOK'
  <2> cur[t] \in Requests
    BY <1>12 DEF SyncDone, SyncGivesUp, ThreadOK
  <2>1. CASE SyncDone(t)
    <3> DEFINE result == IF got[cur[t]] = Timeout THEN "timeout" ELSE "response"
    <3>1. result \in Returns
      OBVIOUS
    <3>2. ret' = [ret EXCEPT ![cur[t]] = result]
      BY <2>1 DEF SyncDone, SyncReturns
    <3>3. ret' \in [Requests -> Returns]
      BY <3>1, <3>2, <1>4
    <3> QED
      BY <2>1, <3>3 DEF SyncDone, SyncReturns
  <2>2. CASE SyncGivesUp(t)
    BY <1>4, <2>2 DEF SyncGivesUp, SyncReturns, Find
  <2> QED
    BY <1>12, <2>1, <2>2
<1>13. ASSUME NEW t \in Threads, SyncWaitEnds(t) \/ SyncPollAgain(t) PROVE TypeOK'
  <2>1. CASE SyncWaitEnds(t)
    BY <2>1 DEF SyncWaitEnds
  <2>2. CASE SyncPollAgain(t)
    BY <2>2 DEF SyncPollAgain
  <2> QED
    BY <1>13, <2>1, <2>2
<1>14. ASSUME NEW t \in Threads, NEW r \in Requests, Cancel(t, r) PROVE TypeOK'
  BY <1>14 DEF Cancel, Find
<1>15. ASSUME NEW r \in Requests, Age(r) PROVE TypeOK'
  <2>1. age[r] \in 0 .. 2 /\ age[r] < 2
    BY <1>15 DEF Age
  <2>2. age[r] + 1 \in 0 .. 2
    BY <2>1
  <2>3. age' \in [Requests -> 0 .. 2]
    BY <1>15, <2>2 DEF Age
  <2> QED
    BY <1>15, <2>3 DEF Age
<1>16. ASSUME NEW r \in Requests, PeerAnswers(r) PROVE TypeOK'
  BY <1>16 DEF PeerAnswers
<1>17. ASSUME NEW f \in ForeignFrames, ForeignFrame(f) PROVE TypeOK'
  BY <1>17 DEF ForeignFrame
<1> QED
  BY <1>1, <1>2, <1>3, <1>4, <1>5, <1>6, <1>7, <1>8, <1>9, <1>10, <1>11,
     <1>12, <1>13, <1>14, <1>15, <1>16, <1>17
  DEF Next, Continue, Environment

(* Every step keeps the local variables in line with the program counter.  *)
LEMMA ThreadStep == IInv /\ [Next]_vars => ThreadOK'
<1> SUFFICES ASSUME IInv, TypeOK', [Next]_vars PROVE ThreadOK'
  BY TypeStep
<1> USE PipelineAssumption
<1> USE DEF IInv, TypeOK, ThreadOK, queueVars, netVars, localVars, userVars, Goto
<1>1. ASSUME NEW t \in Threads, NEW r \in Requests, SubmitBegin(t, r) PROVE ThreadOK'
  BY <1>1 DEF SubmitBegin, SubmittersOK
<1>2. ASSUME NEW t \in Threads, SubmitSend(t) PROVE ThreadOK'
  BY <1>2 DEF SubmitSend
<1>3. ASSUME NEW t \in Threads, SubmitSendFails(t) PROVE ThreadOK'
  BY <1>3 DEF SubmitSendFails, SubmitReturns, SubmittersOK
<1>4. ASSUME NEW t \in Threads, SubmitOverflow(t) PROVE ThreadOK'
  BY <1>4 DEF SubmitOverflow, SubmitReturns, SubmittersOK
<1>5. ASSUME NEW t \in Threads, SubmitInsert(t) PROVE ThreadOK'
  BY <1>5 DEF SubmitInsert, SubmitReturns, SubmittersOK
<1>6. ASSUME NEW t \in Threads, SubmitSyncInsert(t) PROVE ThreadOK'
  BY <1>6 DEF SubmitSyncInsert, SubmittersOK
<1>7. ASSUME NEW t \in Threads, PollReceive(t) PROVE ThreadOK'
  BY <1>7 DEF PollReceive
<1>8. ASSUME NEW t \in Threads, PollEmpty(t) PROVE ThreadOK'
  BY <1>8 DEF PollEmpty
<1>9. ASSUME NEW t \in Threads, PollUnmatched(t) PROVE ThreadOK'
  BY <1>9 DEF PollUnmatched, AfterPoll
<1>10. ASSUME NEW t \in Threads, PollMatch(t) PROVE ThreadOK'
  BY <1>10 DEF PollMatch, Find
<1>11. ASSUME NEW t \in Threads, PollCallback(t) PROVE ThreadOK'
  BY <1>11 DEF PollCallback
<1>12. ASSUME NEW t \in Threads, PollSweep(t) PROVE ThreadOK'
  BY <1>12 DEF PollSweep, AfterPoll
<1>13. ASSUME NEW t \in Threads, PollExpire(t) PROVE ThreadOK'
  BY <1>13 DEF PollExpire, AfterPoll
<1>14. ASSUME NEW t \in Threads, SyncDone(t) PROVE ThreadOK'
  BY <1>14 DEF SyncDone, SyncReturns, SubmittersOK
<1>15. ASSUME NEW t \in Threads, SyncWaitEnds(t) PROVE ThreadOK'
  BY <1>15 DEF SyncWaitEnds
<1>16. ASSUME NEW t \in Threads, SyncPollAgain(t) PROVE ThreadOK'
  BY <1>16 DEF SyncPollAgain
<1>17. ASSUME NEW t \in Threads, SyncGivesUp(t) PROVE ThreadOK'
  BY <1>17 DEF SyncGivesUp, SyncReturns, SubmittersOK
<1>18. ASSUME NEW t \in Threads, NEW r \in Requests, Cancel(t, r) PROVE ThreadOK'
  BY <1>18 DEF Cancel
<1>19. CASE Environment \/ UNCHANGED vars
  BY <1>19 DEF Environment, Age, PeerAnswers, ForeignFrame, vars
<1> QED
  BY <1>1, <1>2, <1>3, <1>4, <1>5, <1>6, <1>7, <1>8, <1>9,
     <1>10, <1>11, <1>12, <1>13, <1>14, <1>15, <1>16, <1>17, <1>18, <1>19
  DEF Next, Continue

(* Every step keeps requests and submitters in correspondence.             *)
LEMMA SubmittersStep == IInv /\ [Next]_vars => SubmittersOK'
<1> SUFFICES ASSUME IInv, TypeOK', [Next]_vars PROVE SubmittersOK'
  BY TypeStep
<1> USE PipelineAssumption
<1> USE DEF IInv, TypeOK, SubmittersOK, queueVars, netVars, localVars, userVars
<1>1. ASSUME NEW t \in Threads, NEW r \in Requests, SubmitBegin(t, r)
      PROVE  SubmittersOK'
  <2>1. counter # NoId /\ cur[t] = NoReq
    BY <1>1 DEF SubmitBegin, ThreadOK, Ids, NoId
  <2>2. \A u \in Threads : cur[u] # r
    BY <1>1 DEF SubmitBegin
  <2> QED
    BY <1>1, <2>1, <2>2 DEF SubmitBegin
<1>2. ASSUME NEW t \in Threads, NEW result \in Returns, cur[t] # NoReq,
             id' = id, ret' = [ret EXCEPT ![cur[t]] = result],
             cur' = cur \/ cur' = [cur EXCEPT ![t] = NoReq]
      PROVE  SubmittersOK'
  <2>1. \A u \in Threads : cur'[u] \in {cur[u], NoReq}
    BY <1>2
  <2>2. \A u \in Threads : cur'[u] # NoReq => id'[cur'[u]] # NoId
    BY <1>2, <2>1
  <2>3. \A u, v \in Threads : cur'[u] = cur'[v] => u = v \/ cur'[u] = NoReq
    BY <2>1
  <2>4. \A r \in Requests : id'[r] = NoId => ret'[r] = "none"
    <3>1. \A r \in Requests \ {cur[t]} : ret'[r] = ret[r]
      BY <1>2
    <3>2. id'[cur[t]] # NoId
      BY <1>2
    <3> QED
      BY <1>2, <3>1, <3>2
  <2> QED
    BY <2>2, <2>3, <2>4
<1>3. ASSUME NEW t \in Threads,
             \/ SubmitSendFails(t) \/ SubmitOverflow(t)
             \/ SubmitInsert(t) \/ SubmitSyncInsert(t)
             \/ SyncDone(t) \/ SyncGivesUp(t)
      PROVE  SubmittersOK'
  <2>1. cur[t] \in Requests
    BY <1>3 DEF SubmitSendFails, SubmitOverflow, SubmitInsert, SubmitSyncInsert,
                SyncDone, SyncGivesUp, ThreadOK
  <2>2. \E result \in Returns : ret' = [ret EXCEPT ![cur[t]] = result]
    BY <1>3 DEF SubmitSendFails, SubmitOverflow, SubmitInsert, SubmitSyncInsert,
                SubmitReturns, SyncDone, SyncGivesUp, SyncReturns, Returns
  <2>3. id' = id /\ (cur' = cur \/ cur' = [cur EXCEPT ![t] = NoReq])
    BY <1>3 DEF SubmitSendFails, SubmitOverflow, SubmitInsert, SubmitSyncInsert,
                SubmitReturns, SyncDone, SyncGivesUp, SyncReturns
  <2> QED
    BY <1>2, <2>1, <2>2, <2>3
<1>4. ASSUME NEW t \in Threads, NEW r \in Requests, Cancel(t, r)
      PROVE  SubmittersOK'
  BY <1>4 DEF Cancel
<1>5. CASE UNCHANGED <<id, cur, ret>>
  BY <1>5
<1>6. ASSUME NEW t \in Threads,
             \/ SubmitSend(t) \/ PollReceive(t) \/ PollEmpty(t) \/ PollUnmatched(t)
             \/ PollMatch(t) \/ PollCallback(t) \/ PollSweep(t) \/ PollExpire(t)
             \/ SyncWaitEnds(t) \/ SyncPollAgain(t)
      PROVE  UNCHANGED <<id, cur, ret>>
  BY <1>6 DEF SubmitSend, PollReceive, PollEmpty, PollUnmatched, PollMatch,
              PollCallback, PollSweep, PollExpire, SyncWaitEnds, SyncPollAgain
<1>7. CASE Environment \/ UNCHANGED vars
  BY <1>7 DEF Environment, Age, PeerAnswers, ForeignFrame, vars
<1> QED
  BY <1>1, <1>3, <1>4, <1>5, <1>6, <1>7 DEF Next, Continue

(* Every step keeps a request in at most one pair of hands.                *)
LEMMA CustodyStep == IInv /\ [Next]_vars => CustodyOK'
<1> SUFFICES ASSUME IInv, TypeOK', [Next]_vars PROVE CustodyOK'
  BY TypeStep
<1> USE PipelineAssumption
<1> USE DEF IInv, TypeOK, CustodyOK, Owes, queueVars, netVars, localVars, userVars
<1>1. ASSUME NEW t \in Threads,
             \/ SubmitSendFails(t) \/ SubmitOverflow(t)
             \/ SyncDone(t) \/ SyncGivesUp(t)
             \/ \E r \in Requests : Cancel(t, r)
      PROVE  CustodyOK'
  <2>1. \A r \in Requests : ret'[r] = "none" => ret[r] = "none"
    BY <1>1 DEF SubmitSendFails, SubmitOverflow, SubmitReturns,
                SyncDone, SyncGivesUp, SyncReturns, Cancel
  <2>2. pending' \subseteq pending /\ UNCHANGED <<hold, due, calls>>
    BY <1>1 DEF SubmitSendFails, SubmitOverflow, SubmitReturns,
                SyncDone, SyncGivesUp, SyncReturns, Cancel
  <2> QED
    BY <2>1, <2>2
<1>2. ASSUME NEW t \in Threads, SubmitInsert(t) \/ SubmitSyncInsert(t)
      PROVE  CustodyOK'
  <2>1. cur[t] \in Requests /\ ret[cur[t]] = "none"
    BY <1>2 DEF SubmitInsert, SubmitSyncInsert, ThreadOK
  <2>2. /\ ret' = [ret EXCEPT ![cur[t]] = "accepted"]
        /\ pending' \subseteq pending \union {cur[t]}
        /\ UNCHANGED <<hold, due, calls>>
    BY <1>2 DEF SubmitInsert, SubmitSyncInsert, SubmitReturns, Emplace
  <2> QED
    BY <2>1, <2>2
<1>3. ASSUME NEW t \in Threads, PollMatch(t) PROVE CustodyOK'
  BY <1>3 DEF PollMatch, Find, ThreadOK
<1>4. ASSUME NEW t \in Threads, PollSweep(t) PROVE CustodyOK'
  BY <1>4 DEF PollSweep, Expired, ThreadOK
<1>5. ASSUME NEW t \in Threads, PollCallback(t) PROVE CustodyOK'
  <2> PICK q \in Requests : hold[t] = q
    BY <1>5 DEF PollCallback, ThreadOK
  <2>1. calls[q] = 0 /\ due[t] = {}
    BY <1>5 DEF PollCallback, ThreadOK
  <2>2. /\ calls' = [calls EXCEPT ![q] = 1]
        /\ hold' = [hold EXCEPT ![t] = NoReq]
        /\ UNCHANGED <<pending, due, ret>>
    BY <1>5, <2>1 DEF PollCallback, RunCallback
  <2>3. \A u \in Threads : ~Owes(u, q)'
    BY <2>1, <2>2
  <2> QED
    BY <2>1, <2>2, <2>3
<1>6. ASSUME NEW t \in Threads, PollExpire(t) PROVE CustodyOK'
  <2> PICK q \in due[t] : /\ RunCallback(q, Timeout)
                          /\ due' = [due EXCEPT ![t] = @ \ {q}]
    BY <1>6 DEF PollExpire
  <2>1. q \in Requests /\ calls[q] = 0 /\ hold[t] = NoReq
    BY <1>6 DEF PollExpire, ThreadOK
  <2>2. calls' = [calls EXCEPT ![q] = 1] /\ UNCHANGED <<pending, hold, ret>>
    BY <1>6, <2>1 DEF PollExpire, RunCallback
  <2>3. \A u \in Threads : ~Owes(u, q)'
    BY <2>1, <2>2
  <2> QED
    BY <2>1, <2>2, <2>3
<1>7. CASE UNCHANGED <<pending, hold, due, ret, calls>>
  BY <1>7
<1>8. ASSUME NEW t \in Threads,
             \/ SubmitSend(t) \/ PollReceive(t) \/ PollEmpty(t) \/ PollUnmatched(t)
             \/ SyncWaitEnds(t) \/ SyncPollAgain(t)
             \/ \E r \in Requests : SubmitBegin(t, r)
      PROVE  UNCHANGED <<pending, hold, due, ret, calls>>
  BY <1>8 DEF SubmitSend, PollReceive, PollEmpty, PollUnmatched,
              SyncWaitEnds, SyncPollAgain, SubmitBegin
<1>9. CASE Environment \/ UNCHANGED vars
  BY <1>9 DEF Environment, Age, PeerAnswers, ForeignFrame, vars
<1> QED
  BY <1>1, <1>2, <1>3, <1>4, <1>5, <1>6, <1>7, <1>8, <1>9 DEF Next, Continue

(* Every step keeps the queue a map from ids to requests.                  *)
LEMMA KeyStep == IInv /\ [Next]_vars => KeyedById'
<1> SUFFICES ASSUME IInv, [Next]_vars PROVE KeyedById'
  OBVIOUS
<1> USE DEF IInv, TypeOK, KeyedById, queueVars, netVars, localVars, userVars
<1>1. ASSUME NEW t \in Threads, NEW r \in Requests, SubmitBegin(t, r)
      PROVE  KeyedById'
  BY <1>1 DEF SubmitBegin, SubmittersOK, CustodyOK
<1>2. ASSUME NEW t \in Threads, SubmitInsert(t) \/ SubmitSyncInsert(t)
      PROVE  KeyedById'
  BY <1>2 DEF SubmitInsert, SubmitSyncInsert, Emplace, Find
<1>3. CASE id' = id /\ pending' \subseteq pending
  BY <1>3
<1>4. ASSUME NEW t \in Threads,
             \/ SubmitSend(t) \/ SubmitSendFails(t) \/ SubmitOverflow(t)
             \/ PollReceive(t) \/ PollEmpty(t) \/ PollUnmatched(t)
             \/ PollMatch(t) \/ PollCallback(t) \/ PollSweep(t) \/ PollExpire(t)
             \/ SyncDone(t) \/ SyncWaitEnds(t) \/ SyncPollAgain(t) \/ SyncGivesUp(t)
             \/ \E r \in Requests : Cancel(t, r)
      PROVE  id' = id /\ pending' \subseteq pending
  BY <1>4 DEF SubmitSend, SubmitSendFails, SubmitOverflow, PollReceive, PollEmpty,
              PollUnmatched, PollMatch, PollCallback, PollSweep, PollExpire,
              SyncDone, SyncWaitEnds, SyncPollAgain, SyncGivesUp, Cancel
<1>5. CASE Environment \/ UNCHANGED vars
  BY <1>5 DEF Environment, Age, PeerAnswers, ForeignFrame, vars
<1> QED
  BY <1>1, <1>2, <1>3, <1>4, <1>5 DEF Next, Continue

(* Every step keeps the queue finite and within max_in_flight: only an     *)
(* insert adds an entry, and it checks the size in the same critical       *)
(* section.                                                                *)
LEMMA BoundStep == IInv /\ [Next]_vars => BoundOK'
<1> SUFFICES ASSUME IInv, [Next]_vars PROVE BoundOK'
  OBVIOUS
<1> USE PipelineAssumption
<1> USE DEF IInv, BoundOK, CapacityBound, queueVars, netVars, localVars, userVars
<1>1. ASSUME NEW t \in Threads, SubmitInsert(t) \/ SubmitSyncInsert(t)
      PROVE  BoundOK'
  <2>1. ~AtCapacity /\ pending' \in {pending, pending \union {cur[t]}}
    BY <1>1 DEF SubmitInsert, SubmitSyncInsert, Emplace
  <2> DEFINE more == pending \union {cur[t]}
  <2>2. /\ IsFiniteSet(more)
        /\ Cardinality(more) = Cardinality(pending)
           \/ Cardinality(more) = Cardinality(pending) + 1
    BY FS_AddElement
  <2>3. Cardinality(pending) \in Nat
    BY FS_CardinalityType
  <2>4. CASE pending' = pending
    BY <2>4
  <2>5. CASE pending' = more
    BY <2>1, <2>2, <2>3, <2>5 DEF AtCapacity
  <2> QED
    BY <2>1, <2>4, <2>5
<1>2. CASE pending' \subseteq pending
  BY <1>2, FS_Subset, FS_CardinalityType
<1>3. ASSUME NEW t \in Threads,
             \/ SubmitSend(t) \/ SubmitSendFails(t) \/ SubmitOverflow(t)
             \/ PollReceive(t) \/ PollEmpty(t) \/ PollUnmatched(t)
             \/ PollMatch(t) \/ PollCallback(t) \/ PollSweep(t) \/ PollExpire(t)
             \/ SyncDone(t) \/ SyncWaitEnds(t) \/ SyncPollAgain(t) \/ SyncGivesUp(t)
             \/ \E r \in Requests : SubmitBegin(t, r) \/ Cancel(t, r)
      PROVE  pending' \subseteq pending
  BY <1>3 DEF SubmitSend, SubmitSendFails, SubmitOverflow, PollReceive, PollEmpty,
              PollUnmatched, PollMatch, PollCallback, PollSweep, PollExpire,
              SyncDone, SyncWaitEnds, SyncPollAgain, SyncGivesUp, SubmitBegin, Cancel
<1>4. CASE Environment \/ UNCHANGED vars
  BY <1>2, <1>4 DEF Environment, Age, PeerAnswers, ForeignFrame, vars
<1> QED
  BY <1>1, <1>2, <1>3, <1>4 DEF Next, Continue

(* The inductive invariant holds in every reachable state.                 *)
THEOREM Invariance == Spec => []IInv
<1>1. IInv /\ [Next]_vars => IInv'
  BY TypeStep, ThreadStep, SubmittersStep, CustodyStep, KeyStep, BoundStep DEF IInv
<1> QED
  BY InitIInv, <1>1, PTL DEF Spec

(* The pipeline keeps its types, for any number of threads and requests.   *)
THEOREM TypeCorrect == Spec => []TypeOK
<1>1. IInv => TypeOK
  BY DEF IInv
<1> QED
  BY Invariance, <1>1, PTL

(* No callback runs twice.                                                 *)
THEOREM OneCallback == Spec => []AtMostOneCallback
<1>1. IInv => AtMostOneCallback
  BY DEF IInv, CustodyOK, AtMostOneCallback
<1> QED
  BY Invariance, <1>1, PTL

(* The queue never holds more than max_in_flight requests, although submit *)
(* sends before it inserts and any number of threads may be in between.    *)
THEOREM Capacity == Spec => []CapacityBound
<1>1. IInv => CapacityBound
  BY DEF IInv, BoundOK
<1> QED
  BY Invariance, <1>1, PTL

-----------------------------------------------------------------------------
(***************************************************************************)
(* Before the id generator wraps around, ids are unique and never 0, so a  *)
(* response can only be matched with its own request.                      *)
(***************************************************************************)

NoWrap == IsFiniteSet(Requests) /\ Cardinality(Requests) < IdModulus

Issued == {r \in Requests : id[r] # NoId}

(* Ids are handed out in order, starting at 1.                             *)
IdsOK ==
    /\ Cardinality(Issued) < Cardinality(Requests) =>
           counter = Cardinality(Issued) + 1
    /\ \A r \in Issued : id[r] \in 1 .. Cardinality(Issued)
    /\ \A q, r \in Issued : id[q] = id[r] => q = r

(* A matched request is the one the frame answers.                         *)
MatchOK ==
    /\ \A t \in Threads : hold[t] # NoReq => frame[t] = hold[t]
    /\ OwnResponse

(* A refused or cancelled request is in nobody's hands.                    *)
RefusalOK ==
    \A r \in Requests :
        ret[r] \in {"overflow", "senderror", "cancelled"} =>
            calls[r] = 0 /\ r \notin pending /\ \A t \in Threads : ~Owes(t, r)

LEMMA SmallMod == ASSUME NEW x \in Nat, NEW m \in Nat, x < m PROVE x % m = x
  OBVIOUS

(* Every step hands out the next unused id, or none.                       *)
LEMMA IdsStep ==
    ASSUME NoWrap PROVE IInv /\ IdsOK /\ [Next]_vars => IdsOK'
<1> SUFFICES ASSUME IInv, IdsOK, [Next]_vars PROVE IdsOK'
  OBVIOUS
<1> USE PipelineAssumption DEF NoWrap, IInv, TypeOK
<1>1. CASE UNCHANGED <<id, counter>>
  BY <1>1 DEF IdsOK, Issued
<1>2. ASSUME NEW t \in Threads, NEW r \in Requests, SubmitBegin(t, r) PROVE IdsOK'
  <2> DEFINE n == Cardinality(Issued)
             N == Cardinality(Requests)
  <2>1. id[r] = NoId /\ id' = [id EXCEPT ![r] = counter] /\ counter' = (counter + 1) % IdModulus
    BY <1>2 DEF SubmitBegin, NextId
  <2>2. IsFiniteSet(Issued) /\ n \in Nat /\ N \in Nat
    BY FS_Subset, FS_CardinalityType DEF Issued
  <2>3. n < N
    <3>1. Issued \subseteq Requests /\ r \notin Issued
      BY <2>1 DEF Issued
    <3>2. Cardinality(Issued \union {r}) = n + 1
      BY <2>2, <3>1, FS_AddElement
    <3>3. Cardinality(Issued \union {r}) <= N
      BY <3>1, FS_Subset
    <3> QED
      BY <2>2, <3>2, <3>3
  <2>4. counter = n + 1
    BY <2>3 DEF IdsOK
  <2>5. counter # NoId
    BY DEF Ids, NoId
  <2>6. Issued' = Issued \union {r}
    BY <2>1, <2>5 DEF Issued
  <2>7. Cardinality(Issued') = n + 1
    <3>1. r \notin Issued
      BY <2>1 DEF Issued
    <3> QED
      BY <2>2, <2>6, <3>1, FS_AddElement
  <2>8. n + 1 < N => counter' = n + 2
    BY <2>1, <2>2, <2>4, SmallMod
  <2>9. \A q \in Issued : id'[q] = id[q] /\ id[q] \in 1 .. n
    BY <2>1 DEF IdsOK, Issued
  <2>10. id'[r] = n + 1
    BY <2>1, <2>4
  <2>11. \A p, q \in Issued' : id'[p] = id'[q] => p = q
    <3>1. \A p, q \in Issued : id[p] = id[q] => p = q
      BY DEF IdsOK
    <3> HIDE DEF n, IInv, TypeOK
    <3>2. \A q \in Issued : id'[q] # id'[r]
      BY <2>2, <2>9, <2>10
    <3>3. \A p, q \in Issued : id'[p] = id'[q] => p = q
      BY <2>9, <3>1
    <3> HIDE DEF NoWrap, PipelineAssumption
    <3> QED
      BY <2>6, <3>2, <3>3
  <2>12. \A q \in Issued' : id'[q] \in 1 .. Cardinality(Issued')
    <3> HIDE DEF n, IInv, TypeOK, PipelineAssumption
    <3>1. \A q \in Issued : id'[q] \in 1 .. n + 1
      BY <2>2, <2>9
    <3>2. id'[r] \in 1 .. n + 1
      BY <2>2, <2>10
    <3> QED
      BY <2>6, <2>7, <3>1, <3>2
  <2> QED
    BY <2>2, <2>7, <2>8, <2>11, <2>12 DEF IdsOK
<1>3. ASSUME NEW t \in Threads, Continue(t) \/ PollReceive(t)
      PROVE  UNCHANGED <<id, counter>>
  BY <1>3 DEF Continue, SubmitSend, SubmitSendFails, SubmitOverflow, SubmitInsert,
              SubmitSyncInsert, SubmitReturns, PollReceive, PollEmpty, PollUnmatched,
              PollMatch, PollCallback, PollSweep, PollExpire, SyncDone, SyncWaitEnds,
              SyncPollAgain, SyncGivesUp, SyncReturns, queueVars
<1>4. ASSUME NEW t \in Threads, NEW r \in Requests, Cancel(t, r)
      PROVE  UNCHANGED <<id, counter>>
  BY <1>4 DEF Cancel
<1>5. CASE Environment \/ UNCHANGED vars
  BY <1>1, <1>5 DEF Environment, Age, PeerAnswers, ForeignFrame, vars, queueVars
<1> QED
  BY <1>1, <1>2, <1>3, <1>4, <1>5 DEF Next

(* Every step matches a response with its own request only.                *)
LEMMA MatchStep ==
    ASSUME NoWrap PROVE IInv /\ IdsOK /\ MatchOK /\ [Next]_vars => MatchOK'
<1> SUFFICES ASSUME IInv, IdsOK, MatchOK, [Next]_vars PROVE MatchOK'
  OBVIOUS
<1> USE PipelineAssumption
<1> USE DEF IInv, TypeOK, MatchOK, OwnResponse, queueVars, netVars, localVars, userVars
<1>1. ASSUME NEW t \in Threads, PollMatch(t) PROVE MatchOK'
  <2> PICK q \in Find(FrameId(frame[t])) : hold' = [hold EXCEPT ![t] = q]
    BY <1>1 DEF PollMatch
  <2>1. q \in Issued
    <3>1. q \in pending /\ q \in Requests
      BY DEF Find
    <3>2. ret[q] # "none"
      BY <3>1 DEF CustodyOK
    <3> QED
      BY <3>1, <3>2 DEF SubmittersOK, Issued
  <2>2. id[q] # 0
    BY <2>1 DEF IdsOK
  <2>3. frame[t] = q
    BY <2>1, <2>2 DEF Find, FrameId, IdsOK, Issued
  <2> QED
    BY <1>1, <2>3 DEF PollMatch
<1>2. ASSUME NEW t \in Threads, PollCallback(t) PROVE MatchOK'
  <2>1. hold[t] \in Requests /\ frame[t] = hold[t]
    BY <1>2 DEF PollCallback, ThreadOK
  <2>2. \A u \in Threads : hold'[u] # NoReq => hold'[u] = hold[u] /\ frame'[u] = frame[u]
    BY <1>2 DEF PollCallback
  <2>3. /\ got'[hold[t]] = hold[t]
        /\ \A r \in Requests \ {hold[t]} : calls'[r] = calls[r] /\ got'[r] = got[r]
    BY <1>2, <2>1 DEF PollCallback, RunCallback
  <2>4. OwnResponse'
    BY <2>1, <2>3
  <2> QED
    BY <2>2, <2>4
<1>3. ASSUME NEW t \in Threads, PollExpire(t) PROVE MatchOK'
  BY <1>3 DEF PollExpire, RunCallback
<1>4. ASSUME NEW t \in Threads, PollReceive(t) \/ PollUnmatched(t) PROVE MatchOK'
  BY <1>4 DEF PollReceive, PollUnmatched, ThreadOK
<1>5. CASE UNCHANGED <<frame, hold, calls, got>>
  BY <1>5
<1>6. ASSUME NEW t \in Threads,
             \/ SubmitSend(t) \/ SubmitSendFails(t) \/ SubmitOverflow(t)
             \/ SubmitInsert(t) \/ SubmitSyncInsert(t) \/ PollEmpty(t) \/ PollSweep(t)
             \/ SyncDone(t) \/ SyncWaitEnds(t) \/ SyncPollAgain(t) \/ SyncGivesUp(t)
             \/ \E r \in Requests : SubmitBegin(t, r) \/ Cancel(t, r)
      PROVE  UNCHANGED <<frame, hold, calls, got>>
  BY <1>6 DEF SubmitSend, SubmitSendFails, SubmitOverflow, SubmitInsert,
              SubmitSyncInsert, SubmitReturns, PollEmpty, PollSweep, SyncDone,
              SyncWaitEnds, SyncPollAgain, SyncGivesUp, SyncReturns, SubmitBegin, Cancel
<1>7. CASE Environment \/ UNCHANGED vars
  BY <1>7 DEF Environment, Age, PeerAnswers, ForeignFrame, vars
<1> QED
  BY <1>1, <1>2, <1>3, <1>4, <1>5, <1>6, <1>7 DEF Next, Continue

(* Every step leaves a refused or cancelled request to nobody.             *)
LEMMA RefusalStep ==
    ASSUME NoWrap PROVE IInv /\ IdsOK /\ RefusalOK /\ [Next]_vars => RefusalOK'
<1> SUFFICES ASSUME IInv, IdsOK, RefusalOK, TypeOK', CustodyOK', [Next]_vars
             PROVE  RefusalOK'
  BY TypeStep, CustodyStep
<1> USE PipelineAssumption
<1> USE DEF IInv, TypeOK, RefusalOK, Owes, queueVars, netVars, localVars, userVars
<1>1. ASSUME NEW t \in Threads, SubmitSendFails(t) \/ SubmitOverflow(t)
      PROVE  RefusalOK'
  <2>1. cur[t] \in Requests /\ ret[cur[t]] = "none"
    BY <1>1 DEF SubmitSendFails, SubmitOverflow, ThreadOK
  <2>2. \A r \in Requests : r # cur[t] => ret'[r] = ret[r]
    BY <1>1 DEF SubmitSendFails, SubmitOverflow, SubmitReturns
  <2>3. UNCHANGED <<pending, hold, due, calls>>
    BY <1>1 DEF SubmitSendFails, SubmitOverflow, SubmitReturns
  <2> QED
    BY <2>1, <2>2, <2>3 DEF CustodyOK
<1>2. ASSUME NEW t \in Threads, SubmitInsert(t) \/ SubmitSyncInsert(t)
      PROVE  RefusalOK'
  <2>1. cur[t] \in Requests
    BY <1>2 DEF SubmitInsert, SubmitSyncInsert, ThreadOK
  <2>2. /\ ret' = [ret EXCEPT ![cur[t]] = "accepted"]
        /\ pending' \subseteq pending \union {cur[t]}
        /\ UNCHANGED <<hold, due, calls>>
    BY <1>2 DEF SubmitInsert, SubmitSyncInsert, SubmitReturns, Emplace
  <2> QED
    BY <2>1, <2>2
<1>3. ASSUME NEW t \in Threads, NEW r \in Requests, Cancel(t, r) PROVE RefusalOK'
  <2> PICK q \in Find(id[r]) : TRUE
    BY <1>3 DEF Cancel
  <2>1. q = r
    BY <1>3 DEF Cancel, Find, CustodyOK, SubmittersOK, IdsOK, Issued
  <2>2. r \in pending /\ r \notin pending'
    BY <1>3, <2>1 DEF Cancel, Find
  <2>3. \A p \in Requests : p # r => ret'[p] = ret[p]
    BY <1>3 DEF Cancel
  <2>4. pending' \subseteq pending /\ UNCHANGED <<hold, due, calls>>
    BY <1>3 DEF Cancel
  <2> QED
    BY <2>2, <2>3, <2>4 DEF CustodyOK
<1>4. ASSUME NEW t \in Threads, SyncDone(t) \/ SyncGivesUp(t) PROVE RefusalOK'
  <2>1. \A r \in Requests :
            ret'[r] \in {"overflow", "senderror", "cancelled"} => ret'[r] = ret[r]
    BY <1>4 DEF SyncDone, SyncGivesUp, SyncReturns
  <2>2. pending' \subseteq pending /\ UNCHANGED <<hold, due, calls>>
    BY <1>4 DEF SyncDone, SyncGivesUp
  <2> QED
    BY <2>1, <2>2
<1>5. ASSUME NEW t \in Threads, PollMatch(t) PROVE RefusalOK'
  BY <1>5 DEF PollMatch, Find
<1>6. ASSUME NEW t \in Threads, PollSweep(t) PROVE RefusalOK'
  BY <1>6 DEF PollSweep, Expired
<1>7. ASSUME NEW t \in Threads, PollCallback(t) PROVE RefusalOK'
  BY <1>7 DEF PollCallback, RunCallback
<1>8. ASSUME NEW t \in Threads, PollExpire(t) PROVE RefusalOK'
  BY <1>8 DEF PollExpire, RunCallback
<1>9. CASE UNCHANGED <<pending, hold, due, ret, calls>>
  BY <1>9
<1>10. ASSUME NEW t \in Threads,
             \/ SubmitSend(t) \/ PollReceive(t) \/ PollEmpty(t) \/ PollUnmatched(t)
             \/ SyncWaitEnds(t) \/ SyncPollAgain(t)
             \/ \E r \in Requests : SubmitBegin(t, r)
      PROVE  UNCHANGED <<pending, hold, due, ret, calls>>
  BY <1>10 DEF SubmitSend, PollReceive, PollEmpty, PollUnmatched,
              SyncWaitEnds, SyncPollAgain, SubmitBegin
<1>11. CASE Environment \/ UNCHANGED vars
  BY <1>11 DEF Environment, Age, PeerAnswers, ForeignFrame, vars
<1> QED
  BY <1>1, <1>2, <1>3, <1>4, <1>5, <1>6, <1>7, <1>8, <1>9, <1>10, <1>11
  DEF Next, Continue

(* Every step keeps an accepted request somewhere, until it is settled.    *)
LEMMA ForgottenStep ==
    ASSUME NoWrap
    PROVE  IInv /\ IdsOK /\ NothingForgotten /\ [Next]_vars => NothingForgotten'
<1> SUFFICES ASSUME IInv, IdsOK, NothingForgotten, TypeOK', [Next]_vars
             PROVE  NothingForgotten'
  BY TypeStep
<1> USE PipelineAssumption
<1> USE DEF IInv, TypeOK, NothingForgotten, Owes, queueVars, netVars, localVars, userVars
<1>1. ASSUME NEW t \in Threads, SubmitSendFails(t) \/ SubmitOverflow(t)
      PROVE  NothingForgotten'
  <2>1. \A r \in Requests : ret'[r] = "accepted" => ret[r] = "accepted"
    BY <1>1 DEF SubmitSendFails, SubmitOverflow, SubmitReturns, ThreadOK
  <2>2. UNCHANGED <<pending, hold, due, calls>>
    BY <1>1 DEF SubmitSendFails, SubmitOverflow, SubmitReturns
  <2> QED
    BY <2>1, <2>2
<1>2. ASSUME NEW t \in Threads, SubmitInsert(t) \/ SubmitSyncInsert(t)
      PROVE  NothingForgotten'
  <2>1. cur[t] \in Requests /\ ret[cur[t]] = "none" /\ id[cur[t]] # NoId
    BY <1>2 DEF SubmitInsert, SubmitSyncInsert, ThreadOK, SubmittersOK
  <2>2. cur[t] \notin pending
    BY <2>1 DEF CustodyOK
  <2>3. Find(id[cur[t]]) = {}
    BY <2>1, <2>2 DEF Find, IdsOK, Issued
  <2>4. /\ ret' = [ret EXCEPT ![cur[t]] = "accepted"]
        /\ pending' = pending \union {cur[t]}
        /\ UNCHANGED <<hold, due, calls>>
    BY <1>2, <2>3 DEF SubmitInsert, SubmitSyncInsert, SubmitReturns, Emplace
  <2> QED
    BY <2>1, <2>4
<1>3. ASSUME NEW t \in Threads, SyncDone(t) PROVE NothingForgotten'
  <2>1. \A r \in Requests : ret'[r] = "accepted" => ret[r] = "accepted"
    BY <1>3 DEF SyncDone, SyncReturns
  <2> QED
    BY <1>3, <2>1 DEF SyncDone
<1>4. ASSUME NEW r \in Requests, NEW result \in Returns \ {"accepted"}, id[r] # NoId,
             ret' = [ret EXCEPT ![r] = result], pending' = pending \ Find(id[r]),
             UNCHANGED <<hold, due, calls>>
      PROVE  NothingForgotten'
  <2>1. \A q \in Find(id[r]) : q = r
    BY <1>4 DEF Find, IdsOK, Issued
  <2> QED
    BY <1>4, <2>1
<1>5. ASSUME NEW t \in Threads, SyncGivesUp(t) PROVE NothingForgotten'
  <2>1. cur[t] \in Requests /\ id[cur[t]] # NoId
    BY <1>5 DEF SyncGivesUp, ThreadOK, SubmittersOK
  <2> QED
    BY <1>4, <1>5, <2>1 DEF SyncGivesUp, SyncReturns, Returns
<1>6. ASSUME NEW t \in Threads, NEW r \in Requests, Cancel(t, r)
      PROVE  NothingForgotten'
  BY <1>4, <1>6 DEF Cancel, SubmittersOK, Returns
<1>7. ASSUME ret' = ret,
             \A r \in pending : r \in pending' \/ \E u \in Threads : Owes(u, r)',
             \A r \in Requests, u \in Threads : Owes(u, r) => Owes(u, r)' \/ calls'[r] = 1,
             \A r \in Requests : calls[r] = 1 => calls'[r] = 1
      PROVE  NothingForgotten'
  BY <1>7
<1>8. ASSUME NEW t \in Threads, PollMatch(t) PROVE NothingForgotten'
  <2> PICK q \in pending : /\ pending' = pending \ {q}
                           /\ hold' = [hold EXCEPT ![t] = q]
    BY <1>8 DEF PollMatch, Find
  <2>1. hold[t] = NoReq
    BY <1>8 DEF PollMatch, ThreadOK
  <2>2. UNCHANGED <<due, ret, calls>>
    BY <1>8 DEF PollMatch
  <2>3. Owes(t, q)'
    OBVIOUS
  <2>4. \A r \in Requests, u \in Threads : Owes(u, r) => Owes(u, r)'
    BY <2>1, <2>2
  <2> QED
    BY <1>7, <2>2, <2>3, <2>4
<1>9. ASSUME NEW t \in Threads, PollSweep(t) PROVE NothingForgotten'
  <2>1. due[t] = {} /\ UNCHANGED <<hold, ret, calls>>
    BY <1>9 DEF PollSweep, ThreadOK
  <2>2. \A r \in pending : r \in pending' \/ Owes(t, r)'
    BY <1>9 DEF PollSweep
  <2>3. \A r \in Requests, u \in Threads : Owes(u, r) => Owes(u, r)'
    BY <1>9, <2>1 DEF PollSweep
  <2> QED
    BY <1>7, <2>1, <2>2, <2>3
<1>10. ASSUME NEW t \in Threads, PollCallback(t) \/ PollExpire(t)
       PROVE  NothingForgotten'
  <2>1. PICK q \in Requests : /\ Owes(t, q)
                              /\ calls' = [calls EXCEPT ![q] = @ + 1]
                              /\ \A r \in Requests, u \in Threads :
                                     Owes(u, r) => Owes(u, r)' \/ r = q
    <3>1. CASE PollCallback(t)
      <4>1. PICK q \in Requests : hold[t] = q
        BY <3>1 DEF PollCallback, ThreadOK
      <4> QED
        BY <3>1, <4>1 DEF PollCallback, RunCallback
    <3>2. CASE PollExpire(t)
      <4>1. PICK q \in due[t] : /\ RunCallback(q, Timeout)
                                /\ due' = [due EXCEPT ![t] = @ \ {q}]
        BY <3>2 DEF PollExpire
      <4>2. q \in Requests /\ hold' = hold
        BY <3>2, <4>1 DEF PollExpire
      <4>3. \A r \in Requests, u \in Threads : Owes(u, r) => Owes(u, r)' \/ r = q
        BY <4>1, <4>2
      <4>4. Owes(t, q) /\ calls' = [calls EXCEPT ![q] = @ + 1]
        BY <4>1 DEF RunCallback
      <4> QED
        BY <4>2, <4>3, <4>4
    <3> QED
      BY <1>10, <3>1, <3>2
  <2>2. calls[q] = 0
    BY <2>1 DEF CustodyOK
  <2>3. calls'[q] = 1 /\ \A r \in Requests : calls[r] = 1 => calls'[r] = 1
    BY <2>1, <2>2
  <2>4. pending' = pending /\ ret' = ret
    BY <1>10 DEF PollCallback, PollExpire
  <2> QED
    BY <1>7, <2>1, <2>3, <2>4
<1>11. CASE UNCHANGED <<pending, hold, due, ret, calls>>
  BY <1>11
<1>12. ASSUME NEW t \in Threads,
             \/ SubmitSend(t) \/ PollReceive(t) \/ PollEmpty(t) \/ PollUnmatched(t)
             \/ SyncWaitEnds(t) \/ SyncPollAgain(t)
             \/ \E r \in Requests : SubmitBegin(t, r)
      PROVE  UNCHANGED <<pending, hold, due, ret, calls>>
  BY <1>12 DEF SubmitSend, PollReceive, PollEmpty, PollUnmatched,
              SyncWaitEnds, SyncPollAgain, SubmitBegin
<1>13. CASE Environment \/ UNCHANGED vars
  BY <1>13 DEF Environment, Age, PeerAnswers, ForeignFrame, vars
<1> QED
  BY <1>1, <1>2, <1>3, <1>5, <1>6, <1>8, <1>9, <1>10, <1>11, <1>12, <1>13
  DEF Next, Continue

NoWrapInv == IInv /\ IdsOK /\ MatchOK /\ RefusalOK /\ NothingForgotten

(* Before the ids wrap around, the matching invariant holds too.           *)
THEOREM NoWrapInvariance == ASSUME NoWrap PROVE Spec => []NoWrapInv
<1>1. Init => NoWrapInv
  <2> SUFFICES ASSUME Init PROVE NoWrapInv
    OBVIOUS
  <2>1. Issued = {} /\ counter = 1
    BY DEF Init, Issued, FirstId
  <2>2. IdsOK
    BY <2>1, FS_EmptySet DEF IdsOK
  <2>3. MatchOK /\ RefusalOK /\ NothingForgotten
    BY PipelineAssumption DEF Init, MatchOK, OwnResponse, RefusalOK, NothingForgotten
  <2> QED
    BY <2>2, <2>3, InitIInv DEF NoWrapInv
<1>2. NoWrapInv /\ [Next]_vars => NoWrapInv'
  BY NoWrap, TypeStep, ThreadStep, SubmittersStep, CustodyStep, KeyStep, BoundStep,
     IdsStep, MatchStep, RefusalStep, ForgottenStep
  DEF NoWrapInv, IInv
<1> QED
  BY <1>1, <1>2, PTL DEF Spec

(* A callback gets the response to its own request or TimeoutExpired, as   *)
(* long as fewer requests are submitted than there are ids.                *)
THEOREM ResponsesMatched == ASSUME NoWrap PROVE Spec => []OwnResponse
<1>1. NoWrapInv => OwnResponse
  BY DEF NoWrapInv, MatchOK
<1> QED
  BY NoWrap, NoWrapInvariance, <1>1, PTL

(* The callback of a refused or cancelled request never runs, under the    *)
(* same condition.                                                         *)
THEOREM RefusalsFinal == ASSUME NoWrap PROVE Spec => []NoCallbackOnRefusal
<1>1. NoWrapInv => NoCallbackOnRefusal
  BY DEF NoWrapInv, RefusalOK, NoCallbackOnRefusal
<1> QED
  BY NoWrap, NoWrapInvariance, <1>1, PTL

(* No accepted request is dropped silently, under the same condition.      *)
THEOREM AcceptedAccounted == ASSUME NoWrap PROVE Spec => []NothingForgotten
<1>1. NoWrapInv => NothingForgotten
  BY DEF NoWrapInv
<1> QED
  BY NoWrap, NoWrapInvariance, <1>1, PTL

-----------------------------------------------------------------------------
(* Refinement: seen through StageOf, every step of the threads moves one   *)
(* request by one step of its life, sweeps out any number of open ones, or *)
(* changes nothing.                                                        *)

(* A synchronous call that waits was accepted, and its flag is set by its  *)
(* callback.                                                               *)
WaitOK ==
    /\ \A t \in Threads : cur[t] # NoReq /\ pc[t] \notin {"send", "insert"} =>
                              ret[cur[t]] = "accepted"
    /\ \A r \in done : calls[r] = 1

StageInv == NoWrapInv /\ WaitOK

Stage == [r \in Requests |-> StageOf(r)]

LEMMA WaitStep == IInv /\ WaitOK /\ [Next]_vars => WaitOK'
<1> SUFFICES ASSUME IInv, WaitOK, [Next]_vars PROVE WaitOK'
  OBVIOUS
<1> USE PipelineAssumption
<1> USE DEF IInv, TypeOK, WaitOK, queueVars, netVars, localVars, userVars, Goto
<1>1. ASSUME NEW t \in Threads, NEW r \in Requests, SubmitBegin(t, r) PROVE WaitOK'
  BY <1>1 DEF SubmitBegin
<1>2. ASSUME NEW t \in Threads, NEW r \in Requests, Cancel(t, r) PROVE WaitOK'
  BY <1>2 DEF Cancel, ThreadOK
<1>3. ASSUME NEW t \in Threads, SubmitSend(t) PROVE WaitOK'
  BY <1>3 DEF SubmitSend
<1>4. ASSUME NEW t \in Threads,
             SubmitSendFails(t) \/ SubmitOverflow(t) \/ SubmitInsert(t)
      PROVE  WaitOK'
  <2>1. /\ cur' = [cur EXCEPT ![t] = NoReq] /\ pc' = [pc EXCEPT ![t] = "idle"]
        /\ \E result : ret' = [ret EXCEPT ![cur[t]] = result]
        /\ UNCHANGED <<done, calls>> /\ cur[t] \in Requests
    BY <1>4 DEF SubmitSendFails, SubmitOverflow, SubmitInsert, SubmitReturns, ThreadOK
  <2>2. \A u \in Threads : u # t /\ cur[u] # NoReq => cur[u] # cur[t]
    BY DEF SubmittersOK
  <2> QED
    BY <2>1, <2>2
<1>5. ASSUME NEW t \in Threads, SubmitSyncInsert(t) PROVE WaitOK'
  BY <1>5 DEF SubmitSyncInsert, ThreadOK, SubmittersOK
<1>6. ASSUME NEW t \in Threads,
             \/ PollReceive(t) \/ PollEmpty(t) \/ PollUnmatched(t) \/ PollMatch(t)
             \/ PollSweep(t) \/ SyncWaitEnds(t) \/ SyncPollAgain(t)
      PROVE  WaitOK'
  <2>1. /\ UNCHANGED <<cur, ret, done, calls>>
        /\ pc[t] \notin {"send", "insert"}
        /\ \A u \in Threads : pc'[u] \in {"send", "insert"} <=> pc[u] \in {"send", "insert"}
    BY <1>6 DEF PollReceive, PollEmpty, PollUnmatched, PollMatch, PollSweep,
                SyncWaitEnds, SyncPollAgain, AfterPoll
  <2> QED
    BY <2>1
<1>7. ASSUME NEW t \in Threads, PollCallback(t) \/ PollExpire(t) PROVE WaitOK'
  <2>1. PICK q \in Requests :
           /\ calls[q] = 0 /\ calls' = [calls EXCEPT ![q] = @ + 1]
           /\ done' \subseteq done \union {q}
    <3>1. CASE PollCallback(t)
      <4>1. PICK q \in Requests : hold[t] = q
        BY <3>1 DEF PollCallback, ThreadOK
      <4> QED
        BY <3>1, <4>1 DEF PollCallback, RunCallback, CustodyOK, Owes
    <3>2. CASE PollExpire(t)
      BY <3>2 DEF PollExpire, RunCallback, CustodyOK, Owes
    <3> QED
      BY <1>7, <3>1, <3>2
  <2>2. /\ UNCHANGED <<cur, ret>> /\ pc[t] \notin {"send", "insert"}
        /\ \A u \in Threads : pc'[u] \in {"send", "insert"} <=> pc[u] \in {"send", "insert"}
    BY <1>7 DEF PollCallback, PollExpire, AfterPoll
  <2> QED
    BY <2>1, <2>2
<1>8. ASSUME NEW t \in Threads, SyncDone(t) \/ SyncGivesUp(t) PROVE WaitOK'
  BY <1>8 DEF SyncDone, SyncGivesUp, SyncReturns, SubmittersOK
<1>9. CASE Environment \/ UNCHANGED vars
  BY <1>9 DEF Environment, Age, PeerAnswers, ForeignFrame, vars
<1> QED
  BY <1>1, <1>2, <1>3, <1>4, <1>5, <1>6, <1>7, <1>8, <1>9 DEF Next, Continue

-----------------------------------------------------------------------------
(* The stage of a request                                                  *)

(* Nobody has the request, its callback has not run.                       *)
Free(r) ==
    r \notin pending /\ calls[r] = 0 /\ \A t \in Threads : ~Owes(t, r)

(* What the stage of a request says about it.                              *)
Staged ==
    \A r \in Requests :
        /\ r \in pending <=> StageOf(r) = "open"
        /\ \A t \in Threads : hold[t] = r => StageOf(r) = "matched"
        /\ \A t \in Threads : r \in due[t] => StageOf(r) = "expired"
        /\ calls[r] = 1 => StageOf(r) = (IF got[r] = r THEN "answered" ELSE "timedout")
        /\ Free(r) /\ ret[r] = "none" => StageOf(r) = "new"
        /\ Free(r) /\ ret[r] \in {"overflow", "senderror"} => StageOf(r) = "refused"
        /\ Free(r) /\ ret[r] \in {"cancelled", "timeout"} => StageOf(r) = "dropped"

LEMMA StageIs == StageInv => Staged
<1> SUFFICES ASSUME StageInv PROVE Staged
  OBVIOUS
<1> SUFFICES ASSUME NEW r \in Requests
             PROVE  /\ r \in pending <=> StageOf(r) = "open"
                    /\ \A t \in Threads : hold[t] = r => StageOf(r) = "matched"
                    /\ \A t \in Threads : r \in due[t] => StageOf(r) = "expired"
                    /\ calls[r] = 1 =>
                          StageOf(r) = (IF got[r] = r THEN "answered" ELSE "timedout")
                    /\ Free(r) /\ ret[r] = "none" => StageOf(r) = "new"
                    /\ Free(r) /\ ret[r] \in {"overflow", "senderror"} =>
                          StageOf(r) = "refused"
                    /\ Free(r) /\ ret[r] \in {"cancelled", "timeout"} =>
                          StageOf(r) = "dropped"
  BY DEF Staged
<1>1. /\ r \in pending => calls[r] = 0 /\ \A t \in Threads : ~Owes(t, r)
      /\ \A t \in Threads : Owes(t, r) => calls[r] = 0
      /\ \A t, u \in Threads : Owes(t, r) /\ Owes(u, r) => t = u
  BY DEF StageInv, NoWrapInv, IInv, CustodyOK
<1>2. \A t \in Threads : ~(hold[t] = r /\ r \in due[t])
  BY PipelineAssumption DEF StageInv, NoWrapInv, IInv, ThreadOK
<1>3. calls[r] = 1 => got[r] \in {r, Timeout} /\ r # Timeout
  BY PipelineAssumption DEF StageInv, NoWrapInv, MatchOK, OwnResponse, Timeout
<1>4. r \in pending <=> StageOf(r) = "open"
  BY DEF StageOf
<1>5. \A t \in Threads : hold[t] = r => StageOf(r) = "matched"
  BY <1>1 DEF StageOf, Owes
<1>6. \A t \in Threads : r \in due[t] => StageOf(r) = "expired"
  BY <1>1, <1>2 DEF StageOf, Owes
<1>7. calls[r] = 1 => StageOf(r) = (IF got[r] = r THEN "answered" ELSE "timedout")
  <2> SUFFICES ASSUME calls[r] = 1
               PROVE  StageOf(r) = (IF got[r] = r THEN "answered" ELSE "timedout")
    OBVIOUS
  <2>1. r \notin pending /\ \A t \in Threads : hold[t] # r /\ r \notin due[t]
    BY <1>1 DEF Owes
  <2> QED
    BY <1>3, <2>1 DEF StageOf
<1>8. Free(r) => /\ r \notin pending /\ calls[r] = 0
                 /\ \A t \in Threads : hold[t] # r /\ r \notin due[t]
  BY DEF Free, Owes
<1>9. Free(r) /\ ret[r] = "none" => StageOf(r) = "new"
  BY <1>8 DEF StageOf
<1>10. Free(r) /\ ret[r] \in {"overflow", "senderror"} => StageOf(r) = "refused"
  BY <1>8 DEF StageOf
<1>11. Free(r) /\ ret[r] \in {"cancelled", "timeout"} => StageOf(r) = "dropped"
  BY <1>8 DEF StageOf
<1> QED
  BY <1>4, <1>5, <1>6, <1>7, <1>9, <1>10, <1>11

(* The same of the next state.                                             *)
LEMMA StageIsNext == StageInv' => Staged'
  BY StageIs, PTL

(* A request of which nothing the stage depends on has changed.            *)
LEMMA SameStage ==
    ASSUME NEW r \in Requests,
           r \in pending' <=> r \in pending,
           \A t \in Threads : hold'[t] = r <=> hold[t] = r,
           \A t \in Threads : r \in due'[t] <=> r \in due[t],
           calls'[r] = calls[r], got'[r] = got[r], ret'[r] = ret[r]
    PROVE  StageOf(r)' = StageOf(r)
  BY DEF StageOf

-----------------------------------------------------------------------------
(* The steps of the pipeline and those of the lifecycle                    *)

LStep == Lifecycle!Next \/ UNCHANGED Stage

(* One request moves, the others stay.                                     *)
LEMMA OneMoves ==
    ASSUME NEW q \in Requests, NEW to,
           StageOf(q)' = to,
           \A r \in Requests \ {q} : StageOf(r)' = StageOf(r)
    PROVE  Stage' = [Stage EXCEPT ![q] = to]
  BY DEF Stage

LEMMA NoneMoves ==
    ASSUME \A r \in Requests : StageOf(r)' = StageOf(r)
    PROVE  LStep
<1>1. Stage' = Stage
  BY DEF Stage
<1> QED
  BY <1>1 DEF LStep

LEMMA RefineStep ==
    ASSUME NoWrap
    PROVE  StageInv /\ StageInv' /\ [Next]_vars => LStep
<1> SUFFICES ASSUME StageInv, StageInv', [Next]_vars PROVE LStep
  OBVIOUS
<1>0. /\ Staged /\ Staged' /\ IInv /\ IdsOK /\ MatchOK /\ NothingForgotten /\ WaitOK
      /\ IInv' /\ RefusalOK /\ RefusalOK'
  BY StageIs, StageIsNext DEF StageInv, NoWrapInv
<1> USE PipelineAssumption
<1> USE DEF TypeOK, queueVars, netVars, localVars, userVars
<1>1. ASSUME UNCHANGED <<pending, hold, due, ret, calls, got>> PROVE LStep
  BY <1>1, SameStage, NoneMoves
<1>2. ASSUME NEW t \in Threads, SubmitSendFails(t) \/ SubmitOverflow(t) PROVE LStep
  <2>0. PICK q : q = cur[t]
    OBVIOUS
  <2>1. /\ q \in Requests /\ ret[q] = "none"
        /\ \E result \in {"senderror", "overflow"} : ret' = [ret EXCEPT ![q] = result]
        /\ UNCHANGED <<pending, hold, due, calls, got>>
    BY <1>0, <1>2, <2>0 DEF SubmitSendFails, SubmitOverflow, SubmitReturns, ThreadOK, IInv
  <2>2. ret'[q] \in {"senderror", "overflow"} /\ \A r \in Requests \ {q} : ret'[r] = ret[r]
    BY <1>0, <2>1 DEF IInv
  <2>3. Free(q) /\ Free(q)'
    BY <1>0, <2>1, <2>2 DEF IInv, CustodyOK, RefusalOK, Free
  <2>4. StageOf(q) = "new" /\ StageOf(q)' = "refused"
    BY <1>0, <2>1, <2>2, <2>3 DEF Staged
  <2>5. \A r \in Requests \ {q} : StageOf(r)' = StageOf(r)
    BY <2>1, <2>2, SameStage
  <2>6. Stage' = [Stage EXCEPT ![q] = "refused"] /\ Stage[q] = "new"
    BY <2>1, <2>4, <2>5, OneMoves DEF Stage
  <2> QED
    BY <2>1, <2>6 DEF LStep, Stage, Lifecycle!Next, Lifecycle!Refuse, Lifecycle!Move
<1>3. ASSUME NEW t \in Threads, SubmitInsert(t) \/ SubmitSyncInsert(t) PROVE LStep
  <2>0. PICK q : q = cur[t]
    OBVIOUS
  <2>1. /\ q \in Requests /\ ret[q] = "none" /\ id[q] # NoId
        /\ ret' = [ret EXCEPT ![q] = "accepted"] /\ pending' = Emplace(q)
        /\ ~AtCapacity /\ UNCHANGED <<hold, due, calls, got>>
    BY <1>0, <1>3, <2>0 DEF SubmitInsert, SubmitSyncInsert, SubmitReturns, ThreadOK,
                      SubmittersOK, IInv
  <2>2. Free(q)
    BY <1>0, <2>1 DEF IInv, CustodyOK, Free
  <2>3. pending' = pending \union {q}
    BY <1>0, <2>1, <2>2 DEF Emplace, Find, IdsOK, Issued, IInv, Free
  <2>4. StageOf(q) = "new" /\ StageOf(q)' = "open"
    BY <1>0, <2>1, <2>2, <2>3 DEF Staged
  <2>5. \A r \in Requests \ {q} : StageOf(r)' = StageOf(r)
    <3>1. \A r \in Requests \ {q} : ret'[r] = ret[r] /\ (r \in pending' <=> r \in pending)
      BY <1>0, <2>1, <2>3 DEF IInv
    <3> QED
      BY <2>1, <3>1, SameStage
  <2>6. Stage' = [Stage EXCEPT ![q] = "open"] /\ Stage[q] = "new"
    BY <2>1, <2>4, <2>5, OneMoves DEF Stage
  <2>7. Lifecycle!InStage("open") = pending
    BY <1>0 DEF Staged, Lifecycle!InStage, IInv
  <2>8. MaxInFlight = 0 \/ Cardinality(pending) < MaxInFlight
    BY <1>0, <2>1, FS_CardinalityType DEF AtCapacity, IInv, BoundOK
  <2>9. MaxInFlight = 0 \/ Lifecycle!Cardinality(Lifecycle!InStage("open")) < MaxInFlight
    BY <2>7, <2>8 DEF Cardinality, Lifecycle!Cardinality
  <2>10. Lifecycle!Move(q, "new", "open")
    BY <2>6 DEF Stage, Lifecycle!Move
  <2>11. Lifecycle!Accept(q)
    BY <2>9, <2>10 DEF Lifecycle!Accept
  <2> QED
    BY <2>1, <2>11 DEF LStep, Lifecycle!Next
<1>4. ASSUME NEW t \in Threads, PollMatch(t) PROVE LStep
  <2>1. PICK q \in Find(FrameId(frame[t])) :
           pending' = pending \ {q} /\ hold' = [hold EXCEPT ![t] = q]
    BY <1>4 DEF PollMatch
  <2>2. /\ q \in pending /\ q \in Requests /\ UNCHANGED <<due, ret, calls, got>>
        /\ hold[t] = NoReq
    BY <1>0, <1>4, <2>1 DEF PollMatch, Find, IInv, ThreadOK
  <2>3. StageOf(q) = "open" /\ StageOf(q)' = "matched"
    <3>1. hold'[t] = q
      BY <1>0, <2>1 DEF IInv
    <3> QED
      BY <1>0, <2>2, <3>1 DEF Staged
  <2>4. \A r \in Requests \ {q} : StageOf(r)' = StageOf(r)
    <3>1. \A r \in Requests \ {q} : /\ r \in pending' <=> r \in pending
                                    /\ \A u \in Threads : hold'[u] = r <=> hold[u] = r
      BY <1>0, <2>1, <2>2 DEF IInv
    <3> QED
      BY <2>2, <3>1, SameStage
  <2>5. Stage' = [Stage EXCEPT ![q] = "matched"] /\ Stage[q] = "open"
    BY <2>2, <2>3, <2>4, OneMoves DEF Stage
  <2> QED
    BY <2>2, <2>5 DEF LStep, Stage, Lifecycle!Next, Lifecycle!Match, Lifecycle!Move
<1>5. ASSUME NEW t \in Threads, PollCallback(t) PROVE LStep
  <2>0. PICK q : q = hold[t]
    OBVIOUS
  <2>1. q \in Requests /\ frame[t] = q /\ calls[q] = 0
    BY <1>0, <1>5, <2>0 DEF PollCallback, IInv, ThreadOK, MatchOK, CustodyOK, Owes
  <2>2. /\ calls' = [calls EXCEPT ![q] = @ + 1] /\ got' = [got EXCEPT ![q] = q]
        /\ hold' = [hold EXCEPT ![t] = NoReq] /\ UNCHANGED <<pending, due, ret>>
    BY <1>5, <2>0, <2>1 DEF PollCallback, RunCallback
  <2>3. StageOf(q) = "matched"
    BY <1>0, <2>0, <2>1 DEF Staged
  <2>4. \A u \in Threads : hold[u] = q => u = t
    BY <1>0, <2>0, <2>1 DEF IInv, CustodyOK, Owes
  <2>6. calls'[q] = 1 /\ got'[q] = q
    BY <1>0, <2>1, <2>2 DEF IInv
  <2>7. StageOf(q)' = "answered"
    BY <1>0, <2>1, <2>6 DEF Staged
  <2>8. \A r \in Requests \ {q} : StageOf(r)' = StageOf(r)
    <3>1. \A r \in Requests \ {q} : /\ calls'[r] = calls[r] /\ got'[r] = got[r]
                                    /\ \A u \in Threads : hold'[u] = r <=> hold[u] = r
      BY <1>0, <2>0, <2>1, <2>2, <2>4 DEF IInv
    <3> QED
      BY <2>2, <3>1, SameStage
  <2>9. Stage' = [Stage EXCEPT ![q] = "answered"] /\ Stage[q] = "matched"
    BY <2>1, <2>3, <2>7, <2>8, OneMoves DEF Stage
  <2> QED
    BY <2>1, <2>9 DEF LStep, Stage, Lifecycle!Next, Lifecycle!Answer, Lifecycle!Move
<1>6. ASSUME NEW t \in Threads, PollSweep(t) PROVE LStep
  <2>1. /\ pending' = pending \ Expired /\ due' = [due EXCEPT ![t] = Expired]
        /\ Expired \subseteq pending /\ pending \subseteq Requests
        /\ due[t] = {} /\ UNCHANGED <<hold, ret, calls, got>>
    BY <1>0, <1>6 DEF PollSweep, Expired, IInv, ThreadOK
  <2>2. ASSUME NEW r \in Requests
        PROVE  StageOf(r)' = IF r \in Expired THEN "expired" ELSE StageOf(r)
    <3>1. due'[t] = Expired
      BY <1>0, <2>1 DEF IInv
    <3>2. CASE r \in Expired
      BY <1>0, <3>1, <3>2 DEF Staged
    <3>3. CASE r \notin Expired
      <4>1. /\ r \in pending' <=> r \in pending
            /\ \A u \in Threads : r \in due'[u] <=> r \in due[u]
        BY <1>0, <2>1, <3>3 DEF IInv
      <4> QED
        BY <2>1, <3>3, <4>1, SameStage
    <3> QED
      BY <3>2, <3>3
  <2>3. Stage' = [r \in Requests |-> IF r \in Expired THEN "expired" ELSE Stage[r]]
    BY <2>2 DEF Stage
  <2>4. Expired \subseteq {r \in Requests : Stage[r] = "open"}
    BY <1>0, <2>1 DEF Staged, Stage
  <2>5. Expired \in SUBSET Requests
    BY <2>1
  <2> QED
    BY <2>3, <2>4, <2>5 DEF LStep, Stage, Lifecycle!Next, Lifecycle!Expire, Lifecycle!InStage
<1>7. ASSUME NEW t \in Threads, PollExpire(t) PROVE LStep
  <2>1. PICK q \in due[t] : RunCallback(q, Timeout) /\ due' = [due EXCEPT ![t] = @ \ {q}]
    BY <1>7 DEF PollExpire
  <2>7. q \in Requests /\ q # Timeout /\ calls[q] = 0
    BY <1>0, <2>1 DEF IInv, CustodyOK, Owes, Timeout
  <2>2. /\ q \in Requests /\ calls[q] = 0 /\ q # Timeout
        /\ UNCHANGED <<pending, hold, ret>>
        /\ calls' = [calls EXCEPT ![q] = @ + 1] /\ got' = [got EXCEPT ![q] = Timeout]
    BY <1>7, <2>1, <2>7 DEF PollExpire, RunCallback
  <2>3. StageOf(q) = "expired"
    BY <1>0, <2>1, <2>2 DEF Staged
  <2>4. StageOf(q)' = "timedout"
    <3>1. calls'[q] = 1 /\ got'[q] = Timeout
      BY <1>0, <2>2 DEF IInv
    <3> QED
      BY <1>0, <2>2, <3>1 DEF Staged
  <2>5. \A r \in Requests \ {q} : StageOf(r)' = StageOf(r)
    <3>1. \A r \in Requests \ {q} : /\ calls'[r] = calls[r] /\ got'[r] = got[r]
                                    /\ \A u \in Threads : r \in due'[u] <=> r \in due[u]
      BY <1>0, <2>1, <2>2 DEF IInv
    <3> QED
      BY <2>2, <3>1, SameStage
  <2>6. Stage' = [Stage EXCEPT ![q] = "timedout"] /\ Stage[q] = "expired"
    BY <2>2, <2>3, <2>4, <2>5, OneMoves DEF Stage
  <2> QED
    BY <2>2, <2>6 DEF LStep, Stage, Lifecycle!Next, Lifecycle!TimeOut, Lifecycle!Move
<1>8. ASSUME NEW q \in Requests, NEW result \in {"cancelled", "timeout"},
             ret[q] = "accepted", id[q] # NoId,
             ret' = [ret EXCEPT ![q] = result], pending' = pending \ Find(id[q]),
             UNCHANGED <<hold, due, calls, got>>
      PROVE  LStep
  <2>1. \A p \in Find(id[q]) : p = q
    BY <1>0, <1>8 DEF Find, IInv, IdsOK, Issued
  <2>2. pending' = pending \ {q}
    BY <1>8, <2>1 DEF Find
  <2>3. \A r \in Requests \ {q} : StageOf(r)' = StageOf(r)
    <3>1. \A r \in Requests \ {q} : ret'[r] = ret[r] /\ (r \in pending' <=> r \in pending)
      BY <1>0, <1>8, <2>2 DEF IInv
    <3> QED
      BY <1>8, <3>1, SameStage
  <2>4. CASE q \in pending
    <3>1. ret'[q] \in {"cancelled", "timeout"} /\ Free(q)'
      BY <1>0, <1>8, <2>2, <2>4 DEF IInv, CustodyOK, Free, Owes
    <3>2. StageOf(q) = "open" /\ StageOf(q)' = "dropped"
      BY <1>0, <2>4, <3>1 DEF Staged
    <3>3. Stage' = [Stage EXCEPT ![q] = "dropped"] /\ Stage[q] = "open"
      BY <2>3, <3>2, OneMoves DEF Stage
    <3> QED
      BY <3>3 DEF LStep, Stage, Lifecycle!Next, Lifecycle!Drop, Lifecycle!Move
  <2>5. CASE q \notin pending
    <3>1. calls[q] = 1 \/ \E t \in Threads : Owes(t, q)
      BY <1>0, <1>8, <2>5 DEF NothingForgotten
    <3>2. StageOf(q)' = StageOf(q)
      <4>1. CASE calls[q] = 1
        BY <1>0, <1>8, <4>1 DEF Staged
      <4>2. CASE \E t \in Threads : Owes(t, q)
        BY <1>0, <1>8, <4>2 DEF Staged, Owes
      <4> QED
        BY <3>1, <4>1, <4>2
    <3> QED
      BY <2>3, <3>2, NoneMoves
  <2> QED
    BY <2>4, <2>5
<1>9. ASSUME NEW t \in Threads, NEW r \in Requests, Cancel(t, r) PROVE LStep
  BY <1>0, <1>8, <1>9 DEF Cancel, SubmittersOK, IInv
<1>10. ASSUME NEW t \in Threads, SyncGivesUp(t) PROVE LStep
  <2>1. cur[t] \in Requests /\ id[cur[t]] # NoId /\ ret[cur[t]] = "accepted"
    BY <1>0, <1>10 DEF SyncGivesUp, ThreadOK, SubmittersOK, WaitOK, IInv
  <2> QED
    BY <1>8, <1>10, <2>1 DEF SyncGivesUp, SyncReturns
<1>11. ASSUME NEW t \in Threads, SyncDone(t) PROVE LStep
  <2>0. PICK q : q = cur[t]
    OBVIOUS
  <2>1. /\ q \in Requests /\ calls[q] = 1 /\ UNCHANGED <<pending, hold, due, calls, got>>
        /\ \E result : ret' = [ret EXCEPT ![q] = result]
    BY <1>0, <1>11, <2>0 DEF SyncDone, SyncReturns, WaitOK, ThreadOK, IInv
  <2>2. StageOf(q)' = StageOf(q)
    BY <1>0, <2>1 DEF Staged
  <2>3. \A r \in Requests \ {q} : StageOf(r)' = StageOf(r)
    <3>1. \A r \in Requests \ {q} : ret'[r] = ret[r]
      BY <1>0, <2>1 DEF IInv
    <3> QED
      BY <2>1, <3>1, SameStage
  <2> QED
    BY <2>2, <2>3, NoneMoves
<1>12. ASSUME NEW t \in Threads,
             \/ SubmitSend(t) \/ PollReceive(t) \/ PollEmpty(t) \/ PollUnmatched(t)
             \/ SyncWaitEnds(t) \/ SyncPollAgain(t)
             \/ \E r \in Requests : SubmitBegin(t, r)
       PROVE LStep
  BY <1>1, <1>12 DEF SubmitSend, PollReceive, PollEmpty, PollUnmatched,
              SyncWaitEnds, SyncPollAgain, SubmitBegin
<1>13. ASSUME Environment \/ UNCHANGED vars PROVE LStep
  BY <1>1, <1>13 DEF Environment, Age, PeerAnswers, ForeignFrame, vars
<1> QED
  BY <1>2, <1>3, <1>4, <1>5, <1>6, <1>7, <1>9, <1>10, <1>11, <1>12, <1>13
  DEF Next, Continue

(* Initially no request has begun.                                         *)
LEMMA InitStage == Init => WaitOK /\ \A r \in Requests : StageOf(r) = "new"
  BY PipelineAssumption DEF Init, WaitOK, StageOf

(* Before the ids wrap around, the invariant of the refinement holds.      *)
LEMMA StageInvariance == ASSUME NoWrap PROVE Spec => []StageInv
<1>1. NoWrapInv /\ WaitOK /\ [Next]_vars => WaitOK'
  BY WaitStep DEF NoWrapInv
<1>2. StageInv <=> NoWrapInv /\ WaitOK
  BY DEF StageInv
<1>3. Spec => []NoWrapInv
  BY NoWrap, NoWrapInvariance
<1>4. Init => WaitOK
  BY InitStage
<1> QED
  BY <1>1, <1>2, <1>3, <1>4, PTL DEF Spec

(* Before the ids wrap around, the pipeline implements the lifecycle: a    *)
(* request is refused or accepted once, leaves the queue once, and only a  *)
(* matched or an expired one runs its callback, with that outcome.         *)
THEOREM ImplementsLifecycle == ASSUME NoWrap PROVE Spec => LifecycleSpec
<1>1. Init => Lifecycle!Init
  BY InitStage DEF Lifecycle!Init
<1>2. StageInv /\ StageInv' /\ [Next]_vars => [Lifecycle!Next]_Stage
  BY NoWrap, RefineStep DEF LStep
<1>3. Spec => []StageInv
  BY NoWrap, StageInvariance
<1>4. Spec => Lifecycle!Init /\ [][Lifecycle!Next]_Stage
  BY <1>1, <1>2, <1>3, PTL DEF Spec
<1> QED
  BY <1>4, PTL DEF LifecycleSpec, Lifecycle!Spec, Stage

-----------------------------------------------------------------------------
(* One thread: a synchronous call never returns while another poller has   *)
(* its request, and a response is never looked up between the send and the *)
(* insert of its request.  With two threads the code keeps neither.        *)

OneThread == \A t, u \in Threads : t = u

(* One thread: the locals a synchronous callback captures are in scope     *)
(* whenever it can run (cancel before the return of submit_sync).          *)
THEOREM ScopeKept == ASSUME OneThread PROVE Spec => []SyncScope
<1>1. Init => WaitOK /\ SyncScope
  BY InitStage, PipelineAssumption DEF Init, SyncScope
<1>2. IInv /\ WaitOK /\ SyncScope /\ [Next]_vars => SyncScope'
  <2> SUFFICES ASSUME IInv, WaitOK, SyncScope, [Next]_vars PROVE SyncScope'
    OBVIOUS
  <2> USE PipelineAssumption
  <2> USE DEF IInv, TypeOK, SyncScope, Owes, queueVars, netVars, localVars, userVars, Goto
  <2>1. CASE UNCHANGED <<pending, hold, due, ret>>
    BY <2>1
  <2>2. ASSUME NEW t \in Threads, NEW r \in Requests, Cancel(t, r) PROVE SyncScope'
    BY <2>2 DEF Cancel
  <2>3. ASSUME NEW t \in Threads, SubmitSendFails(t) \/ SubmitOverflow(t) PROVE SyncScope'
    BY <2>3 DEF SubmitSendFails, SubmitOverflow, SubmitReturns, ThreadOK, CustodyOK
  <2>4. ASSUME NEW t \in Threads, SubmitInsert(t) \/ SubmitSyncInsert(t) PROVE SyncScope'
    <3>1. /\ cur[t] \in Requests /\ UNCHANGED <<hold, due>>
          /\ ret' = [ret EXCEPT ![cur[t]] = "accepted"]
          /\ pending' \subseteq pending \union {cur[t]}
      BY <2>4 DEF SubmitInsert, SubmitSyncInsert, SubmitReturns, ThreadOK, Emplace
    <3> QED
      BY <3>1
  <2>5. ASSUME NEW t \in Threads, PollMatch(t) PROVE SyncScope'
    BY <2>5 DEF PollMatch, Find
  <2>6. ASSUME NEW t \in Threads, PollSweep(t) PROVE SyncScope'
    BY <2>6 DEF PollSweep, Expired
  <2>7. ASSUME NEW t \in Threads, PollCallback(t) \/ PollExpire(t) PROVE SyncScope'
    <3>1. \A u \in Threads : hold'[u] \in {hold[u], NoReq} /\ due'[u] \subseteq due[u]
      <4>1. CASE PollCallback(t)
        BY <4>1 DEF PollCallback
      <4>2. CASE PollExpire(t)
        <5>1. PICK q \in due[t] : due' = [due EXCEPT ![t] = @ \ {q}] /\ UNCHANGED hold
          BY <4>2 DEF PollExpire
        <5> QED
          BY <5>1
      <4> QED
        BY <2>7, <4>1, <4>2
    <3>2. UNCHANGED <<pending, ret>>
      BY <2>7 DEF PollCallback, PollExpire
    <3> QED
      BY <3>1, <3>2, PipelineAssumption
  <2>8. ASSUME NEW t \in Threads, SyncDone(t) PROVE SyncScope'
    BY <2>8 DEF SyncDone, SyncReturns, WaitOK, CustodyOK
  <2>9. ASSUME NEW t \in Threads, SyncGivesUp(t) PROVE SyncScope'
    <3>1. hold[t] = NoReq /\ due[t] = {} /\ cur[t] \in SyncRequests
      BY <2>9 DEF SyncGivesUp, ThreadOK
    <3>2. cur[t] \notin pending' /\ pending' \subseteq pending
      BY <2>9 DEF SyncGivesUp, Find
    <3>3. \A u \in Threads, r \in SyncRequests : ~Owes(u, r)
      BY <3>1, OneThread DEF OneThread
    <3>4. UNCHANGED <<hold, due>> /\ ret' = [ret EXCEPT ![cur[t]] = "timeout"]
      BY <2>9 DEF SyncGivesUp, SyncReturns
    <3> QED
      BY <3>1, <3>2, <3>3, <3>4
  <2> QED
    BY <2>1, <2>2, <2>3, <2>4, <2>5, <2>6, <2>7, <2>8, <2>9
    DEF Next, Continue, Environment, Age, PeerAnswers, ForeignFrame, SubmitBegin,
        SubmitSend, PollReceive, PollEmpty, PollUnmatched, SyncWaitEnds,
        SyncPollAgain, vars
<1>3. IInv /\ WaitOK /\ [Next]_vars => WaitOK'
  BY WaitStep
<1> QED
  BY <1>1, <1>2, <1>3, Invariance, PTL DEF Spec

-----------------------------------------------------------------------------
(* A request of which a trace is outside the queue has begun.              *)

Inserting(r) == \E t \in Threads : pc[t] = "insert" /\ cur[t] = r

Sent(r) ==
    \/ r \in outbox
    \/ InInbox(r)
    \/ \E t \in Threads : pc[t] = "match" /\ frame[t] = r

SentOK == \A r \in Requests : Sent(r) => StageOf(r) # "new" \/ Inserting(r)

(* A request that has begun does not become new again.                     *)
LEMMA StaysBegun ==
    ASSUME NEW r \in Requests, LStep, StageOf(r) # "new"
    PROVE  StageOf(r)' # "new"
<1>1. Stage[r] # "new" => Stage'[r] # "new"
  BY DEF LStep, Stage, Lifecycle!Next, Lifecycle!Accept, Lifecycle!Refuse, Lifecycle!Match,
         Lifecycle!Drop, Lifecycle!Answer, Lifecycle!TimeOut, Lifecycle!Expire,
         Lifecycle!Move
<1> QED
  BY <1>1 DEF Stage

(* A thread between send and insert stays there or begins the request.     *)
LEMMA InsertBegins ==
    ASSUME StageInv, StageInv', [Next]_vars, NEW r \in Requests, Inserting(r)
    PROVE  StageOf(r)' # "new" \/ Inserting(r)'
<1> USE PipelineAssumption
<1>0. /\ IInv /\ IdsOK /\ Staged' /\ TypeOK
      /\ RefusalOK' /\ IInv'
  BY StageIsNext DEF StageInv, NoWrapInv, IInv
<1> USE DEF TypeOK, queueVars, netVars, localVars, userVars, Goto
<1>1. PICK t \in Threads : pc[t] = "insert" /\ cur[t] = r
  BY DEF Inserting
<1>2. CASE pc'[t] = pc[t] /\ cur'[t] = cur[t]
  BY <1>1, <1>2 DEF Inserting
<1>3. CASE SubmitInsert(t) \/ SubmitSyncInsert(t)
  <2>1. pending' = Emplace(r) /\ ret[r] = "none" /\ id[r] # NoId
    BY <1>0, <1>1, <1>3 DEF SubmitInsert, SubmitSyncInsert, IInv, ThreadOK, SubmittersOK
  <2>2. r \in pending'
    BY <1>0, <2>1 DEF Emplace, Find, IdsOK, Issued, IInv
  <2> QED
    BY <1>0, <2>2 DEF Staged
<1>4. CASE SubmitOverflow(t)
  <2>1. ret'[r] = "overflow"
    BY <1>0, <1>1, <1>4 DEF SubmitOverflow, SubmitReturns
  <2>2. Free(r)'
    BY <1>0, <2>1 DEF RefusalOK, Free
  <2> QED
    BY <1>0, <2>1, <2>2 DEF Staged
<1>5. CASE Environment \/ UNCHANGED vars
  BY <1>2, <1>5 DEF Environment, Age, PeerAnswers, ForeignFrame, vars
<1>6. ASSUME NEW u \in Threads,
             \/ Continue(u) \/ PollReceive(u)
             \/ \E q \in Requests : SubmitBegin(u, q) \/ Cancel(u, q)
      PROVE  StageOf(r)' # "new" \/ Inserting(r)'
  <2>1. CASE u = t
    BY <1>1, <1>2, <1>3, <1>4, <1>6, <2>1
    DEF Continue, SubmitSend, SubmitSendFails, PollReceive, PollEmpty, PollUnmatched,
        PollMatch, PollCallback, PollSweep, PollExpire, SyncDone, SyncWaitEnds,
        SyncPollAgain, SyncGivesUp, SubmitBegin, Cancel
  <2>2. CASE u # t
    <3>1. /\ pc' = pc \/ \E l : pc' = [pc EXCEPT ![u] = l]
          /\ cur' = cur \/ \E q : cur' = [cur EXCEPT ![u] = q]
      BY <1>6
      DEF Continue, SubmitSend, SubmitSendFails, SubmitOverflow, SubmitInsert,
          SubmitSyncInsert, SubmitReturns, PollReceive, PollEmpty, PollUnmatched,
          PollMatch, PollCallback, PollSweep, PollExpire, SyncDone, SyncWaitEnds,
          SyncPollAgain, SyncGivesUp, SyncReturns, SubmitBegin, Cancel
    <3> QED
      BY <1>0, <1>2, <2>2, <3>1
  <2> QED
    BY <2>1, <2>2
<1> QED
  BY <1>5, <1>6 DEF Next

(* A trace of a request comes from its send or from an older trace.        *)
LEMMA TraceOf ==
    ASSUME StageInv, [Next]_vars, NEW r \in Requests, Sent(r)'
    PROVE  Sent(r) \/ Inserting(r)'
<1> USE PipelineAssumption
<1>0. TypeOK /\ ThreadOK
  BY DEF StageInv, NoWrapInv, IInv
<1> USE DEF TypeOK, queueVars, netVars, localVars, userVars, Goto
<1>1. CASE /\ UNCHANGED <<inbox, outbox>>
           /\ \A t \in Threads : pc'[t] = "match" => pc[t] = "match" /\ frame'[t] = frame[t]
  BY <1>1 DEF Sent, InInbox
<1>2. ASSUME NEW t \in Threads, SubmitSend(t) PROVE Sent(r) \/ Inserting(r)'
  <2>1. /\ outbox' = outbox \union {cur[t]} /\ UNCHANGED <<inbox, frame, cur>>
        /\ pc'[t] = "insert" /\ \A u \in Threads \ {t} : pc'[u] = pc[u]
    BY <1>0, <1>2 DEF SubmitSend
  <2> QED
    BY <2>1 DEF Sent, InInbox, Inserting
<1>3. ASSUME NEW t \in Threads, PollReceive(t) PROVE Sent(r) \/ Inserting(r)'
  <2>1. /\ inbox # << >> /\ inbox' = Tail(inbox) /\ UNCHANGED outbox
        /\ frame'[t] = Head(inbox)
        /\ \A u \in Threads \ {t} : pc'[u] = pc[u] /\ frame'[u] = frame[u]
    BY <1>0, <1>3 DEF PollReceive
  <2>2. InInbox(r)' => InInbox(r)
    BY <1>0, <2>1 DEF InInbox
  <2>3. frame'[t] = r => InInbox(r)
    BY <1>0, <2>1 DEF InInbox
  <2> QED
    BY <2>1, <2>2, <2>3 DEF Sent
<1>4. ASSUME NEW q \in Requests, PeerAnswers(q) PROVE Sent(r) \/ Inserting(r)'
  <2>1. /\ q \in outbox /\ outbox' = outbox \ {q} /\ inbox' = Append(inbox, q)
        /\ UNCHANGED <<pc, frame>>
    BY <1>4 DEF PeerAnswers
  <2>2. InInbox(r)' => InInbox(r) \/ r = q
    BY <1>0, <2>1 DEF InInbox
  <2> QED
    BY <2>1, <2>2 DEF Sent
<1>5. ASSUME NEW f \in ForeignFrames, ForeignFrame(f) PROVE Sent(r) \/ Inserting(r)'
  <2>1. f # r /\ inbox' = Append(inbox, f) /\ UNCHANGED <<outbox, pc, frame>>
    BY <1>5 DEF ForeignFrame
  <2>2. InInbox(r)' => InInbox(r)
    BY <1>0, <2>1 DEF InInbox
  <2> QED
    BY <2>1, <2>2 DEF Sent
<1>6. ASSUME NEW t \in Threads,
             \/ Continue(t) /\ ~SubmitSend(t)
             \/ \E q \in Requests : SubmitBegin(t, q) \/ Cancel(t, q)
      PROVE  Sent(r) \/ Inserting(r)'
  <2>1. UNCHANGED <<inbox, outbox>>
    BY <1>6 DEF Continue, SubmitSendFails, SubmitOverflow, SubmitInsert, SubmitSyncInsert,
            PollEmpty, PollUnmatched, PollMatch, PollCallback, PollSweep, PollExpire,
            SyncDone, SyncWaitEnds, SyncPollAgain, SyncGivesUp, SubmitBegin, Cancel
  <2>2. \A u \in Threads : pc'[u] = "match" => pc[u] = "match" /\ frame'[u] = frame[u]
    <3>1. CASE \/ SubmitSendFails(t) \/ SubmitOverflow(t) \/ SubmitInsert(t)
               \/ SubmitSyncInsert(t) \/ SyncDone(t) \/ SyncGivesUp(t)
      BY <1>0, <3>1 DEF SubmitSendFails, SubmitOverflow, SubmitInsert, SubmitSyncInsert,
                        SubmitReturns, SyncDone, SyncGivesUp, SyncReturns
    <3>2. CASE PollEmpty(t) \/ PollMatch(t) \/ SyncWaitEnds(t) \/ SyncPollAgain(t)
      BY <1>0, <3>2 DEF PollEmpty, PollMatch, SyncWaitEnds, SyncPollAgain
    <3>3. CASE PollUnmatched(t) \/ PollCallback(t)
      BY <1>0, <3>3 DEF PollUnmatched, PollCallback, AfterPoll
    <3>4. CASE PollSweep(t) \/ PollExpire(t)
      BY <1>0, <3>4 DEF PollSweep, PollExpire, AfterPoll
    <3>5. CASE \E q \in Requests : SubmitBegin(t, q) \/ Cancel(t, q)
      BY <1>0, <3>5 DEF SubmitBegin, Cancel
    <3> QED
      BY <1>6, <3>1, <3>2, <3>3, <3>4, <3>5 DEF Continue
  <2> QED
    BY <1>1, <2>1, <2>2
<1>7. CASE UNCHANGED vars
  BY <1>1, <1>7 DEF vars
<1>8. ASSUME NEW q \in Requests, Age(q) PROVE Sent(r) \/ Inserting(r)'
  BY <1>1, <1>8 DEF Age
<1> QED
  BY <1>2, <1>3, <1>4, <1>5, <1>6, <1>7, <1>8 DEF Next, Environment, Continue

(* One thread, and ids that do not wrap around: when poll looks up the id  *)
(* of a response, its request is in the queue or its outcome is settled.   *)
THEOREM AnswerFound ==
    ASSUME NoWrap, OneThread
    PROVE  Spec => []AnswerFindsRequest
<1>1. Init => SentOK
  BY PipelineAssumption DEF Init, SentOK, Sent, InInbox
<1>2. StageInv /\ StageInv' /\ SentOK /\ [Next]_vars => SentOK'
  <2> SUFFICES ASSUME StageInv, StageInv', SentOK, [Next]_vars, NEW r \in Requests, Sent(r)'
               PROVE  StageOf(r)' # "new" \/ Inserting(r)'
    BY DEF SentOK
  <2>1. LStep
    BY NoWrap, RefineStep
  <2>2. CASE Sent(r)
    <3>1. StageOf(r) # "new" \/ Inserting(r)
      BY <2>2 DEF SentOK
    <3> QED
      BY <2>1, <3>1, StaysBegun, InsertBegins
  <2> QED
    BY <2>2, TraceOf
<1>3. StageInv /\ SentOK => AnswerFindsRequest
  <2> SUFFICES ASSUME StageInv, SentOK, NEW t \in Threads, NEW r \in Requests,
                      pc[t] = "match", frame[t] = r
               PROVE  \/ r \in pending \/ calls[r] = 1
                      \/ ret[r] \notin {"none", "accepted"}
    BY DEF AnswerFindsRequest
  <2>1. \A u \in Threads : /\ pc[u] = "match" /\ hold[u] # r /\ r \notin due[u]
    BY OneThread, PipelineAssumption DEF OneThread, StageInv, NoWrapInv, IInv, ThreadOK
  <2>2. StageOf(r) # "new"
    BY <2>1 DEF SentOK, Sent, Inserting
  <2> QED
    BY <2>1, <2>2 DEF StageOf
<1>4. Spec => []StageInv
  BY NoWrap, StageInvariance
<1> QED
  BY <1>1, <1>2, <1>3, <1>4, PTL DEF Spec
=============================================================================
