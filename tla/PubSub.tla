------------------------------- MODULE PubSub -------------------------------
(***************************************************************************)
(* Publisher and Subscriber, joined by the transport that carries event    *)
(* frames from one to the other.                                           *)
(*                                                                         *)
(* scan_and_notify holds the publisher's mutex from its first reader call  *)
(* to its last baseline update; each call of a reader or of the transport  *)
(* in it is a step, because the registers change and frames are received   *)
(* meanwhile.  The mutex is held while at # "idle".  On the other side,    *)
(* Subscriber::poll receives without its mutex and holds it while it runs  *)
(* a handler, that is while some poller is at "run".                       *)
(***************************************************************************)
EXTENDS Integers, Sequences, FiniteSets

CONSTANTS
    Sources,        \* the registered data sources: a sequence of [start, count]
    Requests,       \* the subscription requests clients make
    RegisterValues, \* values of a register
    Pollers,        \* threads that call Subscriber::poll
    MaxSubs,        \* bound: subscriptions accepted
    MaxWire,        \* bound: event frames under way when a scan begins
    None,           \* no baseline, no notification, no event
    Missed          \* an event was dispatched without a handler

Triggers == {"OnChange", "OnThreshold", "Periodic"}

ASSUME PubSubAssumption ==
    /\ Sources \in Seq([start : Nat, count : Nat \ {0}])
    /\ Len(Sources) > 0
    /\ \A q \in Requests :
         /\ q.trigger \in Triggers
         /\ q.start \in Nat /\ q.count \in Nat \ {0} /\ q.band \in Nat
         /\ q.high \subseteq Nat /\ q.low \subseteq Nat /\ q.interval \in BOOLEAN
    /\ RegisterValues \subseteq Nat
    /\ MaxSubs \in Nat /\ MaxWire \in Nat
    /\ None # Missed
    /\ \A s \in DOMAIN Sources : None \notin [1 .. Sources[s].count -> RegisterValues]
    /\ None \notin [id : 1 .. MaxSubs, values : Seq(RegisterValues)]

VARIABLES
    registers,      \* what the readers of the sources would return
    baseline,       \* DataSource::last_values, None without has_baseline
    subs,           \* Publisher::subscriptions_, in the order accepted
    nextId,         \* Publisher::next_sub_id_
    at,             \* where scan_and_notify is
    src, sub,       \* the indexes of its two loops
    current,        \* what the reader has returned
    elapsed,        \* subscriptions whose interval has passed since last_notified
    wire,           \* event frames under way
    noted,          \* the values each subscription was last notified of
    unsent,         \* subscriptions whose last notification was not sent
    handlers,       \* Subscriber::handlers_: the ids that have one
    pc,             \* where each poller is
    event,          \* the event it is dispatching
    seen            \* the values each id's handler was last called with

pubVars == <<baseline, subs, nextId, at, src, sub, current, elapsed, noted, unsent>>
subVars == <<handlers, pc, event, seen>>
vars == <<registers, baseline, subs, nextId, at, src, sub, current, elapsed,
          wire, noted, unsent, handlers, pc, event, seen>>

SubIds == 1 .. MaxSubs
Registers(s) == [1 .. Sources[s].count -> RegisterValues]
Events == [id : SubIds, values : Seq(RegisterValues)]
Subscription == [id : SubIds, req : Requests]

Init ==
    /\ registers \in {f \in [1 .. Len(Sources) -> UNION {Registers(s) : s \in DOMAIN Sources}] :
                        \A s \in DOMAIN Sources : f[s] \in Registers(s)}
    /\ baseline = [s \in DOMAIN Sources |-> None]
    /\ subs = << >>
    /\ nextId = 1
    /\ at = "idle" /\ src = 1 /\ sub = 1 /\ current = None
    /\ elapsed = {}
    /\ wire = << >>
    /\ noted = [i \in SubIds |-> None]
    /\ unsent = {}
    /\ handlers = {}
    /\ pc = [t \in Pollers |-> "poll"]
    /\ event = [t \in Pollers |-> None]
    /\ seen = [i \in SubIds |-> None]

-----------------------------------------------------------------------------
(* Subscriptions                                                           *)

Accept(q) ==
    /\ at = "idle"
    /\ nextId <= MaxSubs
    /\ subs' = Append(subs, [id |-> nextId, req |-> q])
    /\ nextId' = nextId + 1
    /\ UNCHANGED <<registers, baseline, at, src, sub, current, elapsed, wire,
                   noted, unsent, subVars>>

(* erase of one element: the others keep their order.                      *)
Without(q, k) == SubSeq(q, 1, k - 1) \o SubSeq(q, k + 1, Len(q))

(* Mutant of Remove: the mutex is not taken.                               *)
RemoveUnlocked(i) ==
    /\ \E k \in DOMAIN subs :
          /\ subs[k].id = i
          /\ subs' = Without(subs, k)
    /\ elapsed' = elapsed \ {i}
    /\ noted' = [noted EXCEPT ![i] = None]
    /\ unsent' = unsent \ {i}
    /\ UNCHANGED <<registers, baseline, nextId, at, src, sub, current, wire, subVars>>

(* An id is given out once: what remove_if finds is one element at most.   *)
Remove(i) ==
    /\ at = "idle"
    /\ \E k \in DOMAIN subs :
          /\ subs[k].id = i
          /\ subs' = Without(subs, k)
    /\ elapsed' = elapsed \ {i}
    /\ noted' = [noted EXCEPT ![i] = None]
    /\ unsent' = unsent \ {i}
    /\ UNCHANGED <<registers, baseline, nextId, at, src, sub, current, wire, subVars>>

-----------------------------------------------------------------------------
(* scan_and_notify                                                         *)

(* A subscription belongs to the sources its first address lies in; what   *)
(* goes beyond the end of such a source is cut off.                        *)
Covers(s, q) ==
    q.start \in Sources[s].start .. Sources[s].start + Sources[s].count - 1

Slice(s, q, values) ==
    LET offset == q.start - Sources[s].start
        end == offset + q.count
    IN  SubSeq(values, offset + 1, IF end < Len(values) THEN end ELSE Len(values))

FarAbove(x, y, band) == x - y > band
Far(x, y, band) == x - y > band \/ y - x > band

(* should_notify, by trigger.                                              *)
Changed(q, now, before) == \E i \in DOMAIN now : Far(now[i], before[i], q.band)

Beyond(q, now) == (\E h \in q.high : now[1] > h) \/ (\E l \in q.low : now[1] < l)

ElapsedNever(x) == FALSE
Elapsed(x) == x.req.interval /\ x.id \in elapsed

ShouldNotify(s, x) ==
    LET now == Slice(s, x.req, current)
    IN  \/ /\ x.req.trigger = "OnChange"
           /\ baseline[s] # None => Changed(x.req, now, Slice(s, x.req, baseline[s]))
        \/ x.req.trigger = "OnThreshold" /\ Beyond(x.req, now)
        \/ x.req.trigger = "Periodic" /\ Elapsed(x)

ScanBegin ==
    /\ at = "idle"
    /\ Len(wire) <= MaxWire
    /\ at' = "read"
    /\ src' = 1
    /\ UNCHANGED <<registers, baseline, subs, nextId, sub, current, elapsed,
                   wire, noted, unsent, subVars>>

ScanRead ==
    /\ at = "read"
    /\ current' = registers[src]
    /\ at' = "sub"
    /\ sub' = 1
    /\ UNCHANGED <<registers, baseline, subs, nextId, src, elapsed, wire, noted,
                   unsent, subVars>>

Notifies == Covers(src, subs[sub].req) /\ ShouldNotify(src, subs[sub])

ScanSkip ==
    /\ at = "sub" /\ sub <= Len(subs)
    /\ ~Notifies
    /\ sub' = sub + 1
    /\ UNCHANGED <<registers, baseline, subs, nextId, at, src, current, elapsed,
                   wire, noted, unsent, subVars>>

ScanNotify ==
    /\ at = "sub" /\ sub <= Len(subs)
    /\ Notifies
    /\ at' = "send"
    /\ UNCHANGED <<registers, baseline, subs, nextId, src, sub, current, elapsed,
                   wire, noted, unsent, subVars>>

(* A notification counts as sent whether or not its frame was.             *)
Notified(frames) ==
    LET x == subs[sub]
        values == Slice(src, x.req, current)
    IN  /\ wire' = wire \o [f \in 1 .. frames |-> [id |-> x.id, values |-> values]]
        /\ noted' = [noted EXCEPT ![x.id] = values]
        /\ unsent' = IF frames > 0 THEN unsent \ {x.id} ELSE unsent \union {x.id}
        /\ elapsed' = elapsed \ {x.id}
        /\ sub' = sub + 1
        /\ at' = "sub"
        /\ UNCHANGED <<registers, baseline, subs, nextId, src, current, subVars>>

ScanSend == at = "send" /\ Notified(1)

(* No transport, not connected, or send returns an error.                  *)
ScanSendFails == at = "send" /\ Notified(0)

(* What becomes of last_values and has_baseline once a source is scanned.  *)
BaselineKept == [baseline EXCEPT ![src] = IF @ = None THEN current ELSE @]
Baseline == [baseline EXCEPT ![src] = current]

(* The end of the loop over the subscriptions, and of that over sources.   *)
ScanSource ==
    /\ at = "sub" /\ sub > Len(subs)
    /\ baseline' = Baseline
    /\ current' = None
    /\ sub' = 1
    /\ IF src < Len(Sources) THEN at' = "read" /\ src' = src + 1
                             ELSE at' = "idle" /\ src' = 1
    /\ UNCHANGED <<registers, subs, nextId, elapsed, wire, noted, unsent, subVars>>

ScanStep ==
    ScanBegin \/ ScanRead \/ ScanSkip \/ ScanNotify \/ ScanSend \/ ScanSendFails
    \/ ScanSource

-----------------------------------------------------------------------------
(* Subscriber                                                              *)

Unlocked == \A t \in Pollers : pc[t] # "run"

(* The client knows the id from accept_subscription.                       *)
OnEvent(i) ==
    /\ Unlocked
    /\ i < nextId
    /\ handlers' = handlers \union {i}
    /\ UNCHANGED <<registers, pubVars, wire, pc, event, seen>>

RemoveHandlerUnlocked(i) ==
    /\ i \in handlers
    /\ handlers' = handlers \ {i}
    /\ UNCHANGED <<registers, pubVars, wire, pc, event, seen>>

RemoveHandler(i) ==
    /\ Unlocked
    /\ i \in handlers
    /\ handlers' = handlers \ {i}
    /\ UNCHANGED <<registers, pubVars, wire, pc, event, seen>>

PollReceiveNewest(t) ==
    /\ pc[t] = "poll"
    /\ wire # << >>
    /\ event' = [event EXCEPT ![t] = wire[Len(wire)]]
    /\ wire' = SubSeq(wire, 1, Len(wire) - 1)
    /\ pc' = [pc EXCEPT ![t] = "dispatch"]
    /\ UNCHANGED <<registers, pubVars, handlers, seen>>

(* poll, or a further turn of its loop, receives an event frame.           *)
PollReceive(t) ==
    /\ pc[t] = "poll"
    /\ wire # << >>
    /\ event' = [event EXCEPT ![t] = Head(wire)]
    /\ wire' = Tail(wire)
    /\ pc' = [pc EXCEPT ![t] = "dispatch"]
    /\ UNCHANGED <<registers, pubVars, handlers, seen>>

(* The mutex is taken, the handler looked up and called.                   *)
PollCall(t) ==
    /\ pc[t] = "dispatch"
    /\ Unlocked
    /\ event[t].id \in handlers
    /\ pc' = [pc EXCEPT ![t] = "run"]
    /\ UNCHANGED <<registers, pubVars, wire, handlers, event, seen>>

PollNoHandler(t) ==
    /\ pc[t] = "dispatch"
    /\ Unlocked
    /\ event[t].id \notin handlers
    /\ seen' = [seen EXCEPT ![event[t].id] = Missed]
    /\ event' = [event EXCEPT ![t] = None]
    /\ pc' = [pc EXCEPT ![t] = "poll"]
    /\ UNCHANGED <<registers, pubVars, wire, handlers>>

HandlerReturns(t) ==
    /\ pc[t] = "run"
    /\ seen' = [seen EXCEPT ![event[t].id] = event[t].values]
    /\ event' = [event EXCEPT ![t] = None]
    /\ pc' = [pc EXCEPT ![t] = "poll"]
    /\ UNCHANGED <<registers, pubVars, wire, handlers>>

PollStep(t) == PollReceive(t) \/ PollCall(t) \/ PollNoHandler(t) \/ HandlerReturns(t)

-----------------------------------------------------------------------------
(* The registers behind the readers, and the clock                         *)

Change(s, i, v) ==
    /\ registers[s][i] # v
    /\ registers' = [registers EXCEPT ![s][i] = v]
    /\ UNCHANGED <<pubVars, wire, subVars>>

IntervalPasses(i) ==
    /\ \E k \in DOMAIN subs : subs[k].id = i /\ subs[k].req.trigger = "Periodic"
    /\ i \notin elapsed
    /\ elapsed' = elapsed \union {i}
    /\ UNCHANGED <<registers, baseline, subs, nextId, at, src, sub, current, wire,
                   noted, unsent, subVars>>

Next ==
    \/ \E q \in Requests : Accept(q)
    \/ \E i \in SubIds : Remove(i) \/ OnEvent(i) \/ RemoveHandler(i) \/ IntervalPasses(i)
    \/ ScanStep
    \/ \E t \in Pollers : PollStep(t)
    \/ \E s \in DOMAIN Sources : \E i \in 1 .. Sources[s].count, v \in RegisterValues :
         Change(s, i, v)

Spec == Init /\ [][Next]_vars

(* The server's loop keeps scanning; a client keeps polling.               *)
Fairness == WF_vars(ScanStep) /\ \A t \in Pollers : WF_vars(PollStep(t))

LiveSpec == Spec /\ Fairness

-----------------------------------------------------------------------------
(* Properties                                                              *)

Subscribed == {subs[k] : k \in DOMAIN subs}

(* Variables keep their types; the iterator of the loop over the           *)
(* subscriptions stays inside the vector for the whole scan.               *)
TypeOK ==
    /\ \A s \in DOMAIN Sources :
         registers[s] \in Registers(s) /\ baseline[s] \in Registers(s) \union {None}
    /\ subs \in Seq(Subscription)
    /\ nextId \in 1 .. MaxSubs + 1
    /\ at \in {"idle", "read", "sub", "send"}
    /\ src \in DOMAIN Sources
    /\ sub \in 1 .. Len(subs) + (IF at = "send" THEN 0 ELSE 1)
    /\ current = None \/ current \in Registers(src)
    /\ elapsed \subseteq SubIds /\ unsent \subseteq SubIds /\ handlers \subseteq SubIds
    /\ wire \in Seq(Events)
    /\ \A i \in SubIds : noted[i] # None => noted[i] \in Seq(RegisterValues)
    /\ \A i \in SubIds : seen[i] \notin {None, Missed} => seen[i] \in Seq(RegisterValues)
    /\ pc \in [Pollers -> {"poll", "dispatch", "run"}]
    /\ \A t \in Pollers : IF pc[t] = "poll" THEN event[t] = None ELSE event[t] \in Events

(* What the last scan read of the registers of x, which x was notified of  *)
(* before.                                                                 *)
Followed(x) == noted[x.id] # None
LastScan(x, s) == Slice(s, x.req, baseline[s])

(* Between two scans, a subscription without a dead band that was ever     *)
(* notified has been notified of what the last scan read, and so has one   *)
(* whose value is beyond its threshold (should_notify and the update of    *)
(* last_values).                                                           *)
NotifiedOfLastScan ==
    at = "idle" =>
        \A x \in Subscribed : \A s \in DOMAIN Sources :
            /\ Followed(x) /\ Covers(s, x.req)
            /\ \/ x.req.trigger = "OnChange" /\ x.req.band = 0
               \/ x.req.trigger = "OnThreshold" /\ Beyond(x.req, LastScan(x, s))
            => noted[x.id] = LastScan(x, s)

(* The notification about to be sent is for a subscription that is still   *)
(* there and whose trigger the values just read have fired: nothing shifts *)
(* the vector or moves the baseline between the decision and the send.     *)
SendJustified == at = "send" => sub <= Len(subs) /\ Notifies

(* Once remove_handler has returned, the handler is not running and does   *)
(* not start (poll runs it with the mutex held).                           *)
HandlerScope == \A t \in Pollers : pc[t] = "run" => event[t].id \in handlers

(* With one poller, a handler with no event of its subscription under way  *)
(* was last called with what the subscription was last notified of, unless *)
(* that event was not sent or came when there was no handler.              *)
UnderWay(i) ==
    \/ \E k \in DOMAIN wire : wire[k].id = i
    \/ \E t \in Pollers : event[t] # None /\ event[t].id = i

CaughtUp ==
    \A x \in Subscribed :
        ~UnderWay(x.id) /\ x.id \notin unsent /\ seen[x.id] # Missed =>
            seen[x.id] = noted[x.id]

(* When the registers stop changing, every handler that has been reached   *)
(* ends up with their values (OnChange without a dead band).               *)
Reached(x) ==
    /\ x.req.trigger = "OnChange" /\ x.req.band = 0
    /\ Followed(x) /\ x.id \notin unsent /\ seen[x.id] # Missed

InStep ==
    \A x \in Subscribed : \A s \in DOMAIN Sources :
        Reached(x) /\ Covers(s, x.req) => seen[x.id] = Slice(s, x.req, registers[s])

Converges == <>[][UNCHANGED registers]_vars => <>[]InStep

(* A periodic subscription whose interval has passed is notified.          *)
PeriodicNotified ==
    \A i \in SubIds :
        (\E x \in Subscribed : /\ x.id = i /\ i \in elapsed /\ x.req.interval
                               /\ \E s \in DOMAIN Sources : Covers(s, x.req))
            ~> (i \notin elapsed \/ i \notin {x.id : x \in Subscribed})

=============================================================================
