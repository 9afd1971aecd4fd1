--------------------------- MODULE ProceduresProofs ---------------------------
(***************************************************************************)
(* Proofs about ClientProcedures, for any units, secrets and numbers of    *)
(* calls: what a scan reports, what a handshake decides and what a session *)
(* rests on.                                                               *)
(*                                                                         *)
(* A procedure that began with nothing under way has exactly one thing     *)
(* under way while it waits: its request or the answer to that (Alone).    *)
(* On a line that serves in turn the same holds of the second exchange of  *)
(* any handshake: only the proof for its own challenge passes the check,   *)
(* and that is the last thing that was under way (Newest).                 *)
(***************************************************************************)
EXTENDS ClientProcedures, TLAPS

IsSeq(s) == Len(s) \in Nat /\ s \in Seq({s[i] : i \in 1 .. Len(s)})

LEMMA NoSeq == IsSeq(<< >>)
<1>1. Len(<< >>) = 0
  OBVIOUS
<1>2. ASSUME NEW S PROVE << >> \in Seq(S)
  OBVIOUS
<1> QED
  BY <1>1, <1>2 DEF IsSeq

LEMMA AppendSeq ==
    ASSUME NEW s, NEW x, IsSeq(s)
    PROVE  /\ IsSeq(Append(s, x)) /\ Append(s, x) # << >>
           /\ Len(Append(s, x)) = Len(s) + 1 /\ Len(s) \in Nat
           /\ \A i \in 1 .. Len(s) : Append(s, x)[i] = s[i]
           /\ Append(s, x)[Len(s) + 1] = x
<1> DEFINE S == {s[i] : i \in 1 .. Len(s)} \union {x}
           t == Append(s, x)
<1>1. s \in Seq(S) /\ x \in S
  BY DEF IsSeq
<1> HIDE DEF S
<1>2. /\ t \in Seq(S) /\ t # << >> /\ Len(t) = Len(s) + 1 /\ Len(s) \in Nat
      /\ \A i \in 1 .. Len(s) : t[i] = s[i]
      /\ t[Len(s) + 1] = x
  BY <1>1
<1> HIDE DEF t
<1>3. t \in Seq({t[i] : i \in 1 .. Len(t)})
  BY <1>2
<1>4. IsSeq(t)
  BY <1>2, <1>3 DEF IsSeq
<1> QED
  BY <1>2, <1>4 DEF t

LEMMA TailSeq ==
    ASSUME NEW s, IsSeq(s), s # << >>
    PROVE  /\ IsSeq(Tail(s)) /\ Len(Tail(s)) = Len(s) - 1 /\ Len(s) \in Nat \ {0}
           /\ \A i \in 1 .. Len(s) - 1 : Tail(s)[i] = s[i + 1]
           /\ Head(s) = s[1]
<1> DEFINE S == {s[i] : i \in 1 .. Len(s)}
           t == Tail(s)
<1>1. s \in Seq(S)
  BY DEF IsSeq
<1> HIDE DEF S
<1>2. /\ t \in Seq(S) /\ Len(t) = Len(s) - 1 /\ Len(s) \in Nat \ {0}
      /\ \A i \in 1 .. Len(s) - 1 : t[i] = s[i + 1]
      /\ Head(s) = s[1]
  BY <1>1
<1> HIDE DEF t
<1>3. t \in Seq({t[i] : i \in 1 .. Len(t)})
  BY <1>2
<1> QED
  BY <1>2, <1>3 DEF IsSeq, t

LEMMA RemoveSeq ==
    ASSUME NEW s, IsSeq(s), NEW k \in 1 .. Len(s)
    PROVE  /\ IsSeq(RemoveAt(s, k)) /\ Len(RemoveAt(s, k)) = Len(s) - 1 /\ Len(s) \in Nat
           /\ \A i \in 1 .. Len(s) - 1 : RemoveAt(s, k)[i] = IF i < k THEN s[i] ELSE s[i + 1]
<1> DEFINE S == {s[i] : i \in 1 .. Len(s)}
           t == RemoveAt(s, k)
<1>1. s \in Seq(S) /\ Len(s) \in Nat /\ k \in Nat
  BY DEF IsSeq
<1> HIDE DEF S
<1>2. /\ SubSeq(s, 1, k - 1) \in Seq(S) /\ Len(SubSeq(s, 1, k - 1)) = k - 1
      /\ \A i \in 1 .. k - 1 : SubSeq(s, 1, k - 1)[i] = s[i]
      /\ SubSeq(s, k + 1, Len(s)) \in Seq(S) /\ Len(SubSeq(s, k + 1, Len(s))) = Len(s) - k
      /\ \A i \in 1 .. Len(s) - k : SubSeq(s, k + 1, Len(s))[i] = s[k + i]
  BY <1>1
<1>3. /\ t \in Seq(S) /\ Len(t) = Len(s) - 1
      /\ \A i \in 1 .. Len(s) - 1 : t[i] = IF i < k THEN s[i] ELSE s[i + 1]
  <2> DEFINE x == SubSeq(s, 1, k - 1)
             y == SubSeq(s, k + 1, Len(s))
  <2>1. t = x \o y
    BY DEF RemoveAt
  <2> HIDE DEF x, y, t
  <2>2. /\ x \in Seq(S) /\ Len(x) = k - 1 /\ y \in Seq(S) /\ Len(y) = Len(s) - k
        /\ \A i \in 1 .. k - 1 : x[i] = s[i]
        /\ \A i \in 1 .. Len(s) - k : y[i] = s[k + i]
    BY <1>2 DEF x, y
  <2>3. t \in Seq(S) /\ Len(t) = Len(s) - 1
    BY <1>1, <2>1, <2>2
  <2>4. ASSUME NEW i \in 1 .. Len(s) - 1 PROVE t[i] = IF i < k THEN s[i] ELSE s[i + 1]
    <3>1. CASE i < k
      BY <1>1, <2>1, <2>2, <3>1
    <3>2. CASE ~(i < k)
      <4>1. t[i] = y[i - (k - 1)] /\ i - (k - 1) \in 1 .. Len(s) - k
        BY <1>1, <2>1, <2>2, <3>2
      <4>2. y[i - (k - 1)] = s[k + (i - (k - 1))] /\ k + (i - (k - 1)) = i + 1
        BY <1>1, <2>2, <4>1
      <4> QED
        BY <3>2, <4>1, <4>2
    <3> QED
      BY <3>1, <3>2
  <2> QED
    BY <2>3, <2>4
<1> HIDE DEF t
<1>4. t \in Seq({t[i] : i \in 1 .. Len(t)})
  BY <1>1, <1>3
<1> QED
  BY <1>1, <1>3, <1>4 DEF IsSeq, t

LEMMA ZeroSeq ==
    ASSUME NEW s, IsSeq(s), Len(s) = 0
    PROVE  s = << >>
<1> DEFINE S == {s[i] : i \in 1 .. Len(s)}
<1>1. s \in Seq(S)
  BY DEF IsSeq
<1> HIDE DEF S
<1> QED
  BY <1>1

LEMMA LoneSeq ==
    ASSUME NEW x
    PROVE  /\ IsSeq(<<x>>) /\ Len(<<x>>) = 1 /\ Head(<<x>>) = x /\ Tail(<<x>>) = << >>
           /\ RemoveAt(<<x>>, 1) = << >> /\ Append(<< >>, x) = <<x>>
  BY DEF IsSeq, RemoveAt

-----------------------------------------------------------------------------
(* What is under way                                                       *)

Nonces == {<<n>> : n \in Nat}

Links ==
    /\ IsSeq(toUnits) /\ IsSeq(toClient)
    /\ calls \in Nat
    /\ exchange \in [Alive -> Nonces \union {None}]

AnswerKinds == {"data", "capabilities", "proof", "confirmation", "exception"}

(* Every challenge and every proof belongs to a call that was made.        *)
Dated ==
    /\ \A i \in 1 .. Len(toUnits) :
          toUnits[i].kind = "challenge" => \E n \in 1 .. calls : toUnits[i].body = <<n>>
    /\ \A i \in 1 .. Len(toClient) :
          /\ toClient[i].kind \in AnswerKinds
          /\ toClient[i].kind = "proof" => \E n \in 1 .. calls : toClient[i].body[2][2] = <<n>>

(* Request q is all there is under way, or a, the answer to it.            *)
Alone(q, a) ==
    \/ toUnits = <<q>> /\ toClient = << >>
    \/ toUnits = << >> /\ toClient = IF q.unit \in Alive THEN <<a>> ELSE << >>

(* A unit that serves the request that is alone answers it.                *)
LEMMA ServeAlone ==
    ASSUME Links, NEW q, NEW a, Alone(q, a), q.unit \in Alive => Answer(q) = a,
           NEW i \in 1 .. Len(toUnits), Serve(i)
    PROVE  /\ toUnits = <<q>> /\ toUnits' = << >>
           /\ toClient' = IF q.unit \in Alive THEN <<a>> ELSE << >>
           /\ q.unit \in Alive =>
                /\ exchange' = IF a.kind = "proof" THEN [exchange EXCEPT ![q.unit] = q.body]
                                                   ELSE exchange
                /\ confirmed' = IF a.kind = "confirmation" THEN confirmed \union {a.body}
                                                           ELSE confirmed
<1>1. toUnits # << >>
  BY NoSeq
<1>2. toUnits = <<q>> /\ toClient = << >>
  BY <1>1 DEF Alone
<1>3. i = 1 /\ toUnits[i] = q
  BY <1>2, LoneSeq
<1>4. toUnits' = << >>
  BY <1>2, <1>3, LoneSeq DEF Serve
<1>5. CASE q.unit \in Alive
  BY <1>2, <1>3, <1>4, <1>5, LoneSeq DEF Serve
<1>6. CASE q.unit \notin Alive
  BY <1>2, <1>3, <1>4, <1>6 DEF Serve
<1> QED
  BY <1>2, <1>4, <1>5, <1>6

(* The frame the client receives then is the answer, and leaves nothing.   *)
LEMMA TakeAlone ==
    ASSUME NEW q, NEW a, Alone(q, a), toClient # << >>
    PROVE  /\ q.unit \in Alive /\ toUnits = << >> /\ toClient = <<a>>
           /\ Head(toClient) = a /\ Tail(toClient) = << >>
  BY LoneSeq DEF Alone

(* What a request gets for an answer, kind by kind.                        *)
Proof(u, c) ==
    Request(u, "proof", <<ServerNonce(u, c), HMAC(SecretOf[u], c, ServerNonce(u, c))>>)

LEMMA Answers ==
    ASSUME NEW u, NEW b
    PROVE  /\ Answer(Request(u, "read", b)) = Request(u, "data", None)
           /\ Answer(Request(u, "discover", b)) =
                IF u \in Extended THEN Request(u, "capabilities", u)
                                  ELSE Request(u, "exception", None)
           /\ Answer(Request(u, "challenge", b)) =
                IF u \in Extended THEN Proof(u, b) ELSE Request(u, "exception", None)
           /\ u \in Extended /\ exchange[u] # None
                /\ b = HMAC(SecretOf[u], ServerNonce(u, exchange[u]), exchange[u]) =>
                Answer(Request(u, "response", b)) =
                    Request(u, "confirmation", Token(u, exchange[u]))
<1>1. Answer(Request(u, "read", b)) = Request(u, "data", None)
  BY DEF Answer, Request
<1>2. Answer(Request(u, "discover", b)) =
         IF u \in Extended THEN Request(u, "capabilities", u) ELSE Request(u, "exception", None)
  BY DEF Answer, Request
<1>3. Answer(Request(u, "challenge", b)) =
         IF u \in Extended THEN Proof(u, b) ELSE Request(u, "exception", None)
  BY DEF Answer, Request, Proof
<1>4. ASSUME u \in Extended, exchange[u] # None,
             b = HMAC(SecretOf[u], ServerNonce(u, exchange[u]), exchange[u])
      PROVE  Answer(Request(u, "response", b)) =
                 Request(u, "confirmation", Token(u, exchange[u]))
  BY <1>4 DEF Answer, Request
<1> QED
  BY <1>1, <1>2, <1>3, <1>4

LEMMA Kinds ==
    ASSUME NEW q
    PROVE  /\ Answer(q).kind = "proof" =>
                /\ q.kind = "challenge" /\ q.unit \in Extended
                /\ Answer(q) = Proof(q.unit, q.body)
           /\ Answer(q).kind \in AnswerKinds
  BY DEF Answer, Proof, Request, AnswerKinds

(* Every step keeps the types of the link and the dates on it.             *)
LEMMA LinksStep == Links /\ Dated /\ [Next]_vars => Links' /\ Dated'
<1> SUFFICES ASSUME Links, Dated, [Next]_vars PROVE Links' /\ Dated'
  OBVIOUS
<1> USE DEF linkVars, unitVars, scanVars, authVars
<1>1. ASSUME UNCHANGED exchange, calls' \in {calls, calls + 1},
             toClient' = toClient \/ (toClient # << >> /\ toClient' = Tail(toClient)),
             \/ toUnits' = toUnits
             \/ \E q : /\ toUnits' = Append(toUnits, q)
                       /\ q.kind = "challenge" => calls' = calls + 1 /\ q.body = <<calls'>>
      PROVE  Links' /\ Dated'
  <2>1. IsSeq(toClient') /\ \A i \in 1 .. Len(toClient') :
                               \E j \in 1 .. Len(toClient) : toClient'[i] = toClient[j]
    <3>1. CASE toClient' = toClient
      BY <3>1 DEF Links
    <3>2. CASE toClient # << >> /\ toClient' = Tail(toClient)
      <4>1. /\ IsSeq(toClient') /\ Len(toClient') = Len(toClient) - 1
            /\ Len(toClient) \in Nat \ {0}
            /\ \A i \in 1 .. Len(toClient) - 1 : toClient'[i] = toClient[i + 1]
        BY <3>2, TailSeq DEF Links
      <4>2. \A i \in 1 .. Len(toClient') : i + 1 \in 1 .. Len(toClient)
        BY <4>1
      <4> QED
        BY <4>1, <4>2
    <3> QED
      BY <1>1, <3>1, <3>2
  <2>2. /\ IsSeq(toUnits')
        /\ \A i \in 1 .. Len(toUnits') :
              toUnits'[i].kind = "challenge" => \E n \in 1 .. calls' : toUnits'[i].body = <<n>>
    <3>0. calls \in Nat /\ calls' \in Nat /\ \A n \in 1 .. calls : n \in 1 .. calls'
      BY <1>1 DEF Links
    <3>1. CASE toUnits' = toUnits
      BY <3>0, <3>1 DEF Links, Dated
    <3>2. ASSUME NEW q, toUnits' = Append(toUnits, q),
                 q.kind = "challenge" => calls' = calls + 1 /\ q.body = <<calls'>>
          PROVE  /\ IsSeq(toUnits')
                 /\ \A i \in 1 .. Len(toUnits') :
                       toUnits'[i].kind = "challenge" =>
                           \E n \in 1 .. calls' : toUnits'[i].body = <<n>>
      <4>1. /\ IsSeq(toUnits') /\ Len(toUnits') = Len(toUnits) + 1 /\ Len(toUnits) \in Nat
            /\ \A i \in 1 .. Len(toUnits) : toUnits'[i] = toUnits[i]
            /\ toUnits'[Len(toUnits) + 1] = q
        BY <3>2, AppendSeq DEF Links
      <4>2. q.kind = "challenge" => \E n \in 1 .. calls' : q.body = <<n>>
        BY <3>0, <3>2
      <4>3. ASSUME NEW i \in 1 .. Len(toUnits), toUnits[i].kind = "challenge"
            PROVE  \E n \in 1 .. calls' : toUnits[i].body = <<n>>
        BY <3>0, <4>3 DEF Dated
      <4> QED
        BY <4>1, <4>2, <4>3
    <3>3. CASE \E q : /\ toUnits' = Append(toUnits, q)
                      /\ q.kind = "challenge" => calls' = calls + 1 /\ q.body = <<calls'>>
      <4>1. PICK q : /\ toUnits' = Append(toUnits, q)
                     /\ q.kind = "challenge" => calls' = calls + 1 /\ q.body = <<calls'>>
        BY <3>3
      <4> QED
        BY <3>2, <4>1
    <3> QED
      BY <1>1, <3>1, <3>3
  <2>3. \A i \in 1 .. Len(toClient') : toClient'[i].kind = "proof" =>
           \E n \in 1 .. calls' : toClient'[i].body[2][2] = <<n>>
    <3> SUFFICES ASSUME NEW i \in 1 .. Len(toClient'), toClient'[i].kind = "proof"
                 PROVE  \E n \in 1 .. calls' : toClient'[i].body[2][2] = <<n>>
      OBVIOUS
    <3>1. PICK j \in 1 .. Len(toClient) : toClient'[i] = toClient[j]
      BY <2>1
    <3>2. PICK n \in 1 .. calls : toClient[j].body[2][2] = <<n>>
      BY <3>1 DEF Dated
    <3>3. n \in 1 .. calls'
      BY <1>1 DEF Links
    <3> QED
      BY <3>1, <3>2, <3>3
  <2>4. calls' \in Nat /\ exchange' \in [Alive -> Nonces \union {None}]
    BY <1>1 DEF Links
  <2>5. \A i \in 1 .. Len(toClient') : toClient'[i].kind \in AnswerKinds
    BY <2>1 DEF Dated
  <2> QED
    BY <2>1, <2>2, <2>3, <2>4, <2>5 DEF Links, Dated
<1>2. ASSUME NEW i \in 1 .. Len(toUnits), Serve(i) PROVE Links' /\ Dated'
  <2> DEFINE q == toUnits[i]
             a == Answer(q)
  <2>1. /\ IsSeq(toUnits') /\ calls' = calls
        /\ \A k \in 1 .. Len(toUnits') :
              \E j \in 1 .. Len(toUnits) : toUnits'[k] = toUnits[j]
    <3>1. toUnits' = RemoveAt(toUnits, i) /\ calls' = calls /\ IsSeq(toUnits)
      BY <1>2 DEF Links, Serve
    <3>2. /\ IsSeq(toUnits') /\ Len(toUnits') = Len(toUnits) - 1 /\ Len(toUnits) \in Nat
          /\ \A k \in 1 .. Len(toUnits) - 1 :
                toUnits'[k] = IF k < i THEN toUnits[k] ELSE toUnits[k + 1]
      BY <3>1, RemoveSeq
    <3>3. \A k \in 1 .. Len(toUnits') : k \in 1 .. Len(toUnits) /\ k + 1 \in 1 .. Len(toUnits)
      BY <3>2
    <3> QED
      BY <3>1, <3>2, <3>3
  <2>2. \A k \in 1 .. Len(toUnits') :
           toUnits'[k].kind = "challenge" => \E n \in 1 .. calls : toUnits'[k].body = <<n>>
    BY <2>1 DEF Dated
  <2>3. CASE q.unit \notin Alive
    <3>1. UNCHANGED <<toClient, exchange>>
      BY <1>2, <2>3 DEF Serve
    <3> QED
      BY <2>1, <2>2, <3>1 DEF Links, Dated
  <2>4. CASE q.unit \in Alive
    <3>1. /\ toClient' = Append(toClient, a)
          /\ exchange' = IF a.kind = "proof" THEN [exchange EXCEPT ![q.unit] = q.body]
                                             ELSE exchange
      BY <1>2, <2>4 DEF Serve
    <3>2. /\ IsSeq(toClient') /\ Len(toClient') = Len(toClient) + 1 /\ Len(toClient) \in Nat
          /\ \A k \in 1 .. Len(toClient) : toClient'[k] = toClient[k]
          /\ toClient'[Len(toClient) + 1] = a
      BY <3>1, AppendSeq DEF Links
    <3>3. a.kind = "proof" => \E n \in 1 .. calls : q.body = <<n>> /\ a.body[2][2] = <<n>>
      <4> SUFFICES ASSUME a.kind = "proof"
                   PROVE  \E n \in 1 .. calls : q.body = <<n>> /\ a.body[2][2] = <<n>>
        OBVIOUS
      <4>1. q.kind = "challenge" /\ a = Proof(q.unit, q.body)
        BY Kinds
      <4>2. PICK n \in 1 .. calls : q.body = <<n>>
        BY <4>1 DEF Dated
      <4>3. a.body[2][2] = q.body
        BY <4>1 DEF Proof, Request, HMAC
      <4> QED
        BY <4>2, <4>3
    <3> HIDE DEF a
    <3>4. exchange' \in [Alive -> Nonces \union {None}]
      <4>1. \A n \in 1 .. calls : <<n>> \in Nonces
        BY DEF Nonces, Links
      <4> QED
        BY <2>4, <3>1, <3>3, <4>1 DEF Links
    <3>5. \A k \in 1 .. Len(toClient') : toClient'[k].kind = "proof" =>
             \E n \in 1 .. calls : toClient'[k].body[2][2] = <<n>>
      <4> SUFFICES ASSUME NEW k \in 1 .. Len(toClient'), toClient'[k].kind = "proof"
                   PROVE  \E n \in 1 .. calls : toClient'[k].body[2][2] = <<n>>
        OBVIOUS
      <4>1. CASE k \in 1 .. Len(toClient)
        BY <3>2, <4>1 DEF Dated
      <4>2. CASE k = Len(toClient) + 1
        BY <3>2, <3>3, <4>2
      <4> QED
        BY <3>2, <4>1, <4>2
    <3>6. \A k \in 1 .. Len(toClient') : toClient'[k].kind \in AnswerKinds
      <4> SUFFICES ASSUME NEW k \in 1 .. Len(toClient') PROVE toClient'[k].kind \in AnswerKinds
        OBVIOUS
      <4>1. CASE k \in 1 .. Len(toClient)
        BY <3>2, <4>1 DEF Dated
      <4>2. CASE k = Len(toClient) + 1
        BY <3>2, <4>2, Kinds DEF a
      <4> QED
        BY <3>2, <4>1, <4>2
    <3> QED
      BY <2>1, <2>2, <3>2, <3>4, <3>5, <3>6 DEF Links, Dated
  <2> QED
    BY <2>3, <2>4
<1>3. CASE \/ Scan \/ ProbeNotSent \/ ProbeFails \/ DiscoverFails \/ ScanDone
           \/ AuthenticateFails \/ (\E u \in Units : AuthenticateNotSent(u)) \/ UNCHANGED vars
  <2>1. UNCHANGED <<exchange, toClient, toUnits>> /\ calls' \in {calls, calls + 1}
    BY <1>3 DEF Scan, Probe, ProbeNotSent, ProbeFails, DiscoverFails, ScanDone,
                AuthenticateFails, AuthenticateNotSent, vars
  <2> QED
    BY <1>1, <2>1
<1>4. ASSUME NEW u \in Units, Authenticate(u) PROVE Links' /\ Dated'
  <2>1. /\ UNCHANGED <<exchange, toClient>> /\ calls' = calls + 1
        /\ \/ toUnits' = toUnits
           \/ toUnits' = Append(toUnits, Request(u, "challenge", <<calls'>>))
    BY <1>4 DEF Authenticate, Send
  <2>2. Request(u, "challenge", <<calls'>>).body = <<calls'>>
    BY DEF Request
  <2> QED
    BY <1>1, <2>1, <2>2
<1>5. CASE \/ ProbeSend \/ ProbeReceive \/ ChallengeReceive \/ ChallengeNotSent
           \/ ConfirmReceive \/ DiscoverReceive
  <2>1. /\ UNCHANGED <<exchange, calls>>
        /\ toClient' = toClient \/ (toClient # << >> /\ toClient' = Tail(toClient))
    BY <1>5 DEF Probe, ProbeSend, ProbeReceive, ChallengeReceive, ChallengeNotSent,
                ConfirmReceive, DiscoverReceive
  <2>2. \/ toUnits' = toUnits
        \/ toUnits' = Append(toUnits, Request(id, "read", None))
        \/ toUnits' = Append(toUnits, Request(id, "discover", None))
        \/ toUnits' = Append(toUnits, Request(id, "response",
              AuthResponse(Credential[id], nonces.client, Head(toClient).body[1])))
    BY <1>5 DEF ProbeSend, ProbeReceive, ChallengeReceive, ChallengeNotSent, ConfirmReceive,
                DiscoverReceive, Send
  <2>3. \A k, b : k \in {"read", "discover", "response"} => Request(id, k, b).kind # "challenge"
    BY DEF Request
  <2>4. \/ toUnits' = toUnits
        \/ \E q : toUnits' = Append(toUnits, q) /\ q.kind # "challenge"
    BY <2>2, <2>3
  <2> QED
    BY <1>1, <2>1, <2>4
<1> QED
  BY <1>2, <1>3, <1>4, <1>5 DEF Next, ClientStep

-----------------------------------------------------------------------------
(* Scanning                                                                *)

(* The answer to the request for the capabilities of u.                    *)
Offer(u) ==
    IF u \in Extended THEN Request(u, "capabilities", u) ELSE Request(u, "exception", None)

(* A probe that began with nothing under way waits for its own answer.     *)
Probing ==
    /\ at \in {"probing", "discovering"} =>
           info = [unit |-> id, capabilities |-> None, calm |-> info.calm]
    /\ at = "probing" /\ info.calm =>
           Alone(Request(id, "read", None), Request(id, "data", None))
    /\ at = "discovering" /\ info.calm =>
           id \in Alive /\ Alone(Request(id, "discover", None), Offer(id))

(* What may be said of a device that was found.                            *)
TrueOf(d) ==
    d.calm =>
        /\ d.unit \in Alive
        /\ d.capabilities \in {None, <<d.unit>>}
        /\ d.unit \notin Extended => d.capabilities = None

ScanInv == Probing /\ IsSeq(devices) /\ \A i \in 1 .. Len(devices) : TrueOf(devices[i])

LEMMA FoundTrue ==
    ASSUME ScanInv, NEW d, TrueOf(d), Found(d)
    PROVE  /\ IsSeq(devices') /\ \A i \in 1 .. Len(devices') : TrueOf(devices'[i])
           /\ at' \in {"probe", "done"}
<1>1. devices' = Append(devices, d) /\ IsSeq(devices)
  BY DEF Found, ScanInv
<1>2. /\ IsSeq(devices') /\ Len(devices') = Len(devices) + 1 /\ Len(devices) \in Nat
      /\ \A i \in 1 .. Len(devices) : devices'[i] = devices[i]
      /\ devices'[Len(devices) + 1] = d
  BY <1>1, AppendSeq
<1>3. ASSUME NEW i \in 1 .. Len(devices') PROVE TrueOf(devices'[i])
  <2>1. CASE i \in 1 .. Len(devices)
    BY <1>2, <2>1 DEF ScanInv
  <2>2. CASE i = Len(devices) + 1
    BY <1>2, <2>2
  <2> QED
    BY <1>2, <2>1, <2>2
<1> QED
  BY <1>2, <1>3 DEF Found, NextUnit

LEMMA ScanStep == Links /\ ScanInv /\ [Next]_vars => ScanInv'
<1> SUFFICES ASSUME Links, ScanInv, [Next]_vars PROVE ScanInv'
  OBVIOUS
<1> USE DEF linkVars, unitVars, scanVars, authVars
<1>0. Probing /\ IsSeq(devices) /\ \A i \in 1 .. Len(devices) : TrueOf(devices[i])
  BY DEF ScanInv
<1>1. ASSUME at' \notin {"probing", "discovering"}, devices' = devices PROVE ScanInv'
  BY <1>0, <1>1 DEF ScanInv, Probing
<1>2. CASE \/ ScanDone \/ AuthenticateFails
           \/ \E u \in Units : Authenticate(u) \/ AuthenticateNotSent(u)
  <2>1. devices' = devices /\ at \notin {"probing", "discovering"} /\
        (at' = at \/ at' \in {"idle", "challenged"})
    BY <1>2 DEF ScanDone, AuthenticateFails, Authenticate, AuthenticateNotSent, End
  <2> QED
    BY <1>1, <2>1
<1>3. CASE ChallengeReceive \/ ChallengeNotSent \/ ConfirmReceive
  <2>1. devices' = devices /\ at' \in {"idle", "responded"}
    BY <1>3 DEF ChallengeReceive, ChallengeNotSent, ConfirmReceive, End
  <2> QED
    BY <1>1, <2>1
<1>4. CASE Scan
  <2>1. devices' = << >> /\ at' \in {"probe", "done"}
    BY <1>4 DEF Scan
  <2>2. IsSeq(devices') /\ Len(devices') = 0
    BY <2>1, NoSeq
  <2> QED
    BY <2>1, <2>2 DEF ScanInv, Probing
<1>5. CASE ProbeFails \/ ProbeNotSent
  <2>1. devices' = devices /\ at' \in {"probe", "done"}
    BY <1>5 DEF ProbeFails, Probe, ProbeNotSent, NextUnit
  <2> QED
    BY <1>1, <2>1
<1>6. CASE UNCHANGED vars
  BY <1>0, <1>6 DEF ScanInv, Probing, Alone, vars
<1>7. CASE ProbeSend
  <2>1. /\ info' = NewInfo(id) /\ id' = id /\ at' = "probing" /\ UNCHANGED <<toClient, devices>>
        /\ toUnits' = Append(toUnits, Request(id, "read", None))
    BY <1>7 DEF Probe, ProbeSend, Send
  <2>2. /\ info' = [unit |-> id, capabilities |-> None, calm |-> info'.calm]
        /\ info'.calm => toUnits = << >> /\ toClient = << >>
    BY <2>1 DEF NewInfo, Calm
  <2>3. info'.calm => Alone(Request(id, "read", None), Request(id, "data", None))'
    BY <2>1, <2>2, LoneSeq DEF Alone
  <2> QED
    BY <1>0, <2>1, <2>2, <2>3 DEF ScanInv, Probing
<1>8. CASE ProbeReceive
  <2>1. /\ at = "probing" /\ toClient # << >> /\ toClient' = Tail(toClient) /\ info' = info
        /\ info = [unit |-> id, capabilities |-> None, calm |-> info.calm]
    BY <1>0, <1>8 DEF ProbeReceive, Probing
  <2>2. info.calm =>
           id \in Alive /\ toUnits = << >> /\ Tail(toClient) = << >>
    <3>1. Request(id, "read", None).unit = id
      BY DEF Request
    <3> QED
      BY <1>0, <2>1, <3>1, TakeAlone DEF Probing
  <2>3. CASE Found(info)
    <3>1. TrueOf(info)
      BY <2>1, <2>2 DEF TrueOf
    <3> QED
      BY <2>3, <3>1, FoundTrue DEF ScanInv, Probing
  <2>4. CASE /\ toUnits' = Append(toUnits, Request(id, "discover", None))
             /\ at' = "discovering" /\ UNCHANGED <<id, devices>>
    <3>1. info.calm => Alone(Request(id, "discover", None), Offer(id))'
      BY <2>1, <2>2, <2>4, LoneSeq DEF Alone
    <3> QED
      BY <1>0, <2>1, <2>2, <2>4, <3>1 DEF ScanInv, Probing
  <2> QED
    BY <1>8, <2>3, <2>4 DEF ProbeReceive, Send
<1>9. CASE DiscoverReceive \/ DiscoverFails
  <2>1. at = "discovering" /\ info = [unit |-> id, capabilities |-> None, calm |-> info.calm]
    BY <1>0, <1>9 DEF DiscoverReceive, DiscoverFails, Probing
  <2>2. info.calm => id \in Alive
    BY <1>0, <2>1 DEF Probing
  <2>3. CASE Found(info)
    <3>1. TrueOf(info)
      BY <2>1, <2>2 DEF TrueOf
    <3> QED
      BY <2>3, <3>1, FoundTrue DEF ScanInv, Probing
  <2>4. CASE /\ toClient # << >> /\ Head(toClient).kind = "capabilities"
             /\ Found([info EXCEPT !.capabilities = <<Head(toClient).body>>])
    <3>1. info.calm => Head(toClient) = Offer(id)
      <4>1. Request(id, "discover", None).unit = id
        BY DEF Request
      <4> QED
        BY <1>0, <2>1, <2>4, <4>1, TakeAlone DEF Probing
    <3>2. info.calm => id \in Extended /\ Head(toClient).body = id
      BY <2>4, <3>1 DEF Offer, Request
    <3>3. [info EXCEPT !.capabilities = <<Head(toClient).body>>] =
             [unit |-> id, capabilities |-> <<Head(toClient).body>>, calm |-> info.calm]
      BY <2>1
    <3>4. TrueOf([info EXCEPT !.capabilities = <<Head(toClient).body>>])
      BY <2>2, <3>2, <3>3 DEF TrueOf
    <3> QED
      BY <2>4, <3>4, FoundTrue DEF ScanInv, Probing
  <2> QED
    BY <1>9, <2>3, <2>4 DEF DiscoverReceive, DiscoverFails
<1>10. ASSUME NEW i \in 1 .. Len(toUnits), Serve(i) PROVE ScanInv'
  <2>1. UNCHANGED <<at, id, info, devices>>
    BY <1>10 DEF Serve
  <2>2. at = "probing" /\ info.calm =>
           Alone(Request(id, "read", None), Request(id, "data", None))'
    <3> SUFFICES ASSUME at = "probing", info.calm
                 PROVE  Alone(Request(id, "read", None), Request(id, "data", None))'
      OBVIOUS
    <3>1. Alone(Request(id, "read", None), Request(id, "data", None))
      BY <1>0 DEF Probing
    <3>2. /\ toUnits' = << >>
          /\ toClient' = IF Request(id, "read", None).unit \in Alive
                         THEN <<Request(id, "data", None)>> ELSE << >>
      BY <1>10, <3>1, Answers, ServeAlone
    <3> QED
      BY <2>1, <3>2 DEF Alone, Request
  <2>3. at = "discovering" /\ info.calm =>
           Alone(Request(id, "discover", None), Offer(id))'
    <3> SUFFICES ASSUME at = "discovering", info.calm
                 PROVE  Alone(Request(id, "discover", None), Offer(id))'
      OBVIOUS
    <3>1. Alone(Request(id, "discover", None), Offer(id))
      BY <1>0 DEF Probing
    <3>2. Answer(Request(id, "discover", None)) = Offer(id)
      BY Answers DEF Offer
    <3>3. /\ toUnits' = << >>
          /\ toClient' = IF Request(id, "discover", None).unit \in Alive
                         THEN <<Offer(id)>> ELSE << >>
      BY <1>10, <3>1, <3>2, ServeAlone
    <3> QED
      BY <2>1, <3>3 DEF Alone, Request, Offer
  <2> QED
    BY <1>0, <2>1, <2>2, <2>3 DEF ScanInv, Probing
<1> QED
  BY <1>2, <1>3, <1>4, <1>5, <1>6, <1>7, <1>8, <1>9, <1>10 DEF Next, ClientStep

(* What scan reports is true of every unit whose probe began with nothing  *)
(* under way (Scanner::probe and discover, a fresh DeviceInfo per unit),   *)
(* for any range, any units and any late or lost answers before it.        *)
THEOREM ScanTrue == Spec => []FoundWhenCalm
<1>1. Init => Links /\ Dated /\ ScanInv
  BY NoSeq DEF Init, Links, Dated, ScanInv, Probing
<1>2. ScanInv => FoundWhenCalm
  BY DEF ScanInv, TrueOf, FoundWhenCalm
<1> QED
  BY <1>1, <1>2, LinksStep, ScanStep, PTL DEF Spec

-----------------------------------------------------------------------------
(* The handshake                                                           *)

ChallengeAnswer(u, c) ==
    IF u \in Extended THEN Proof(u, c) ELSE Request(u, "exception", None)

(* The challenge of this call and the proof for it are the last of what is *)
(* under way.                                                              *)
Newest ==
    /\ \A i \in 1 .. Len(toUnits) :
          toUnits[i].kind = "challenge" /\ toUnits[i].body = <<calls>> =>
              i = Len(toUnits) /\ toUnits[i].unit = id
    /\ \A i \in 1 .. Len(toClient) :
          toClient[i].kind = "proof" /\ toClient[i].body[2][2] = <<calls>> =>
              /\ i = Len(toClient) /\ toUnits = << >>
              /\ id \in Extended /\ toClient[i] = Proof(id, <<calls>>)
              /\ exchange[id] = <<calls>>

Challenged ==
    at = "challenged" =>
        /\ nonces = [client |-> <<calls>>, server |-> None]
        /\ id \in DOMAIN Credential /\ smooth /\ outcome.how = "none"
        /\ calm =>
              /\ Alone(Request(id, "challenge", <<calls>>), ChallengeAnswer(id, <<calls>>))
              /\ toUnits = << >> /\ id \in Extended => exchange[id] = <<calls>>
        /\ inTurn => Newest

(* Both sides have the nonces and the secret, and the response or the      *)
(* confirmation is all there is under way.                                 *)
Agreed ==
    /\ CanAuthenticate(id)
    /\ nonces = [client |-> <<calls>>, server |-> ServerNonce(id, <<calls>>)]
    /\ exchange[id] = <<calls>>
    /\ Alone(Request(id, "response",
                     AuthResponse(Credential[id], <<calls>>, ServerNonce(id, <<calls>>))),
             Request(id, "confirmation", Token(id, <<calls>>)))
    /\ toUnits = << >> => Token(id, <<calls>>) \in confirmed

Responded ==
    at = "responded" => outcome.how = "none" /\ (inTurn \/ calm => Agreed)

HandshakeInv ==
    Challenged /\ Responded /\ SessionAgrees /\ HandshakeDecides

(* What lets a session agree does not go away.                             *)
LEMMA SessionKept ==
    ASSUME SessionAgrees, UNCHANGED <<inTurn, session>>, confirmed \subseteq confirmed'
    PROVE  SessionAgrees'
  BY DEF SessionAgrees, SessionKey, HMAC, ServerNonce

(* A step of no handshake.                                                 *)
LEMMA NoHandshake ==
    ASSUME HandshakeInv, at' \notin {"challenged", "responded"},
           UNCHANGED <<inTurn, session, confirmed, outcome, calm, smooth>>
    PROVE  HandshakeInv'
<1>1. SessionAgrees'
  BY SessionKept DEF HandshakeInv
<1>2. HandshakeDecides'
  BY DEF HandshakeInv, HandshakeDecides, CanAuthenticate
<1> QED
  BY <1>1, <1>2 DEF HandshakeInv, Challenged, Responded

(* The challenge is sent: it is newer than all that is under way.          *)
LEMMA ChallengeSent ==
    ASSUME Links, Dated, HandshakeInv, NEW u \in Units, Authenticate(u)
    PROVE  HandshakeInv'
<1> USE DEF linkVars, unitVars, scanVars, authVars
<1>1. /\ calls' = calls + 1 /\ calls \in Nat /\ id' = u /\ (calm' <=> Calm)
      /\ UNCHANGED <<inTurn, toClient, session, confirmed>> /\ at = "idle"
  BY DEF Authenticate, Links
<1>2. SessionAgrees'
  BY <1>1, SessionKept DEF HandshakeInv
<1>3. CASE u \notin DOMAIN Credential
  <2>1. outcome' = [how |-> "failed", unit |-> u] /\ at' = at
    BY <1>3 DEF Authenticate
  <2>2. HandshakeDecides'
    BY <1>3, <2>1 DEF HandshakeDecides, CanAuthenticate
  <2> QED
    BY <1>1, <1>2, <2>1, <2>2 DEF HandshakeInv, Challenged, Responded
<1>4. CASE u \in DOMAIN Credential
  <2> DEFINE q == Request(u, "challenge", <<calls'>>)
  <2>1. /\ nonces' = [client |-> <<calls'>>, server |-> None] /\ smooth' = TRUE
        /\ toUnits' = Append(toUnits, q) /\ at' = "challenged"
        /\ outcome' = [how |-> "none", unit |-> u]
    BY <1>4 DEF Authenticate, Send
  <2>2. q.kind = "challenge" /\ q.unit = u
    BY DEF Request
  <2>3. /\ Len(toUnits') = Len(toUnits) + 1 /\ Len(toUnits) \in Nat /\ toUnits' # << >>
        /\ \A i \in 1 .. Len(toUnits) : toUnits'[i] = toUnits[i]
        /\ toUnits'[Len(toUnits) + 1] = q
    BY <2>1, AppendSeq DEF Links
  <2>4. \A n \in 1 .. calls : <<n>> # <<calls'>>
    BY <1>1
  <2>5. ASSUME NEW i \in 1 .. Len(toUnits'), toUnits'[i].kind = "challenge",
               toUnits'[i].body = <<calls'>>
        PROVE  i = Len(toUnits') /\ toUnits'[i].unit = u
    <3>1. CASE i \in 1 .. Len(toUnits)
      BY <2>3, <2>4, <2>5, <3>1 DEF Dated
    <3>2. CASE i = Len(toUnits) + 1
      BY <2>2, <2>3, <3>2
    <3> QED
      BY <2>3, <3>1, <3>2
  <2>6. ASSUME NEW i \in 1 .. Len(toClient), toClient[i].kind = "proof"
        PROVE  toClient[i].body[2][2] # <<calls'>>
    BY <2>4, <2>6 DEF Dated
  <2>7. Newest'
    BY <1>1, <2>5, <2>6 DEF Newest
  <2>8. calm' => toUnits' = <<q>> /\ toClient' = << >>
    BY <1>1, <2>1, LoneSeq DEF Calm
  <2>9. Challenged'
    BY <1>1, <1>4, <2>1, <2>3, <2>7, <2>8 DEF Challenged, Alone
  <2>10. HandshakeDecides' /\ Responded'
    BY <2>1 DEF HandshakeDecides, Responded
  <2> QED
    BY <1>2, <2>9, <2>10 DEF HandshakeInv
<1> QED
  BY <1>3, <1>4

(* The answer to the challenge: only the proof for it passes, and then     *)
(* both sides agree.                                                       *)
LEMMA ProofReceived ==
    ASSUME Links, Dated, HandshakeInv, ChallengeReceive
    PROVE  HandshakeInv'
<1> USE DEF linkVars, unitVars, scanVars, authVars
<1> DEFINE f == Head(toClient)
           c == <<calls>>
<1>1. /\ at = "challenged" /\ toClient # << >> /\ toClient' = Tail(toClient)
      /\ UNCHANGED <<inTurn, id, session, confirmed, calm, smooth, calls, exchange>>
  BY DEF ChallengeReceive
<1>2. /\ nonces = [client |-> c, server |-> None]
      /\ id \in DOMAIN Credential /\ smooth /\ outcome.how = "none"
      /\ calm =>
            /\ Alone(Request(id, "challenge", c), ChallengeAnswer(id, c))
            /\ toUnits = << >> /\ id \in Extended => exchange[id] = c
      /\ inTurn => Newest
  BY <1>1 DEF HandshakeInv, Challenged
<1>3. SessionAgrees'
  BY <1>1, SessionKept DEF HandshakeInv
<1>4. calm => f = ChallengeAnswer(id, c) /\ toUnits = << >> /\ Tail(toClient) = << >>
  <2>1. Request(id, "challenge", c).unit = id
    BY DEF Request
  <2> QED
    BY <1>1, <1>2, <2>1, TakeAlone
<1>5. ASSUME BigEnough(f, 48) /\ ProofHolds(f), inTurn \/ calm
      PROVE  /\ id \in Extended /\ f = Proof(id, c) /\ exchange[id] = c
             /\ toUnits = << >> /\ Tail(toClient) = << >>
  <2>1. CASE calm
    BY <1>2, <1>4, <1>5, <2>1 DEF ChallengeAnswer, BigEnough, Request
  <2>2. CASE inTurn
    <3>1. /\ f = toClient[1] /\ Len(toClient) \in Nat \ {0} /\ 1 \in 1 .. Len(toClient)
          /\ Len(Tail(toClient)) = Len(toClient) - 1 /\ IsSeq(Tail(toClient))
      BY <1>1, TailSeq DEF Links
    <3>2. f.kind = "proof"
      BY <1>5, <3>1 DEF BigEnough, PayloadSize, Dated, AnswerKinds
    <3>3. f.body[2][2] = c
      BY <1>2, <1>5 DEF ProofHolds, HMAC
    <3>4. /\ 1 = Len(toClient) /\ toUnits = << >> /\ id \in Extended
          /\ f = Proof(id, c) /\ exchange[id] = c
      BY <1>2, <2>2, <3>1, <3>2, <3>3 DEF Newest
    <3>5. Tail(toClient) = << >>
      BY <3>1, <3>4, ZeroSeq
    <3> QED
      BY <3>4, <3>5
  <2> QED
    BY <1>5, <2>1, <2>2
<1>6. CASE BigEnough(f, 48) /\ ProofHolds(f)
  <2> DEFINE s == f.body[1]
             q == Request(id, "response", AuthResponse(Credential[id], c, s))
  <2>1. /\ nonces' = [nonces EXCEPT !.server = s] /\ at' = "responded" /\ outcome' = outcome
        /\ toUnits' = Append(toUnits, q)
    BY <1>2, <1>6 DEF ChallengeReceive, Send
  <2>2. HandshakeDecides' /\ Challenged'
    BY <1>2, <2>1 DEF HandshakeDecides, Challenged
  <2>3. ASSUME inTurn \/ calm PROVE Agreed'
    <3>1. /\ id \in Extended /\ f = Proof(id, c) /\ exchange[id] = c
          /\ toUnits = << >> /\ Tail(toClient) = << >>
      BY <1>5, <1>6, <2>3
    <3>2. s = ServerNonce(id, c) /\ f.body[2] = HMAC(SecretOf[id], c, s)
      BY <3>1 DEF Proof, Request
    <3>3. Credential[id] = SecretOf[id]
      BY <1>2, <1>6, <3>2 DEF ProofHolds, HMAC
    <3>4. toUnits' = <<q>> /\ toClient' = << >> /\ toUnits' # << >>
      BY <1>1, <2>1, <3>1, LoneSeq, NoSeq
    <3>5. nonces' = [client |-> c, server |-> ServerNonce(id, c)]
      BY <1>2, <2>1, <3>2
    <3>6. ServerNonce(id, c)' = ServerNonce(id, c) /\ c' = c
      BY <1>1 DEF ServerNonce
    <3> QED
      BY <1>1, <1>2, <3>1, <3>2, <3>3, <3>4, <3>5, <3>6 DEF Agreed, CanAuthenticate, Alone
  <2>4. Responded'
    BY <1>1, <1>2, <2>1, <2>3 DEF Responded
  <2> QED
    BY <1>3, <2>2, <2>4 DEF HandshakeInv
<1>7. CASE ~(BigEnough(f, 48) /\ ProofHolds(f))
  <2>1. at' = "idle" /\ outcome' = [how |-> "failed", unit |-> id]
    BY <1>7 DEF ChallengeReceive, End
  <2>2. ASSUME calm PROVE ~CanAuthenticate(id)
    <3> SUFFICES ASSUME CanAuthenticate(id) PROVE BigEnough(f, 48) /\ ProofHolds(f)
      BY <1>7
    <3>1. f = Proof(id, c) /\ Credential[id] = SecretOf[id]
      BY <1>4, <2>2 DEF ChallengeAnswer, CanAuthenticate
    <3> QED
      BY <1>2, <3>1 DEF Proof, Request, BigEnough, PayloadSize, ProofHolds
  <2>3. HandshakeDecides'
    BY <1>1, <2>1, <2>2 DEF HandshakeDecides, CanAuthenticate
  <2> QED
    BY <1>3, <2>1, <2>3 DEF HandshakeInv, Challenged, Responded
<1> QED
  BY <1>6, <1>7

LEMMA TokenFields ==
    ASSUME NEW u, NEW n
    PROVE  Token(u, <<n>>)[1] = u /\ Token(u, <<n>>)[2] = n
<1>1. /\ <<u>> \in Seq({u, n, 0}) /\ <<n>> \in Seq({u, n, 0}) /\ <<0>> \in Seq({u, n, 0})
      /\ Len(<<u>>) = 1 /\ Len(<<n>>) = 1 /\ Len(<<0>>) = 1
  OBVIOUS
<1>2. <<u>> \o <<n>> \in Seq({u, n, 0}) /\ Len(<<u>> \o <<n>>) = 2
      /\ (<<u>> \o <<n>>)[1] = u /\ (<<u>> \o <<n>>)[2] = n
  BY <1>1
<1> QED
  BY <1>1, <1>2 DEF Token

(* The confirmation, or what is taken for it, makes the session.           *)
LEMMA Confirmed ==
    ASSUME Links, HandshakeInv, ConfirmReceive
    PROVE  HandshakeInv'
<1> USE DEF linkVars, unitVars, scanVars, authVars
<1> DEFINE f == Head(toClient)
           c == <<calls>>
<1>1. /\ at = "responded" /\ toClient # << >> /\ at' = "idle"
      /\ UNCHANGED <<inTurn, id, confirmed, calm, smooth>>
  BY DEF ConfirmReceive, End
<1>2. ASSUME inTurn \/ calm
      PROVE  /\ Agreed /\ f = Request(id, "confirmation", Token(id, c)) /\ BigEnough(f, 24)
             /\ Token(id, c) \in confirmed
  <2>1. Agreed
    BY <1>1, <1>2 DEF HandshakeInv, Responded
  <2>2. f = Request(id, "confirmation", Token(id, c)) /\ toUnits = << >>
    BY <1>1, <2>1, TakeAlone DEF Agreed
  <2>3. BigEnough(f, 24)
    BY <2>2 DEF BigEnough, PayloadSize, Request
  <2> QED
    BY <2>1, <2>2, <2>3 DEF Agreed
<1>3. Challenged' /\ Responded'
  BY <1>1 DEF Challenged, Responded
<1>4. CASE ~BigEnough(f, 24) /\ End("failed") /\ UNCHANGED session
  <2>1. SessionAgrees'
    BY <1>1, <1>4, SessionKept DEF HandshakeInv
  <2>2. outcome' = [how |-> "failed", unit |-> id]
    BY <1>4 DEF End
  <2>3. HandshakeDecides'
    BY <1>1, <1>2, <1>4, <2>2 DEF HandshakeDecides
  <2> QED
    BY <1>3, <2>1, <2>3 DEF HandshakeInv
<1>5. CASE /\ BigEnough(f, 24) /\ End("session")
           /\ session' = <<[unit |-> id,
                            token |-> IF f.kind = "proof" THEN f.body[1] ELSE f.body,
                            key |-> SessionKey(Credential[id], nonces.client, nonces.server),
                            calm |-> calm]>>
  <2>1. outcome' = [how |-> "session", unit |-> id]
    BY <1>5 DEF End
  <2>2. HandshakeDecides'
    <3>1. calm => CanAuthenticate(id)
      BY <1>2 DEF Agreed
    <3> QED
      BY <1>1, <2>1, <3>1 DEF HandshakeDecides, CanAuthenticate
  <2>3. SessionAgrees'
    <3> DEFINE s == [unit |-> id, token |-> IF f.kind = "proof" THEN f.body[1] ELSE f.body,
                     key |-> SessionKey(Credential[id], nonces.client, nonces.server),
                     calm |-> calm]
    <3>1. session' = <<s>> /\ Len(<<s>>) = 1 /\ <<s>>[1] = s
      BY <1>5
    <3>2. ASSUME inTurn \/ calm
          PROVE  /\ s.token \in confirmed /\ s.token[1] = s.unit
                 /\ s.key = SessionKey(SecretOf[s.unit], <<s.token[2]>>,
                                       ServerNonce(s.unit, <<s.token[2]>>))
      <4>1. s.token = Token(id, c) /\ s.unit = id /\ s.token \in confirmed
        BY <1>2, <3>2 DEF Request
      <4>3. s.token[1] = id /\ <<s.token[2]>> = c
        BY <4>1, TokenFields
      <4>4. s.key = SessionKey(SecretOf[id], c, ServerNonce(id, c))
        BY <1>2, <3>2 DEF Agreed, CanAuthenticate
      <4> QED
        BY <4>1, <4>3, <4>4
    <3>3. s.calm = calm
      OBVIOUS
    <3> HIDE DEF s
    <3> QED
      BY <1>1, <3>1, <3>2, <3>3 DEF SessionAgrees, SessionKey, HMAC, ServerNonce
  <2> QED
    BY <1>3, <2>2, <2>3 DEF HandshakeInv
<1> QED
  BY <1>4, <1>5 DEF ConfirmReceive

(* A unit serves: only the request of the handshake itself is answered     *)
(* with its proof or its confirmation.                                     *)
LEMMA Served ==
    ASSUME Links, Dated, HandshakeInv, NEW i \in 1 .. Len(toUnits), Serve(i)
    PROVE  HandshakeInv'
<1> USE DEF linkVars, unitVars, scanVars, authVars
<1> DEFINE c == <<calls>>
<1>1. UNCHANGED <<inTurn, at, id, nonces, session, outcome, calm, smooth, calls>>
  BY DEF Serve
<1>2. confirmed \subseteq confirmed'
  BY DEF Serve
<1>3. SessionAgrees' /\ HandshakeDecides'
  BY <1>1, <1>2, SessionKept DEF HandshakeInv, HandshakeDecides, CanAuthenticate
<1>4. toUnits # << >>
  BY NoSeq
<1>5. ASSUME at = "challenged", calm
      PROVE  /\ Alone(Request(id, "challenge", c), ChallengeAnswer(id, c))'
             /\ id \in Extended => exchange'[id] = c
  <2> DEFINE q == Request(id, "challenge", c)
             a == ChallengeAnswer(id, c)
  <2>1. Alone(q, a) /\ Answer(q) = a /\ q.unit = id /\ q.body = c
    BY <1>5, Answers DEF HandshakeInv, Challenged, ChallengeAnswer, Request
  <2>2. /\ toUnits' = << >>
        /\ toClient' = IF q.unit \in Alive THEN <<a>> ELSE << >>
        /\ q.unit \in Alive =>
              exchange' = IF a.kind = "proof" THEN [exchange EXCEPT ![q.unit] = q.body]
                                              ELSE exchange
    BY <2>1, ServeAlone
  <2>3. a' = a /\ q' = q
    BY <1>1 DEF ChallengeAnswer, Proof, Request, ServerNonce, HMAC
  <2>4. Alone(q, a)'
    BY <2>1, <2>2, <2>3 DEF Alone
  <2>5. ASSUME id \in Extended PROVE exchange'[id] = c
    <3>1. id \in Alive /\ a.kind = "proof"
      BY <2>5, ProceduresAssumption DEF ChallengeAnswer, Proof, Request
    <3> QED
      BY <2>1, <2>2, <3>1 DEF Links
  <2> QED
    BY <2>4, <2>5
<1>6. ASSUME at = "challenged", inTurn PROVE Newest'
  <2> DEFINE q == toUnits[1]
             a == Answer(q)
  <2>1. i = 1 /\ Newest /\ Len(toUnits) \in Nat \ {0}
    <3>1. Len(toUnits) \in Nat /\ i \in 1 .. Len(toUnits)
      BY DEF Links, IsSeq
    <3>2. ~(1 \in 1 .. i - 1)
      BY <1>6 DEF Serve
    <3> QED
      BY <1>6, <3>1, <3>2 DEF HandshakeInv, Challenged
  <2>2. /\ Len(toUnits') = Len(toUnits) - 1 /\ IsSeq(toUnits')
        /\ \A k \in 1 .. Len(toUnits) - 1 : toUnits'[k] = toUnits[k + 1]
    <3>1. toUnits' = RemoveAt(toUnits, 1) /\ IsSeq(toUnits) /\ 1 \in 1 .. Len(toUnits)
      BY <2>1 DEF Serve, Links
    <3>2. /\ IsSeq(toUnits') /\ Len(toUnits') = Len(toUnits) - 1
          /\ \A k \in 1 .. Len(toUnits) - 1 :
                toUnits'[k] = IF k < 1 THEN toUnits[k] ELSE toUnits[k + 1]
      BY <3>1, RemoveSeq
    <3>3. \A k \in 1 .. Len(toUnits) - 1 : ~(k < 1)
      BY <2>1
    <3> QED
      BY <3>2, <3>3
  <2>3. ASSUME NEW k \in 1 .. Len(toUnits'), toUnits'[k].kind = "challenge",
               toUnits'[k].body = c
        PROVE  k = Len(toUnits') /\ toUnits'[k].unit = id
    <3>1. k + 1 \in 1 .. Len(toUnits) /\ toUnits'[k] = toUnits[k + 1] /\ k \in Nat
      BY <2>1, <2>2
    <3>2. k + 1 = Len(toUnits) /\ toUnits[k + 1].unit = id
      BY <2>1, <2>3, <3>1 DEF Newest
    <3> QED
      BY <2>2, <3>1, <3>2
  <2>4. \A k \in 1 .. Len(toClient) :
           ~(toClient[k].kind = "proof" /\ toClient[k].body[2][2] = c)
    BY <1>4, <2>1 DEF Newest
  <2>5. CASE q.unit \notin Alive
    <3>1. toClient' = toClient
      BY <2>1, <2>5 DEF Serve
    <3> QED
      BY <1>1, <2>3, <2>4, <3>1 DEF Newest
  <2>6. CASE q.unit \in Alive
    <3>1. /\ toClient' = Append(toClient, a)
          /\ exchange' = IF a.kind = "proof" THEN [exchange EXCEPT ![q.unit] = q.body]
                                             ELSE exchange
      BY <2>1, <2>6 DEF Serve
    <3>2. /\ Len(toClient') = Len(toClient) + 1 /\ Len(toClient) \in Nat
          /\ \A k \in 1 .. Len(toClient) : toClient'[k] = toClient[k]
          /\ toClient'[Len(toClient) + 1] = a
      BY <3>1, AppendSeq DEF Links
    <3>3. ASSUME a.kind = "proof", a.body[2][2] = c
          PROVE  /\ toUnits' = << >> /\ id \in Extended /\ a = Proof(id, c)
                 /\ exchange'[id] = c
      <4>1. q.kind = "challenge" /\ q.unit \in Extended /\ a = Proof(q.unit, q.body)
        BY <3>3, Kinds
      <4>2. q.body = c
        BY <3>3, <4>1 DEF Proof, Request, HMAC
      <4>3. 1 = Len(toUnits) /\ q.unit = id
        BY <2>1, <4>1, <4>2 DEF Newest
      <4>4. toUnits' = << >>
        <5>1. Len(toUnits') = Len(toUnits) - 1 /\ IsSeq(toUnits')
          BY <2>2
        <5>2. Len(toUnits) = 1
          BY <4>3
        <5>3. Len(toUnits') = 0
          BY <5>1, <5>2
        <5> QED
          BY <5>1, <5>3, ZeroSeq
      <4>5. exchange'[id] = c
        BY <2>6, <3>1, <3>3, <4>2, <4>3 DEF Links
      <4> QED
        BY <4>1, <4>2, <4>3, <4>4, <4>5
    <3> HIDE DEF a
    <3>4. ASSUME NEW k \in 1 .. Len(toClient'), toClient'[k].kind = "proof",
                 toClient'[k].body[2][2] = c
          PROVE  /\ k = Len(toClient') /\ toUnits' = << >> /\ id \in Extended
                 /\ toClient'[k] = Proof(id, c) /\ exchange'[id] = c
      <4>1. k = Len(toClient) + 1
        BY <2>4, <3>2, <3>4
      <4> QED
        BY <3>2, <3>3, <3>4, <4>1
    <3>5. Proof(id, c)' = Proof(id, c) /\ c' = c /\ id' = id
      BY <1>1 DEF Proof, Request, ServerNonce, HMAC
    <3> QED
      BY <2>3, <3>4, <3>5 DEF Newest
  <2> QED
    BY <2>5, <2>6
<1>7. Challenged'
  BY <1>1, <1>5, <1>6 DEF HandshakeInv, Challenged
<1>8. ASSUME at = "responded", inTurn \/ calm PROVE Agreed'
  <2> DEFINE s == ServerNonce(id, c)
             q == Request(id, "response", AuthResponse(Credential[id], c, s))
             a == Request(id, "confirmation", Token(id, c))
  <2>1. /\ CanAuthenticate(id) /\ exchange[id] = c /\ Alone(q, a)
        /\ nonces = [client |-> c, server |-> s]
    BY <1>8 DEF HandshakeInv, Responded, Agreed
  <2>2. Answer(q) = a
    <3>1. exchange[id] # None
      BY <2>1 DEF None
    <3> QED
      BY <2>1, <3>1, Answers DEF CanAuthenticate, AuthResponse
  <2>3. q.unit = id /\ id \in Alive /\ a.kind = "confirmation" /\ a.body = Token(id, c)
    BY <2>1, ProceduresAssumption DEF Request, CanAuthenticate
  <2>4. /\ toUnits' = << >> /\ toClient' = <<a>> /\ exchange' = exchange
        /\ Token(id, c) \in confirmed'
    <3>1. /\ toUnits' = << >>
          /\ toClient' = IF q.unit \in Alive THEN <<a>> ELSE << >>
          /\ q.unit \in Alive =>
               /\ exchange' = IF a.kind = "proof" THEN [exchange EXCEPT ![q.unit] = q.body]
                                                  ELSE exchange
               /\ confirmed' = IF a.kind = "confirmation" THEN confirmed \union {a.body}
                                                          ELSE confirmed
      BY <2>1, <2>2, ServeAlone
    <3> HIDE DEF q, a
    <3> QED
      BY <2>3, <3>1
  <2>5. q' = q /\ a' = a /\ s' = s /\ c' = c /\ Token(id, c)' = Token(id, c)
    BY <1>1 DEF Request, AuthResponse, HMAC, ServerNonce, Token
  <2>6. Alone(q, a)'
    BY <2>3, <2>4, <2>5 DEF Alone
  <2> QED
    BY <1>1, <2>1, <2>4, <2>5, <2>6 DEF Agreed, CanAuthenticate
<1>9. Responded'
  BY <1>1, <1>8 DEF HandshakeInv, Responded
<1> QED
  BY <1>3, <1>7, <1>9 DEF HandshakeInv

LEMMA HandshakeStep == Links /\ Dated /\ HandshakeInv /\ [Next]_vars => HandshakeInv'
<1> SUFFICES ASSUME Links, Dated, HandshakeInv, [Next]_vars PROVE HandshakeInv'
  OBVIOUS
<1> USE DEF linkVars, unitVars, scanVars, authVars
<1>1. CASE Scan \/ ProbeSend \/ ProbeNotSent \/ ProbeFails \/ ScanDone
  <2>1. /\ UNCHANGED <<inTurn, session, confirmed, outcome, calm, smooth>>
        /\ at' \in {"probe", "probing", "done", "idle"}
    BY <1>1 DEF Scan, Probe, ProbeSend, ProbeNotSent, ProbeFails, ScanDone, NextUnit
  <2> QED
    BY <2>1, NoHandshake
<1>2. CASE ProbeReceive \/ DiscoverReceive \/ DiscoverFails
  <2>1. /\ UNCHANGED <<inTurn, session, confirmed, outcome, calm, smooth>>
        /\ at' \in {"probe", "discovering", "done"}
    BY <1>2 DEF ProbeReceive, DiscoverReceive, DiscoverFails, Found, NextUnit
  <2> QED
    BY <2>1, NoHandshake
<1>3. CASE \/ AuthenticateFails \/ ChallengeNotSent
           \/ \E u \in Units : AuthenticateNotSent(u)
  <2>1. /\ UNCHANGED <<inTurn, session, confirmed>> /\ at' = "idle" /\ ~smooth'
    BY <1>3 DEF AuthenticateFails, AuthenticateNotSent, ChallengeNotSent, End
  <2>2. SessionAgrees'
    BY <2>1, SessionKept DEF HandshakeInv
  <2> QED
    BY <2>1, <2>2 DEF HandshakeInv, Challenged, Responded, HandshakeDecides
<1>4. CASE UNCHANGED vars
  <2>1. SessionAgrees'
    BY <1>4, SessionKept DEF vars, HandshakeInv
  <2>2. Challenged'
    BY <1>4 DEF vars, HandshakeInv, Challenged, Newest, Alone, ChallengeAnswer, Proof, Request,
                ServerNonce, HMAC
  <2>3. Responded'
    BY <1>4 DEF vars, HandshakeInv, Responded, Agreed, Alone, Request, AuthResponse, ServerNonce,
                HMAC, Token, CanAuthenticate
  <2>4. HandshakeDecides'
    BY <1>4 DEF vars, HandshakeInv, HandshakeDecides, CanAuthenticate
  <2> QED
    BY <2>1, <2>2, <2>3, <2>4 DEF HandshakeInv
<1> QED
  BY <1>1, <1>2, <1>3, <1>4, ChallengeSent, ProofReceived, Confirmed, Served
  DEF Next, ClientStep

LEMMA HandshakeInvariance == Spec => [](Links /\ Dated /\ HandshakeInv)
<1>1. Init => Links /\ Dated /\ HandshakeInv
  BY NoSeq DEF Init, Links, Dated, HandshakeInv, Challenged, Responded, SessionAgrees,
               HandshakeDecides, None
<1> QED
  BY <1>1, LinksStep, HandshakeStep, PTL DEF Spec

(* A session is one that the unit has confirmed, with the same key on both *)
(* sides (steps 1 to 4 of Client::authenticate), although step 4 checks    *)
(* nothing but a size: on a line that serves in turn, whatever is still    *)
(* under way from earlier handshakes, or after a calm begin.               *)
THEOREM SessionsAgree == Spec => []SessionAgrees
<1>1. HandshakeInv => SessionAgrees
  BY DEF HandshakeInv
<1> QED
  BY HandshakeInvariance, <1>1, PTL

(* A handshake that began with nothing under way and met no failure ends   *)
(* in a session exactly when both sides have the same secret (the order of *)
(* the nonces in compute_auth_response, the digest check of step 2).       *)
THEOREM HandshakesDecide == Spec => []HandshakeDecides
<1>1. HandshakeInv => HandshakeDecides
  BY DEF HandshakeInv
<1> QED
  BY HandshakeInvariance, <1>1, PTL

=============================================================================
