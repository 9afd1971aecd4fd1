-------------------------- MODULE ClientProcedures --------------------------
(***************************************************************************)
(* The procedures of a client that take several exchanges: Scanner and     *)
(* Client::authenticate, over one link to several units.  They are called  *)
(* by one thread, take the next frame that arrives for the answer to what  *)
(* they just sent, and give up on it when it is late; the late frame stays *)
(* under way.  The units are outside the repository: a unit answers its    *)
(* requests in order, a standard one refuses extended functions, and one   *)
(* that authenticates does the server's part of session.hpp:6-10.          *)
(*                                                                         *)
(* A payload is what was put into it, its size that of its kind; an HMAC   *)
(* is the tuple of what it was computed from.                              *)
(***************************************************************************)
EXTENDS Naturals, FiniteSets, SequencesExt

CONSTANTS
    MaxUnit,        \* bound: the greatest unit_id_t, 255 in the code
    RangeStart, RangeEnd,   \* ScannerConfig
    Alive,          \* the units that answer
    Extended,       \* those of them that know the extended functions
    Secrets,
    Credential,     \* the client's store: a partial function from units
    SecretOf,       \* the secrets the units have
    MaxCalls        \* bound: calls of scan and authenticate

Units == 0 .. MaxUnit

ASSUME ProceduresAssumption ==
    /\ MaxUnit \in Nat /\ RangeStart \in Units /\ RangeEnd \in Units
    /\ Extended \subseteq Alive /\ Alive \subseteq Units
    /\ DOMAIN Credential \subseteq Units
    /\ \A u \in DOMAIN Credential : Credential[u] \in Secrets
    /\ SecretOf \in [Alive -> Secrets]
    /\ MaxCalls \in Nat

VARIABLES
    inTurn,      \* the line serves one request after the other
    toUnits,     \* requests not yet served
    toClient,    \* frames not yet received
    exchange,    \* per unit: the nonces of the handshake under way
    confirmed,   \* history: the handshakes units have confirmed
    at,          \* where the client is
    id,          \* the unit probed or authenticated
    probes,      \* history: the units probed by this scan
    info,        \* the DeviceInfo being filled in
    devices,     \* what this scan has found, with whether the probe was calm
    nonces,      \* the nonces of client and server of authenticate
    session,     \* session_, as a sequence of at most one
    calm,        \* the step or handshake began with nothing under way
    smooth,      \* and nothing in it failed or came late
    outcome,     \* how the last authenticate ended, for which unit
    calls

linkVars == <<toUnits, toClient>>
unitVars == <<exchange, confirmed>>
scanVars == <<probes, info, devices>>
authVars == <<nonces, session, outcome>>
vars == <<inTurn, linkVars, unitVars, at, id, scanVars, authVars, calm, smooth, calls>>

HMAC(key, a, b) == <<key, a, b>>
None == << >>

(* Sizes of the payloads in bytes, 16 for a nonce or token, 32 for a MAC.  *)
PayloadSize == [data |-> 3, capabilities |-> 4, proof |-> 48, confirmation |-> 24]

Init ==
    /\ inTurn \in BOOLEAN
    /\ toUnits = << >> /\ toClient = << >>
    /\ exchange = [u \in Alive |-> None]
    /\ confirmed = {}
    /\ at = "idle" /\ id = 0
    /\ probes = << >> /\ info = None /\ devices = << >>
    /\ nonces = None /\ session = None /\ outcome = [how |-> "none", unit |-> 0]
    /\ calm = TRUE /\ smooth = TRUE
    /\ calls = 0

-----------------------------------------------------------------------------
(* The units                                                               *)

Request(u, kind, body) == [unit |-> u, kind |-> kind, body |-> body]

(* The nonce a unit makes for a challenge is as fresh as that is; so is    *)
(* the token of the session it leads to.                                   *)
ServerNonce(u, c) == <<u>> \o c
Token(u, c) == <<u>> \o c \o <<0>>

Answer(q) ==
    LET u == q.unit
        c == IF q.kind = "challenge" THEN q.body ELSE exchange[u]
        s == ServerNonce(u, c)
        Reply(kind, body) == [unit |-> u, kind |-> kind, body |-> body]
    IN
    CASE q.kind = "read" -> Reply("data", None)
      [] q.kind = "discover" /\ u \in Extended -> Reply("capabilities", u)
      [] q.kind = "challenge" /\ u \in Extended ->
            Reply("proof", <<s, HMAC(SecretOf[u], c, s)>>)
      [] /\ q.kind = "response" /\ u \in Extended
         /\ c # None /\ q.body = HMAC(SecretOf[u], s, c) ->
            Reply("confirmation", Token(u, c))
      [] OTHER -> Reply("exception", None)

Serve(i) ==
    LET q == toUnits[i] IN
    /\ i \in 1 .. Len(toUnits)
    /\ \A j \in 1 .. i - 1 : ~inTurn /\ toUnits[j].unit # q.unit
    /\ toUnits' = RemoveAt(toUnits, i)
    /\ IF q.unit \notin Alive
       THEN UNCHANGED <<toClient, unitVars>>
       ELSE LET a == Answer(q) IN
            /\ toClient' = Append(toClient, a)
            /\ exchange' = IF a.kind = "proof"
                           THEN [exchange EXCEPT ![q.unit] = q.body]
                           ELSE exchange
            /\ confirmed' = IF a.kind = "confirmation"
                            THEN confirmed \union {a.body}
                            ELSE confirmed
    /\ UNCHANGED <<inTurn, at, id, scanVars, authVars, calm, smooth, calls>>

-----------------------------------------------------------------------------
(* Scanner                                                                 *)

Calm == toUnits = << >> /\ toClient = << >>
Send(q) == toUnits' = Append(toUnits, q)

(* A fresh DeviceInfo for every probe: nothing known yet.                  *)
NewInfo(u) == [unit |-> u, capabilities |-> None, calm |-> Calm]

Scan ==
    /\ at = "idle" /\ calls < MaxCalls
    /\ calls' = calls + 1
    /\ id' = RangeStart
    /\ probes' = << >> /\ devices' = << >>
    /\ at' = IF RangeStart <= RangeEnd THEN "probe" ELSE "done"
    /\ UNCHANGED <<inTurn, linkVars, unitVars, info, authVars, calm, smooth>>

(* Mutant of NextUnit: without the test that prevents the overflow.        *)
NextUnitUnguarded ==
    /\ id' = (id + 1) % (MaxUnit + 1)
    /\ at' = IF id' <= RangeEnd THEN "probe" ELSE "done"

(* The loop of scan and scan_async goes on with the next unit.  It ends    *)
(* at range_end before id is increased, which has eight bits.              *)
NextUnit ==
    IF id = RangeEnd
    THEN at' = "done" /\ UNCHANGED id
    ELSE /\ id' = (id + 1) % (MaxUnit + 1)
         /\ at' = IF id' <= RangeEnd THEN "probe" ELSE "done"

Probe ==
    /\ at = "probe"
    /\ Len(probes) <= RangeEnd   \* bound: more than any scan probes
    /\ probes' = Append(probes, id)
    /\ info' = NewInfo(id)
    /\ UNCHANGED <<inTurn, toClient, unitVars, devices, authVars, calm, smooth, calls>>

ProbeSend ==
    /\ Probe
    /\ Send(Request(id, "read", None))
    /\ at' = "probing"
    /\ UNCHANGED id

(* The send fails and nothing leaves: no device, and no wait for one.      *)
ProbeNotSent ==
    /\ Probe
    /\ NextUnit
    /\ UNCHANGED toUnits

(* Mutant of Found: the entry is that of the device before, if any.        *)
FoundStale(i) ==
    /\ devices' = Append(devices,
          IF devices # << >> THEN [i EXCEPT !.capabilities = Last(devices).capabilities] ELSE i)
    /\ NextUnit

Found(i) ==
    /\ devices' = Append(devices, i)
    /\ NextUnit

(* Any frame counts as the answer.  The discovery request follows at once; *)
(* when that cannot be sent, the device is one without extensions.         *)
ProbeReceive ==
    /\ at = "probing" /\ toClient # << >>
    /\ toClient' = Tail(toClient)
    /\ \/ /\ Send(Request(id, "discover", None))
          /\ at' = "discovering"
          /\ UNCHANGED <<id, devices>>
       \/ /\ Found(info)
          /\ UNCHANGED toUnits
    /\ UNCHANGED <<inTurn, unitVars, probes, info, authVars, calm, smooth, calls>>

(* No answer in time, or an error after the request had left.              *)
ProbeFails ==
    /\ at = "probing"
    /\ NextUnit
    /\ UNCHANGED <<inTurn, linkVars, unitVars, scanVars, authVars, calm, smooth, calls>>

DiscoverReceive ==
    LET f == Head(toClient) IN
    /\ at = "discovering" /\ toClient # << >>
    /\ toClient' = Tail(toClient)
    /\ Found(IF f.kind = "capabilities"
             THEN [info EXCEPT !.capabilities = <<f.body>>]
             ELSE info)
    /\ UNCHANGED <<inTurn, toUnits, unitVars, probes, info, authVars, calm, smooth, calls>>

DiscoverFails ==
    /\ at = "discovering"
    /\ Found(info)
    /\ UNCHANGED <<inTurn, linkVars, unitVars, probes, info, authVars, calm, smooth, calls>>

(* scan returns, or on_complete is called.                                 *)
ScanDone ==
    /\ at = "done"
    /\ at' = "idle"
    /\ UNCHANGED <<inTurn, linkVars, unitVars, id, scanVars, authVars, calm, smooth, calls>>

-----------------------------------------------------------------------------
(* Client::authenticate                                                    *)

(* Nothing is sent to a unit the credential store does not know.           *)
Authenticate(u) ==
    /\ at = "idle" /\ calls < MaxCalls
    /\ calls' = calls + 1
    /\ id' = u
    /\ calm' = Calm /\ smooth' = TRUE
    /\ IF u \notin DOMAIN Credential
       THEN outcome' = [how |-> "failed", unit |-> u] /\ UNCHANGED <<at, nonces, toUnits>>
       ELSE /\ nonces' = [client |-> <<calls'>>, server |-> None]
            /\ Send(Request(u, "challenge", <<calls'>>))
            /\ at' = "challenged"
            /\ outcome' = [how |-> "none", unit |-> u]
    /\ UNCHANGED <<inTurn, toClient, unitVars, scanVars, session>>

(* The challenge cannot be sent.                                           *)
AuthenticateNotSent(u) ==
    /\ at = "idle" /\ calls < MaxCalls
    /\ u \in DOMAIN Credential
    /\ calls' = calls + 1
    /\ id' = u
    /\ calm' = Calm /\ smooth' = FALSE
    /\ outcome' = [how |-> "failed", unit |-> u]
    /\ UNCHANGED <<inTurn, linkVars, unitVars, at, scanVars, nonces, session>>

End(how) ==
    /\ at' = "idle"
    /\ outcome' = [how |-> how, unit |-> id]

(* No answer in time, or an error after the request had left.              *)
AuthenticateFails ==
    /\ at \in {"challenged", "responded"}
    /\ End("failed")
    /\ smooth' = FALSE
    /\ UNCHANGED <<inTurn, linkVars, unitVars, id, scanVars, nonces, session, calm, calls>>

(* Mutant of AuthResponse: the nonces the other way round.                 *)
ResponseSwapped(key, c, s) == HMAC(key, c, s)

(* What compute_auth_response and derive_session_key give.                 *)
AuthResponse(key, c, s) == HMAC(key, s, c)
SessionKey(key, c, s) == HMAC(key, c, s)

(* Mutant of ProofHolds: the digest is not checked.                        *)
ProofAny(f) == TRUE

(* The comparison of the digests in step 2.                                *)
ProofHolds(f) ==
    f.body[2] = HMAC(Credential[id], nonces.client, f.body[1])

BigEnough(f, n) == f.kind # "exception" /\ PayloadSize[f.kind] >= n

ChallengeReceive ==
    LET f == Head(toClient) IN
    /\ at = "challenged" /\ toClient # << >>
    /\ toClient' = Tail(toClient)
    /\ IF BigEnough(f, 48) /\ ProofHolds(f)
       THEN /\ nonces' = [nonces EXCEPT !.server = f.body[1]]
            /\ Send(Request(id, "response",
                            AuthResponse(Credential[id], nonces.client, f.body[1])))
            /\ at' = "responded"
            /\ UNCHANGED outcome
       ELSE /\ End("failed")
            /\ UNCHANGED <<toUnits, nonces>>
    /\ UNCHANGED <<inTurn, unitVars, id, scanVars, session, calm, smooth, calls>>

(* Step 3 cannot be sent.                                                  *)
ChallengeNotSent ==
    LET f == Head(toClient) IN
    /\ at = "challenged" /\ toClient # << >>
    /\ BigEnough(f, 48) /\ ProofHolds(f)
    /\ toClient' = Tail(toClient)
    /\ End("failed")
    /\ smooth' = FALSE
    /\ UNCHANGED <<inTurn, toUnits, unitVars, id, scanVars, nonces, session, calm, calls>>

(* Step 4 looks at nothing but the size: it takes the first 16 bytes for   *)
(* the token, whatever they are.                                           *)
ConfirmReceive ==
    LET f == Head(toClient) IN
    /\ at = "responded" /\ toClient # << >>
    /\ toClient' = Tail(toClient)
    /\ \/ /\ ~BigEnough(f, 24)
          /\ End("failed")
          /\ UNCHANGED session
       \/ /\ BigEnough(f, 24)
          /\ session' = <<[unit |-> id, token |-> IF f.kind = "proof" THEN f.body[1] ELSE f.body,
                           key |-> SessionKey(Credential[id], nonces.client, nonces.server),
                           calm |-> calm]>>
          /\ End("session")
    /\ UNCHANGED <<inTurn, toUnits, unitVars, id, scanVars, nonces, calm, smooth, calls>>

ClientStep ==
    \/ ProbeSend \/ ProbeNotSent \/ ProbeReceive \/ ProbeFails
    \/ DiscoverReceive \/ DiscoverFails \/ ScanDone
    \/ ChallengeReceive \/ ChallengeNotSent \/ ConfirmReceive \/ AuthenticateFails

Next ==
    \/ \E i \in 1 .. Len(toUnits) : Serve(i)
    \/ Scan
    \/ \E u \in Units : Authenticate(u) \/ AuthenticateNotSent(u)
    \/ ClientStep

Spec == Init /\ [][Next]_vars

(* The client's thread runs: an answer comes or the wait is given up.      *)
FairSpec == Spec /\ WF_vars(ClientStep)

-----------------------------------------------------------------------------
(* Properties                                                              *)

(* What a scan reports is true, whatever went wrong before it, of every    *)
(* unit whose probe began with nothing under way: the unit answers, and    *)
(* capabilities are its own.  (Otherwise a late frame of another unit is   *)
(* taken for the answer.)                                                  *)
FoundWhenCalm ==
    \A i \in 1 .. Len(devices) :
        devices[i].calm =>
            /\ devices[i].unit \in Alive
            /\ devices[i].capabilities \in {None, <<devices[i].unit>>}
            /\ devices[i].unit \notin Extended => devices[i].capabilities = None

(* A scan ends, up to the greatest unit id that eight bits hold, when it   *)
(* has probed every unit of the range once and in order.                   *)
ScanEnds ==
    at \in {"probe", "probing", "discovering"}
        ~> /\ at = "done"
           /\ probes = [i \in 1 .. RangeEnd + 1 - RangeStart |-> RangeStart + i - 1]

(* A session is one the unit has confirmed, with its token and the key it  *)
(* derives from the same nonces and secret.  That takes a line that serves *)
(* requests in turn, late answers of earlier handshakes included, or a     *)
(* handshake that began with nothing under way.                            *)
SessionAgrees ==
    \A i \in 1 .. Len(session) :
        LET s == session[i] IN
        inTurn \/ s.calm =>
            /\ s.token \in confirmed
            /\ s.token[1] = s.unit
            /\ s.key = LET c == <<s.token[2]>> IN
                       SessionKey(SecretOf[s.unit], c, ServerNonce(s.unit, c))

(* A handshake that began with nothing under way and met no failure and no *)
(* late answer succeeds exactly when both sides have the same secret.      *)
CanAuthenticate(u) ==
    u \in DOMAIN Credential /\ u \in Extended /\ Credential[u] = SecretOf[u]

HandshakeDecides ==
    outcome.how # "none" /\ calm /\ smooth
        => (outcome.how = "session" <=> CanAuthenticate(outcome.unit))
=============================================================================
