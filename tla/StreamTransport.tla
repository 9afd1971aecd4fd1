--------------------------- MODULE StreamTransport ---------------------------
(***************************************************************************)
(* TCPTransport and RTUTransport: one endpoint that finds frames in a      *)
(* stream of bytes.  TCP reads a header and then as many bytes as the      *)
(* header declares; RTU reads until the line has been quiet for 5 ms.      *)
(*                                                                         *)
(* The bytes of a frame are cells <<k, i>>: the i-th piece of the k-th     *)
(* frame the peer sent on this connection.  A cell stands for bytes that   *)
(* are read together or apart, the first HeaderCells for the MBAP header.  *)
(* One thread uses a transport, so every call of the operating system is   *)
(* one step; the peer's bytes arrive at any time in between.  On a serial  *)
(* line the bytes of one frame are less than 5 ms apart, as RTU demands of *)
(* the sender.  SIGPIPE is taken to be ignored: a write then fails.        *)
(***************************************************************************)
EXTENDS Naturals, SequencesExt

CONSTANTS
    Frames,
    Body,          \* cells of a frame after its header
    Declared,      \* cells its header declares, the unit id counted as one
    HeaderCells,
    MaxBody,       \* bound: cells after a header
    Sent,          \* the frames this side sends
    MaxSends,      \* bound: frames sent on a connection
    MaxFrames,     \* bound: frames the peer sends on it
    MaxOpened,     \* bound: descriptors opened
    MaxBreaks      \* bound: hang-ups of the peer and errors of the system

ASSUME StreamAssumption ==
    /\ MaxBody \in Nat /\ Body \in [Frames -> 0 .. MaxBody] /\ Declared \in [Frames -> Nat]
    /\ HeaderCells \in Nat \ {0}
    /\ Sent \subseteq Frames /\ MaxSends \in Nat
    /\ MaxFrames \in Nat /\ MaxOpened \in Nat /\ MaxBreaks \in Nat

VARIABLES
    kind,         \* "tcp" or "rtu": which class this is
    connected_,
    fd,           \* socket_fd_ or fd_, 0 for -1
    open,         \* descriptors the process has open
    opened,       \* descriptors opened so far: the next one is opened + 1
    broken,       \* history: descriptors on which a transfer failed
    pc,           \* where the call under way is
    buf,          \* what receive has read so far
    need,         \* cells it has still to read before it can go on (TCP)
    got,          \* history: what receive returned on this connection
    out,          \* history: <<frame, cells written>> of each send on it
    fed,          \* the frames the peer began to send on it
    arrived,      \* cells of the last of them that have arrived
    line,         \* cells that have arrived and are not read
    hungup,       \* the peer has closed or the line was cut
    breaks        \* bound: see MaxBreaks

callVars == <<connected_, fd, open, opened, broken, pc, buf, need, got, out>>
peerVars == <<fed, arrived, line, hungup>>
vars == <<kind, callVars, peerVars, breaks>>

Size(f) == HeaderCells + Body[f]
Honest(f) == Declared[f] = Body[f] + 1
MidFrame == fed # << >> /\ arrived < Size(fed[Len(fed)])
AtEof == hungup /\ line = << >>
Reading == {"header", "body", "chunk", "more"}

Init ==
    /\ kind \in {"tcp", "rtu"}
    /\ connected_ = FALSE /\ fd = 0
    /\ open = {} /\ opened = 0 /\ broken = {}
    /\ pc = "idle" /\ buf = << >> /\ need = 0 /\ got = << >> /\ out = << >>
    /\ fed = << >> /\ arrived = 0 /\ line = << >>
    /\ hungup = FALSE /\ breaks = 0

Break == breaks < MaxBreaks /\ breaks' = breaks + 1

-----------------------------------------------------------------------------
(* connect and disconnect                                                  *)

(* Mutant of Connect: a connected transport connects again.                *)
ConnectAnyway ==
    /\ pc = "idle"
    /\ opened < MaxOpened
    /\ opened' = opened + 1
    /\ fd' = opened'
    /\ open' = open \union {fd'}
    /\ connected_' = TRUE
    /\ UNCHANGED <<kind, broken, pc, buf, need, got, out, peerVars, breaks>>

(* The descriptor of a connection that failed is overwritten unclosed.  A  *)
(* TCP connection is a new stream; on a serial line tcflush discards what  *)
(* has arrived and the peer goes on where it is.                           *)
Connect ==
    /\ pc = "idle" /\ ~connected_
    /\ opened < MaxOpened
    /\ opened' = opened + 1
    /\ fd' = opened'
    /\ open' = open \union {fd'}
    /\ connected_' = TRUE
    /\ got' = << >> /\ out' = << >> /\ line' = << >>
    /\ IF kind = "tcp"
       THEN fed' = << >> /\ arrived' = 0
       ELSE UNCHANGED <<fed, arrived>>
    /\ hungup' = FALSE
    /\ UNCHANGED <<kind, broken, pc, buf, need, breaks>>

(* Every error on the way closes the new descriptor; the old one is gone.  *)
ConnectFails ==
    /\ pc = "idle" /\ ~connected_
    /\ fd' = 0
    /\ Break
    /\ UNCHANGED <<kind, connected_, open, opened, broken, pc, buf, need, got, out, peerVars>>

Disconnect ==
    /\ pc = "idle"
    /\ open' = open \ {fd}
    /\ fd' = 0
    /\ connected_' = FALSE
    /\ UNCHANGED <<kind, opened, broken, pc, buf, need, got, out, peerVars, breaks>>

-----------------------------------------------------------------------------
(* send                                                                    *)

SendBegin(f) ==
    /\ pc = "idle" /\ connected_
    /\ Len(out) < MaxSends
    /\ out' = Append(out, <<f, 0>>)
    /\ pc' = "send"
    /\ UNCHANGED <<kind, connected_, fd, open, opened, broken, buf, need, got, peerVars, breaks>>

(* write takes some of the bytes.  TCP goes on until it has written all of *)
(* them; RTU writes once and reports an error when that was not enough.    *)
Write(n) ==
    LET last == out[Len(out)]
        sum == last[2] + n
    IN
    /\ pc = "send"
    /\ sum <= Size(last[1])
    /\ out' = [out EXCEPT ![Len(out)] = <<last[1], sum>>]
    /\ pc' = IF kind = "rtu" \/ sum = Size(last[1]) THEN "idle" ELSE "send"
    /\ UNCHANGED <<kind, connected_, fd, open, opened, broken, buf, need, got, peerVars, breaks>>

(* Mutant of Fail: TCP stays connected too.                                *)
FailConnected ==
    /\ pc' = "idle"
    /\ buf' = << >>
    /\ broken' = broken \union {fd}
    /\ UNCHANGED <<kind, connected_, fd, open, opened, need, got, out, peerVars>>

(* A failed call: TCP marks itself disconnected and keeps the descriptor,  *)
(* RTU stays connected.                                                    *)
Fail ==
    /\ pc' = "idle"
    /\ buf' = << >>
    /\ broken' = broken \union {fd}
    /\ connected_' = (kind = "rtu")
    /\ UNCHANGED <<kind, fd, open, opened, need, got, out, peerVars>>

WriteFails ==
    /\ pc = "send"
    /\ \/ hungup /\ UNCHANGED breaks
       \/ Break
    /\ Fail

-----------------------------------------------------------------------------
(* receive                                                                 *)

(* The first poll.  When nothing is there in time the call returns and     *)
(* nothing has changed.                                                    *)
ReceiveBegin ==
    /\ pc = "idle" /\ connected_
    /\ line # << >> \/ hungup
    /\ pc' = IF kind = "tcp" THEN "header" ELSE "chunk"
    /\ buf' = << >>
    /\ need' = HeaderCells
    /\ UNCHANGED <<kind, connected_, fd, open, opened, broken, got, out, peerVars, breaks>>

(* The first poll reports an error.                                        *)
PollFails ==
    /\ pc = "idle" /\ connected_
    /\ Break
    /\ Fail

Return ==
    /\ pc' = "idle"
    /\ got' = Append(got, buf')

(* What the header that was read says, less the unit id: anything, when    *)
(* these are not the bytes of a header.                                    *)
DeclaredBy(h) ==
    IF \A i \in 1 .. HeaderCells : h[i] = <<h[1][1], i>>
    THEN {Declared[fed[h[1][1]]]}
    ELSE {Declared[f] : f \in Frames}

Take(n) ==
    /\ n <= need /\ n <= Len(line)
    /\ buf' = buf \o SubSeq(line, 1, n)
    /\ line' = SubSeq(line, n + 1, Len(line))
    /\ UNCHANGED <<kind, connected_, fd, open, opened, broken, out, fed, arrived, hungup, breaks>>

ReadOn(n) ==
    /\ need' = need - n
    /\ UNCHANGED <<pc, got>>

(* InvalidFrame, when the header declares nothing: its bytes are consumed. *)
ReadHeader(n) ==
    /\ pc = "header"
    /\ Take(n)
    /\ \/ n < need /\ ReadOn(n)
       \/ /\ n = need
          /\ \E d \in DeclaredBy(buf') :
                 \/ d = 0 /\ need' = 0 /\ pc' = "idle" /\ UNCHANGED got
                 \/ d = 1 /\ need' = 0 /\ Return
                 \/ d > 1 /\ need' = d - 1 /\ pc' = "body" /\ UNCHANGED got

(* Mutant of ReadBody: one read is taken to give the whole body.           *)
ReadBodyOnce(n) ==
    /\ pc = "body"
    /\ Take(n)
    /\ need' = 0
    /\ Return

ReadBody(n) ==
    /\ pc = "body"
    /\ Take(n)
    /\ \/ n < need /\ ReadOn(n)
       \/ n = need /\ need' = 0 /\ Return

(* Mutant of ReadFails: a read of 0 bytes is not a failure.                *)
ReadFailsOnError ==
    /\ pc \in {"header", "body"}
    /\ Break
    /\ Fail

(* A read at the end of the stream, or an error.                           *)
ReadFails ==
    /\ pc \in {"header", "body"}
    /\ \/ AtEof /\ UNCHANGED breaks
       \/ Break
    /\ Fail

(* RTU takes all there is.  A read of nothing or an error is ignored.      *)
ReadChunk ==
    /\ pc = "chunk"
    /\ buf' = buf \o line
    /\ line' = << >>
    /\ pc' = "more"
    /\ UNCHANGED <<kind, connected_, fd, open, opened, broken, need, got, out, fed, arrived, hungup, breaks>>

(* poll reports a line that is hung up as ready, for ever.                 *)
MoreReady ==
    /\ pc = "more"
    /\ line # << >> \/ hungup
    /\ pc' = "chunk"
    /\ UNCHANGED <<kind, connected_, fd, open, opened, broken, buf, need, got, out, peerVars, breaks>>

(* Mutant of Quiet: poll does not wait.                                    *)
QuietNow == line = << >> /\ ~hungup

Quiet == line = << >> /\ ~hungup /\ ~MidFrame

MoreQuiet ==
    /\ pc = "more"
    /\ Quiet
    /\ UNCHANGED buf
    /\ Return
    /\ UNCHANGED <<kind, connected_, fd, open, opened, broken, need, out, peerVars, breaks>>

(* The poll between two reads reports an error: what was read so far is    *)
(* returned, as if the line had been quiet.                                *)
MoreFails ==
    /\ pc = "more"
    /\ Break
    /\ broken' = broken \union {fd}
    /\ UNCHANGED buf
    /\ IF buf = << >> THEN pc' = "idle" /\ UNCHANGED got ELSE Return
    /\ UNCHANGED <<kind, connected_, fd, open, opened, need, out, peerVars>>

-----------------------------------------------------------------------------
(* The peer                                                                *)

Online == connected_ \/ kind = "rtu"

PeerBegins(f) ==
    /\ Online /\ ~hungup /\ ~MidFrame
    /\ Len(fed) < MaxFrames
    /\ fed' = Append(fed, f)
    /\ arrived' = 1
    /\ line' = IF connected_ THEN Append(line, <<Len(fed'), 1>>) ELSE line
    /\ UNCHANGED <<kind, callVars, hungup, breaks>>

PeerGoesOn ==
    /\ Online /\ ~hungup /\ MidFrame
    /\ arrived' = arrived + 1
    /\ line' = IF connected_ THEN Append(line, <<Len(fed), arrived'>>) ELSE line
    /\ UNCHANGED <<kind, callVars, fed, hungup, breaks>>

HangUp ==
    /\ connected_ /\ ~hungup
    /\ Break
    /\ hungup' = TRUE
    /\ UNCHANGED <<kind, callVars, fed, arrived, line>>

-----------------------------------------------------------------------------

Pieces == 1 .. HeaderCells + MaxBody

ReceiveStep ==
    \/ \E n \in Pieces : ReadHeader(n) \/ ReadBody(n)
    \/ ReadFails \/ ReadChunk \/ MoreReady \/ MoreQuiet

Next ==
    \/ Connect \/ ConnectFails \/ Disconnect
    \/ \E f \in Sent : SendBegin(f)
    \/ \E f \in Frames : PeerBegins(f)
    \/ \E n \in Pieces : Write(n)
    \/ WriteFails \/ ReceiveBegin \/ PollFails \/ MoreFails \/ ReceiveStep
    \/ PeerGoesOn \/ HangUp

Spec == Init /\ [][Next]_vars

(* The thread in receive runs, and the peer ends the frame it began.       *)
FairSpec == Spec /\ WF_vars(ReceiveStep) /\ WF_vars(PeerGoesOn)

-----------------------------------------------------------------------------
(* Properties                                                              *)

FrameCells(k) == [i \in 1 .. Size(fed[k]) |-> <<k, i>>]

(* TCP: however the reads cut the stream, and after any number of failed   *)
(* connections, receive returns the frames of the connection, whole and in *)
(* order, up to the first one whose header lies about its length.          *)
FramesIntact ==
    kind = "tcp" =>
        \A i \in 1 .. Len(got) :
            (\A k \in 1 .. i : k <= Len(fed) => Honest(fed[k]))
                => i <= Len(fed) /\ got[i] = FrameCells(i)

Follows(c, d) ==
    \/ d = <<c[1], c[2] + 1>>
    \/ c[2] = Size(fed[c[1]]) /\ d = <<c[1] + 1, 1>>

Linked(s) == \A i \in 1 .. Len(s) - 1 : Follows(s[i], s[i + 1])

(* RTU: receive returns the bytes of the line without a gap and stops only *)
(* where a frame ends, until a call of the system fails.  Only the first   *)
(* frame after connect may lack its head, and frames less than 5 ms apart  *)
(* come as one.                                                            *)
FramesComplete ==
    kind = "rtu" /\ fd # 0 /\ fd \notin broken =>
        \A i \in 1 .. Len(got) :
            LET end == got[i][Len(got[i])] IN
            /\ got[i] # << >> /\ Linked(got[i])
            /\ end[2] = Size(fed[end[1]])
            /\ i < Len(got) => Follows(end, got[i + 1][1])

(* TCP: only the last frame written to a connection can be incomplete, and *)
(* a connection with an incomplete frame is not written to again.          *)
NoTornFrame ==
    kind = "tcp" =>
        \A i \in 1 .. Len(out) :
            out[i][2] < Size(out[i][1])
                => i = Len(out) /\ (pc = "send" \/ ~connected_)

(* A connected transport uses a descriptor that is open, and the only      *)
(* descriptors it ever forgets to close are those of connections that      *)
(* failed and were replaced without a disconnect.                          *)
OnlyBrokenLeak ==
    /\ connected_ => fd \in open
    /\ open \subseteq broken \union {fd}

(* receive ends, although only its first poll has a timeout, as long as    *)
(* headers do not lie and the serial line is not cut.                      *)
ReceiveEnds ==
    pc \in Reading
        ~> \/ pc \notin Reading
           \/ kind = "tcp" /\ \E k \in 1 .. Len(fed) : ~Honest(fed[k])
           \/ kind = "rtu" /\ hungup
=============================================================================
