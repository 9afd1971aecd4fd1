---------------------------- MODULE StreamProofs ----------------------------
(***************************************************************************)
(* The transports over a byte stream, for frames of any size and bytes     *)
(* that are read in any portions.                                          *)
(*                                                                         *)
(* The invariant of receive (TCP) is about the cells on the line and the   *)
(* one that the peer sends next: each is followed by its successor in the  *)
(* stream, and the first is the successor of what has been read.  RTU has  *)
(* no lengths: there the frames returned, what receive holds, the cells on *)
(* the line and the next to come are one chain, and receive ends where the *)
(* line is quiet, which is at the end of a frame (SerialInv).              *)
(***************************************************************************)
EXTENDS StreamTransport, TLAPS

LEMMA SizeType == \A f \in Frames : Size(f) \in Nat \ {0} /\ Body[f] \in Nat
  BY StreamAssumption DEF Size

-----------------------------------------------------------------------------
(* Descriptors                                                             *)

(* A call under way has a connection, and without one only descriptors of  *)
(* failed connections are open.                                            *)
LeakInv ==
    /\ OnlyBrokenLeak
    /\ ~connected_ => open \subseteq broken
    /\ pc # "idle" => connected_

LEMMA LeakInvariance == Spec => []LeakInv
<1>1. Init => LeakInv
  BY DEF Init, LeakInv, OnlyBrokenLeak
<1>2. LeakInv /\ [Next]_vars => LeakInv'
  <2> SUFFICES ASSUME LeakInv, [Next]_vars PROVE LeakInv'
    OBVIOUS
  <2> USE DEF LeakInv, OnlyBrokenLeak, peerVars, callVars
  <2>1. CASE Connect \/ ConnectFails \/ Disconnect
    BY <2>1 DEF Connect, ConnectFails, Disconnect
  <2>2. ASSUME NEW f \in Sent, SendBegin(f) PROVE LeakInv'
    BY <2>2 DEF SendBegin
  <2>3. ASSUME NEW n \in Pieces, Write(n) \/ ReadHeader(n) \/ ReadBody(n) PROVE LeakInv'
    BY <2>3 DEF Write, ReadHeader, ReadBody, Take
  <2>4. CASE WriteFails \/ PollFails \/ ReadFails
    BY <2>4 DEF WriteFails, PollFails, ReadFails, Fail
  <2>5. CASE ReceiveBegin \/ ReadChunk \/ MoreReady \/ MoreQuiet \/ MoreFails
    BY <2>5 DEF ReceiveBegin, ReadChunk, MoreReady, MoreQuiet, MoreFails
  <2>6. ASSUME NEW f \in Frames, PeerBegins(f) PROVE LeakInv'
    BY <2>6 DEF PeerBegins
  <2>7. CASE PeerGoesOn \/ HangUp \/ UNCHANGED vars
    BY <2>7 DEF PeerGoesOn, HangUp, vars
  <2> QED
    BY <2>1, <2>2, <2>3, <2>4, <2>5, <2>6, <2>7 DEF Next, ReceiveStep
<1> QED
  BY <1>1, <1>2, PTL DEF Spec

(* A connected transport uses an open descriptor; the only ones it forgets *)
(* to close are those of failed connections (connect overwrites fd_).      *)
THEOREM LeaksBounded == Spec => []OnlyBrokenLeak
<1>1. LeakInv => OnlyBrokenLeak
  BY DEF LeakInv
<1> QED
  BY LeakInvariance, <1>1, PTL

-----------------------------------------------------------------------------
(* Sending                                                                 *)

TornInv ==
    /\ out \in Seq(Frames \X Nat)
    /\ pc = "send" => out # << >>
    /\ NoTornFrame

(* TCP: nothing is written after a frame that was not written whole (the   *)
(* loop of send and its error return).                                     *)
THEOREM TornNever == Spec => []NoTornFrame
<1>1. Init => TornInv
  BY DEF Init, TornInv, NoTornFrame
<1>2. TornInv /\ LeakInv /\ [Next]_vars => TornInv'
  <2> SUFFICES ASSUME TornInv, LeakInv, [Next]_vars PROVE TornInv'
    OBVIOUS
  <2> USE DEF peerVars, callVars
  <2>0. ASSUME UNCHANGED <<out, kind>>, pc' = "send" => pc = "send",
               pc = "send" \/ ~connected_ => pc' = "send" \/ ~connected_'
        PROVE  TornInv'
    BY <2>0 DEF TornInv, NoTornFrame, Size
  <2>1. CASE Connect
    <3>1. out' = << >> /\ pc' # "send"
      BY <2>1 DEF Connect
    <3> QED
      BY <3>1 DEF TornInv, NoTornFrame
  <2>2. CASE ConnectFails \/ Disconnect
    BY <2>0, <2>2 DEF ConnectFails, Disconnect
  <2>3. ASSUME NEW f \in Sent, SendBegin(f) PROVE TornInv'
    <3>1. /\ f \in Frames /\ out' = Append(out, <<f, 0>>) /\ kind' = kind
          /\ pc' = "send" /\ pc = "idle" /\ connected_
      BY <2>3, StreamAssumption DEF SendBegin
    <3>2. /\ out' \in Seq(Frames \X Nat) /\ Len(out') = Len(out) + 1
          /\ \A i \in 1 .. Len(out) : out'[i] = out[i]
      BY <3>1 DEF TornInv
    <3>3. \A i \in 1 .. Len(out) : kind = "tcp" => ~(out[i][2] < Size(out[i][1]))
      BY <3>1 DEF TornInv, NoTornFrame
    <3>4. \A i \in 1 .. Len(out') :
             kind' = "tcp" /\ out'[i][2] < Size(out'[i][1]) => i = Len(out')
      BY <3>1, <3>2, <3>3 DEF TornInv
    <3> QED
      BY <3>1, <3>2, <3>4 DEF TornInv, NoTornFrame, Size
  <2>4. ASSUME NEW n \in Pieces, Write(n) PROVE TornInv'
    <3> DEFINE last == out[Len(out)]
               sum == last[2] + n
    <3>1. /\ pc = "send" /\ kind' = kind
          /\ sum <= Size(last[1])
          /\ out' = [out EXCEPT ![Len(out)] = <<last[1], sum>>]
          /\ pc' = IF kind = "rtu" \/ sum = Size(last[1]) THEN "idle" ELSE "send"
      BY <2>4 DEF Write
    <3>2. last \in Frames \X Nat /\ n \in Nat /\ Len(out) \in 1 .. Len(out)
      BY <3>1, StreamAssumption DEF Pieces, TornInv
    <3>3. <<last[1], sum>> \in Frames \X Nat
      BY <3>2
    <3> HIDE DEF last, sum
    <3>4. /\ out' \in Seq(Frames \X Nat) /\ Len(out') = Len(out) /\ out' # << >>
          /\ out'[Len(out)] = <<last[1], sum>>
          /\ \A i \in 1 .. Len(out) : i # Len(out) => out'[i] = out[i]
      <4>1. out \in Seq(Frames \X Nat) /\ out # << >>
        BY <3>1 DEF TornInv
      <4> QED
        BY <3>1, <3>2, <3>3, <4>1
    <3>5. NoTornFrame'
      <4> SUFFICES ASSUME kind = "tcp", NEW i \in 1 .. Len(out'),
                          out'[i][2] < Size(out'[i][1])
                   PROVE  i = Len(out') /\ pc' = "send"
        BY <3>1 DEF NoTornFrame, Size
      <4>1. i = Len(out')
        BY <3>4 DEF TornInv, NoTornFrame
      <4>2. sum < Size(last[1])
        BY <3>4, <4>1
      <4>3. sum # Size(last[1])
        BY <3>2, <4>2, SizeType DEF sum
      <4> QED
        BY <3>1, <4>1, <4>3
    <3> QED
      BY <3>4, <3>5 DEF TornInv
  <2>5. CASE WriteFails \/ PollFails \/ ReadFails
    <3>1. UNCHANGED <<out, kind>> /\ pc' = "idle" /\ connected_' = (kind = "rtu")
      BY <2>5 DEF WriteFails, PollFails, ReadFails, Fail
    <3> QED
      BY <3>1 DEF TornInv, NoTornFrame, Size
  <2>6. CASE \/ ReceiveBegin \/ ReadChunk \/ MoreReady \/ MoreQuiet \/ MoreFails
             \/ \E n \in Pieces : ReadHeader(n) \/ ReadBody(n)
    <3>1. /\ UNCHANGED <<out, kind, connected_>>
          /\ pc # "send" /\ pc' # "send" /\ connected_
      BY <2>6 DEF ReceiveBegin, ReadChunk, MoreReady, MoreQuiet, MoreFails, ReadHeader,
                  ReadBody, Take, Return, ReadOn, LeakInv
    <3> QED
      BY <2>0, <3>1
  <2>7. CASE \/ PeerGoesOn \/ HangUp \/ UNCHANGED vars \/ \E f \in Frames : PeerBegins(f)
    BY <2>0, <2>7 DEF PeerGoesOn, HangUp, PeerBegins, vars
  <2> QED
    BY <2>1, <2>2, <2>3, <2>4, <2>5, <2>6, <2>7 DEF Next, ReceiveStep
<1>3. TornInv => NoTornFrame
  BY DEF TornInv
<1> QED
  BY <1>1, <1>2, <1>3, LeakInvariance, PTL DEF Spec

-----------------------------------------------------------------------------
(* Receiving over TCP                                                      *)

Cells == Nat \X Nat

(* The cell the peer sends next, and the cells of the line with it.        *)
NextCell ==
    IF MidFrame THEN <<Len(fed), arrived + 1>> ELSE <<Len(fed) + 1, 1>>
Ahead(j) == IF j <= Len(line) THEN line[j] ELSE NextCell

Types ==
    /\ fed \in Seq(Frames) /\ arrived \in Nat
    /\ line \in Seq(Cells) /\ buf \in Seq(Cells) /\ got \in Seq(Seq(Cells))
    /\ pc \in {"idle", "send", "header", "body"}

InFed == \A a \in 1 .. Len(line) : line[a][1] \in 1 .. Len(fed)

(* Cell c of the line and what comes some places after it: the rest of its *)
(* frame, and the first cell of the next one.                              *)
Chained ==
    \A a \in 1 .. Len(line) : \A b \in a .. Len(line) + 1 :
        /\ line[a][2] + (b - a) <= Size(fed[line[a][1]]) =>
               Ahead(b) = <<line[a][1], line[a][2] + (b - a)>>
        /\ line[a][2] + (b - a) = Size(fed[line[a][1]]) + 1 =>
               Ahead(b) = <<line[a][1] + 1, 1>>

HonestUpTo(n) == \A k \in 1 .. n : k <= Len(fed) => Honest(fed[k])

(* What receive has read of the frame it is in.                            *)
Read == IF pc \in {"header", "body"} THEN buf ELSE << >>

HeaderOK == pc = "header" => need \in Nat \ {0} /\ Len(buf) + need = HeaderCells

(* The line goes on where receive is.                                      *)
Position ==
    /\ Ahead(1) = <<Len(got) + 1, Len(Read) + 1>>
    /\ \A i \in 1 .. Len(Read) : Read[i] = <<Len(got) + 1, i>>
    /\ pc = "body" =>
           /\ Len(got) + 1 <= Len(fed)
           /\ need \in Nat \ {0} /\ Len(buf) + need = Size(fed[Len(got) + 1])

InSync == connected_ /\ HonestUpTo(Len(got) + 1) => Position

Intact ==
    \A i \in 1 .. Len(got) :
        HonestUpTo(i) => i <= Len(fed) /\ got[i] = FrameCells(i)

Busy == pc # "idle" => connected_

TcpInv == Types /\ InFed /\ Chained /\ HeaderOK /\ InSync /\ Intact /\ Busy

StreamInv == kind = "tcp" => TcpInv

(* A portion taken from the line: what is left is the rest of it.          *)
LEMMA Portion ==
    ASSUME Types, InFed, Chained, NEW n \in Nat, n <= Len(line),
           line' = SubSeq(line, n + 1, Len(line)), UNCHANGED <<fed, arrived>>
    PROVE  /\ line' \in Seq(Cells) /\ Len(line') = Len(line) - n
           /\ \A j \in 1 .. Len(line') + 1 : Ahead(j)' = Ahead(j + n)
           /\ InFed' /\ Chained'
<1>1. /\ line' \in Seq(Cells) /\ Len(line') = Len(line) - n
      /\ \A j \in 1 .. Len(line') : line'[j] = line[j + n]
  BY DEF Types
<1>2. NextCell' = NextCell
  BY DEF NextCell, MidFrame, Size
<1>3. \A j \in 1 .. Len(line') + 1 : Ahead(j)' = Ahead(j + n)
  BY <1>1, <1>2 DEF Ahead, Types
<1>4. InFed'
  BY <1>1 DEF InFed, Types
<1>5. Chained'
  <2> SUFFICES ASSUME NEW a \in 1 .. Len(line'), NEW b \in a .. Len(line') + 1
               PROVE  /\ line'[a][2] + (b - a) <= Size(fed[line'[a][1]]) =>
                            Ahead(b)' = <<line'[a][1], line'[a][2] + (b - a)>>
                      /\ line'[a][2] + (b - a) = Size(fed[line'[a][1]]) + 1 =>
                            Ahead(b)' = <<line'[a][1] + 1, 1>>
    BY DEF Chained, Size
  <2>1. a + n \in 1 .. Len(line) /\ b + n \in (a + n) .. Len(line) + 1
    BY <1>1 DEF Types
  <2>2. line'[a] = line[a + n] /\ Ahead(b)' = Ahead(b + n) /\ (b + n) - (a + n) = b - a
    BY <1>1, <1>3
  <2> QED
    BY <2>1, <2>2 DEF Chained
<1> QED
  BY <1>1, <1>3, <1>4, <1>5

(* A portion that does not go past the end of its frame.                   *)
LEMMA PortionOfFrame ==
    ASSUME Types, InFed, Chained, Position, NEW n \in Nat \ {0}, n <= Len(line),
           pc \in {"header", "body"},
           buf' = buf \o SubSeq(line, 1, n),
           Len(buf) + n <= Size(fed[Len(got) + 1])
    PROVE  /\ Len(got) + 1 \in 1 .. Len(fed)
           /\ buf' \in Seq(Cells) /\ Len(buf') = Len(buf) + n
           /\ \A i \in 1 .. Len(buf') : buf'[i] = <<Len(got) + 1, i>>
           /\ Ahead(n + 1) = IF Len(buf) + n < Size(fed[Len(got) + 1])
                             THEN <<Len(got) + 1, Len(buf) + n + 1>>
                             ELSE <<Len(got) + 2, 1>>
<1> DEFINE k == Len(got) + 1
<1>1. line[1] = <<k, Len(buf) + 1>> /\ 1 \in 1 .. Len(line) /\ Len(buf) \in Nat /\ k \in Nat
  BY DEF Position, Ahead, Read, Types
<1>2. k \in 1 .. Len(fed) /\ Size(fed[k]) \in Nat
  BY <1>1, SizeType DEF InFed, Types
<1>3. \A j \in 1 .. n : line[j] = <<k, Len(buf) + j>>
  <2> SUFFICES ASSUME NEW j \in 1 .. n PROVE line[j] = <<k, Len(buf) + j>>
    OBVIOUS
  <2>1. j \in 1 .. Len(line) + 1 /\ j <= Len(line)
    BY DEF Types
  <2>2. line[1][2] + (j - 1) <= Size(fed[line[1][1]])
    BY <1>1, <1>2
  <2>3. Ahead(j) = <<line[1][1], line[1][2] + (j - 1)>>
    BY <1>1, <2>1, <2>2 DEF Chained
  <2> QED
    BY <1>1, <2>1, <2>3 DEF Ahead
<1>4. /\ buf' \in Seq(Cells) /\ Len(buf') = Len(buf) + n
      /\ \A i \in 1 .. Len(buf') : buf'[i] = IF i <= Len(buf) THEN buf[i] ELSE line[i - Len(buf)]
  BY DEF Types
<1>5. \A i \in 1 .. Len(buf') : buf'[i] = <<k, i>>
  <2>1. \A i \in 1 .. Len(buf) : buf[i] = <<k, i>>
    BY DEF Position, Read
  <2> QED
    BY <1>1, <1>3, <1>4, <2>1
<1>6. PICK b \in 1 .. Len(line) + 1 : b = n + 1
  BY DEF Types
<1>7. Ahead(b) = IF Len(buf) + n < Size(fed[k]) THEN <<k, Len(buf) + n + 1>> ELSE <<k + 1, 1>>
  <2>1. /\ line[1][2] + (b - 1) <= Size(fed[line[1][1]]) =>
               Ahead(b) = <<line[1][1], line[1][2] + (b - 1)>>
        /\ line[1][2] + (b - 1) = Size(fed[line[1][1]]) + 1 =>
               Ahead(b) = <<line[1][1] + 1, 1>>
    BY <1>1, <1>6 DEF Chained
  <2>2. line[1][1] = k /\ line[1][2] + (b - 1) = Len(buf) + n + 1
    BY <1>1, <1>6
  <2>3. /\ Len(buf) + n + 1 <= Size(fed[k]) => Ahead(b) = <<k, Len(buf) + n + 1>>
        /\ Len(buf) + n + 1 = Size(fed[k]) + 1 => Ahead(b) = <<k + 1, 1>>
    BY <2>1, <2>2
  <2>4. Len(buf) + n <= Size(fed[k])
    OBVIOUS
  <2> HIDE DEF k
  <2>5. Len(buf) + n < Size(fed[k]) \/ Len(buf) + n = Size(fed[k])
    <3>1. Len(buf) + n \in Nat
      BY <1>1
    <3>2. Size(fed[k]) \in Nat
      BY <1>2
    <3>3. \A x, y \in Nat : x <= y => x < y \/ x = y
      OBVIOUS
    <3> QED
      BY <2>4, <3>1, <3>2, <3>3, Zenon
  <2>6. CASE Len(buf) + n < Size(fed[k])
    BY <1>1, <1>2, <2>3, <2>6
  <2>7. CASE Len(buf) + n = Size(fed[k])
    BY <1>1, <1>2, <2>3, <2>7
  <2> QED
    BY <2>5, <2>6, <2>7
<1>8. k + 1 = Len(got) + 2
  BY <1>1
<1> QED
  BY <1>2, <1>4, <1>5, <1>6, <1>7, <1>8

(* The next cell arrives, of the frame under way or of a new one.          *)
LEMMA Arrival ==
    ASSUME Types, InFed, Chained, line' = Append(line, NextCell),
           \/ MidFrame /\ fed' = fed /\ arrived' = arrived + 1
           \/ /\ ~MidFrame /\ arrived' = 1
              /\ \E f \in Frames : fed' = Append(fed, f)
    PROVE  /\ fed' \in Seq(Frames) /\ arrived' \in Nat /\ line' \in Seq(Cells)
           /\ Len(fed) <= Len(fed') /\ \A k \in 1 .. Len(fed) : fed'[k] = fed[k]
           /\ Ahead(1)' = Ahead(1)
           /\ InFed' /\ Chained'
<1> DEFINE L == Len(line)
           last == Len(fed')
<1>1. /\ fed' \in Seq(Frames) /\ arrived' \in Nat \ {0} /\ L \in Nat
      /\ Len(fed) <= last /\ \A k \in 1 .. Len(fed) : fed'[k] = fed[k]
      /\ last \in 1 .. last
  <2>1. CASE MidFrame /\ fed' = fed /\ arrived' = arrived + 1
    BY <2>1 DEF Types, MidFrame
  <2>2. ASSUME arrived' = 1, NEW f \in Frames, fed' = Append(fed, f)
        PROVE  /\ fed' \in Seq(Frames) /\ arrived' \in Nat \ {0} /\ L \in Nat
               /\ Len(fed) <= last /\ \A k \in 1 .. Len(fed) : fed'[k] = fed[k]
               /\ last \in 1 .. last
    BY <2>2 DEF Types
  <2> QED
    BY <2>1, <2>2
<1>2. NextCell = <<last, arrived'>> /\ arrived' <= Size(fed'[last])
  <2>1. CASE MidFrame /\ fed' = fed /\ arrived' = arrived + 1
    <3>1. fed[Len(fed)] \in Frames
      BY <2>1 DEF MidFrame, Types
    <3> QED
      BY <2>1, <3>1, SizeType DEF NextCell, MidFrame, Types
  <2>2. ASSUME ~MidFrame, arrived' = 1, NEW f \in Frames, fed' = Append(fed, f)
        PROVE  NextCell = <<last, arrived'>> /\ arrived' <= Size(fed'[last])
    <3>1. last = Len(fed) + 1 /\ fed'[last] = f
      BY <2>2 DEF Types
    <3> QED
      BY <2>2, <3>1, SizeType DEF NextCell
  <2> QED
    BY <2>1, <2>2
<1>3. /\ line' \in Seq(Cells) /\ Len(line') = L + 1 /\ line'[L + 1] = <<last, arrived'>>
      /\ \A j \in 1 .. L : line'[j] = line[j]
  <2>1. NextCell \in Cells
    BY <1>1, <1>2 DEF Cells
  <2> QED
    BY <1>2, <2>1 DEF Types
<1>4. \A j \in 1 .. L + 1 : Ahead(j)' = Ahead(j)
  BY <1>1, <1>2, <1>3 DEF Ahead
<1>5. ASSUME NEW b, b = L + 2
      PROVE  Ahead(b)' = IF arrived' < Size(fed'[last]) THEN <<last, arrived' + 1>>
                         ELSE <<last + 1, 1>>
  <2>1. MidFrame' <=> arrived' < Size(fed'[last])
    BY <1>1 DEF MidFrame, Size
  <2>2. ~(b <= Len(line'))
    BY <1>1, <1>3, <1>5
  <2> QED
    BY <2>1, <2>2 DEF Ahead, NextCell
<1>6. InFed'
  BY <1>1, <1>3 DEF InFed
<1>7. Chained'
  <2> SUFFICES ASSUME NEW a \in 1 .. Len(line'), NEW b \in a .. Len(line') + 1
               PROVE  /\ line'[a][2] + (b - a) <= Size(fed'[line'[a][1]]) =>
                            Ahead(b)' = <<line'[a][1], line'[a][2] + (b - a)>>
                      /\ line'[a][2] + (b - a) = Size(fed'[line'[a][1]]) + 1 =>
                            Ahead(b)' = <<line'[a][1] + 1, 1>>
    BY DEF Chained, Size
  <2>0. a \in 1 .. L + 1 /\ b \in a .. L + 2
    BY <1>1, <1>3
  <2>1. CASE a <= L
    <3> DEFINE k == line[a][1]
               m == line[a][2]
    <3>1. /\ line'[a] = line[a] /\ fed'[k] = fed[k] /\ Size(fed[k]) \in Nat
          /\ k \in Nat /\ m \in Nat
      <4>1. a \in 1 .. Len(line)
        BY <1>1, <2>0, <2>1
      <4>2. k \in 1 .. Len(fed) /\ k \in Nat /\ m \in Nat
        <5>1. k \in 1 .. Len(fed)
          BY <4>1, Zenon DEF InFed
        <5>2. line \in Seq(Cells)
          BY DEF Types
        <5>3. line[a] \in Nat \X Nat
          BY <4>1, <5>2 DEF Cells
        <5> QED
          BY <5>1, <5>3
      <4>3. fed[k] \in Frames
        <5>1. fed \in Seq(Frames)
          BY DEF Types
        <5> QED
          BY <4>2, <5>1
      <4> QED
        BY <1>1, <1>3, <4>1, <4>2, <4>3, SizeType
    <3>2. CASE b <= L + 1
      <4>1. b \in a .. Len(line) + 1 /\ a \in 1 .. Len(line) /\ b \in 1 .. L + 1
        BY <1>1, <2>0, <2>1, <3>2
      <4>2. Ahead(b)' = Ahead(b)
        BY <1>4, <4>1
      <4> QED
        BY <3>1, <4>1, <4>2 DEF Chained
    <3>3. CASE b = L + 2
      <4>1. PICK e \in a .. L + 1 : e = L + 1
        BY <1>1, <2>1
      <4>2. m + (e - a) <= Size(fed[k]) => Ahead(e) = <<k, m + (e - a)>>
        BY <2>0, <2>1, <4>1 DEF Chained
      <4>3. Ahead(e) = <<last, arrived'>>
        BY <1>1, <1>2, <4>1 DEF Ahead
      <4>4. b - a = (e - a) + 1 /\ e - a \in Nat
        BY <3>3, <4>1
      <4> HIDE DEF k, m, last, L
      <4>5. m + (b - a) <= Size(fed[k]) + 1 => k = last /\ m + (e - a) = arrived'
        <5>1. m \in Nat /\ Size(fed[k]) \in Nat
          BY <3>1, Zenon
        <5>2. \A x, y, z \in Nat : x + (y + 1) <= z + 1 => x + y <= z
          OBVIOUS
        <5>3. m + (b - a) <= Size(fed[k]) + 1 => m + (e - a) <= Size(fed[k])
          BY <4>4, <5>1, <5>2, Zenon
        <5>4. <<k, m + (e - a)>> = <<last, arrived'>> => k = last /\ m + (e - a) = arrived'
          OBVIOUS
        <5> QED
          BY <4>2, <4>3, <5>3, <5>4, Zenon
      <4>6. Ahead(b)' = IF arrived' < Size(fed'[last]) THEN <<last, arrived' + 1>>
                        ELSE <<last + 1, 1>>
        BY <1>5, <3>3
      <4> DEFINE z == Size(fed[k])
      <4>a. z \in Nat /\ m \in Nat /\ m + (b - a) = m + (e - a) + 1 /\ fed'[k] = fed[k]
        BY <3>1, <4>4
      <4> DEFINE g == m + (b - a)
      <4>b. ASSUME m + (b - a) <= z + 1
            PROVE  /\ k = last /\ m + (b - a) = arrived' + 1
                   /\ Ahead(b)' = IF arrived' < z THEN <<k, m + (b - a)>> ELSE <<k + 1, 1>>
        <5>1. k = last /\ m + (e - a) = arrived'
          BY <4>5, <4>b
        <5> HIDE DEF z
        <5>2. Size(fed'[last]) = z
          BY <4>a, <5>1 DEF z
        <5> QED
          BY <4>6, <4>a, <5>1, <5>2
      <4>c. arrived' \in Nat /\ g \in Nat
        <5>1. arrived' \in Nat
          BY <1>1
        <5>2. g = m + (e - a) + 1
          BY <4>a
        <5> HIDE DEF g
        <5>3. g \in Nat
          BY <4>4, <4>a, <5>2
        <5> QED
          BY <5>1, <5>3
      <4>d. z \in Nat
        BY <4>a, Zenon
      <4> HIDE DEF z, g
      <4>e. \A x, y \in Nat : (x = y + 1 => (x <= z => y < z) /\ (x = z + 1 => ~(y < z)))
                             /\ (x <= z => x <= z + 1) /\ (x = z + 1 => x <= z + 1)
        BY <4>d
      <4>7. m + (b - a) <= Size(fed[k]) => Ahead(b)' = <<k, m + (b - a)>>
        <5>1. ASSUME g <= z PROVE Ahead(b)' = <<k, g>>
          <6>1. g <= z + 1
            BY <4>c, <4>e, <5>1, Zenon
          <6>2. g = arrived' + 1
            BY <4>b, <6>1, Zenon DEF g
          <6>3. arrived' < z
            BY <4>c, <4>e, <5>1, <6>2, Zenon
          <6> QED
            BY <4>b, <6>1, <6>3, Zenon DEF g
        <5> QED
          BY <5>1, Zenon DEF g, z
      <4>8. m + (b - a) = Size(fed[k]) + 1 => Ahead(b)' = <<k + 1, 1>>
        <5>1. ASSUME g = z + 1 PROVE Ahead(b)' = <<k + 1, 1>>
          <6>1. g <= z + 1
            BY <4>c, <4>e, <5>1, Zenon
          <6>2. g = arrived' + 1
            BY <4>b, <6>1, Zenon DEF g
          <6>3. ~(arrived' < z)
            BY <4>c, <4>e, <5>1, <6>2, Zenon
          <6> QED
            BY <4>b, <6>1, <6>3, Zenon DEF g
        <5> QED
          BY <5>1, Zenon DEF g, z
      <4> QED
        BY <3>1, <4>7, <4>8 DEF k, m
    <3>4. b <= L + 1 \/ b = L + 2
      BY <1>1, <2>0
    <3> QED
      BY <3>2, <3>3, <3>4
  <2>2. CASE a = L + 1
    <3>1. /\ line'[a] = <<last, arrived'>> /\ Size(fed'[last]) \in Nat
          /\ line'[a][1] = last /\ line'[a][2] = arrived'
      BY <1>1, <1>3, <2>2, SizeType
    <3>2. b = L + 1 \/ b = L + 2
      BY <1>1, <2>0, <2>2
    <3>3. CASE b = L + 1
      <4>1. Ahead(b)' = <<last, arrived'>> /\ b - a = 0
        BY <1>1, <1>3, <2>2, <3>3 DEF Ahead
      <4>2. arrived' \in Nat
        BY <1>1
      <4> HIDE DEF last, L
      <4>3. arrived' + (b - a) = arrived'
        <5>1. \A i, j, x \in Nat : i - j = 0 => x + (i - j) = x
          OBVIOUS
        <5>2. a \in Nat /\ b \in Nat
          BY <1>1, <2>0
        <5> QED
          BY <4>1, <4>2, <5>1, <5>2
      <4>4. arrived' # Size(fed'[last]) + 1
        BY <1>2, <3>1, <4>2
      <4> QED
        BY <3>1, <4>1, <4>3, <4>4
    <3>4. CASE b = L + 2
      <4>1. b - a = 1
        BY <1>1, <2>2, <3>4
      <4>2. Ahead(b)' = IF arrived' < Size(fed'[last]) THEN <<last, arrived' + 1>>
                        ELSE <<last + 1, 1>>
        BY <1>5, <3>4
      <4> HIDE DEF last, L
      <4>3. /\ arrived' + (b - a) <= Size(fed'[last]) => Ahead(b)' = <<last, arrived' + (b - a)>>
            /\ arrived' + (b - a) = Size(fed'[last]) + 1 => Ahead(b)' = <<last + 1, 1>>
        BY <1>1, <3>1, <4>1, <4>2
      <4> QED
        BY <3>1, <4>3
    <3> QED
      BY <3>2, <3>3, <3>4
  <2> QED
    BY <1>1, <2>0, <2>1, <2>2
<1>8. Ahead(1)' = Ahead(1)
  BY <1>1, <1>4
<1> QED
  BY <1>1, <1>3, <1>6, <1>7, <1>8

(* Steps that touch neither the line nor what receive returned.            *)
LEMMA Elsewhere ==
    ASSUME TcpInv, UNCHANGED <<fed, arrived, line, got>>,
           \/ pc' = "idle" /\ ~connected_' /\ buf' \in {buf, << >>}
           \/ pc \in {"idle", "send"} /\ pc' \in {"idle", "send"}
              /\ connected_ /\ UNCHANGED <<buf, connected_>>
           \/ UNCHANGED <<pc, buf, need, connected_>>
           \/ /\ pc = "idle" /\ pc' = "header" /\ connected_ /\ UNCHANGED connected_
              /\ buf' = << >> /\ need' = HeaderCells
    PROVE  TcpInv'
<1>1. Types'
  <2>1. buf \in Seq(Cells) /\ << >> \in Seq(Cells) /\ pc \in {"idle", "send", "header", "body"}
    BY DEF TcpInv, Types
  <2>2. buf' = buf \/ buf' = << >>
    OBVIOUS
  <2>3. pc' \in {"idle", "send", "header", "body"}
    BY <2>1
  <2> QED
    BY <2>1, <2>2, <2>3 DEF TcpInv, Types
<1>2. \A j : Ahead(j)' = Ahead(j)
  BY DEF Ahead, NextCell, MidFrame, Size
<1>3. InFed' /\ Chained'
  BY <1>2 DEF TcpInv, InFed, Chained, Size
<1>4. \A n : HonestUpTo(n)' <=> HonestUpTo(n)
  BY DEF HonestUpTo, Honest
<1>5. Intact'
  BY <1>4 DEF TcpInv, Intact, FrameCells, Size
<1>6. HeaderOK' /\ Busy'
  BY StreamAssumption DEF TcpInv, HeaderOK, Busy, Types
<1>7. InSync'
  <2> SUFFICES ASSUME connected_', HonestUpTo(Len(got) + 1) PROVE Position'
    BY <1>4 DEF InSync
  <2>1. connected_ /\ Position
    BY DEF TcpInv, InSync
  <2>2. Read' = Read
    BY <2>1 DEF Read
  <2>3. pc' = "body" => UNCHANGED <<pc, buf, need>>
    OBVIOUS
  <2> QED
    BY <1>2, <2>1, <2>2, <2>3 DEF Position, Size
<1> QED
  BY <1>1, <1>3, <1>5, <1>6, <1>7 DEF TcpInv

(* The frame receive is in is one the peer has begun.                      *)
LEMMA InFrame ==
    ASSUME Types, InFed, Position, NEW n \in Nat \ {0}, n <= Len(line)
    PROVE  /\ Len(got) + 1 \in 1 .. Len(fed) /\ fed[Len(got) + 1] \in Frames
           /\ Size(fed[Len(got) + 1]) \in Nat
           /\ Size(fed[Len(got) + 1]) = HeaderCells + Body[fed[Len(got) + 1]]
           /\ Body[fed[Len(got) + 1]] \in Nat
<1>1. 1 \in 1 .. Len(line) /\ line[1] = <<Len(got) + 1, Len(Read) + 1>>
  BY DEF Position, Ahead, Types
<1>2. Len(got) + 1 \in 1 .. Len(fed)
  BY <1>1 DEF InFed
<1>3. fed[Len(got) + 1] \in Frames
  BY <1>2 DEF Types
<1>4. Body[fed[Len(got) + 1]] \in Nat /\ Size(fed[Len(got) + 1]) \in Nat
  BY <1>3, SizeType
<1>5. Size(fed[Len(got) + 1]) = HeaderCells + Body[fed[Len(got) + 1]]
  BY DEF Size
<1> QED
  BY <1>2, <1>3, <1>4, <1>5

(* One read of a portion: what both kinds of read do.                      *)
Portioned(n) ==
    /\ pc \in {"header", "body"}
    /\ n \in Nat \ {0} /\ n <= Len(line)
    /\ buf' = buf \o SubSeq(line, 1, n)
    /\ line' = SubSeq(line, n + 1, Len(line))
    /\ UNCHANGED <<connected_, fed, arrived>>

LEMMA Portions ==
    ASSUME TcpInv, NEW n, Portioned(n)
    PROVE  /\ buf' \in Seq(Cells) /\ line' \in Seq(Cells) /\ Len(buf') = Len(buf) + n
           /\ InFed' /\ Chained' /\ connected_
           /\ Ahead(1)' = Ahead(n + 1)
           /\ \A m : HonestUpTo(m)' <=> HonestUpTo(m)
<1>1. Types /\ InFed /\ Chained /\ n \in Nat
  BY DEF TcpInv, Portioned
<1>2. /\ line' \in Seq(Cells) /\ Len(line') = Len(line) - n
      /\ \A j \in 1 .. Len(line') + 1 : Ahead(j)' = Ahead(j + n)
      /\ InFed' /\ Chained'
  BY <1>1, Portion DEF Portioned
<1>3. 1 \in 1 .. Len(line') + 1
  BY <1>2
<1>4. Ahead(1)' = Ahead(n + 1)
  BY <1>1, <1>2, <1>3
<1>5. buf' \in Seq(Cells) /\ Len(buf') = Len(buf) + n
  BY <1>1 DEF Types, Portioned
<1>6. connected_
  BY DEF TcpInv, Busy, Portioned
<1>7. \A m : HonestUpTo(m)' <=> HonestUpTo(m)
  BY DEF HonestUpTo, Honest, Portioned
<1> QED
  BY <1>2, <1>4, <1>5, <1>6, <1>7

(* The read that completes a frame returns it.                             *)
LEMMA Returning ==
    ASSUME TcpInv, NEW n, Portioned(n), pc' = "idle", got' = Append(got, buf'),
           HonestUpTo(Len(got) + 1) => Len(buf) + n = Size(fed[Len(got) + 1])
    PROVE  TcpInv'
<1> DEFINE k == Len(got) + 1
<1>0. Types /\ InFed /\ Chained
  BY DEF TcpInv
<1>1. /\ got' \in Seq(Seq(Cells)) /\ Len(got') = k /\ k \in Nat /\ got'[k] = buf'
      /\ \A i \in 1 .. Len(got) : got'[i] = got[i]
  BY <1>0, Portions DEF Types
<1>2. ASSUME HonestUpTo(k)
      PROVE  k <= Len(fed) /\ buf' = FrameCells(k) /\ Ahead(1)' = <<k + 1, 1>>
  <2>1. Position
    BY <1>2, Portions DEF TcpInv, InSync
  <2>2. Len(buf) + n = Size(fed[k]) /\ Size(fed[k]) \in Nat
    BY <1>0, <1>2, <2>1, InFrame DEF Portioned
  <2>3. /\ k \in 1 .. Len(fed)
        /\ Len(buf') = Size(fed[k]) /\ \A i \in 1 .. Len(buf') : buf'[i] = <<k, i>>
        /\ Ahead(n + 1) = <<Len(got) + 2, 1>>
    <3>1. /\ Len(buf) + n <= Size(fed[Len(got) + 1])
          /\ pc \in {"header", "body"} /\ n \in Nat \ {0} /\ n <= Len(line)
          /\ buf' = buf \o SubSeq(line, 1, n)
      BY <1>0, <2>2 DEF Portioned, Types
    <3>2. /\ k \in 1 .. Len(fed) /\ Len(buf') = Len(buf) + n
          /\ \A i \in 1 .. Len(buf') : buf'[i] = <<k, i>>
          /\ Ahead(n + 1) = IF Len(buf) + n < Size(fed[Len(got) + 1])
                            THEN <<Len(got) + 1, Len(buf) + n + 1>>
                            ELSE <<Len(got) + 2, 1>>
      BY <1>0, <2>1, <3>1, PortionOfFrame
    <3>3. ~(Len(buf) + n < Size(fed[Len(got) + 1]))
      BY <2>2
    <3> QED
      BY <2>2, <3>2, <3>3
  <2>4. buf' = FrameCells(k)
    BY <2>3, Portions DEF FrameCells
  <2> QED
    BY <1>1, <2>3, <2>4, Portions
<1>3. HonestUpTo(k + 1) => HonestUpTo(k)
  BY <1>1 DEF HonestUpTo
<1>4. Types'
  BY <1>0, <1>1, Portions DEF Types, Portioned
<1>5. Intact'
  <2> SUFFICES ASSUME NEW i \in 1 .. k, HonestUpTo(i)
               PROVE  i <= Len(fed) /\ got'[i] = FrameCells(i)
    BY <1>1, Portions DEF Intact, FrameCells, Size, Portioned
  <2>1. CASE i = k
    BY <1>1, <1>2, <2>1
  <2>2. CASE i \in 1 .. Len(got)
    BY <1>1, <2>2 DEF TcpInv, Intact
  <2> QED
    BY <1>1, <2>1, <2>2
<1>6. InSync'
  <2> SUFFICES ASSUME HonestUpTo(k + 1) PROVE Position'
    BY <1>1, Portions DEF InSync
  <2>1. Ahead(1)' = <<k + 1, 1>>
    BY <1>2, <1>3
  <2>2. Read' = << >>
    BY DEF Read
  <2> QED
    BY <1>1, <2>1, <2>2 DEF Position
<1> QED
  BY <1>4, <1>5, <1>6, Portions DEF TcpInv, HeaderOK, Busy

(* A read that does not complete it goes on.                               *)
LEMMA GoingOn ==
    ASSUME TcpInv, NEW n, Portioned(n), pc' \in {"header", "body"}, UNCHANGED got,
           HeaderOK',
           HonestUpTo(Len(got) + 1) /\ Position =>
               /\ Len(buf) + n < Size(fed[Len(got) + 1])
               /\ pc' = "body" => /\ need' \in Nat \ {0}
                                  /\ Len(buf) + n + need' = Size(fed[Len(got) + 1])
    PROVE  TcpInv'
<1> DEFINE k == Len(got) + 1
<1>0. Types /\ InFed /\ Chained
  BY DEF TcpInv
<1>1. Types'
  BY <1>0, Portions DEF Types, Portioned
<1>2. Intact'
  BY Portions DEF TcpInv, Intact, FrameCells, Size, Portioned
<1>3. InSync'
  <2> SUFFICES ASSUME HonestUpTo(k) PROVE Position'
    BY Portions DEF InSync
  <2>1. Position
    BY Portions DEF TcpInv, InSync
  <2>2. Len(buf) + n < Size(fed[k]) /\ Size(fed[k]) \in Nat /\ Len(buf) \in Nat
    BY <1>0, <2>1, InFrame DEF Portioned, Types
  <2>3. /\ k \in 1 .. Len(fed)
        /\ \A i \in 1 .. Len(buf') : buf'[i] = <<k, i>>
        /\ Ahead(n + 1) = <<k, Len(buf) + n + 1>>
    <3>1. /\ Len(buf) + n <= Size(fed[Len(got) + 1])
          /\ pc \in {"header", "body"} /\ n \in Nat \ {0} /\ n <= Len(line)
          /\ buf' = buf \o SubSeq(line, 1, n)
      BY <1>0, <2>2 DEF Portioned, Types
    <3> HIDE DEF k
    <3> QED
      BY <1>0, <2>1, <2>2, <3>1, PortionOfFrame DEF k
  <2>4. Read' = buf'
    BY DEF Read
  <2>5. Ahead(1)' = <<k, Len(buf') + 1>>
    BY <2>3, Portions
  <2>6. pc' = "body" => /\ k <= Len(fed) /\ need' \in Nat \ {0}
                        /\ Len(buf') + need' = Size(fed[k])
    BY <2>1, <2>3, Portions
  <2> QED
    BY <2>3, <2>4, <2>5, <2>6 DEF Position, Size, Portioned
<1> QED
  BY <1>1, <1>2, <1>3, Portions DEF TcpInv, Busy, Portioned

(* Every step of a TCP transport keeps the invariant.                      *)
LEMMA StreamStep == StreamInv /\ [Next]_vars => StreamInv'
<1> SUFFICES ASSUME TcpInv, kind = "tcp", [Next]_vars PROVE TcpInv'
  <2>1. [Next]_vars => kind' = kind
    BY DEF Next, ReceiveStep, Connect, ConnectFails, Disconnect, SendBegin, Write, WriteFails,
           ReceiveBegin, PollFails, MoreFails, ReadHeader, ReadBody, Take, ReadFails, Fail,
           ReadChunk, MoreReady, MoreQuiet, PeerBegins, PeerGoesOn, HangUp, vars
  <2> QED
    BY <2>1 DEF StreamInv
<1>0. Types /\ InFed /\ Chained /\ Busy
  BY DEF TcpInv
<1> USE DEF callVars, peerVars
<1>1. CASE Connect
  <2>1. /\ fed' = << >> /\ arrived' = 0 /\ line' = << >> /\ got' = << >>
        /\ pc' = "idle" /\ buf' = buf
    BY <1>1 DEF Connect
  <2>2. Ahead(1)' = <<1, 1>>
    BY <2>1 DEF Ahead, NextCell, MidFrame
  <2>3. Types' /\ InFed' /\ Chained' /\ Intact'
    BY <1>0, <2>1 DEF Types, InFed, Chained, Intact
  <2>4. HeaderOK' /\ Busy' /\ Position'
    BY <2>1, <2>2 DEF HeaderOK, Busy, Position, Read
  <2> QED
    BY <2>3, <2>4 DEF TcpInv, InSync
<1>2. CASE ConnectFails \/ HangUp \/ UNCHANGED vars
  BY <1>2, Elsewhere DEF ConnectFails, HangUp, vars
<1>3. CASE Disconnect
  BY <1>3, Elsewhere DEF Disconnect
<1>4. ASSUME NEW f \in Sent, SendBegin(f) PROVE TcpInv'
  BY <1>4, Elsewhere DEF SendBegin
<1>5. ASSUME NEW n \in Pieces, Write(n) PROVE TcpInv'
  BY <1>0, <1>5, Elsewhere DEF Write, Busy
<1>6. CASE WriteFails \/ PollFails \/ ReadFails
  <2>1. Fail
    BY <1>6 DEF WriteFails, PollFails, ReadFails
  <2> QED
    BY <2>1, Elsewhere DEF Fail
<1>7. CASE ReceiveBegin
  BY <1>7, Elsewhere DEF ReceiveBegin
<1>8. CASE ReadChunk \/ MoreReady \/ MoreQuiet \/ MoreFails
  BY <1>0, <1>8 DEF ReadChunk, MoreReady, MoreQuiet, MoreFails, Types
<1>9. ASSUME NEW n \in Pieces, ReadHeader(n) PROVE TcpInv'
  <2>1. Portioned(n) /\ pc = "header" /\ n <= need
    BY <1>9, StreamAssumption DEF ReadHeader, Take, Portioned, Pieces
  <2>2. /\ need \in Nat \ {0} /\ Len(buf) + need = HeaderCells
        /\ Len(buf) \in Nat /\ n \in Nat \ {0}
    BY <1>0, <2>1 DEF TcpInv, HeaderOK, Types, Portioned
  <2>3. Len(buf') = Len(buf) + n
    BY <2>1, Portions
  <2>4. ASSUME Position
        PROVE  /\ Size(fed[Len(got) + 1]) = HeaderCells + Body[fed[Len(got) + 1]]
               /\ Body[fed[Len(got) + 1]] \in Nat /\ Len(got) + 1 \in 1 .. Len(fed)
    BY <1>0, <2>1, <2>4, InFrame DEF Portioned
  <2>5. CASE n < need /\ ReadOn(n)
    <3>1. pc' = "header" /\ got' = got /\ HeaderOK'
      BY <2>1, <2>2, <2>3, <2>5 DEF ReadOn, HeaderOK
    <3>2. Position => Len(buf) + n < Size(fed[Len(got) + 1])
      BY <2>2, <2>4, <2>5
    <3> QED
      BY <2>1, <3>1, <3>2, GoingOn
  <2>6. ASSUME n = need, NEW d \in DeclaredBy(buf'),
               \/ d = 0 /\ need' = 0 /\ pc' = "idle" /\ UNCHANGED got
               \/ d = 1 /\ need' = 0 /\ Return
               \/ d > 1 /\ need' = d - 1 /\ pc' = "body" /\ UNCHANGED got
        PROVE  TcpInv'
    <3>1. Len(buf') = HeaderCells /\ Len(buf) + n = HeaderCells
      BY <2>2, <2>3, <2>6
    <3>2. ASSUME HonestUpTo(Len(got) + 1)
          PROVE  /\ Position
                 /\ d = Body[fed[Len(got) + 1]] + 1
      <4>1. Position
        BY <2>1, <3>2, Portions DEF TcpInv, InSync
      <4>2. Len(buf) + n <= Size(fed[Len(got) + 1])
        BY <2>4, <3>1, <4>1, StreamAssumption
      <4>3. \A i \in 1 .. HeaderCells : buf'[i] = <<Len(got) + 1, i>>
        BY <1>0, <2>1, <3>1, <4>1, <4>2, PortionOfFrame DEF Portioned
      <4>4. buf'[1][1] = Len(got) + 1
        BY <4>3, StreamAssumption
      <4>5. DeclaredBy(buf') = {Declared[fed[Len(got) + 1]]}
        BY <4>3, <4>4 DEF DeclaredBy
      <4> QED
        BY <2>4, <2>6, <3>2, <4>1, <4>5 DEF HonestUpTo, Honest
    <3>3. CASE d = 0 /\ need' = 0 /\ pc' = "idle" /\ UNCHANGED got
      <4>1. ~HonestUpTo(Len(got) + 1)
        BY <2>4, <3>2, <3>3
      <4>2. Types' /\ HeaderOK' /\ Busy' /\ InSync'
        BY <1>0, <2>1, <3>3, <4>1, Portions
        DEF Types, HeaderOK, Busy, InSync, Portioned
      <4>3. Intact'
        BY <2>1, <3>3, Portions DEF TcpInv, Intact, FrameCells, Size, Portioned
      <4> QED
        BY <2>1, <4>2, <4>3, Portions DEF TcpInv
    <3>4. CASE d = 1 /\ need' = 0 /\ Return
      <4>1. HonestUpTo(Len(got) + 1) => Len(buf) + n = Size(fed[Len(got) + 1])
        BY <2>4, <3>1, <3>2, <3>4, StreamAssumption
      <4> QED
        BY <2>1, <3>4, <4>1, Returning DEF Return
    <3>5. CASE d > 1 /\ need' = d - 1 /\ pc' = "body" /\ UNCHANGED got
      <4>1. HonestUpTo(Len(got) + 1) =>
               /\ Len(buf) + n < Size(fed[Len(got) + 1]) /\ need' \in Nat \ {0}
               /\ Len(buf) + n + need' = Size(fed[Len(got) + 1])
        BY <2>4, <3>1, <3>2, <3>5, StreamAssumption
      <4>2. HeaderOK'
        BY <3>5 DEF HeaderOK
      <4> QED
        BY <2>1, <3>5, <4>1, <4>2, GoingOn
    <3> QED
      BY <2>6, <3>3, <3>4, <3>5
  <2> QED
    BY <1>9, <2>5, <2>6 DEF ReadHeader
<1>10. ASSUME NEW n \in Pieces, ReadBody(n) PROVE TcpInv'
  <2>1. Portioned(n) /\ pc = "body" /\ n <= need
    BY <1>10, StreamAssumption DEF ReadBody, Take, Portioned, Pieces
  <2>2. HonestUpTo(Len(got) + 1) => Position
    BY <2>1, Portions DEF TcpInv, InSync
  <2>3. Position => need \in Nat \ {0} /\ Len(buf) + need = Size(fed[Len(got) + 1])
    BY <2>1 DEF Position
  <2>4. Len(buf) \in Nat /\ n \in Nat \ {0}
    BY <1>0, <2>1 DEF Types, Portioned
  <2>5. CASE n < need /\ ReadOn(n)
    <3>1. pc' = "body" /\ got' = got /\ need' = need - n /\ HeaderOK'
      BY <2>1, <2>5 DEF ReadOn, HeaderOK
    <3>2. Position => /\ Len(buf) + n < Size(fed[Len(got) + 1]) /\ need' \in Nat \ {0}
                      /\ Len(buf) + n + need' = Size(fed[Len(got) + 1])
      BY <2>3, <2>4, <2>5, <3>1
    <3> QED
      BY <2>1, <3>1, <3>2, GoingOn
  <2>6. CASE n = need /\ need' = 0 /\ Return
    <3>1. HonestUpTo(Len(got) + 1) => Len(buf) + n = Size(fed[Len(got) + 1])
      BY <2>2, <2>3, <2>6
    <3> QED
      BY <2>1, <2>6, <3>1, Returning DEF Return
  <2> QED
    BY <1>10, <2>5, <2>6 DEF ReadBody
<1>11. CASE PeerGoesOn \/ \E f \in Frames : PeerBegins(f)
  <2>1. /\ UNCHANGED <<connected_, pc, buf, need, got>> /\ (kind = "tcp" => connected_)
        /\ \/ MidFrame /\ fed' = fed /\ arrived' = arrived + 1
           \/ /\ ~MidFrame /\ arrived' = 1
              /\ \E f \in Frames : fed' = Append(fed, f)
    BY <1>11 DEF PeerGoesOn, PeerBegins, Online
  <2>2. line' = Append(line, NextCell)
    <3>1. CASE PeerGoesOn
      BY <2>1, <3>1 DEF PeerGoesOn, NextCell
    <3>2. ASSUME NEW f \in Frames, PeerBegins(f) PROVE line' = Append(line, NextCell)
      <4>1. Len(fed') = Len(fed) + 1
        BY <1>0, <3>2 DEF PeerBegins, Types
      <4> QED
        BY <2>1, <3>2, <4>1 DEF PeerBegins, NextCell
    <3> QED
      BY <1>11, <3>1, <3>2
  <2>3. /\ fed' \in Seq(Frames) /\ arrived' \in Nat /\ line' \in Seq(Cells)
        /\ Len(fed) <= Len(fed') /\ \A k \in 1 .. Len(fed) : fed'[k] = fed[k]
        /\ Ahead(1)' = Ahead(1) /\ InFed' /\ Chained'
    BY <1>0, <2>1, <2>2, Arrival
  <2>4. Len(fed) \in Nat /\ Len(fed') \in Nat /\ Len(got) \in Nat
    BY <1>0, <2>3 DEF Types
  <2>5. ASSUME NEW m \in Nat, HonestUpTo(m)' PROVE HonestUpTo(m)
    BY <2>3, <2>4, <2>5 DEF HonestUpTo, Honest
  <2>6. Types' /\ HeaderOK' /\ Busy'
    BY <1>0, <2>1, <2>3 DEF TcpInv, Types, HeaderOK, Busy
  <2>7. InSync'
    <3> SUFFICES ASSUME HonestUpTo(Len(got) + 1)' PROVE Position'
      BY <2>1 DEF InSync
    <3>1. Position
      BY <2>1, <2>4, <2>5 DEF TcpInv, InSync
    <3>2. Read' = Read
      BY <2>1 DEF Read
    <3>3. pc = "body" => /\ Len(got) + 1 <= Len(fed')
                         /\ Size(fed'[Len(got) + 1]) = Size(fed[Len(got) + 1])
      BY <2>3, <2>4, <3>1 DEF Position
    <3> QED
      BY <2>1, <2>3, <3>1, <3>2, <3>3 DEF Position, Size
  <2>8. Intact'
    <3> SUFFICES ASSUME NEW i \in 1 .. Len(got), HonestUpTo(i)'
                 PROVE  i <= Len(fed') /\ got[i] = FrameCells(i)'
      BY <2>1 DEF Intact
    <3>1. i <= Len(fed) /\ got[i] = FrameCells(i)
      BY <2>5 DEF TcpInv, Intact
    <3>2. FrameCells(i)' = FrameCells(i)
      BY <2>3, <2>4, <3>1 DEF FrameCells, Size
    <3> QED
      BY <2>3, <2>4, <3>1, <3>2
  <2> QED
    BY <2>3, <2>6, <2>7, <2>8 DEF TcpInv
<1> QED
  BY <1>1, <1>2, <1>3, <1>4, <1>5, <1>6, <1>7, <1>8, <1>9, <1>10, <1>11
  DEF Next, ReceiveStep

(* TCP: receive returns the frames of the connection, whole and in order,  *)
(* up to the first whose header lies about its length (the two reading     *)
(* loops of receive), for frames and portions of any size.                 *)
THEOREM FramesWhole == Spec => []FramesIntact
<1>1. Init => StreamInv
  <2> SUFFICES ASSUME Init PROVE TcpInv
    BY DEF StreamInv
  <2>1. Types /\ InFed /\ Chained /\ HeaderOK /\ InSync /\ Intact /\ Busy
    BY DEF Init, Types, InFed, Chained, HeaderOK, InSync, Intact, Busy
  <2> QED
    BY <2>1 DEF TcpInv
<1>2. StreamInv => FramesIntact
  BY DEF StreamInv, TcpInv, Intact, FramesIntact, HonestUpTo
<1> QED
  BY <1>1, <1>2, StreamStep, PTL DEF Spec

-----------------------------------------------------------------------------
(* Receiving over RTU                                                      *)

LineTypes ==
    /\ fed \in Seq(Frames) /\ arrived \in Nat
    /\ fed # << >> => arrived \in 1 .. Size(fed[Len(fed)])
    /\ line \in Seq(Cells) /\ buf \in Seq(Cells) /\ got \in Seq(Seq(Cells))
    /\ pc \in {"idle", "send", "chunk", "more"}

(* A descriptor that has not failed is not the number of one that has.     *)
Descriptor ==
    /\ opened \in Nat /\ fd \in 0 .. opened /\ broken \subseteq 1 .. opened
    /\ connected_ <=> fd # 0
    /\ pc # "idle" => connected_

(* What has arrived and receive has not returned: its buffer, the line.    *)
Held == IF pc \in {"chunk", "more"} THEN buf ELSE << >>
Pending == Held \o line

LastCell(s) == s[Len(s)]

(* In what follows F is what the peer began to send, a what has arrived of *)
(* the last frame of F, p what is pending and g what receive returned.     *)
NextTo(F, c, d) ==
    \/ d = <<c[1], c[2] + 1>>
    \/ c[2] = Size(F[c[1]]) /\ d = <<c[1] + 1, 1>>

Joined(F, s) ==
    /\ \A i \in 1 .. Len(s) : s[i][1] \in 1 .. Len(F)
    /\ \A i \in 1 .. Len(s) - 1 : NextTo(F, s[i], s[i + 1])

Returned(F, r) ==
    /\ r # << >> /\ Joined(F, r)
    /\ LastCell(r)[2] = Size(F[LastCell(r)[1]])

(* What was returned is whole frames, what is pending comes next and ends  *)
(* with the last cell that arrived.                                        *)
InOrder(F, a, p, g) ==
    /\ Joined(F, p)
    /\ p # << >> => LastCell(p) = <<Len(F), a>>
    /\ \A i \in 1 .. Len(g) : Returned(F, g[i])
    /\ \A i \in 1 .. Len(g) - 1 : NextTo(F, LastCell(g[i]), g[i + 1][1])
    /\ g # << >> =>
           IF p = << >> THEN LastCell(LastCell(g)) = <<Len(F), a>>
                        ELSE NextTo(F, LastCell(LastCell(g)), p[1])

Whole ==
    fd # 0 /\ fd \notin broken =>
        /\ InOrder(fed, arrived, Pending, got)
        /\ pc \in {"chunk", "more"} => Pending # << >> \/ hungup

SerialInv == kind = "rtu" => LineTypes /\ Descriptor /\ Whole

LEMMA SeqFacts ==
    ASSUME NEW S, NEW s \in Seq(S), NEW t \in Seq(S), NEW x \in S
    PROVE  /\ << >> \in Seq(S) /\ s \o t \in Seq(S) /\ s \o << >> = s /\ << >> \o s = s
           /\ s \o Append(t, x) = Append(s \o t, x)
           /\ Append(s, x) \in Seq(S) /\ Append(s, x) # << >>
           /\ Len(s) \in Nat /\ Len(Append(s, x)) = Len(s) + 1
           /\ \A i \in 1 .. Len(s) : Append(s, x)[i] = s[i]
           /\ Append(s, x)[Len(s) + 1] = x
           /\ s # << >> => Len(s) \in 1 .. Len(s)
           /\ s = << >> <=> Len(s) = 0
<1>1. /\ << >> \in Seq(S) /\ s \o t \in Seq(S)
      /\ Append(s, x) \in Seq(S) /\ Append(s, x) # << >>
      /\ Len(s) \in Nat /\ Len(Append(s, x)) = Len(s) + 1
  OBVIOUS
<1>2. s \o << >> = s /\ << >> \o s = s /\ s \o Append(t, x) = Append(s \o t, x)
  OBVIOUS
<1>3. /\ \A i \in 1 .. Len(s) : Append(s, x)[i] = s[i]
      /\ Append(s, x)[Len(s) + 1] = x
  OBVIOUS
<1>4. (s # << >> => Len(s) \in 1 .. Len(s)) /\ (s = << >> <=> Len(s) = 0)
  OBVIOUS
<1> QED
  BY <1>1, <1>2, <1>3, <1>4

(* The next cell of the line arrives: it follows the one before it.        *)
LEMMA CellArrives ==
    ASSUME NEW F \in Seq(Frames), NEW G \in Seq(Frames), NEW a \in Nat, NEW b \in Nat,
           F # << >> => a \in 1 .. Size(F[Len(F)]),
           NEW p \in Seq(Cells), NEW g \in Seq(Seq(Cells)), InOrder(F, a, p, g),
           \/ F # << >> /\ G = F /\ b = a + 1
           \/ /\ F # << >> => a = Size(F[Len(F)])
              /\ b = 1 /\ \E f \in Frames : G = Append(F, f)
    PROVE  InOrder(G, b, Append(p, <<Len(G), b>>), g)
<1> DEFINE c == <<Len(G), b>>
           q == Append(p, c)
<1>1. /\ Len(F) <= Len(G) /\ Len(F) \in Nat /\ Len(G) \in Nat
      /\ \A k \in 1 .. Len(F) : G[k] = F[k]
      /\ Len(G) \in 1 .. Len(G)
  <2>1. CASE F # << >> /\ G = F
    BY <2>1
  <2>2. ASSUME NEW f \in Frames, G = Append(F, f)
        PROVE  /\ Len(F) <= Len(G) /\ Len(F) \in Nat /\ Len(G) \in Nat
               /\ \A k \in 1 .. Len(F) : G[k] = F[k]
               /\ Len(G) \in 1 .. Len(G)
    BY <2>2
  <2> QED
    BY <2>1, <2>2
<1>2. ASSUME F # << >> PROVE NextTo(G, <<Len(F), a>>, c)
  <2>1. CASE G = F /\ b = a + 1
    BY <2>1 DEF NextTo
  <2>2. ASSUME a = Size(F[Len(F)]), b = 1, NEW f \in Frames, G = Append(F, f)
        PROVE  NextTo(G, <<Len(F), a>>, c)
    <3>1. Len(G) = Len(F) + 1 /\ G[Len(F)] = F[Len(F)]
      BY <1>1, <1>2, <2>2
    <3> QED
      BY <2>2, <3>1 DEF NextTo
  <2> QED
    BY <1>2, <2>1, <2>2
<1>3. ASSUME NEW x, NEW y, x[1] \in 1 .. Len(F), NextTo(F, x, y) PROVE NextTo(G, x, y)
  BY <1>1, <1>3 DEF NextTo
<1>4. c \in Cells
  BY <1>1 DEF Cells
<1> HIDE DEF c
<1>5. /\ Len(p) \in Nat /\ Len(q) = Len(p) + 1 /\ q # << >>
      /\ \A i \in 1 .. Len(p) : q[i] = p[i]
      /\ q[Len(p) + 1] = c
      /\ p # << >> => Len(p) \in 1 .. Len(p)
  BY <1>4, SeqFacts
<1> HIDE DEF q
<1>6. Joined(G, q)
  <2>1. ASSUME NEW i \in 1 .. Len(q) PROVE q[i][1] \in 1 .. Len(G)
    <3>1. CASE i = Len(p) + 1
      BY <1>1, <1>5, <3>1 DEF c
    <3>2. CASE i \in 1 .. Len(p)
      BY <1>1, <1>5, <3>2 DEF InOrder, Joined
    <3> QED
      BY <1>5, <3>1, <3>2
  <2>2. ASSUME NEW i \in 1 .. Len(q) - 1 PROVE NextTo(G, q[i], q[i + 1])
    <3>1. i \in 1 .. Len(p) /\ q[i] = p[i] /\ p[i][1] \in 1 .. Len(F)
      BY <1>5 DEF InOrder, Joined
    <3>2. CASE i = Len(p)
      <4>1. p # << >> /\ p[i] = <<Len(F), a>> /\ q[i + 1] = c
        BY <1>5, <3>1, <3>2 DEF InOrder, LastCell
      <4>2. F # << >>
        BY <1>1, <3>1
      <4> QED
        BY <1>2, <3>1, <4>1, <4>2
    <3>3. CASE i \in 1 .. Len(p) - 1
      <4>1. q[i + 1] = p[i + 1] /\ NextTo(F, p[i], p[i + 1])
        BY <1>5, <3>3 DEF InOrder, Joined
      <4> QED
        BY <1>3, <3>1, <4>1
    <3> QED
      BY <1>5, <3>1, <3>2, <3>3
  <2> QED
    BY <2>1, <2>2 DEF Joined
<1>7. LastCell(q) = <<Len(G), b>>
  BY <1>5 DEF LastCell, c
<1>8. ASSUME NEW i \in 1 .. Len(g)
      PROVE  LastCell(g[i])[1] \in 1 .. Len(F) /\ Returned(G, g[i])
  <2>1. Returned(F, g[i]) /\ g[i] \in Seq(Cells)
    BY DEF InOrder
  <2>2. Len(g[i]) \in 1 .. Len(g[i])
    BY <2>1 DEF Returned
  <2>3. LastCell(g[i])[1] \in 1 .. Len(F)
    BY <2>1, <2>2 DEF Returned, Joined, LastCell
  <2>4. \A k \in 1 .. Len(g[i]) - 1 : k \in 1 .. Len(g[i])
    BY <2>2
  <2>5. Joined(G, g[i])
    <3>1. Joined(F, g[i])
      BY <2>1 DEF Returned
    <3>2. ASSUME NEW k \in 1 .. Len(g[i]) PROVE g[i][k][1] \in 1 .. Len(F)
      BY <3>1 DEF Joined
    <3>3. ASSUME NEW k \in 1 .. Len(g[i]) - 1 PROVE NextTo(G, g[i][k], g[i][k + 1])
      <4>1. NextTo(F, g[i][k], g[i][k + 1])
        BY <3>1 DEF Joined
      <4> QED
        BY <1>3, <2>4, <3>2, <4>1
    <3> QED
      BY <1>1, <3>2, <3>3 DEF Joined
  <2> QED
    BY <1>1, <2>1, <2>3, <2>5 DEF Returned
<1>9. ASSUME NEW i \in 1 .. Len(g) - 1 PROVE NextTo(G, LastCell(g[i]), g[i + 1][1])
  <2>1. i \in 1 .. Len(g)
    OBVIOUS
  <2> QED
    BY <1>3, <1>8, <2>1 DEF InOrder
<1>10. ASSUME g # << >> PROVE NextTo(G, LastCell(LastCell(g)), q[1])
  <2>1. Len(g) \in 1 .. Len(g)
    BY <1>10
  <2>2. LastCell(LastCell(g))[1] \in 1 .. Len(F)
    BY <1>8, <2>1 DEF LastCell
  <2>3. CASE p = << >>
    <3>1. LastCell(LastCell(g)) = <<Len(F), a>> /\ q[1] = c /\ F # << >>
      BY <1>1, <1>5, <1>10, <2>2, <2>3 DEF InOrder
    <3> QED
      BY <1>2, <3>1
  <2>4. CASE p # << >>
    <3>1. NextTo(F, LastCell(LastCell(g)), p[1]) /\ q[1] = p[1]
      BY <1>5, <1>10, <2>4 DEF InOrder
    <3> QED
      BY <1>3, <2>2, <3>1
  <2> QED
    BY <2>3, <2>4
<1> QED
  BY <1>5, <1>6, <1>7, <1>8, <1>9, <1>10 DEF InOrder, q, c

(* The line is quiet: what was read is whole frames and is returned.       *)
LEMMA QuietReturns ==
    ASSUME NEW F \in Seq(Frames), NEW a \in Nat, NEW p \in Seq(Cells),
           NEW g \in Seq(Seq(Cells)), InOrder(F, a, p, g),
           p # << >>, a = Size(F[Len(F)])
    PROVE  InOrder(F, a, << >>, Append(g, p))
<1> DEFINE h == Append(g, p)
<1>1. /\ Len(h) = Len(g) + 1 /\ h[Len(g) + 1] = p /\ Len(g) \in Nat /\ h # << >>
      /\ \A i \in 1 .. Len(g) : h[i] = g[i]
  BY SeqFacts
<1> HIDE DEF h
<1>2. Returned(F, p)
  BY DEF Returned, InOrder
<1>3. \A i \in 1 .. Len(h) : Returned(F, h[i])
  <2> SUFFICES ASSUME NEW i \in 1 .. Len(h) PROVE Returned(F, h[i])
    OBVIOUS
  <2>1. CASE i \in 1 .. Len(g)
    BY <1>1, <2>1 DEF InOrder
  <2>2. CASE i = Len(g) + 1
    BY <1>1, <1>2, <2>2
  <2> QED
    BY <1>1, <2>1, <2>2
<1>4. ASSUME NEW i \in 1 .. Len(h) - 1 PROVE NextTo(F, LastCell(h[i]), h[i + 1][1])
  <2>1. i \in 1 .. Len(g) /\ h[i] = g[i]
    BY <1>1
  <2>2. CASE i = Len(g)
    <3>1. g # << >> /\ h[i + 1] = p /\ LastCell(g) = g[i]
      BY <1>1, <2>1, <2>2 DEF LastCell
    <3> QED
      BY <2>1, <3>1 DEF InOrder
  <2>3. CASE i \in 1 .. Len(g) - 1
    <3>1. h[i + 1] = g[i + 1]
      BY <1>1, <2>3
    <3> QED
      BY <2>1, <2>3, <3>1 DEF InOrder
  <2> QED
    BY <1>1, <2>1, <2>2, <2>3
<1>5. LastCell(LastCell(h)) = <<Len(F), a>>
  BY <1>1 DEF LastCell, InOrder
<1>6. Joined(F, << >>)
  BY DEF Joined
<1> QED
  BY <1>3, <1>4, <1>5, <1>6 DEF InOrder, h

(* Types are left alone by every step that moves no cell.                  *)
LEMMA LineTypesStep ==
    ASSUME LineTypes, kind = "rtu", [Next]_vars
    PROVE  LineTypes' /\ kind' = kind
<1> USE DEF callVars, peerVars
<1>0. ASSUME UNCHANGED <<fed, arrived>>, line' = line \/ line' = << >>,
             buf' = buf \/ buf' = << >> \/ buf' = buf \o line,
             got' = got \/ got' = << >> \/ got' = Append(got, buf),
             pc' = pc \/ pc' \in {"idle", "send", "chunk", "more"}
      PROVE  LineTypes'
  <2>0. line \in Seq(Cells) /\ buf \in Seq(Cells) /\ got \in Seq(Seq(Cells))
    BY DEF LineTypes
  <2>1. line' \in Seq(Cells) /\ buf' \in Seq(Cells)
    <3>1. buf \o line \in Seq(Cells) /\ << >> \in Seq(Cells)
      BY <2>0
    <3> QED
      BY <1>0, <2>0, <3>1
  <2>2. got' \in Seq(Seq(Cells))
    <3>1. Append(got, buf) \in Seq(Seq(Cells)) /\ << >> \in Seq(Seq(Cells))
      BY <2>0
    <3> QED
      BY <1>0, <2>0, <3>1
  <2>3. fed # << >> => arrived \in 1 .. Size(fed[Len(fed)])
    BY DEF LineTypes
  <2>4. (fed # << >> => arrived \in 1 .. Size(fed[Len(fed)]))'
    BY <1>0, <2>3 DEF Size
  <2> QED
    BY <1>0, <2>1, <2>2, <2>4 DEF LineTypes
<1>1. CASE Connect
  BY <1>0, <1>1 DEF Connect
<1>2. CASE ConnectFails \/ Disconnect \/ HangUp \/ UNCHANGED vars
  BY <1>0, <1>2 DEF ConnectFails, Disconnect, HangUp, vars
<1>3. ASSUME NEW f \in Sent, SendBegin(f) PROVE LineTypes' /\ kind' = kind
  BY <1>0, <1>3 DEF SendBegin
<1>4. ASSUME NEW n \in Pieces, Write(n) PROVE LineTypes' /\ kind' = kind
  BY <1>0, <1>4 DEF Write
<1>5. CASE WriteFails \/ PollFails \/ ReadFails
  <2>1. Fail
    BY <1>5 DEF WriteFails, PollFails, ReadFails
  <2> QED
    BY <1>0, <2>1 DEF Fail
<1>6. CASE ReceiveBegin \/ MoreReady
  <2>1. /\ UNCHANGED <<kind, fed, arrived, line, got>>
        /\ buf' = buf \/ buf' = << >>
        /\ pc' \in {"idle", "send", "chunk", "more"}
    BY <1>6 DEF ReceiveBegin, MoreReady
  <2> QED
    BY <1>0, <2>1
<1>7. CASE ReadChunk
  BY <1>0, <1>7 DEF ReadChunk
<1>8. CASE MoreQuiet \/ MoreFails
  <2>1. /\ UNCHANGED <<kind, fed, arrived, line>> /\ buf' = buf
        /\ pc' \in {"idle", "send", "chunk", "more"}
        /\ got' = got \/ got' = Append(got, buf)
    BY <1>8 DEF MoreQuiet, MoreFails, Return
  <2> QED
    BY <1>0, <2>1
<1>9. ASSUME NEW n \in Pieces, ReadHeader(n) \/ ReadBody(n) PROVE LineTypes' /\ kind' = kind
  BY <1>9 DEF ReadHeader, ReadBody, LineTypes
<1>10. ASSUME NEW f \in Frames, PeerBegins(f) PROVE LineTypes' /\ kind' = kind
  <2>1. /\ fed' = Append(fed, f) /\ arrived' = 1 /\ UNCHANGED <<kind, pc, buf, got>>
        /\ line' = line \/ line' = Append(line, <<Len(fed'), 1>>)
    BY <1>10 DEF PeerBegins
  <2>2. fed' \in Seq(Frames) /\ Len(fed') \in Nat /\ fed'[Len(fed')] = f
    BY <2>1 DEF LineTypes
  <2>3. Size(f)' = Size(f) /\ 1 \in 1 .. Size(f)
    BY SizeType DEF Size
  <2>4. (fed # << >> => arrived \in 1 .. Size(fed[Len(fed)]))'
    BY <2>1, <2>2, <2>3 DEF Size
  <2>5. <<Len(fed'), 1>> \in Cells
    BY <2>2 DEF Cells
  <2>6. line' \in Seq(Cells)
    <3>1. line \in Seq(Cells)
      BY DEF LineTypes
    <3>2. Append(line, <<Len(fed'), 1>>) \in Seq(Cells)
      BY <2>5, <3>1, SeqFacts
    <3> QED
      BY <2>1, <3>1, <3>2
  <2> QED
    BY <2>1, <2>2, <2>4, <2>6 DEF LineTypes
<1>11. CASE PeerGoesOn
  <2>1. /\ MidFrame /\ fed' = fed /\ arrived' = arrived + 1 /\ UNCHANGED <<kind, pc, buf, got>>
        /\ line' = line \/ line' = Append(line, <<Len(fed), arrived + 1>>)
    BY <1>11 DEF PeerGoesOn
  <2>2. /\ fed # << >> /\ fed[Len(fed)] \in Frames /\ arrived < Size(fed[Len(fed)])
        /\ Len(fed) \in Nat
    BY <2>1 DEF MidFrame, LineTypes
  <2>3. arrived' \in 1 .. Size(fed[Len(fed)]) /\ <<Len(fed), arrived + 1>> \in Cells
    BY <2>1, <2>2, SizeType DEF LineTypes, Cells
  <2>4. (fed # << >> => arrived \in 1 .. Size(fed[Len(fed)]))'
    BY <2>1, <2>3 DEF Size
  <2>5. line' \in Seq(Cells)
    <3>1. line \in Seq(Cells)
      BY DEF LineTypes
    <3>2. Append(line, <<Len(fed), arrived + 1>>) \in Seq(Cells)
      BY <2>3, <3>1, SeqFacts
    <3> QED
      BY <2>1, <3>1, <3>2
  <2>6. arrived' \in Nat
    BY <2>1 DEF LineTypes
  <2> QED
    BY <2>1, <2>4, <2>5, <2>6 DEF LineTypes
<1> QED
  BY <1>1, <1>2, <1>3, <1>4, <1>5, <1>6, <1>7, <1>8, <1>9, <1>10, <1>11
  DEF Next, ReceiveStep

LEMMA DescriptorStep ==
    ASSUME Descriptor, LineTypes, kind = "rtu", [Next]_vars
    PROVE  Descriptor'
<1> USE DEF callVars, peerVars
<1>1. CASE Connect
  <2>1. /\ opened' = opened + 1 /\ fd' = opened' /\ connected_' = TRUE
        /\ UNCHANGED <<broken, pc>>
    BY <1>1 DEF Connect
  <2> QED
    BY <2>1 DEF Descriptor
<1>1a. CASE ConnectFails \/ Disconnect
  <2>1. fd' = 0 /\ ~connected_' /\ pc' = "idle" /\ UNCHANGED <<opened, broken>>
    BY <1>1a DEF ConnectFails, Disconnect
  <2> QED
    BY <2>1 DEF Descriptor
<1>2. ASSUME NEW f \in Sent, SendBegin(f) PROVE Descriptor'
  BY <1>2 DEF SendBegin, Descriptor
<1>3. ASSUME NEW n \in Pieces, Write(n) PROVE Descriptor'
  BY <1>3 DEF Write, Descriptor
<1>4. CASE WriteFails \/ PollFails \/ ReadFails
  <2>1. connected_
    BY <1>4 DEF WriteFails, PollFails, ReadFails, Descriptor
  <2>2. /\ pc' = "idle" /\ broken' = broken \union {fd} /\ connected_' = TRUE
        /\ fd' = fd /\ opened' = opened
    BY <1>4 DEF WriteFails, PollFails, ReadFails, Fail
  <2> QED
    BY <2>1, <2>2 DEF Descriptor
<1>5. CASE ReceiveBegin \/ ReadChunk \/ MoreReady \/ MoreQuiet \/ MoreFails
  <2>1. pc # "idle" \/ connected_
    BY <1>5 DEF ReceiveBegin, ReadChunk, MoreReady, MoreQuiet, MoreFails
  <2>2. /\ UNCHANGED <<opened, fd, connected_>>
        /\ broken' = broken \/ broken' = broken \union {fd}
    BY <1>5 DEF ReceiveBegin, ReadChunk, MoreReady, MoreQuiet, MoreFails
  <2>3. connected_ /\ fd \in 1 .. opened
    BY <2>1 DEF Descriptor
  <2> QED
    BY <2>2, <2>3 DEF Descriptor
<1>6. ASSUME NEW n \in Pieces, ReadHeader(n) \/ ReadBody(n) PROVE Descriptor'
  BY <1>6 DEF ReadHeader, ReadBody, LineTypes
<1>7. CASE \/ PeerGoesOn \/ HangUp \/ UNCHANGED vars \/ \E f \in Frames : PeerBegins(f)
  <2>1. UNCHANGED <<opened, fd, broken, connected_, pc>>
    BY <1>7 DEF PeerGoesOn, HangUp, PeerBegins, vars
  <2> QED
    BY <2>1 DEF Descriptor
<1> QED
  BY <1>1, <1>1a, <1>2, <1>3, <1>4, <1>5, <1>6, <1>7 DEF Next, ReceiveStep

(* Every step of an RTU transport keeps the invariant.                     *)
LEMMA SerialStep == SerialInv /\ [Next]_vars => SerialInv'
<1> SUFFICES ASSUME LineTypes, Descriptor, Whole, kind = "rtu", [Next]_vars
             PROVE  Whole'
  <2>1. [Next]_vars => kind' = kind
    BY DEF Next, ReceiveStep, Connect, ConnectFails, Disconnect, SendBegin, Write, WriteFails,
           ReceiveBegin, PollFails, MoreFails, ReadHeader, ReadBody, Take, ReadFails, Fail,
           ReadChunk, MoreReady, MoreQuiet, PeerBegins, PeerGoesOn, HangUp, vars
  <2> QED
    BY <2>1, LineTypesStep, DescriptorStep DEF SerialInv
<1>0. LineTypes' /\ Descriptor'
  BY LineTypesStep, DescriptorStep
<1> USE DEF callVars, peerVars
<1>a. ASSUME UNCHANGED <<fed, arrived, got, fd, broken>>, Pending' = Pending,
             pc' \in {"chunk", "more"} =>
                 pc \in {"chunk", "more"} \/ Pending # << >> \/ hungup,
             hungup => hungup'
      PROVE  Whole'
  BY <1>a DEF Whole
<1>b. /\ Held \in Seq(Cells) /\ Pending \in Seq(Cells)
      /\ (buf \o line) \o << >> = buf \o line /\ << >> \o line = line /\ buf \o << >> = buf
  <2>1. Held \in Seq(Cells) /\ line \in Seq(Cells) /\ buf \in Seq(Cells)
    BY DEF Held, LineTypes
  <2> QED
    BY <2>1 DEF Pending
<1>1. CASE Connect
  <2>1. pc' = "idle" /\ line' = << >> /\ got' = << >>
    BY <1>1 DEF Connect
  <2>2. Pending' = << >>
    BY <2>1 DEF Pending, Held
  <2>3. InOrder(fed', arrived', << >>, << >>)
    BY DEF InOrder, Joined
  <2> QED
    BY <2>1, <2>2, <2>3 DEF Whole
<1>2. CASE ConnectFails \/ Disconnect
  <2>1. fd' = 0
    BY <1>2 DEF ConnectFails, Disconnect
  <2> QED
    BY <2>1 DEF Whole
<1>3. CASE HangUp \/ UNCHANGED vars
  <2>1. UNCHANGED <<fed, arrived, got, fd, broken, line, buf, pc>> /\ (hungup => hungup')
    BY <1>3 DEF HangUp, vars
  <2> QED
    BY <1>a, <2>1 DEF Pending, Held
<1>4. CASE (\E f \in Sent : SendBegin(f)) \/ (\E n \in Pieces : Write(n))
  <2>1. /\ UNCHANGED <<fed, arrived, got, fd, broken, line, buf, hungup>>
        /\ pc \in {"idle", "send"} /\ pc' \in {"idle", "send"}
    BY <1>4 DEF SendBegin, Write
  <2>2. Pending' = Pending
    BY <2>1 DEF Pending, Held
  <2> QED
    BY <1>a, <2>1, <2>2
<1>5. CASE WriteFails \/ PollFails \/ ReadFails \/ MoreFails
  <2>1. fd' = fd /\ broken' = broken \union {fd}
    BY <1>5 DEF WriteFails, PollFails, ReadFails, MoreFails, Fail
  <2> QED
    BY <2>1 DEF Whole
<1>6. CASE ReceiveBegin
  <2>1. /\ UNCHANGED <<fed, arrived, got, fd, broken, line, hungup>> /\ buf' = << >>
        /\ pc = "idle" /\ pc' = "chunk"
        /\ line # << >> \/ hungup
    BY <1>6 DEF ReceiveBegin
  <2>2. Held = << >> /\ Held' = << >>
    BY <2>1 DEF Held
  <2>3. Pending' = Pending /\ Pending = line
    BY <1>b, <2>1, <2>2 DEF Pending
  <2> QED
    BY <1>a, <2>1, <2>3
<1>7. CASE ReadChunk \/ MoreReady
  <2>1. /\ UNCHANGED <<fed, arrived, got, fd, broken, hungup>>
        /\ pc \in {"chunk", "more"} /\ pc' \in {"chunk", "more"}
        /\ \/ buf' = buf \o line /\ line' = << >>
           \/ UNCHANGED <<buf, line>>
    BY <1>7 DEF ReadChunk, MoreReady
  <2>2. Pending' = Pending
    BY <1>b, <2>1 DEF Pending, Held
  <2> QED
    BY <1>a, <2>1, <2>2
<1>8. CASE MoreQuiet
  <2>1. /\ pc = "more" /\ line = << >> /\ ~hungup /\ ~MidFrame
        /\ pc' = "idle" /\ got' = Append(got, buf) /\ buf' = buf
        /\ UNCHANGED <<fed, arrived, line, hungup, fd, broken>>
    BY <1>8 DEF MoreQuiet, Quiet, Return
  <2>2. Pending = buf /\ Pending' = << >>
    BY <1>b, <2>1 DEF Pending, Held
  <2> SUFFICES ASSUME fd # 0, fd \notin broken
               PROVE  InOrder(fed, arrived, << >>, Append(got, buf))
    BY <2>1, <2>2 DEF Whole
  <2>3. InOrder(fed, arrived, buf, got) /\ buf # << >>
    BY <2>1, <2>2 DEF Whole
  <2>4. fed \in Seq(Frames) /\ arrived \in Nat /\ buf \in Seq(Cells) /\ got \in Seq(Seq(Cells))
    BY DEF LineTypes
  <2>5. Len(buf) \in 1 .. Len(buf) /\ fed # << >>
    BY <2>3, <2>4 DEF InOrder, Joined
  <2>6. arrived = Size(fed[Len(fed)])
    <3>1. fed[Len(fed)] \in Frames
      BY <2>4, <2>5
    <3> QED
      BY <2>1, <2>5, <3>1, SizeType DEF LineTypes, MidFrame
  <2> QED
    BY <2>3, <2>4, <2>6, QuietReturns
<1>9. ASSUME NEW n \in Pieces, ReadHeader(n) \/ ReadBody(n) PROVE Whole'
  BY <1>9 DEF ReadHeader, ReadBody, LineTypes
<1>10. CASE PeerGoesOn \/ \E f \in Frames : PeerBegins(f)
  <2>1. /\ UNCHANGED <<fd, broken, pc, buf, got, hungup, connected_>>
        /\ \/ MidFrame /\ fed' = fed /\ arrived' = arrived + 1
           \/ /\ ~MidFrame /\ arrived' = 1
              /\ \E f \in Frames : fed' = Append(fed, f)
    BY <1>10 DEF PeerGoesOn, PeerBegins
  <2>2. connected_ => line' = Append(line, <<Len(fed'), arrived'>>)
    BY <1>10 DEF PeerGoesOn, PeerBegins
  <2> SUFFICES ASSUME fd # 0, fd \notin broken
               PROVE  /\ InOrder(fed', arrived', Pending', got)
                      /\ pc \in {"chunk", "more"} => Pending' # << >> \/ hungup
    BY <2>1 DEF Whole
  <2>3. /\ fed \in Seq(Frames) /\ arrived \in Nat /\ got \in Seq(Seq(Cells))
        /\ line \in Seq(Cells) /\ buf \in Seq(Cells)
        /\ fed # << >> => arrived \in 1 .. Size(fed[Len(fed)])
    BY DEF LineTypes
  <2>4. fed' \in Seq(Frames) /\ arrived' \in Nat
    BY <1>0 DEF LineTypes
  <2>5. <<Len(fed'), arrived'>> \in Cells
    BY <2>4 DEF Cells
  <2>6. line' = Append(line, <<Len(fed'), arrived'>>) /\ Held' = Held
    BY <2>1, <2>2 DEF Descriptor, Held
  <2>7. Pending' = Append(Pending, <<Len(fed'), arrived'>>) /\ Pending' # << >>
    <3> DEFINE c == <<Len(fed'), arrived'>>
    <3>1. Held \o Append(line, c) = Append(Held \o line, c) /\ Append(Pending, c) # << >>
      <4>1. Held \in Seq(Cells) /\ line \in Seq(Cells) /\ Pending \in Seq(Cells)
        BY <1>b, <2>3, Zenon
      <4>2. c \in Cells
        BY <2>5
      <4> HIDE DEF c
      <4>3. ASSUME NEW x \in Cells
            PROVE  Held \o Append(line, x) = Append(Held \o line, x)
        BY <4>1, SeqFacts
      <4>4. ASSUME NEW x \in Cells PROVE Append(Pending, x) # << >>
        BY <4>1, SeqFacts
      <4> QED
        BY <4>2, <4>3, <4>4, Zenon
    <3> QED
      BY <2>6, <3>1 DEF Pending
  <2>8. \/ fed # << >> /\ fed' = fed /\ arrived' = arrived + 1
        \/ /\ fed # << >> => arrived = Size(fed[Len(fed)])
           /\ arrived' = 1 /\ \E f \in Frames : fed' = Append(fed, f)
    <3>1. fed # << >> => fed[Len(fed)] \in Frames
      BY <2>3
    <3> QED
      BY <2>1, <2>3, <3>1, SizeType DEF MidFrame
  <2>9. InOrder(fed, arrived, Pending, got)
    BY DEF Whole
  <2> QED
    BY <1>b, <2>3, <2>4, <2>7, <2>8, <2>9, CellArrives
<1> QED
  BY <1>1, <1>2, <1>3, <1>4, <1>5, <1>6, <1>7, <1>8, <1>9, <1>10
  DEF Next, ReceiveStep

(* RTU: receive returns the bytes of the line without a gap and stops only *)
(* where a frame ends (the 5 ms loop of receive), until a call of the      *)
(* system fails, for any number of frames of any size.                     *)
THEOREM FramesLineUp == Spec => []FramesComplete
<1>1. Init => SerialInv
  BY DEF Init, SerialInv, LineTypes, Descriptor, Whole
<1>2. SerialInv => FramesComplete
  BY DEF SerialInv, Whole, InOrder, Returned, Joined, NextTo, LastCell, FramesComplete,
         Linked, Follows
<1> QED
  BY <1>1, <1>2, SerialStep, PTL DEF Spec

=============================================================================
