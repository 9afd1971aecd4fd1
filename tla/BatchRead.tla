----------------------------- MODULE BatchRead -----------------------------
(***************************************************************************)
(* A batch read from end to end, over the codecs: a device keeps typed     *)
(* values in the registers of a RegisterMap, a client asks for the ranges  *)
(* of the map in one BatchRequest, merged or not, the frames cross a noisy *)
(* line, and the client decodes the values from the BatchResponse.  The    *)
(* device is outside the repository: it answers each item with its         *)
(* registers.  Client::batch_read frames for TCP; an application on a      *)
(* serial line uses the RTU framing.                                       *)
(***************************************************************************)
EXTENDS BatchFormat

CONSTANTS
    Maps,           \* the register maps of the instance
    Values(_),      \* the values written, by type
    Stamp, Digest,  \* the bytes of a timestamp and of an HMAC
    Burst           \* bound: bits between the two that noise inverts

(* A map of sound descriptors with values that fit them, few enough for    *)
(* the frames of a batch, whose lengths have sixteen bits: the request has *)
(* six bytes for each, the response five and two for each register.        *)
Suited(d) == \A v \in Values(d.type) : Fits(d, v)

SoundMap(m) ==
    /\ m \in Seq(Descriptors) /\ Len(m) < 8192
    /\ 5 * Len(m) + 2 * Total(m) < 65492
    /\ \A i \in 1 .. Len(m) : Suited(m[i])

ASSUME BatchAssumption ==
    /\ Base = 256 /\ Space = 65536
    /\ Stamp \in [1 .. 8 -> Byte] /\ Digest \in [1 .. 32 -> Byte]
    /\ Burst \in 0 .. 8
    /\ \A m \in Maps : SoundMap(m)

VARIABLES
    map,        \* the register map both sides use
    buffer,     \* the device's registers, in the order of the map
    written,    \* history: the value last written to each descriptor
    link,       \* the framing
    phase,      \* where the exchange is
    batch,      \* the ranges asked for by the client, before and after merging
    wire,       \* the frame on the line
    damaged,    \* noise has changed it
    results     \* what the client has read

vars == <<map, buffer, written, link, phase, batch, wire, damaged, results>>

Unwritten == << >>

Init ==
    /\ map \in Maps
    /\ WellFormed(map)
    /\ buffer = [n \in 1 .. Total(map) |-> 0]
    /\ written = [i \in DOMAIN map |-> Unwritten]
    /\ link \in {"tcp", "rtu"}
    /\ phase = "idle"
    /\ batch = [asked |-> << >>, sent |-> << >>]
    /\ wire = << >> /\ damaged = FALSE
    /\ results = << >>

(* RegisterMap::encode on the device.                                      *)
WriteValue(i) ==
    /\ phase = "idle"
    /\ written[i] = Unwritten
    /\ \E v \in Values(map[i].type) :
          /\ buffer' = Encode(map, i, v, buffer)
          /\ written' = [written EXCEPT ![i] = <<v>>]
    /\ UNCHANGED <<map, link, phase, batch, wire, damaged, results>>

(* descriptor_info(), and add() for each of them.                          *)
Asked ==
    [i \in DOMAIN map |->
        Item(map[i].address, map[i].count, map[i].type, map[i].order)]

Frame(pdu) == IF link = "tcp" THEN WrapTcp(1, pdu, 7) ELSE WrapRtu(1, pdu)
Unframe(frame) == IF link = "tcp" THEN UnwrapTcp(frame) ELSE UnwrapRtu(frame)

(* batch_read sends the batch as it is given: optimized or not, with a     *)
(* timestamp or without.                                                   *)
Ask ==
    /\ phase = "idle"
    /\ \A i \in DOMAIN map : written[i] # Unwritten
    /\ \E items \in {Asked} \union Optimized(Asked), stamp \in {None, Stamp} :
          /\ batch' = [asked |-> Asked, sent |-> items]
          /\ wire' = Frame(MakeExtended(Header(1, stamp),
                                          SerializeRequest(items), None))
    /\ phase' = "request"
    /\ UNCHANGED <<map, buffer, written, link, damaged, results>>

Inverted(byte, bit) == ByteOf(SymDiff(Bits(byte), {bit}))

Flip(frame, n) == [frame EXCEPT ![n \div 8 + 1] = Inverted(@, n % 8)]

(* On a serial line one bit of the request or two close ones are inverted; *)
(* on TCP its end may be missing.                                          *)
Noise ==
    /\ phase = "request" /\ ~damaged
    /\ damaged' = TRUE
    /\ IF link = "rtu"
       THEN \E n \in 0 .. 8 * Len(wire) - 1, d \in 0 .. Burst :
               /\ n + d < 8 * Len(wire)
               /\ wire' = IF d = 0 THEN Flip(wire, n) ELSE Flip(Flip(wire, n), n + d)
       ELSE \E n \in 0 .. Len(wire) - 1 : wire' = SubSeq(wire, 1, n)
    /\ UNCHANGED <<map, buffer, written, link, phase, batch, results>>

(* The register at an address, as the device lays the map out.             *)
RegisterAt(a) ==
    LET i == CHOOSE i \in DOMAIN map :
                a \in map[i].address .. map[i].address + map[i].count - 1
    IN buffer[Offset(map, i) + 1 + a - map[i].address]

Result(item) ==
    [address |-> item.start_address, status |-> 0,
     registers |-> [j \in 1 .. item.count |-> RegisterAt(item.start_address + j - 1)]]

(* The device: a frame that does not parse is dropped.                     *)
Serve ==
    LET got == Unframe(wire)
        items == DeserializeRequest(got[1].pdu.payload)
    IN
    /\ phase = "request"
    /\ IF got = None
       THEN phase' = "lost" /\ wire' = << >>
       ELSE /\ phase' = "response"
            /\ wire' = Frame(MakeExtended(Header(1, None),
                          SerializeResponse([i \in DOMAIN items[1] |-> Result(items[1][i])]),
                          Digest))
    /\ UNCHANGED <<map, buffer, written, link, batch, damaged, results>>

Receive ==
    /\ phase = "response"
    /\ results' = DeserializeResponse(Unframe(wire)[1].pdu.payload)[1]
    /\ phase' = "done"
    /\ wire' = << >>
    /\ UNCHANGED <<map, buffer, written, link, batch, damaged>>

Next == (\E i \in DOMAIN map : WriteValue(i)) \/ Ask \/ Noise \/ Serve \/ Receive

Spec == Init /\ [][Next]_vars

-----------------------------------------------------------------------------
(* Properties                                                              *)

(* The values of a map do not disturb each other: writing one, of any type *)
(* and byte order, leaves what was written to the others.                  *)
MapHolds ==
    \A i \in DOMAIN map :
        written[i] # Unwritten => Decode(map, i, buffer) = written[i][1]

(* optimized() asks for every register that was asked for, in the same     *)
(* byte order, for nothing else, and for no register twice that was asked  *)
(* for once.                                                               *)
AskedFor(items) == UNION {Registers(items[i]) : i \in DOMAIN items}

OptimizedCovers ==
    /\ AskedFor(batch.sent) = AskedFor(batch.asked)
    /\ TotalRegisters(batch.sent) <= TotalRegisters(batch.asked)

(* A damaged frame is never taken for a good one: RTU finds any two close  *)
(* bits that were inverted, TCP any missing end.                           *)
DamageDetected == damaged => phase \in {"request", "lost"}

(* What the client decodes from the response is what was written: the      *)
(* registers of a descriptor are found in the result whose range holds     *)
(* them, which is the one find() gives when nothing was merged.            *)
RegistersOf(d) ==
    [j \in 1 .. d.count |->
        LET r == CHOOSE r \in ToSet(results) :
                    d.address + j - 1 \in r.address .. r.address + Len(r.registers) - 1
        IN r.registers[d.address + j - r.address]]

ReadsBack ==
    phase = "done" =>
        /\ AllSucceeded(results)
        /\ \A i \in DOMAIN map :
              /\ DecodeRegister(map[i], RegistersOf(map[i])) = written[i][1]
              /\ batch.sent = batch.asked
                    => Find(results, map[i].address) = i
=============================================================================
