----------------------------- MODULE WireFormat -----------------------------
(***************************************************************************)
(* The bytes of a frame: PDU::serialize and deserialize, and the TCP and   *)
(* RTU framing of FrameCodec.  A byte is a number below 256, a Result a    *)
(* sequence that holds the value or, for every error, is empty.  The clock *)
(* and the digest are given as the bytes they are sent as.                 *)
(***************************************************************************)
EXTENDS Integers, SequencesExt

None == << >>

U16(n) == <<n \div 256, n % 256>>
FromU16(bytes, i) == bytes[i] * 256 + bytes[i + 1]

(* FunctionCode and FrameFlag.                                             *)
Extended == 110
ExtendedStream == 111
HasTimestamp == 1
HasHMAC == 2
HasFlag(flags, f) == (flags \div f) % 2 = 1
WithFlag(flags, f, on) == IF on /\ ~HasFlag(flags, f) THEN flags + f ELSE flags

-----------------------------------------------------------------------------
(* PDU                                                                     *)

MakeStandard(fc, data) ==
    [fc |-> fc, header |-> None, payload |-> data, hmac |-> None]

(* payload_length has sixteen bits.                                        *)
MakeExtended(hdr, payload, hmac) ==
    [fc |-> Extended,
     header |-> <<[hdr EXCEPT
         !.flags = WithFlag(WithFlag(@, HasTimestamp, hdr.timestamp # None),
                            HasHMAC, hmac # None),
         !.payload_length = Len(payload) % 65536]>>,
     payload |-> payload,
     hmac |-> hmac]

(* FrameHeader with its defaults.                                          *)
Header(extfc, timestamp) ==
    [version |-> 1, flags |-> 0, correlation_id |-> 0, timestamp |-> timestamp,
     ext_function_code |-> extfc, payload_length |-> 0]

Serialize(pdu) ==
    IF pdu.header = None
    THEN <<pdu.fc>> \o pdu.payload
    ELSE LET hdr == pdu.header[1]
             Optional(flag, bytes) == IF HasFlag(hdr.flags, flag) THEN bytes ELSE None
         IN <<Extended, hdr.version>> \o U16(hdr.flags) \o U16(hdr.correlation_id)
               \o Optional(HasTimestamp, hdr.timestamp)
               \o <<hdr.ext_function_code>> \o U16(hdr.payload_length)
               \o pdu.payload
               \o Optional(HasHMAC, pdu.hmac)

(* Bytes after the part that is read are ignored.                          *)
Deserialize(raw) ==
    LET flags == FromU16(raw, 3)
        code == IF HasFlag(flags, HasTimestamp) THEN 15 ELSE 7
        length == FromU16(raw, code + 1)
        last == code + 2 + length
        end == IF HasFlag(flags, HasHMAC) THEN last + 32 ELSE last
    IN
    IF raw = << >> THEN None
    ELSE IF raw[1] \notin {Extended, ExtendedStream}
    THEN <<MakeStandard(raw[1], Tail(raw))>>
    ELSE IF Len(raw) < 9 \/ raw[2] # 1 THEN None
    ELSE IF Len(raw) < code + 2 THEN None
    ELSE IF Len(raw) < end THEN None
    ELSE <<[fc |-> raw[1],
            header |-> <<[version |-> raw[2], flags |-> flags,
                          correlation_id |-> FromU16(raw, 5),
                          timestamp |-> SubSeq(raw, 7, code - 1),
                          ext_function_code |-> raw[code],
                          payload_length |-> length]>>,
            payload |-> SubSeq(raw, code + 3, last),
            hmac |-> SubSeq(raw, last + 1, end)]>>

-----------------------------------------------------------------------------
(* FrameCodec                                                              *)

WrapTcp(unit, pdu, txn) ==
    LET bytes == Serialize(pdu) IN
    U16(txn) \o <<0, 0>> \o U16((1 + Len(bytes)) % 65536) \o <<unit>> \o bytes

(* A length of 0 would make the size of the PDU wrap around; no frame here *)
(* has one.                                                                *)
UnwrapTcp(frame) ==
    LET length == FromU16(frame, 5)
        pdu == Deserialize(SubSeq(frame, 8, 6 + length))
    IN
    IF \/ Len(frame) < 8 \/ frame[3] # 0 \/ frame[4] # 0
       \/ Len(frame) < 6 + length \/ pdu = None
    THEN None
    ELSE <<[unit |-> frame[7], pdu |-> pdu[1], txn |-> FromU16(frame, 1)]>>

(* The ones of a byte, and the byte with given ones.                       *)
Weight(bit) == <<1, 2, 4, 8, 16, 32, 64, 128>>[bit + 1]
Bits(byte) == {k \in 0 .. 7 : (byte \div Weight(k)) % 2 = 1}
ByteOf(bits) ==
    LET one(k) == IF k \in bits THEN Weight(k) ELSE 0
    IN one(0) + one(1) + one(2) + one(3) + one(4) + one(5) + one(6) + one(7)

(* One bit of the CRC, which is the set of its ones: shift right and, if a *)
(* one falls out, add the polynomial A001; and the loop over a byte.       *)
ShiftBit(crc) ==
    LET shifted == {k - 1 : k \in crc \ {0}} IN
    IF 0 \in crc THEN SymDiff(shifted, {0, 13, 15}) ELSE shifted
ShiftByte(crc) ==
    LET twice(c) == ShiftBit(ShiftBit(c))
        fourTimes(c) == twice(twice(c))
    IN fourTimes(fourTimes(crc))
AddByte(byte) == [crc \in SUBSET (0 .. 15) |-> ShiftByte(SymDiff(crc, Bits(byte)))]

(* Mutant of Crc16: the first byte is left out.                            *)
Crc16Tail(data) == FoldLeft(LAMBDA crc, byte : AddByte(byte)[crc], 0 .. 15, Tail(data))

Crc16(data) == FoldLeft(LAMBDA crc, byte : AddByte(byte)[crc], 0 .. 15, data)

Low8(crc) == crc \intersect 0 .. 7
High8(crc) == {k - 8 : k \in crc \intersect 8 .. 15}

(* The CRC goes low byte first.                                            *)
WrapRtu(unit, pdu) ==
    LET data == <<unit>> \o Serialize(pdu) IN
    data \o <<ByteOf(Low8(Crc16(data))), ByteOf(High8(Crc16(data)))>>

UnwrapRtu(frame) ==
    LET data == SubSeq(frame, 1, Len(frame) - 2)
        pdu == Deserialize(Tail(data))
    IN
    IF \/ Len(frame) < 4
       \/ Low8(Crc16(data)) # Bits(frame[Len(frame) - 1])
       \/ High8(Crc16(data)) # Bits(frame[Len(frame)])
       \/ pdu = None
    THEN None
    ELSE <<[unit |-> frame[1], pdu |-> pdu[1]]>>
=============================================================================
