--------------------------- MODULE RegisterCodec ---------------------------
(***************************************************************************)
(* Typed values in sixteen-bit registers: endian.hpp, TypeCodec and        *)
(* RegisterMap.  A number of N bytes is the function from the significance *)
(* of a byte, 0 for the least, to the byte, which for a float is its bit   *)
(* pattern; a byte is below Base and a register is two bytes.              *)
(***************************************************************************)
EXTENDS Integers, SequencesExt

CONSTANTS
    Base,     \* 256 in the code
    Space     \* 65536 in the code: addresses and counts are below it

ASSUME BaseAssumption == Base \in Nat \ {0} /\ Space \in Nat \ {0}

Byte == 0 .. Base - 1
Register == 0 .. Base * Base - 1
ByteOrders == {"ABCD", "DCBA", "BADC", "CDAB"}

-----------------------------------------------------------------------------
(* endian.hpp                                                              *)

(* The byte of the input that reorder puts at place i of N: words and the  *)
(* bytes in them are kept or reversed.                                     *)
Source(order, N, i) ==
    CASE order = "ABCD" -> i
      [] order = "DCBA" -> N + 1 - i
      [] order = "BADC" -> IF i % 2 = 1 THEN i + 1 ELSE i - 1
      [] order = "CDAB" -> IF i % 2 = 1 THEN N - i ELSE N + 2 - i

Reorder(order, N, bytes) == [i \in 1 .. N |-> bytes[Source(order, N, i)]]

ToBigEndian(N, value) == [i \in 1 .. N |-> value[N - i]]
FromBigEndian(N, bytes) == [k \in 0 .. N - 1 |-> bytes[N - k]]

(* decode_uint16 and encode_uint16 between two bytes and a register.       *)
Join(hi, lo) == hi * Base + lo
High(reg) == reg \div Base
Low(reg) == reg % Base

(* The encode and decode functions of a number of N bytes, and theirs for  *)
(* registers.                                                              *)
EncodeBytes(order, N, value) == Reorder(order, N, ToBigEndian(N, value))
DecodeBytes(order, N, bytes) == FromBigEndian(N, Reorder(order, N, bytes))

EncodeNumber(order, N, value) ==
    LET bytes == EncodeBytes(order, N, value) IN
    [j \in 1 .. N \div 2 |-> Join(bytes[2 * j - 1], bytes[2 * j])]

DecodeNumber(order, N, regs) ==
    DecodeBytes(order, N, [i \in 1 .. N |-> IF i % 2 = 1
                                            THEN High(regs[(i + 1) \div 2])
                                            ELSE Low(regs[(i + 1) \div 2])])

(* A char is signed: the second of a register overwrites the first when it *)
(* is not ASCII.                                                           *)
EncodeString(str, count) ==
    LET char(i) == IF i <= Len(str) THEN str[i] ELSE 0 IN
    [j \in 1 .. count |->
        Join(IF 2 * char(2 * j) >= Base THEN Base - 1 ELSE char(2 * j - 1),
             char(2 * j))]

(* Up to the first null.                                                   *)
DecodeString(regs, count) ==
    LET char(i) == IF i % 2 = 1 THEN High(regs[(i + 1) \div 2])
                                ELSE Low(regs[(i + 1) \div 2])
        Stop(n) == n = 2 * count \/ char(n + 1) = 0
        n == CHOOSE n \in 0 .. 2 * count : Stop(n) /\ \A m \in 0 .. n - 1 : ~Stop(m)
    IN [i \in 1 .. n |-> char(i)]

-----------------------------------------------------------------------------
(* RegisterDescriptor and RegisterMap                                      *)

Descriptor(type, addr, count, order) ==
    [type |-> type, address |-> addr, count |-> count, order |-> order]

(* default_register_count; a String has none.                              *)
Width(type) ==
    CASE type \in {"UInt16", "Int16"} -> 1
      [] type \in {"UInt32", "Int32", "Float32"} -> 2
      [] type = "Float64" -> 4
      [] type = "String" -> 0

EndAddress(d) == (d.address + d.count) % Space

(* Mutant of Overlap: only a range that begins inside the first counts.    *)
OverlapOneWay(a, b) == a.address < b.address /\ b.address < EndAddress(a)

Overlap(a, b) == a.address < EndAddress(b) /\ b.address < EndAddress(a)

(* The static assertions of a map.  That a count fits its type is not one. *)
WellFormed(map) ==
    /\ \A i \in DOMAIN map : map[i].count > 0
    /\ \A i, j \in DOMAIN map : i < j => ~Overlap(map[i], map[j])

Total(map) == FoldLeft(LAMBDA n, d : n + d.count, 0, map)

(* Mutant of Offset: the registers are laid out by the defaults.           *)
OffsetDefault(map, i) ==
    FoldLeft(LAMBDA n, d : n + Width(d.type), 0, SubSeq(map, 1, i - 1))

Offset(map, i) == Total(SubSeq(map, 1, i - 1))

(* The type decides how many registers are written, not the count.         *)
EncodeRegister(d, value) ==
    IF d.type = "String"
    THEN EncodeString(value, d.count)
    ELSE IF Width(d.type) = 1
    THEN <<Join(value[1], value[0])>>
    ELSE EncodeNumber(d.order, 2 * Width(d.type), value)

DecodeRegister(d, regs) ==
    IF d.type = "String"
    THEN DecodeString(regs, d.count)
    ELSE IF Width(d.type) = 1
    THEN [k \in 0 .. 1 |-> IF k = 0 THEN Low(regs[1]) ELSE High(regs[1])]
    ELSE DecodeNumber(d.order, 2 * Width(d.type), regs)

(* encode<I> and decode<I> on a flat buffer.                               *)
Encode(map, i, value, buffer) ==
    LET regs == EncodeRegister(map[i], value) IN
    [n \in DOMAIN buffer |->
        IF n - Offset(map, i) \in DOMAIN regs
        THEN regs[n - Offset(map, i)]
        ELSE buffer[n]]

Decode(map, i, buffer) ==
    DecodeRegister(map[i], SubSeq(buffer, Offset(map, i) + 1, Len(buffer)))

-----------------------------------------------------------------------------
(* What the properties take for granted of maps and values; the code does  *)
(* not check it.                                                           *)

Types == {"UInt16", "Int16", "UInt32", "Int32", "Float32", "Float64", "String"}

(* The range ends before the address space does, and has room for the type.*)
Descriptors ==
    {d \in [type : Types, address : 0 .. Space - 1, count : 1 .. Space - 1,
            order : ByteOrders] :
        d.address + d.count < Space /\ Width(d.type) <= d.count}

(* Strings are of ASCII characters, without a null, and fit.               *)
Fits(d, value) ==
    IF d.type = "String"
    THEN /\ value \in Seq({c \in Nat \ {0} : 2 * c < Base})
         /\ Len(value) <= 2 * d.count
    ELSE value \in [0 .. 2 * Width(d.type) - 1 -> Byte]
=============================================================================
