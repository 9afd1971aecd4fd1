---------------------------- MODULE BatchFormat ----------------------------
(***************************************************************************)
(* BatchRequest and BatchResponse: which registers a batch asks for after  *)
(* optimized() has merged its ranges, and the bytes of both messages.      *)
(* Addresses and counts have sixteen bits: they are below Space.           *)
(***************************************************************************)
EXTENDS WireFormat, RegisterCodec

Item(addr, count, type, order) ==
    [start_address |-> addr, count |-> count, type |-> type, byte_order |-> order]

(* The registers an item stands for, whatever its type.                    *)
Registers(item) ==
    {<<a, item.byte_order>> : a \in item.start_address ..
                                    item.start_address + item.count - 1}

TotalRegisters(items) ==
    FoldLeft(LAMBDA n, item : (n + item.count) % Space, 0, items)

(* std::sort: items with the same address end up in any order.             *)
Sortings(items) ==
    {s \in {[i \in DOMAIN items |-> items[p[i]]] :
               p \in {q \in [DOMAIN items -> DOMAIN items] : IsInjective(q)}} :
        \A i \in 1 .. Len(s) - 1 : s[i].start_address <= s[i + 1].start_address}

(* Mutant of LastEnd: one register too far.                                *)
LastEndPast(item) == (item.start_address + item.count + 1) % Space

LastEnd(item) == (item.start_address + item.count) % Space

(* One step of the loop of optimized(): curr is merged into the last item  *)
(* of the result or appended to it.                                        *)
Merge(result, curr) ==
    LET last == Last(result)
        curr_end == (curr.start_address + curr.count) % Space
        new_end == IF LastEnd(last) < curr_end THEN curr_end ELSE LastEnd(last)
    IN
    IF curr.start_address <= LastEnd(last) /\ last.byte_order = curr.byte_order
    THEN Front(result) \o
            <<[last EXCEPT !.count = (new_end - last.start_address) % Space,
                           !.type = "UInt16"]>>
    ELSE Append(result, curr)

(* What optimized() may return.                                            *)
Optimized(items) ==
    IF Len(items) <= 1
    THEN {items}
    ELSE {FoldLeft(Merge, <<Head(s)>>, Tail(s)) : s \in Sortings(items)}

-----------------------------------------------------------------------------
(* The bytes.  types and orders are the enumerations in their order.       *)

types == <<"UInt16", "Int16", "UInt32", "Int32", "Float32", "Float64", "String">>
orders == <<"ABCD", "DCBA", "BADC", "CDAB">>
Code(enum, x) == (CHOOSE i \in DOMAIN enum : enum[i] = x) - 1

SerializeRequest(items) ==
    U16(Len(items) % 65536) \o
    FlattenSeq([i \in DOMAIN items |->
        U16(items[i].start_address) \o U16(items[i].count)
        \o <<Code(types, items[i].type), Code(orders, items[i].byte_order)>>])

DeserializeRequest(data) ==
    LET n == FromU16(data, 1) IN
    IF Len(data) < 2 THEN None
    ELSE IF Len(data) < 2 + n * 6 THEN None
    ELSE <<[i \in 1 .. n |->
              LET at == 6 * i - 3 IN
              Item(FromU16(data, at), FromU16(data, at + 2),
                   types[data[at + 4] + 1], orders[data[at + 5] + 1])]>>

(* The status is cut to one byte.                                          *)
SerializeResponse(results) ==
    U16(Len(results) % 65536) \o
    FlattenSeq([i \in DOMAIN results |->
        U16(results[i].address) \o <<results[i].status % 256>>
        \o U16(Len(results[i].registers) % 65536)
        \o FlattenSeq([j \in DOMAIN results[i].registers |->
                          U16(results[i].registers[j])])])

(* The loop of deserialize: one more result, read at the offset reached.   *)
ReadResult(data, read, i) ==
    LET at == read.offset
        n == FromU16(data, at + 3)
    IN
    IF read.failed \/ at + 4 > Len(data) THEN [read EXCEPT !.failed = TRUE]
    ELSE IF at + 4 + 2 * n > Len(data) THEN [read EXCEPT !.failed = TRUE]
    ELSE [read EXCEPT
            !.offset = at + 5 + 2 * n,
            !.results = Append(@,
               [address |-> FromU16(data, at), status |-> data[at + 2],
                registers |-> [j \in 1 .. n |-> FromU16(data, at + 3 + 2 * j)]])]

DeserializeResponse(data) ==
    IF Len(data) < 2 THEN None
    ELSE LET n == FromU16(data, 1)
             read == FoldLeft(LAMBDA r, i : ReadResult(data, r, i),
                        [offset |-> 3, failed |-> FALSE, results |-> << >>],
                        [i \in 1 .. n |-> i])
         IN IF read.failed THEN None ELSE <<read.results>>

AllSucceeded(results) == \A i \in DOMAIN results : results[i].status = 0

(* find: the first result with this start address.                         *)
Find(results, addr) == SelectInSeq(results, LAMBDA r : r.address = addr)
=============================================================================
