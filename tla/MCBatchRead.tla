---------------------------- MODULE MCBatchRead ----------------------------
(* Maps with every type and byte order, contiguous and not, the second in  *)
(* descending order of addresses and the last at the end of the address    *)
(* space, and one that overlaps and is refused.                            *)
EXTENDS BatchRead

D(type, addr, count, order) == Descriptor(type, addr, count, order)

MCMaps == {
    <<D("Float32", 0, 2, "BADC"), D("UInt16", 2, 1, "ABCD"), D("Float64", 3, 4, "CDAB")>>,
    <<D("String", 261, 2, "ABCD"), D("Int32", 258, 2, "ABCD"), D("Int16", 257, 1, "ABCD")>>,
    <<D("UInt32", 65531, 2, "DCBA"), D("Float64", 65527, 4, "DCBA"),
      D("UInt16", 65533, 1, "DCBA")>>,
    <<D("Float64", 16, 4, "ABCD"), D("UInt16", 17, 1, "ABCD")>>,
    <<D("UInt16", 17, 1, "ABCD"), D("Float64", 16, 4, "BADC")>>}

(* A value in which all bytes differ, and one with the sign bit set.       *)
Number(n) == {[k \in 0 .. n - 1 |-> k + 17], [k \in 0 .. n - 1 |-> 254 - 31 * k]}

MCValues(type) ==
    CASE type \in {"UInt16", "Int16"} -> Number(2)
      [] type \in {"UInt32", "Int32", "Float32"} -> Number(4)
      [] type = "Float64" -> {[k \in 0 .. 7 |-> 254 - 31 * k]}
      [] type = "String" -> {<<65>>, <<65, 66, 67, 127>>}

MCStamp == <<0, 6, 20, 11, 200, 255, 128, 64>>
MCDigest == [i \in 1 .. 32 |-> (7 * i) % 256]
=============================================================================
