---------------------------- MODULE BatchProofs -----------------------------
(***************************************************************************)
(* What holds of a batch read for every set of sound maps: a value written *)
(* through the map is read back from the device's registers, merging asks  *)
(* for the same registers, a request that noise has changed is dropped,    *)
(* and the client decodes from the response what was written.              *)
(***************************************************************************)
EXTENDS BatchRead, CodecProofs

-----------------------------------------------------------------------------
(* The values of a map                                                     *)

(* What BatchAssumption says of a map of the instance.                     *)
LEMMA MapFacts ==
    ASSUME NEW m \in Maps
    PROVE  /\ Len(m) \in Nat /\ Len(m) < 8192 /\ DOMAIN m = 1 .. Len(m)
           /\ Counted(m) /\ Total(m) \in Nat
<1>1. m \in Seq(Descriptors) /\ Len(m) < 8192
  BY BatchAssumption DEF SoundMap
<1>2. Len(m) \in Nat /\ DOMAIN m = 1 .. Len(m)
  BY <1>1
<1>3. \A i \in 1 .. Len(m) : m[i].count \in Nat
  BY <1>1, BaseAssumption DEF Descriptors
<1>4. Counted(m)
  BY <1>1, <1>2, <1>3 DEF Counted
<1> QED
  BY <1>1, <1>2, <1>4, OffsetsApart

(* What BatchAssumption and the partial sums say of one descriptor.        *)
LEMMA PlaceFacts ==
    ASSUME NEW m \in Maps, NEW i \in DOMAIN m
    PROVE  /\ m[i] \in Descriptors /\ m[i].count \in Nat
           /\ Offset(m, i) \in Nat /\ Offset(m, i) + m[i].count <= Total(m)
           /\ Suited(m[i])
<1>1. i \in 1 .. Len(m) /\ Counted(m)
  BY MapFacts
<1>2. m \in Seq(Descriptors)
  BY BatchAssumption DEF SoundMap
<1>3. Suited(m[i])
  <2>1. SoundMap(m)
    BY BatchAssumption
  <2> QED
    BY <1>1, <2>1 DEF SoundMap
<1>4. m[i] \in Descriptors
  BY <1>1, <1>2
<1>5. Offset(m, i) \in Nat /\ Offset(m, i) + m[i].count <= Total(m)
  BY <1>1, OffsetsApart
<1> QED
  BY <1>1, <1>3, <1>4, <1>5 DEF Counted

(* The places of two descriptors do not overlap.                           *)
LEMMA PlacesApart ==
    ASSUME NEW m \in Maps, NEW i \in DOMAIN m, NEW j \in DOMAIN m, i # j
    PROVE  \/ Offset(m, i) + m[i].count <= Offset(m, j)
           \/ Offset(m, j) + m[j].count <= Offset(m, i)
<1>1. i \in 1 .. Len(m) /\ j \in 1 .. Len(m) /\ (i < j \/ j < i)
  BY MapFacts
<1> QED
  BY <1>1, MapFacts, OffsetsApart

(* The device's buffer holds the registers of every value written.         *)
Kept(i) ==
    written[i] # Unwritten =>
        /\ written[i][1] \in Values(map[i].type)
        /\ \A n \in 1 .. Words(map[i]) :
              buffer[Offset(map, i) + n] = EncodeRegister(map[i], written[i][1])[n]

MapInv ==
    /\ map \in Maps /\ WellFormed(map)
    /\ buffer \in [1 .. Total(map) -> Register]
    /\ DOMAIN written = DOMAIN map
    /\ \A i \in DOMAIN map : Kept(i)

(* A place in the range of one descriptor is in no place of another's that *)
(* does not overlap it.                                                    *)
LEMMA OtherPlace ==
    ASSUME NEW total \in Nat, NEW at \in Nat, NEW off \in Nat,
           NEW c \in Nat, NEW w \in Nat, w <= c, at + c <= total,
           NEW k \in Nat, NEW v \in Nat, v <= k, off + k <= at \/ at + c <= off,
           NEW n \in 1 .. w
    PROVE  at + n \in 1 .. total /\ (at + n) - off \notin 1 .. v
  OBVIOUS

(* RegisterMap::encode of one value leaves the registers of the others     *)
(* alone.                                                                  *)
LEMMA WriteKeeps ==
    ASSUME MapInv, NEW i \in DOMAIN map, WriteValue(i)
    PROVE  MapInv'
<1>0. /\ map \in Maps /\ map' = map /\ WellFormed(map) /\ DOMAIN map = 1 .. Len(map)
      /\ Total(map) \in Nat /\ buffer \in [1 .. Total(map) -> Register]
      /\ DOMAIN written = DOMAIN map
  <2>1. map \in Maps /\ DOMAIN map = 1 .. Len(map) /\ Total(map) \in Nat
    BY MapFacts DEF MapInv
  <2>2. map' = map
    BY DEF WriteValue
  <2> QED
    BY <2>1, <2>2 DEF MapInv
<1>1. PICK v \in Values(map[i].type) :
          buffer' = Encode(map, i, v, buffer) /\ written' = [written EXCEPT ![i] = <<v>>]
  BY DEF WriteValue
<1> DEFINE d == map[i]
           regs == EncodeRegister(d, v)
           off == Offset(map, i)
<1>2. Fits(d, v) /\ Words(d) \in Nat /\ Words(d) <= d.count /\ regs \in [1 .. Words(d) -> Register]
  BY <1>0, PlaceFacts, EncodedRegister DEF Suited
<1>3. d.count \in Nat /\ off \in Nat /\ off + d.count <= Total(map)
  BY <1>0, PlaceFacts
<1>4. buffer' = [n \in 1 .. Total(map) |->
                    IF n - off \in 1 .. Words(d) THEN regs[n - off] ELSE buffer[n]]
  BY <1>0, <1>1, <1>2 DEF Encode
<1>5. buffer' \in [1 .. Total(map) -> Register]
  BY <1>0, <1>2, <1>4
<1>6. ASSUME NEW j \in DOMAIN map PROVE Kept(j)'
  <2> DEFINE e == map[j]
             at == Offset(map, j)
  <2>1. CASE j = i
    <3>1. written'[i] = <<v>>
      BY <1>0, <1>1
    <3>2. ASSUME NEW n \in 1 .. Words(d) PROVE buffer'[off + n] = regs[n]
      <4> HIDE DEF off, d, regs
      <4>1. off + n \in 1 .. Total(map) /\ (off + n) - off = n
        BY <1>0, <1>2, <1>3
      <4> QED
        BY <1>4, <4>1
    <3> QED
      BY <1>0, <1>1, <2>1, <3>1, <3>2 DEF Kept
  <2>2. CASE j # i
    <3>1. written'[j] = written[j]
      BY <1>0, <1>1, <2>2
    <3>2. SUFFICES ASSUME written[j] # Unwritten PROVE Kept(j)'
      BY <3>1 DEF Kept
    <3>3. /\ written[j][1] \in Values(e.type)
          /\ \A n \in 1 .. Words(e) : buffer[at + n] = EncodeRegister(e, written[j][1])[n]
      BY <3>2 DEF MapInv, Kept
    <3>4. Words(e) \in Nat /\ Words(e) <= e.count
      BY <1>0, <3>3, PlaceFacts, EncodedRegister DEF Suited
    <3>5. /\ e.count \in Nat /\ at \in Nat /\ at + e.count <= Total(map)
          /\ off + d.count <= at \/ at + e.count <= off
      BY <1>0, <2>2, PlaceFacts, PlacesApart
    <3>6. ASSUME NEW n \in 1 .. Words(e) PROVE buffer'[at + n] = buffer[at + n]
      <4> HIDE DEF off, at, d, e, regs
      <4>1. at + n \in 1 .. Total(map) /\ (at + n) - off \notin 1 .. Words(d)
        <5> DEFINE total == Total(map)
                   c == e.count
                   w == Words(e)
                   k == d.count
                   u == Words(d)
        <5>1. total \in Nat /\ at \in Nat /\ off \in Nat
          BY <1>0, <1>3, <3>5, Zenon
        <5>2. c \in Nat /\ w \in Nat /\ w <= c /\ at + c <= total
          BY <3>4, <3>5, Zenon
        <5>3. k \in Nat /\ u \in Nat /\ u <= k /\ (off + k <= at \/ at + c <= off)
          BY <1>2, <1>3, <3>5, Zenon
        <5>4. n \in 1 .. w
          OBVIOUS
        <5> HIDE DEF total, c, w, k, u
        <5>5. at + n \in 1 .. total /\ (at + n) - off \notin 1 .. u
          BY <5>1, <5>2, <5>3, <5>4, OtherPlace
        <5> QED
          BY <5>5 DEF total, u
      <4> QED
        BY <1>4, <4>1
    <3> QED
      BY <1>0, <3>1, <3>3, <3>6 DEF Kept
  <2> QED
    BY <2>1, <2>2
<1>7. DOMAIN written' = DOMAIN map
  BY <1>0, <1>1
<1> QED
  BY <1>0, <1>5, <1>6, <1>7 DEF MapInv

(* Every step keeps the device's buffer in agreement with what was         *)
(* written.                                                                *)
LEMMA MapStep == MapInv /\ [Next]_vars => MapInv'
<1> SUFFICES ASSUME MapInv, [Next]_vars PROVE MapInv'
  OBVIOUS
<1>1. ASSUME UNCHANGED <<map, buffer, written>> PROVE MapInv'
  BY <1>1 DEF MapInv, Kept
<1>2. ASSUME NEW i \in DOMAIN map, WriteValue(i) PROVE MapInv'
  BY <1>2, WriteKeeps
<1>3. CASE Ask
  BY <1>1, <1>3 DEF Ask
<1>4. CASE Noise
  BY <1>1, <1>4 DEF Noise
<1>5. CASE Serve
  BY <1>1, <1>5 DEF Serve
<1>6. CASE Receive
  BY <1>1, <1>6 DEF Receive
<1>7. CASE UNCHANGED vars
  BY <1>1, <1>7 DEF vars
<1> QED
  BY <1>2, <1>3, <1>4, <1>5, <1>6, <1>7 DEF Next

(* Before the first write nothing is claimed.                              *)
LEMMA MapInit == Init => MapInv
<1> SUFFICES ASSUME Init PROVE MapInv
  OBVIOUS
<1>1. map \in Maps /\ WellFormed(map)
  BY DEF Init
<1>2. 0 \in Register
  BY BaseAssumption DEF Register
<1>3. buffer \in [1 .. Total(map) -> Register]
  BY <1>2 DEF Init
<1> QED
  BY <1>1, <1>3 DEF Init, MapInv, Kept, Unwritten

(* The device's buffer holds the registers of every value that was         *)
(* written, always.                                                        *)
THEOREM MapInvariance == Spec => []MapInv
<1> QED
  BY MapInit, MapStep, PTL DEF Spec

(* A value written through a RegisterMap is what is read back from the     *)
(* flat buffer, whatever is written to the other descriptors before and    *)
(* after (RegisterMap::encode and decode), of every type and byte order.   *)
THEOREM MapReadsBack == Spec => []MapHolds
<1>1. MapInv => MapHolds
  <2> SUFFICES ASSUME MapInv, NEW i \in DOMAIN map, written[i] # Unwritten
               PROVE  Decode(map, i, buffer) = written[i][1]
    BY DEF MapHolds
  <2> DEFINE d == map[i]
             off == Offset(map, i)
             regs == SubSeq(buffer, off + 1, Len(buffer))
  <2>1. /\ map \in Maps /\ DOMAIN map = 1 .. Len(map) /\ Kept(i)
        /\ Total(map) \in Nat /\ buffer \in [1 .. Total(map) -> Register]
    BY MapFacts DEF MapInv
  <2>2. d.count \in Nat /\ off \in Nat /\ off + d.count <= Total(map) /\ d \in Descriptors
        /\ Fits(d, written[i][1])
    BY <2>1, PlaceFacts DEF Kept, Suited
  <2>3. buffer \in Seq(Register) /\ Len(buffer) = Total(map)
    BY <2>1
  <2>4. Words(d) \in Nat /\ Words(d) <= d.count
    BY <2>2, EncodedRegister
  <2>5. ASSUME NEW n \in 1 .. Words(d) PROVE regs[n] = buffer[off + n]
    <3> HIDE DEF off, d
    <3> QED
      BY <2>1, <2>2, <2>3, <2>4
  <2>6. \A n \in 1 .. Words(d) : regs[n] = EncodeRegister(d, written[i][1])[n]
    BY <2>1, <2>5 DEF Kept
  <2>7. DecodeRegister(d, regs) = written[i][1]
    <3> HIDE DEF d, regs
    <3> QED
      BY <2>2, <2>6, EncodedRegister
  <2> QED
    BY <2>7 DEF Decode
<1> QED
  BY <1>1, MapInvariance, PTL

-----------------------------------------------------------------------------
(* total_registers, and the loop of optimized()                            *)

(* A number of sixteen bits is not cut.                                    *)
LEMMA ModSmall == \A x \in 0 .. Space - 1 : x % Space = x
  BY BaseAssumption

(* The loop of total_registers: the sum, while that has sixteen bits.      *)
LEMMA TotalRegistersIs ==
    ASSUME NEW N \in Nat, NEW s, NEW sum, PartialSums(sum, N, s),
           \A n \in 0 .. N : sum[n] \in 0 .. Space - 1
    PROVE  TotalRegisters(s) = sum[N]
<1>0. /\ DOMAIN s = 1 .. N /\ \A i \in 1 .. N : s[i].count \in Nat
      /\ sum[0] = 0 /\ \A n \in 1 .. N : sum[n] = sum[n - 1] + s[n].count
      /\ Space \in Nat \ {0}
  BY BaseAssumption DEF PartialSums
<1> USE <1>0
<1> DEFINE F == [x \in Nat \X (1 .. N) |-> (x[1] + s[x[2]].count) % Space]
           Def(f) == f = [t \in SUBSET DOMAIN s |->
                             IF t = {} THEN 0
                             ELSE LET x == Max(t) IN (f[t \ {x}] + s[x].count) % Space]
           total == CHOOSE f : Def(f)
<1>1. PICK f \in [SUBSET (1 .. N) -> Nat] : Folds(f, N, 0, F)
  <2>1. F \in [Nat \X (1 .. N) -> Nat] /\ 0 \in Nat
    OBVIOUS
  <2> HIDE DEF F
  <2> QED
    BY <2>1, FoldRecursion, Zenon
<1>2. Def(f)
  <2>1. ASSUME NEW t \in SUBSET (1 .. N), t # {}
        PROVE  F[<<f[t \ {Max(t)}], Max(t)>>] = (f[t \ {Max(t)}] + s[Max(t)].count) % Space
    <3>1. Max(t) \in 1 .. N /\ t \ {Max(t)} \in SUBSET (1 .. N)
      BY <2>1, MaxIn
    <3> QED
      BY <3>1
  <2> HIDE DEF F
  <2> QED
    BY <1>1, <2>1 DEF Folds
<1>3. Def(total)
  <2> HIDE DEF Def
  <2> QED
    BY <1>2
<1>4. TotalRegisters(s) = total[1 .. N]
  BY DEF TotalRegisters, FoldLeft, MapThenFoldSet
<1> DEFINE S == {n \in 0 .. N : total[1 .. n] = sum[n]}
<1> HIDE DEF total
<1>5. 0 \in S
  <2>1. 1 .. 0 = {}
    OBVIOUS
  <2> QED
    BY <1>3, <2>1
<1>6. ASSUME NEW n \in 0 .. N - 1, n \in S PROVE n + 1 \in S
  <2>0. n + 1 \in Nat \ {0} /\ (n + 1) - 1 = n /\ n + 1 \in 1 .. N
    OBVIOUS
  <2>1. /\ Max(1 .. n + 1) = n + 1 /\ (1 .. n + 1) \ {n + 1} = 1 .. n
        /\ 1 .. n + 1 # {} /\ 1 .. n + 1 \in SUBSET DOMAIN s /\ n + 1 \in 1 .. N
    <3>1. /\ Max(1 .. n + 1) = n + 1 /\ (1 .. n + 1) \ {n + 1} = 1 .. (n + 1) - 1
          /\ 1 .. n + 1 # {}
      BY <2>0, MaxPrefix
    <3>2. \A x \in 1 .. n + 1 : x \in 1 .. N
      BY <2>0
    <3> QED
      BY <2>0, <3>1, <3>2
  <2>2. total[1 .. n + 1] = LET x == Max(1 .. n + 1)
                            IN (total[(1 .. n + 1) \ {x}] + s[x].count) % Space
    BY <1>3, <2>1
  <2>3. total[1 .. n + 1] = (sum[n] + s[n + 1].count) % Space
    BY <1>6, <2>1, <2>2
  <2>4. sum[n + 1] = sum[n] + s[n + 1].count /\ sum[n + 1] \in 0 .. Space - 1
    BY <2>1
  <2>5. sum[n + 1] % Space = sum[n + 1]
    BY <2>4, ModSmall
  <2> QED
    BY <2>1, <2>3, <2>4, <2>5
<1>7. 0 .. N \subseteq S
  <2> HIDE DEF S
  <2> QED
    BY <1>5, <1>6, UpTo, Zenon
<1> QED
  BY <1>4, <1>7

(* The loop of optimized, and its results one after the other.             *)
Merged(base, t) == FoldLeft(Merge, base, t)

MergeCloses(V, N, t) == \A r \in V, n \in 1 .. N : Merge(r, t[n]) \in V

MergeRun(step, N, base, t) ==
    /\ step[0] = base
    /\ \A n \in 1 .. N : step[n] = Merge(step[n - 1], t[n])
    /\ Merged(base, t) = step[N]

(* The results of the loop after each range exist and are in any set that  *)
(* Merge keeps.                                                            *)
LEMMA MergeSteps ==
    ASSUME NEW N \in Nat, NEW t, DOMAIN t = 1 .. N, NEW V, NEW base \in V,
           MergeCloses(V, N, t)
    PROVE  \E step \in [0 .. N -> V] : MergeRun(step, N, base, t)
<1> DEFINE F == [x \in V \X (1 .. N) |-> Merge(x[1], t[x[2]])]
           Def(f) == f = [u \in SUBSET DOMAIN t |->
                             IF u = {} THEN base
                             ELSE LET x == Max(u) IN Merge(f[u \ {x}], t[x])]
           fold == CHOOSE f : Def(f)
<1>1. PICK f \in [SUBSET (1 .. N) -> V] : Folds(f, N, base, F)
  <2>1. F \in [V \X (1 .. N) -> V]
    BY DEF MergeCloses
  <2> HIDE DEF F
  <2> QED
    BY <2>1, FoldRecursion, Zenon
<1>2. Def(f)
  <2>1. ASSUME NEW u \in SUBSET (1 .. N), u # {}
        PROVE  F[<<f[u \ {Max(u)}], Max(u)>>] = Merge(f[u \ {Max(u)}], t[Max(u)])
    <3>1. Max(u) \in 1 .. N /\ u \ {Max(u)} \in SUBSET (1 .. N)
      BY <2>1, MaxIn
    <3> QED
      BY <3>1
  <2> HIDE DEF F
  <2> QED
    BY <1>1, <2>1 DEF Folds
<1>3. Def(fold)
  <2> HIDE DEF Def
  <2> QED
    BY <1>2
<1>4. Merged(base, t) = fold[1 .. N]
  BY DEF Merged, FoldLeft, MapThenFoldSet
<1> DEFINE S == {n \in 0 .. N : fold[1 .. n] \in V}
           step == [n \in 0 .. N |-> fold[1 .. n]]
<1> HIDE DEF fold
<1>5. fold[1 .. 0] = base
  <2>1. 1 .. 0 = {}
    OBVIOUS
  <2> QED
    BY <1>3, <2>1
<1>6. ASSUME NEW n \in 1 .. N PROVE fold[1 .. n] = Merge(fold[1 .. n - 1], t[n])
  <2>1. /\ Max(1 .. n) = n /\ (1 .. n) \ {n} = 1 .. n - 1
        /\ 1 .. n # {} /\ 1 .. n \in SUBSET DOMAIN t
    BY MaxPrefix
  <2>2. fold[1 .. n] = LET x == Max(1 .. n) IN Merge(fold[(1 .. n) \ {x}], t[x])
    BY <1>3, <2>1
  <2> QED
    BY <2>1, <2>2
<1>7. 0 .. N \subseteq S
  <2>1. 0 \in S
    BY <1>5
  <2>2. ASSUME NEW n \in 0 .. N - 1, n \in S PROVE n + 1 \in S
    <3>1. n + 1 \in 1 .. N /\ n + 1 \in 0 .. N /\ (n + 1) - 1 = n
      OBVIOUS
    <3>2. fold[1 .. n + 1] = Merge(fold[1 .. n], t[n + 1])
      BY <1>6, <3>1
    <3> QED
      BY <2>2, <3>1, <3>2 DEF MergeCloses
  <2> HIDE DEF S
  <2> QED
    BY <2>1, <2>2, UpTo, Zenon
<1>8. step \in [0 .. N -> V] /\ step[0] = base /\ step[N] = fold[1 .. N]
  BY <1>5, <1>7
<1>9. \A n \in 1 .. N : step[n] = Merge(step[n - 1], t[n])
  BY <1>6
<1> QED
  BY <1>4, <1>8, <1>9 DEF MergeRun

(* Where a range ends, and the addresses it covers.                        *)
End(item) == item.start_address + item.count
Span(item) == item.start_address .. item.start_address + item.count - 1

(* Ranges in ascending order that do not overlap and end within the        *)
(* address space.                                                          *)
Ascending(r) ==
    /\ r \in Seq(Items) /\ Len(r) \in Nat \ {0} /\ DOMAIN r = 1 .. Len(r)
    /\ \A i \in 1 .. Len(r) : r[i] \in Items /\ End(r[i]) < Space
    /\ \A i, j \in 1 .. Len(r) : i < j => End(r[i]) <= r[j].start_address

(* An item whose range ends within the address space has an end that is    *)
(* not cut to sixteen bits.                                                *)
LEMMA ItemFacts ==
    ASSUME NEW x \in Items
    PROVE  /\ x.start_address \in 0 .. Space - 1 /\ x.count \in 0 .. Space - 1
           /\ x.start_address \in Nat /\ x.count \in Nat /\ End(x) \in Nat
           /\ x.type \in Types /\ x.byte_order \in ByteOrders
           /\ End(x) < Space => LastEnd(x) = End(x)
<1>1. /\ x.start_address \in 0 .. Space - 1 /\ x.count \in 0 .. Space - 1
      /\ x.type \in Types /\ x.byte_order \in ByteOrders
  BY DEF Items
<1>2. x.start_address \in Nat /\ x.count \in Nat /\ End(x) \in Nat
  BY <1>1, BaseAssumption DEF End
<1>3. ASSUME End(x) < Space PROVE LastEnd(x) = End(x)
  <2>1. End(x) \in 0 .. Space - 1
    BY <1>2, <1>3, BaseAssumption
  <2> QED
    BY <2>1, ModSmall DEF LastEnd, End
<1> QED
  BY <1>1, <1>2, <1>3

(* A sequence whose last element is replaced.                              *)
LEMMA FrontAppend ==
    ASSUME NEW S, NEW r \in Seq(S), Len(r) > 0, NEW x \in S
    PROVE  /\ Front(r) \o <<x>> \in Seq(S) /\ Len(Front(r) \o <<x>>) = Len(r)
           /\ \A i \in 1 .. Len(r) - 1 : (Front(r) \o <<x>>)[i] = r[i]
           /\ (Front(r) \o <<x>>)[Len(r)] = x
<1> DEFINE n == Len(r) - 1
           front == SubSeq(r, 1, n)
<1>0. Len(r) \in Nat /\ n \in Nat /\ Len(r) = n + 1
  OBVIOUS
<1>1. front \in Seq(S) /\ Len(front) = n /\ \A i \in 1 .. n : front[i] = r[i]
  BY <1>0
<1>2. Front(r) = front
  BY DEF Front
<1> HIDE DEF front, n
<1>3. /\ front \o <<x>> \in Seq(S) /\ Len(front \o <<x>>) = n + 1
      /\ \A i \in 1 .. n : (front \o <<x>>)[i] = r[i]
      /\ (front \o <<x>>)[n + 1] = x
  BY <1>0, <1>1
<1> QED
  BY <1>0, <1>2, <1>3 DEF n

(* One step of the loop of optimized(), for a range at or after the end of *)
(* the result: the result stays in ascending order and asks for that range *)
(* too.                                                                    *)
LEMMA MergeOne ==
    ASSUME NEW r, Ascending(r), NEW c \in Items, End(c) < Space, c.count > 0,
           End(r[Len(r)]) <= c.start_address
    PROVE  /\ Ascending(Merge(r, c)) /\ Len(Merge(r, c)) <= Len(r) + 1
           /\ End(Merge(r, c)[Len(Merge(r, c))]) = End(c)
           /\ AskedFor(Merge(r, c)) = AskedFor(r) \union Registers(c)
<1> DEFINE N == Len(r)
           last == r[N]
<1>1. /\ r \in Seq(Items) /\ N \in Nat \ {0} /\ DOMAIN r = 1 .. N
      /\ last \in Items /\ End(last) < Space /\ N \in 1 .. N
  BY DEF Ascending
<1>2. /\ last.start_address \in Nat /\ last.count \in Nat /\ LastEnd(last) = End(last)
      /\ c.start_address \in Nat /\ c.count \in Nat /\ Space \in Nat
  BY <1>1, ItemFacts, BaseAssumption
<1>6. (c.start_address + c.count) % Space = End(c)
  BY ItemFacts DEF LastEnd
<1>3. ASSUME NEW i \in 1 .. N, i # N PROVE i < N /\ End(r[i]) <= last.start_address
  <2>1. i < N
    <3> HIDE DEF N, last
    <3> QED
      BY <1>1, <1>3
  <2> QED
    BY <1>1, <2>1 DEF Ascending
<1>4. CASE c.start_address <= LastEnd(last) /\ last.byte_order = c.byte_order
  <2> DEFINE new == [last EXCEPT !.count = (End(c) - last.start_address) % Space,
                                 !.type = "UInt16"]
             q == Front(r) \o <<new>>
  <2>1. Merge(r, c) = q
    <3>1. (IF LastEnd(last) < End(c) THEN End(c) ELSE LastEnd(last)) = End(c)
      BY <1>2, <1>4 DEF End
    <3> QED
      BY <1>2, <1>4, <1>6, <3>1 DEF Merge, Last
  <2>2. c.start_address = End(last)
    BY <1>2, <1>4 DEF End
  <2>3. (End(c) - last.start_address) % Space = last.count + c.count
    <3>1. End(c) - last.start_address = last.count + c.count
          /\ last.count + c.count \in 0 .. Space - 1
      <4> HIDE DEF last
      <4> QED
        BY <1>2, <2>2 DEF End
    <3> QED
      BY <3>1, ModSmall
  <2>4. /\ new.start_address = last.start_address /\ new.count = last.count + c.count
        /\ new.byte_order = last.byte_order /\ new.type = "UInt16"
        /\ new \in Items
    <3>1. last.count + c.count \in 0 .. Space - 1 /\ "UInt16" \in Types
      <4> HIDE DEF last
      <4> QED
        BY <1>2, <2>2 DEF End, Types
    <3> QED
      BY <1>1, <2>3, <3>1 DEF Items
  <2>5. End(new) = End(c)
    BY <1>2, <2>2, <2>4 DEF End
  <2> HIDE DEF new
  <2>6. /\ q \in Seq(Items) /\ Len(q) = N /\ DOMAIN q = 1 .. N
        /\ \A i \in 1 .. N : q[i] = IF i = N THEN new ELSE r[i]
    <3>1. /\ q \in Seq(Items) /\ Len(q) = N /\ q[N] = new
          /\ \A i \in 1 .. N - 1 : q[i] = r[i]
      <4>1. r \in Seq(Items) /\ Len(r) > 0 /\ new \in Items
        BY <1>1, <2>4
      <4> QED
        BY <4>1, FrontAppend
    <3>2. \A i \in 1 .. N : i # N => i \in 1 .. N - 1
      <4> HIDE DEF N, last
      <4> QED
        BY <1>1
    <3> QED
      BY <3>1, <3>2
  <2> HIDE DEF q
  <2>7. Ascending(q)
    <3>1. ASSUME NEW i \in 1 .. N PROVE q[i] \in Items /\ End(q[i]) < Space
      BY <2>4, <2>5, <2>6 DEF Ascending
    <3>2. ASSUME NEW i \in 1 .. N, NEW j \in 1 .. N, i < j
          PROVE  End(q[i]) <= q[j].start_address
      <4>1. i # N /\ q[i] = r[i]
        <5> HIDE DEF N, last
        <5>1. i # N
          BY <1>1, <3>2
        <5> QED
          BY <2>6, <5>1
      <4>2. q[j].start_address = r[j].start_address
        BY <2>4, <2>6
      <4> QED
        BY <3>2, <4>1, <4>2 DEF Ascending
    <3> QED
      BY <1>1, <2>6, <3>1, <3>2 DEF Ascending
  <2>8. Registers(new) = Registers(last) \union Registers(c)
    <3>1. last.start_address .. last.start_address + new.count - 1
            = (last.start_address .. last.start_address + last.count - 1)
                 \union (c.start_address .. c.start_address + c.count - 1)
      <4>1. c.start_address = last.start_address + last.count
        BY <2>2 DEF End
      <4> HIDE DEF last, new
      <4> DEFINE a == last.start_address
                 m == last.count
                 n == c.count
      <4>2. a \in Nat /\ m \in Nat /\ n \in Nat
        BY <1>2
      <4>3. a .. a + (m + n) - 1 = (a .. a + m - 1) \union (a + m .. a + m + n - 1)
        <5> HIDE DEF a, m, n
        <5> QED
          BY <4>2
      <4> QED
        BY <2>4, <4>1, <4>3
    <3>2. c.byte_order = last.byte_order
      BY <1>4
    <3> QED
      BY <2>4, <3>1, <3>2 DEF Registers
  <2>9. AskedFor(q) = AskedFor(r) \union Registers(c)
    <3>1. ASSUME NEW x, x \in AskedFor(q) PROVE x \in AskedFor(r) \union Registers(c)
      <4>1. PICK i \in 1 .. N : x \in Registers(q[i])
        BY <2>6, <3>1 DEF AskedFor
      <4>2. CASE i = N
        BY <1>1, <2>6, <2>8, <4>1, <4>2 DEF AskedFor
      <4>3. CASE i # N
        BY <1>1, <2>6, <4>1, <4>3 DEF AskedFor
      <4> QED
        BY <4>2, <4>3
    <3>2. ASSUME NEW x, x \in AskedFor(r) PROVE x \in AskedFor(q)
      <4>1. PICK i \in 1 .. N : x \in Registers(r[i])
        BY <1>1, <3>2 DEF AskedFor
      <4>2. x \in Registers(q[i])
        BY <2>6, <2>8, <4>1
      <4> QED
        BY <2>6, <4>2 DEF AskedFor
    <3>3. Registers(c) \subseteq AskedFor(q)
      BY <1>1, <2>6, <2>8 DEF AskedFor
    <3> QED
      BY <3>1, <3>2, <3>3
  <2>10. Len(q) <= N + 1 /\ End(q[Len(q)]) = End(c)
    <3> HIDE DEF N, last
    <3> QED
      BY <1>1, <2>5, <2>6
  <2> QED
    BY <2>1, <2>7, <2>9, <2>10
<1>5. CASE ~(c.start_address <= LastEnd(last) /\ last.byte_order = c.byte_order)
  <2> DEFINE q == Append(r, c)
  <2>1. Merge(r, c) = q
    BY <1>5, <1>6 DEF Merge, Last
  <2>2. /\ q \in Seq(Items) /\ Len(q) = N + 1 /\ DOMAIN q = 1 .. N + 1
        /\ \A i \in 1 .. N + 1 : q[i] = IF i = N + 1 THEN c ELSE r[i]
        /\ N + 1 \in 1 .. N + 1
    BY <1>1
  <2> HIDE DEF q
  <2>3. \A i \in 1 .. N + 1 : i # N + 1 => i \in 1 .. N
    BY <1>1
  <2>4. ASSUME NEW i \in 1 .. N PROVE End(r[i]) <= c.start_address
    <3>1. CASE i = N
      BY <3>1
    <3>2. CASE i # N
      <4>1. r[i] \in Items /\ End(r[i]) \in Nat /\ End(last) \in Nat
        BY <1>1, ItemFacts DEF Ascending
      <4>2. last.start_address <= End(last) /\ End(last) <= c.start_address
        BY <1>2 DEF End
      <4> QED
        BY <1>2, <1>3, <3>2, <4>1, <4>2
    <3> QED
      BY <3>1, <3>2
  <2>5. Ascending(q)
    <3>1. ASSUME NEW i \in 1 .. N + 1 PROVE q[i] \in Items /\ End(q[i]) < Space
      BY <2>2, <2>3 DEF Ascending
    <3>2. ASSUME NEW i \in 1 .. N + 1, NEW j \in 1 .. N + 1, i < j
          PROVE  End(q[i]) <= q[j].start_address
      <4>1. i # N + 1 /\ i \in 1 .. N /\ q[i] = r[i]
        BY <1>1, <2>2, <3>2
      <4>2. CASE j = N + 1
        BY <2>2, <2>4, <4>1, <4>2
      <4>3. CASE j # N + 1
        BY <2>2, <2>3, <3>2, <4>1, <4>3 DEF Ascending
      <4> QED
        BY <4>2, <4>3
    <3>3. N + 1 \in Nat \ {0}
      BY <1>1
    <3> QED
      BY <2>2, <3>1, <3>2, <3>3 DEF Ascending
  <2>6. AskedFor(q) = AskedFor(r) \union Registers(c)
    <3>1. ASSUME NEW x, x \in AskedFor(q) PROVE x \in AskedFor(r) \union Registers(c)
      <4>1. PICK i \in 1 .. N + 1 : x \in Registers(q[i])
        BY <2>2, <3>1 DEF AskedFor
      <4> QED
        BY <1>1, <2>2, <2>3, <4>1 DEF AskedFor
    <3>2. ASSUME NEW x, x \in AskedFor(r) PROVE x \in AskedFor(q)
      <4>1. PICK i \in 1 .. N : x \in Registers(r[i])
        BY <1>1, <3>2 DEF AskedFor
      <4>2. i \in 1 .. N + 1 /\ i # N + 1
        BY <1>1
      <4> QED
        BY <2>2, <4>1, <4>2 DEF AskedFor
    <3>3. Registers(c) \subseteq AskedFor(q)
      BY <2>2 DEF AskedFor
    <3> QED
      BY <3>1, <3>2, <3>3
  <2>7. End(q[Len(q)]) = End(c)
    BY <2>2
  <2>8. Len(q) <= N + 1
    <3> HIDE DEF N, last
    <3> QED
      BY <1>1, <2>2
  <2> QED
    BY <2>1, <2>5, <2>6, <2>7, <2>8
<1> QED
  BY <1>4, <1>5

(* The loop of optimized on ranges in ascending order.                     *)
LEMMA MergedAscending ==
    ASSUME NEW s, Ascending(s), \A i \in 1 .. Len(s) : s[i].count > 0
    PROVE  LET m == Merged(<<Head(s)>>, Tail(s)) IN
           Ascending(m) /\ AskedFor(m) = AskedFor(s) /\ Len(m) <= Len(s)
<1> DEFINE N == Len(s) - 1
           t == Tail(s)
           base == <<Head(s)>>
           V == {r \in Seq(Items) : Len(r) > 0}
           Upto(n) == UNION {Registers(s[i]) : i \in 1 .. n}
<1>1. s \in Seq(Items) /\ s # << >> /\ N \in Nat /\ Len(s) = N + 1 /\ DOMAIN s = 1 .. N + 1
  BY DEF Ascending
<1>2. DOMAIN t = 1 .. N /\ (\A n \in 1 .. N : t[n] = s[n + 1]) /\ Head(s) = s[1]
  BY <1>1
<1>3. 1 \in 1 .. Len(s) /\ \A n \in 1 .. N : n + 1 \in 1 .. Len(s) /\ n \in 1 .. Len(s)
  BY <1>1
<1> HIDE DEF N, t
<1>4. base \in V /\ Len(base) = 1 /\ base[1] = s[1] /\ DOMAIN base = 1 .. 1
  BY <1>2, <1>3 DEF Ascending
<1> HIDE DEF base
<1>5. ASSUME NEW r \in V, NEW n \in 1 .. N PROVE Merge(r, t[n]) \in V
  <2>1. t[n] \in Items
    BY <1>2, <1>3 DEF Ascending
  <2>2. r \in Seq(Items) /\ Len(r) > 0 /\ r[Len(r)] \in Items
    OBVIOUS
  <2> DEFINE new(e) == [r[Len(r)] EXCEPT !.count = (e - r[Len(r)].start_address) % Space,
                                         !.type = "UInt16"]
  <2>3. ASSUME NEW e \in Nat PROVE new(e) \in Items
    <3>1. "UInt16" \in Types /\ (e - r[Len(r)].start_address) % Space \in 0 .. Space - 1
      <4>1. e - r[Len(r)].start_address \in Int
        BY <2>2, ItemFacts
      <4>2. \A x \in Int : x % Space \in 0 .. Space - 1
        BY BaseAssumption
      <4> QED
        BY <4>1, <4>2 DEF Types
    <3> QED
      BY <2>2, <3>1 DEF Items
  <2>4. ASSUME NEW e \in Nat
        PROVE  Front(r) \o <<new(e)>> \in Seq(Items) /\ Len(Front(r) \o <<new(e)>>) = Len(r)
    <3>1. new(e) \in Items
      BY <2>3
    <3> HIDE DEF new
    <3> QED
      BY <2>2, <3>1, FrontAppend
  <2>5. LastEnd(r[Len(r)]) \in Nat /\ (t[n].start_address + t[n].count) % Space \in Nat
    <3>1. \A x \in Nat : x % Space \in Nat
      BY BaseAssumption
    <3>2. /\ r[Len(r)].start_address \in Nat /\ r[Len(r)].count \in Nat
          /\ t[n].start_address \in Nat /\ t[n].count \in Nat
      BY <2>1, <2>2, ItemFacts
    <3>3. \A x, y \in Nat : x + y \in Nat
      OBVIOUS
    <3>4. /\ r[Len(r)].start_address + r[Len(r)].count \in Nat
          /\ t[n].start_address + t[n].count \in Nat
      BY <3>2, <3>3, Zenon
    <3> HIDE DEF V
    <3> QED
      BY <3>1, <3>4, Zenon DEF LastEnd
  <2>6. Append(r, t[n]) \in V
    BY <2>1, <2>2
  <2>7. \/ \E e \in Nat : Merge(r, t[n]) = Front(r) \o <<new(e)>>
        \/ Merge(r, t[n]) = Append(r, t[n])
    BY <2>5 DEF Merge, Last
  <2> HIDE DEF new
  <2> QED
    BY <2>2, <2>4, <2>6, <2>7
<1>6. PICK step \in [0 .. N -> V] : MergeRun(step, N, base, t)
  <2> HIDE DEF V
  <2>1. MergeCloses(V, N, t)
    BY <1>5 DEF MergeCloses
  <2>2. N \in Nat /\ DOMAIN t = 1 .. N /\ base \in V
    BY <1>1, <1>2, <1>4
  <2> QED
    BY <2>1, <2>2, MergeSteps
<1> DEFINE Good(r, n) == /\ Ascending(r) /\ AskedFor(r) = Upto(n)
                         /\ End(r[Len(r)]) = End(s[n]) /\ Len(r) <= n
           S == {n \in 0 .. N : Good(step[n], n + 1)}
<1>7. 0 \in S
  <2>1. Ascending(base)
    <3>1. \A i \in 1 .. 1 : i = 1
      OBVIOUS
    <3> QED
      BY <1>3, <1>4, <3>1 DEF Ascending
  <2>2. AskedFor(base) = Registers(s[1])
    BY <1>4 DEF AskedFor
  <2>3. Upto(1) = Registers(s[1])
    OBVIOUS
  <2> HIDE DEF Upto
  <2>4. Good(base, 1)
    BY <1>4, <2>1, <2>2, <2>3
  <2> HIDE DEF Good
  <2> QED
    BY <1>1, <1>6, <2>4 DEF MergeRun
<1>8. ASSUME NEW n \in 0 .. N - 1, n \in S PROVE n + 1 \in S
  <2> DEFINE m == n + 1
             r == step[n]
             c == s[m + 1]
  <2>1. m \in 1 .. N /\ m \in 0 .. N /\ m - 1 = n /\ m \in 1 .. Len(s) /\ m + 1 \in 1 .. Len(s)
        /\ m < m + 1
    BY <1>1
  <2> HIDE DEF m
  <2>2. Good(r, m)
    BY <1>8 DEF m
  <2>3. step[m] = Merge(r, c)
    BY <1>2, <1>6, <2>1 DEF MergeRun
  <2>4. c \in Items /\ End(c) < Space /\ c.count > 0 /\ End(s[m]) <= c.start_address
    BY <2>1 DEF Ascending
  <2>5. Upto(m + 1) = Upto(m) \union Registers(c)
    <3>1. \A i : i \in 1 .. m + 1 <=> i \in 1 .. m \/ i = m + 1
      BY <2>1
    <3> QED
      BY <3>1
  <2> HIDE DEF r, c, Upto
  <2>6. /\ Ascending(Merge(r, c)) /\ End(Merge(r, c)[Len(Merge(r, c))]) = End(c)
        /\ AskedFor(Merge(r, c)) = AskedFor(r) \union Registers(c)
        /\ Len(Merge(r, c)) <= Len(r) + 1
    BY <2>2, <2>4, MergeOne
  <2>7. Len(Merge(r, c)) <= m + 1
    <3>1. Len(r) \in Nat /\ Len(Merge(r, c)) \in Nat /\ Len(r) <= m /\ m \in Nat
      BY <2>1, <2>2, <2>6 DEF Ascending
    <3> QED
      BY <2>6, <3>1
  <2>8. Good(step[m], m + 1)
    BY <2>2, <2>3, <2>5, <2>6, <2>7 DEF c
  <2> HIDE DEF Good
  <2> QED
    BY <2>1, <2>8 DEF m
<1>9. 0 .. N \subseteq S
  <2> HIDE DEF S
  <2> QED
    BY <1>1, <1>7, <1>8, UpTo, Zenon
<1>10. Good(step[N], N + 1)
  <2>1. N \in 0 .. N
    BY <1>1
  <2> HIDE DEF Good
  <2> QED
    BY <1>9, <2>1
<1>11. AskedFor(s) = Upto(N + 1)
  BY <1>1 DEF AskedFor
<1>12. Merged(base, t) = step[N]
  BY <1>6 DEF MergeRun
<1> QED
  BY <1>1, <1>10, <1>11, <1>12 DEF base, t

-----------------------------------------------------------------------------
(* Sorting, and the registers a batch asks for                             *)

(* Ranges that share no address and end within the address space.          *)
Apart(items) ==
    /\ items \in Seq(Items) /\ Len(items) \in Nat /\ DOMAIN items = 1 .. Len(items)
    /\ \A i \in 1 .. Len(items) :
          items[i] \in Items /\ items[i].count > 0 /\ End(items[i]) < Space
    /\ \A i, j \in 1 .. Len(items) : i # j => Span(items[i]) \intersect Span(items[j]) = {}

(* Sorting them by address, in whatever way, puts them in ascending order. *)
LEMMA SortedAscending ==
    ASSUME NEW items, Apart(items), Len(items) > 0, NEW s \in Sortings(items)
    PROVE  /\ Ascending(s) /\ AskedFor(s) = AskedFor(items) /\ Apart(s)
           /\ Len(s) = Len(items)
<1> DEFINE N == Len(items)
<1>1. N \in Nat \ {0} /\ DOMAIN items = 1 .. N
  BY DEF Apart
<1>2. PICK p \in [1 .. N -> 1 .. N] :
         IsInjective(p) /\ s = [i \in 1 .. N |-> items[p[i]]]
  BY <1>1 DEF Sortings
<1> HIDE DEF N
<1>3. s \in Seq(Items) /\ Len(s) = N /\ DOMAIN s = 1 .. N
  <2>1. \A i \in 1 .. N : items[p[i]] \in Items
    BY <1>2 DEF Apart, N
  <2> QED
    BY <1>1, <1>2, <2>1
<1>4. \A i \in 1 .. N : s[i] = items[p[i]] /\ p[i] \in 1 .. N
  BY <1>2
<1>5. \A i, j \in 1 .. N : i # j => p[i] # p[j]
  BY <1>2 DEF IsInjective
<1>6. \A j \in 1 .. N : \E i \in 1 .. N : p[i] = j
  <2>1. p \in Injection(1 .. N, 1 .. N)
    BY <1>2 DEF Injection
  <2>2. IsFiniteSet(1 .. N)
    BY <1>1, FS_Interval
  <2>3. p \in Surjection(1 .. N, 1 .. N)
    BY <2>1, <2>2, FS_Injection
  <2> QED
    BY <2>3 DEF Surjection
<1>7. AskedFor(s) = AskedFor(items)
  <2>1. ASSUME NEW x, x \in AskedFor(s) PROVE x \in AskedFor(items)
    <3>1. PICK i \in 1 .. N : x \in Registers(s[i])
      BY <1>3, <2>1 DEF AskedFor
    <3> QED
      BY <1>1, <1>4, <3>1 DEF AskedFor
  <2>2. ASSUME NEW x, x \in AskedFor(items) PROVE x \in AskedFor(s)
    <3>1. PICK j \in 1 .. N : x \in Registers(items[j])
      BY <1>1, <2>2 DEF AskedFor
    <3>2. PICK i \in 1 .. N : p[i] = j
      BY <1>6
    <3> QED
      BY <1>3, <1>4, <3>1, <3>2 DEF AskedFor
  <2> QED
    BY <2>1, <2>2
<1>8. \A i \in 1 .. N : s[i] \in Items /\ s[i].count > 0 /\ End(s[i]) < Space
  BY <1>4 DEF Apart, N
<1>9. \A i, j \in 1 .. N : i # j => Span(s[i]) \intersect Span(s[j]) = {}
  <2> SUFFICES ASSUME NEW i \in 1 .. N, NEW j \in 1 .. N, i # j
               PROVE  Span(s[i]) \intersect Span(s[j]) = {}
    OBVIOUS
  <2>1. p[i] # p[j]
    BY <1>5
  <2>2. p[i] \in 1 .. N /\ p[j] \in 1 .. N /\ s[i] = items[p[i]] /\ s[j] = items[p[j]]
    BY <1>4
  <2>3. Span(items[p[i]]) \intersect Span(items[p[j]]) = {}
    BY <2>1, <2>2 DEF Apart, N
  <2> QED
    BY <2>2, <2>3, Zenon
<1>10. \A i \in 1 .. N - 1 : s[i].start_address <= s[i + 1].start_address
  BY <1>3 DEF Sortings
<1>11. \A i \in 1 .. N : s[i].start_address \in Nat /\ s[i].count \in Nat
  BY <1>8, ItemFacts
<1> HIDE <1>2
<1>12. ASSUME NEW j \in 1 .. N, NEW i \in 1 .. j
       PROVE  s[i].start_address <= s[j].start_address
  <2> DEFINE S == {n \in 0 .. N - 1 : \A m \in 1 .. n + 1 :
                       s[m].start_address <= s[n + 1].start_address}
  <2>1. 0 \in S
    BY <1>1, <1>11
  <2>2. ASSUME NEW n \in 0 .. (N - 1) - 1, n \in S PROVE n + 1 \in S
    <3> DEFINE k == n + 1
    <3>1. k \in 1 .. N - 1 /\ k \in 0 .. N - 1 /\ k \in 1 .. N /\ k + 1 \in 1 .. N
      BY <1>1
    <3>2. \A m \in 1 .. k : s[m].start_address <= s[k].start_address
      BY <2>2
    <3> HIDE DEF k
    <3>3. ASSUME NEW m \in 1 .. k + 1 PROVE s[m].start_address <= s[k + 1].start_address
      <4>1. CASE m = k + 1
        BY <1>11, <3>1, <4>1
      <4>2. CASE m # k + 1
        <5>1. m \in 1 .. k /\ m \in 1 .. N
          BY <1>1, <3>1, <4>2
        <5> QED
          BY <1>10, <1>11, <3>1, <3>2, <5>1
      <4> QED
        BY <4>1, <4>2
    <3>4. k \in S
      BY <3>1, <3>3
    <3> QED
      BY <3>4 DEF k
  <2>3. 0 .. N - 1 \subseteq S
    <3>1. N - 1 \in Nat
      BY <1>1
    <3> HIDE DEF S
    <3> QED
      BY <2>1, <2>2, <3>1, UpTo, Zenon
  <2>4. j - 1 \in 0 .. N - 1 /\ (j - 1) + 1 = j
    BY <1>1
  <2> QED
    BY <2>3, <2>4
<1>13. ASSUME NEW i \in 1 .. N, NEW j \in 1 .. N, i < j
       PROVE  End(s[i]) <= s[j].start_address
  <2>1. s[i].start_address <= s[j].start_address
    BY <1>1, <1>12, <1>13
  <2>2. i # j
    BY <1>13
  <2>3. /\ s[i].start_address \in Nat /\ s[i].count \in Nat
        /\ s[j].start_address \in Nat /\ s[j].count \in Nat /\ s[j].count > 0
    BY <1>8, <1>11
  <2>4. ASSUME ~(End(s[i]) <= s[j].start_address) PROVE FALSE
    <3>1. s[j].start_address \in Span(s[i]) /\ s[j].start_address \in Span(s[j])
      <4> DEFINE a == s[i].start_address
                 m == s[i].count
                 b == s[j].start_address
                 k == s[j].count
      <4>1. a \in Nat /\ m \in Nat /\ b \in Nat /\ k \in Nat /\ k > 0 /\ a <= b
        BY <2>1, <2>3, Zenon
      <4>2. ~(a + m <= b)
        BY <2>4, Zenon DEF End
      <4> HIDE DEF a, m, b, k
      <4>3. b \in a .. a + m - 1 /\ b \in b .. b + k - 1
        BY <4>1, <4>2
      <4> QED
        BY <4>3, Zenon DEF Span, a, m, b, k
    <3> QED
      BY <1>9, <2>2, <3>1
  <2> QED
    BY <2>4
<1>14. Ascending(s)
  BY <1>1, <1>3, <1>8, <1>13 DEF Ascending
<1>15. Apart(s)
  BY <1>1, <1>3, <1>8, <1>9 DEF Apart
<1> QED
  BY <1>3, <1>7, <1>14, <1>15 DEF N

(* The addresses of a batch, and how many there are.                       *)
Covered(items) == UNION {Span(items[i]) : i \in DOMAIN items}

Disjoint(items) ==
    /\ items \in Seq(Items) /\ Len(items) \in Nat /\ DOMAIN items = 1 .. Len(items)
    /\ \A i \in 1 .. Len(items) : items[i] \in Items /\ End(items[i]) < Space
    /\ \A i, j \in 1 .. Len(items) : i # j => Span(items[i]) \intersect Span(items[j]) = {}

(* The addresses of a range are as many as its count.                      *)
LEMMA SpanFacts ==
    ASSUME NEW x \in Items, End(x) < Space
    PROVE  /\ IsFiniteSet(Span(x)) /\ Cardinality(Span(x)) = x.count
           /\ Span(x) \subseteq 0 .. Space - 2
<1> DEFINE a == x.start_address
           n == x.count
<1>1. a \in Nat /\ n \in Nat /\ a + n < Space /\ Space \in Nat
  BY ItemFacts, BaseAssumption DEF End
<1> HIDE DEF a, n
<1>2. a .. a + n - 1 \subseteq 0 .. Space - 2
  BY <1>1
<1>3. IsFiniteSet(a .. a + n - 1)
      /\ Cardinality(a .. a + n - 1) = IF a > a + n - 1 THEN 0 ELSE (a + n - 1) - a + 1
  BY <1>1, FS_Interval
<1>4. Cardinality(a .. a + n - 1) = n
  BY <1>1, <1>3
<1> QED
  BY <1>2, <1>3, <1>4 DEF Span, a, n

(* total_registers() of ranges that share no address counts their          *)
(* addresses; the sum never leaves sixteen bits.                           *)
LEMMA TotalIsCardinality ==
    ASSUME NEW items, Disjoint(items)
    PROVE  /\ IsFiniteSet(Covered(items))
           /\ TotalRegisters(items) = Cardinality(Covered(items))
           /\ \E sum : Sums(sum, items) /\ sum[Len(items)] = Cardinality(Covered(items))
<1> DEFINE N == Len(items)
           First(n) == UNION {Span(items[i]) : i \in 1 .. n}
<1>1. /\ N \in Nat /\ DOMAIN items = 1 .. N
      /\ \A i \in 1 .. N : items[i] \in Items /\ End(items[i]) < Space
                           /\ items[i].count \in Nat
  BY ItemFacts DEF Disjoint
<1>2. Counted(items)
  BY <1>1 DEF Counted, Disjoint
<1>3. PICK sum : Sums(sum, items)
  BY <1>2, SumsExist
<1>4. sum[0] = 0 /\ \A n \in 1 .. N : sum[n] = sum[n - 1] + items[n].count
  BY <1>3 DEF Sums
<1>5. \A n \in 0 .. N : sum[n] \in Nat
  BY <1>3 DEF Sums
<1>6. \A i, j \in 1 .. N : i # j => Span(items[i]) \intersect Span(items[j]) = {}
  BY DEF Disjoint
<1> HIDE DEF N
<1> DEFINE S == {n \in 0 .. N : IsFiniteSet(First(n)) /\ Cardinality(First(n)) = sum[n]}
<1>7. 0 \in S
  <2>1. First(0) = {}
    OBVIOUS
  <2> HIDE DEF First
  <2>2. IsFiniteSet(First(0)) /\ Cardinality(First(0)) = 0
    BY <2>1, FS_EmptySet
  <2> QED
    BY <1>1, <1>4, <2>2
<1>8. ASSUME NEW n \in 0 .. N - 1, n \in S PROVE n + 1 \in S
  <2> DEFINE m == n + 1
  <2>1. m \in 1 .. N /\ m \in 0 .. N /\ m - 1 = n /\ n \in 0 .. N
    BY <1>1
  <2>2. First(m) = First(n) \union Span(items[m])
    <3>1. \A i : i \in 1 .. m <=> i \in 1 .. n \/ i = m
      BY <2>1
    <3> HIDE DEF m
    <3> QED
      BY <3>1
  <2>3. First(n) \intersect Span(items[m]) = {}
    <3>1. ASSUME NEW x, x \in First(n), x \in Span(items[m]) PROVE FALSE
      <4>1. PICK i \in 1 .. n : x \in Span(items[i])
        BY <3>1
      <4>2. i \in 1 .. N /\ i # m
        BY <1>1, <2>1
      <4> QED
        BY <1>6, <2>1, <3>1, <4>1, <4>2
    <3> QED
      BY <3>1
  <2>4. /\ IsFiniteSet(Span(items[m])) /\ Cardinality(Span(items[m])) = items[m].count
    BY <1>1, <2>1, SpanFacts
  <2> HIDE DEF First
  <2>5. IsFiniteSet(First(m)) /\ Cardinality(First(m)) =
           Cardinality(First(n)) + Cardinality(Span(items[m])) - Cardinality({})
    BY <1>8, <2>2, <2>3, <2>4, FS_Union
  <2>6. Cardinality({}) = 0 /\ Cardinality(First(n)) = sum[n] /\ sum[n] \in Nat
        /\ items[m].count \in Nat /\ sum[m] = sum[n] + items[m].count
    BY <1>1, <1>4, <1>5, <1>8, <2>1, FS_EmptySet
  <2>7. Cardinality(First(m)) = sum[m]
    BY <2>4, <2>5, <2>6
  <2> QED
    BY <2>1, <2>5, <2>7 DEF m
<1>9. 0 .. N \subseteq S
  <2> HIDE DEF S
  <2> QED
    BY <1>1, <1>7, <1>8, UpTo, Zenon
<1>10. ASSUME NEW n \in 0 .. N PROVE sum[n] \in 0 .. Space - 1
  <2>1. First(n) \subseteq 0 .. Space - 2
    <3>1. \A i \in 1 .. n : i \in 1 .. N
      BY <1>1
    <3> QED
      BY <1>1, <3>1, SpanFacts
  <2>2. /\ Space \in Nat \ {0}
        /\ IsFiniteSet(0 .. Space - 2) /\ Cardinality(0 .. Space - 2) <= Space - 1
    <3>1. 0 \in Int /\ Space - 2 \in Int /\ Space \in Nat \ {0}
      BY BaseAssumption
    <3>2. IsFiniteSet(0 .. Space - 2)
          /\ Cardinality(0 .. Space - 2) = IF 0 > Space - 2 THEN 0 ELSE (Space - 2) - 0 + 1
      BY <3>1, FS_Interval
    <3> QED
      BY <3>1, <3>2
  <2>3. IsFiniteSet(First(n)) /\ Cardinality(First(n)) = sum[n]
    BY <1>9
  <2> HIDE DEF First
  <2>4. Cardinality(First(n)) <= Cardinality(0 .. Space - 2)
    BY <2>1, <2>2, FS_Subset
  <2> QED
    BY <1>5, <2>2, <2>3, <2>4, FS_CardinalityType
<1>11. TotalRegisters(items) = sum[N]
  <2>1. PartialSums(sum, N, items)
    BY <1>1, <1>4 DEF PartialSums
  <2> QED
    BY <1>1, <1>10, <2>1, TotalRegistersIs
<1>12. Covered(items) = First(N) /\ N \in 0 .. N
  BY <1>1 DEF Covered
<1> HIDE DEF First
<1>13. IsFiniteSet(Covered(items)) /\ sum[N] = Cardinality(Covered(items))
  BY <1>9, <1>12
<1> QED
  BY <1>3, <1>11, <1>13 DEF N

(* Batches that ask for the same registers cover the same addresses.       *)
LEMMA SameRegisters ==
    ASSUME NEW a, NEW b, AskedFor(a) = AskedFor(b)
    PROVE  Covered(a) = Covered(b)
<1>1. ASSUME NEW items PROVE Covered(items) = {x[1] : x \in AskedFor(items)}
  <2>1. ASSUME NEW x, x \in Covered(items) PROVE x \in {y[1] : y \in AskedFor(items)}
    <3>1. PICK i \in DOMAIN items : x \in Span(items[i])
      BY <2>1 DEF Covered
    <3>2. <<x, items[i].byte_order>> \in AskedFor(items)
      BY <3>1 DEF AskedFor, Registers, Span
    <3> QED
      BY <3>2
  <2>2. ASSUME NEW y \in AskedFor(items) PROVE y[1] \in Covered(items)
    <3>1. PICK i \in DOMAIN items : y \in Registers(items[i])
      BY DEF AskedFor
    <3> QED
      BY <3>1 DEF Covered, Registers, Span
  <2> QED
    BY <2>1, <2>2
<1> QED
  BY <1>1

(* Ranges in ascending order share no address.                             *)
LEMMA AscendingDisjoint ==
    ASSUME NEW r, Ascending(r)
    PROVE  Disjoint(r)
<1>1. ASSUME NEW i \in 1 .. Len(r), NEW j \in 1 .. Len(r), i < j
      PROVE  Span(r[i]) \intersect Span(r[j]) = {}
  <2>1. End(r[i]) <= r[j].start_address /\ r[i] \in Items /\ r[j] \in Items
    BY <1>1 DEF Ascending
  <2>2. /\ r[i].start_address \in Nat /\ r[i].count \in Nat
        /\ r[j].start_address \in Nat /\ r[j].count \in Nat
    BY <2>1, ItemFacts
  <2>3. ASSUME NEW a \in Nat, NEW m \in Nat, NEW b \in Nat, NEW k \in Nat, a + m <= b
        PROVE  a .. a + m - 1 \intersect b .. b + k - 1 = {}
    BY <2>3
  <2> QED
    BY <2>1, <2>2, <2>3 DEF End, Span
<1>2. ASSUME NEW i \in 1 .. Len(r), NEW j \in 1 .. Len(r), i # j
      PROVE  Span(r[i]) \intersect Span(r[j]) = {}
  <2>1. i < j \/ j < i
    BY <1>2
  <2> QED
    BY <1>1, <2>1
<1> QED
  BY <1>2 DEF Ascending, Disjoint

(* optimized() of ranges that share no address: the same registers in the  *)
(* same byte orders, and as many.                                          *)
THEOREM OptimizedSame ==
    ASSUME NEW items, Apart(items), NEW m \in Optimized(items)
    PROVE  /\ AskedFor(m) = AskedFor(items)
           /\ TotalRegisters(m) = TotalRegisters(items)
           /\ m \in Seq(Items) /\ Len(m) <= Len(items) /\ Disjoint(m)
<1>1. CASE Len(items) <= 1
  BY <1>1 DEF Optimized, Apart, Disjoint
<1>2. CASE ~(Len(items) <= 1)
  <2>1. PICK s \in Sortings(items) : m = Merged(<<Head(s)>>, Tail(s))
    BY <1>2 DEF Optimized, Merged
  <2>2. /\ Ascending(s) /\ AskedFor(s) = AskedFor(items) /\ Apart(s) /\ Len(s) = Len(items)
    <3>1. Len(items) > 0
      BY <1>2 DEF Apart
    <3> QED
      BY <3>1, SortedAscending
  <2>3. \A i \in 1 .. Len(s) : s[i].count > 0
    BY <2>2 DEF Apart
  <2>4. Ascending(m) /\ AskedFor(m) = AskedFor(s) /\ Len(m) <= Len(s)
    BY <2>1, <2>2, <2>3, MergedAscending
  <2>5. Disjoint(m) /\ Disjoint(items)
    BY <2>4, AscendingDisjoint DEF Apart, Disjoint
  <2>6. Covered(m) = Covered(items)
    BY <2>2, <2>4, SameRegisters
  <2> QED
    BY <2>2, <2>4, <2>5, <2>6, TotalIsCardinality DEF Ascending
<1> QED
  BY <1>1, <1>2

(* What a client asks for when it asks for a whole map.                    *)
LEMMA AskedApart ==
    ASSUME map \in Maps, WellFormed(map)
    PROVE  Apart(Asked)
<1>1. Len(map) \in Nat /\ DOMAIN map = 1 .. Len(map)
  BY MapFacts
<1>2. \A i \in DOMAIN map : map[i] \in Descriptors
  BY PlaceFacts
<1> DEFINE N == Len(map)
           item(i) == Item(map[i].address, map[i].count, map[i].type, map[i].order)
<1>3. Asked = [i \in 1 .. N |-> item(i)]
  BY <1>1 DEF Asked
<1>4. ASSUME NEW i \in 1 .. N
      PROVE  /\ item(i) \in Items /\ item(i).count > 0 /\ End(item(i)) < Space
             /\ Span(item(i)) = Addresses(map[i]) /\ Inside(map[i])
  <2>1. /\ map[i].address \in 0 .. Space - 1 /\ map[i].count \in 1 .. Space - 1
        /\ map[i].type \in Types /\ map[i].order \in ByteOrders
        /\ map[i].address + map[i].count < Space
    BY <1>1, <1>2 DEF Descriptors
  <2>2. Space \in Nat
    BY BaseAssumption
  <2> QED
    BY <2>1, <2>2 DEF Item, Items, End, Span, Addresses, Inside
<1>5. \A i, j \in 1 .. N : i # j => Addresses(map[i]) \intersect Addresses(map[j]) = {}
  <2>1. DOMAIN map \subseteq Int /\ \A i \in DOMAIN map : Inside(map[i])
    BY <1>1, <1>4
  <2> QED
    BY <1>1, <2>1, MapsDisjoint
<1> HIDE DEF item
<1>6. Asked \in Seq(Items) /\ Len(Asked) = N /\ DOMAIN Asked = 1 .. N
  BY <1>1, <1>3, <1>4
<1>7. \A i \in 1 .. N : Asked[i] = item(i)
  BY <1>3
<1> QED
  BY <1>1, <1>4, <1>5, <1>6, <1>7 DEF Apart

BatchInv == map \in Maps /\ WellFormed(map) /\ OptimizedCovers

(* Nothing is asked for yet.                                               *)
LEMMA BatchInit == Init => BatchInv
<1> SUFFICES ASSUME Init PROVE BatchInv
  OBVIOUS
<1>1. map \in Maps /\ WellFormed(map) /\ batch.asked = batch.sent
  BY DEF Init
<1>2. TotalRegisters(<< >>) = 0
  <2>1. PartialSums([n \in 0 .. 0 |-> 0], 0, << >>)
    BY DEF PartialSums
  <2>2. \A n \in 0 .. 0 : [k \in 0 .. 0 |-> 0][n] \in 0 .. Space - 1
    BY BaseAssumption
  <2> QED
    BY <2>1, <2>2, TotalRegistersIs
<1> QED
  BY <1>1, <1>2 DEF Init, BatchInv, OptimizedCovers

(* Every step keeps what is asked for and what is sent the same registers. *)
LEMMA BatchStep == BatchInv /\ [Next]_vars => BatchInv'
<1> SUFFICES ASSUME BatchInv, [Next]_vars PROVE BatchInv'
  OBVIOUS
<1>1. ASSUME UNCHANGED <<map, batch>> PROVE BatchInv'
  BY <1>1 DEF BatchInv, OptimizedCovers
<1>2. ASSUME NEW i \in DOMAIN map, WriteValue(i) PROVE BatchInv'
  BY <1>1, <1>2 DEF WriteValue
<1>3. CASE Ask
  <2>1. map' = map /\ batch'.asked = Asked /\ batch'.sent \in {Asked} \union Optimized(Asked)
    BY <1>3 DEF Ask
  <2>2. Apart(Asked)
    BY AskedApart DEF BatchInv
  <2>3. /\ AskedFor(batch'.sent) = AskedFor(batch'.asked)
        /\ TotalRegisters(batch'.sent) = TotalRegisters(batch'.asked)
    BY <2>1, <2>2, OptimizedSame
  <2>4. TotalRegisters(batch'.asked) \in Nat
    <3>1. Disjoint(Asked)
      BY <2>2 DEF Apart, Disjoint
    <3> QED
      BY <2>1, <3>1, TotalIsCardinality, FS_CardinalityType
  <2> QED
    BY <2>1, <2>3, <2>4 DEF BatchInv, OptimizedCovers
<1>4. CASE Noise
  BY <1>1, <1>4 DEF Noise
<1>5. CASE Serve
  BY <1>1, <1>5 DEF Serve
<1>6. CASE Receive
  BY <1>1, <1>6 DEF Receive
<1>7. CASE UNCHANGED vars
  BY <1>1, <1>7 DEF vars
<1> QED
  BY <1>2, <1>3, <1>4, <1>5, <1>6, <1>7 DEF Next

(* Whatever std::sort leaves of the order, an optimized batch asks for the *)
(* registers the client asked for and for no others.                       *)
THEOREM OptimizedAsksTheSame == Spec => []OptimizedCovers
<1> QED
  BY BatchInit, BatchStep, PTL DEF Spec, BatchInv

-----------------------------------------------------------------------------
(* Noise                                                                   *)

(* One bit of a frame inverted.                                            *)
LEMMA FlipIs ==
    ASSUME NEW w \in Bytes, NEW n \in Nat, n < 8 * Len(w)
    PROVE  /\ Flip(w, n) \in Bytes /\ Len(Flip(w, n)) = Len(w)
           /\ n \div 8 + 1 \in 1 .. Len(w)
           /\ \A k \in 1 .. Len(w) : k # n \div 8 + 1 => Flip(w, n)[k] = w[k]
           /\ Bits(Flip(w, n)[n \div 8 + 1]) = SymDiff(Bits(w[n \div 8 + 1]), {n % 8})
<1> DEFINE L == Len(w)
           a == n \div 8 + 1
           b == n % 8
           x == Inverted(w[a], b)
           v == Flip(w, n)
<1>1. L \in Nat
  BY DEF Bytes
<1> HIDE DEF L
<1>2. n < 8 * L
  BY DEF L
<1>3. a \in 1 .. L /\ b \in 0 .. 7
  BY <1>1, <1>2
<1>4. x \in Octet /\ Bits(x) = SymDiff(Bits(w[a]), {b})
  <2>1. SymDiff(Bits(w[a]), {b}) \in SUBSET (0 .. 7)
    BY <1>3 DEF SymDiff, Bits
  <2> QED
    BY <2>1, BitsOfByte DEF Inverted, Octet
<1>5. v = [w EXCEPT ![a] = x]
  BY DEF Flip
<1> HIDE DEF a, b, x, v
<1>6. w \in [1 .. L -> Octet]
  BY DEF Bytes, L
<1>7. v \in [1 .. L -> Octet] /\ v[a] = x /\ \A k \in 1 .. L : k # a => v[k] = w[k]
  BY <1>3, <1>4, <1>5, <1>6
<1>8. v \in Bytes /\ Len(v) = L
  BY <1>1, <1>7 DEF Bytes
<1> QED
  BY <1>3, <1>4, <1>7, <1>8 DEF a, b, v, L

(* A request in which noise inverts one or two bits, no more than eight    *)
(* bits apart.                                                             *)
Noisy(w, n, d) == IF d = 0 THEN Flip(w, n) ELSE Flip(Flip(w, n), n + d)

(* unwrap_rtu gives a frame only when its CRC matches.                     *)
LEMMA UnwrapChecks ==
    ASSUME NEW v, UnwrapRtu(v) # None, NEW N \in Nat, Len(v) = N + 2
    PROVE  CrcMatches(v, N)
<1>1. Len(v) - 2 = N /\ Len(v) - 1 = N + 1 /\ Len(v) = N + 2
  OBVIOUS
<1> QED
  BY <1>1 DEF UnwrapRtu, CrcMatches

(* unwrap_rtu drops a sound frame in which one bit, or two bits no more    *)
(* than eight apart, were inverted: they lie in two adjacent bytes.        *)
LEMMA RtuFlip ==
    ASSUME NEW w, RtuSound(w), NEW n \in Nat, NEW d \in 0 .. 8, n + d < 8 * Len(w)
    PROVE  UnwrapRtu(Noisy(w, n, d)) = None
<1> SUFFICES ASSUME UnwrapRtu(Noisy(w, n, d)) # None PROVE FALSE
  OBVIOUS
<1>1. PICK N \in Nat : w \in Bytes /\ Len(w) = N + 2 /\ N >= 2 /\ CrcMatches(w, N)
  BY DEF RtuSound
<1> DEFINE v == Noisy(w, n, d)
           u == Flip(w, n)
           a == n \div 8 + 1
           e == (n + d) \div 8 + 1
           L == Len(w)
<1>2. n + d \in Nat /\ n < 8 * Len(w) /\ a \in Nat /\ a >= 1 /\ (e = a \/ e = a + 1)
  <2>0. L \in Nat /\ n + d < 8 * L
    BY <1>1
  <2> HIDE DEF L
  <2>1. n + d \in Nat /\ n < 8 * L /\ a \in Nat /\ a >= 1 /\ (e = a \/ e = a + 1)
    BY <2>0
  <2> QED
    BY <2>1 DEF L
<1>3. /\ u \in Bytes /\ Len(u) = Len(w) /\ a \in 1 .. Len(w)
      /\ \A k \in 1 .. Len(w) : k # a => u[k] = w[k]
      /\ Bits(u[a]) = SymDiff(Bits(w[a]), {n % 8})
  BY <1>1, <1>2, FlipIs
<1> HIDE DEF u
<1>4. CASE d = 0
  <2>1. v = u
    BY <1>4 DEF u, Noisy
  <2>2. Bits(u[a]) # Bits(w[a])
    BY <1>3 DEF SymDiff
  <2>3. CrcMatches(u, N)
    BY <1>1, <1>3, <2>1, UnwrapChecks
  <2> HIDE DEF a, v
  <2>4. \A k \in 1 .. N + 2 : k \notin {a, a + 1} => u[k] = w[k]
    BY <1>1, <1>3
  <2> QED
    BY <1>1, <1>3, <2>2, <2>3, <2>4, BurstFound
<1>5. CASE d # 0
  <2>1. v = Flip(u, n + d)
    BY <1>5 DEF u, Noisy
  <2>2. /\ v \in Bytes /\ Len(v) = Len(u) /\ e \in 1 .. Len(u)
        /\ \A k \in 1 .. Len(u) : k # e => v[k] = u[k]
        /\ Bits(v[e]) = SymDiff(Bits(u[e]), {(n + d) % 8})
    <3> DEFINE p == n + d
    <3>1. p \in Nat /\ u \in Bytes /\ p < 8 * Len(u) /\ v = Flip(u, p) /\ e = p \div 8 + 1
      BY <1>2, <1>3, <2>1
    <3> HIDE DEF p, v, e, a
    <3>2. /\ v \in Bytes /\ Len(v) = Len(u) /\ e \in 1 .. Len(u)
          /\ \A k \in 1 .. Len(u) : k # e => v[k] = u[k]
          /\ Bits(v[e]) = SymDiff(Bits(u[e]), {p % 8})
      BY <3>1, FlipIs
    <3> QED
      BY <3>2 DEF p
  <2>3. CrcMatches(v, N)
    BY <1>1, <1>3, <2>2, UnwrapChecks
  <2>4. Bits(v[e]) # Bits(w[e])
    <3>1. CASE e = a
      <4>1. (n + d) % 8 # n % 8
        BY <1>5, <3>1
      <4> HIDE DEF e, a, v
      <4>2. Bits(v[a]) = SymDiff(SymDiff(Bits(w[a]), {n % 8}), {(n + d) % 8})
        BY <1>3, <2>2, <3>1
      <4> QED
        BY <3>1, <4>1, <4>2 DEF SymDiff
    <3>2. CASE e # a
      <4> HIDE DEF e, a, v
      <4>1. u[e] = w[e]
        BY <1>3, <2>2, <3>2
      <4> QED
        BY <2>2, <4>1 DEF SymDiff
    <3> QED
      BY <3>1, <3>2
  <2> HIDE DEF a, e, v
  <2>5. \A k \in 1 .. N + 2 : k \notin {a, a + 1} => v[k] = w[k]
    BY <1>1, <1>2, <1>3, <2>2
  <2>6. e \in 1 .. N + 2 /\ a \in 1 .. N + 2 /\ e \in {a, a + 1} /\ Len(v) = N + 2
    BY <1>1, <1>2, <1>3, <2>2
  <2> QED
    BY <1>1, <2>2, <2>3, <2>4, <2>5, <2>6, BurstFound
<1> QED
  BY <1>4, <1>5

Sound(w) == IF link = "tcp" THEN TcpSound(w) ELSE RtuSound(w)

DamageInv ==
    /\ map \in Maps /\ WellFormed(map) /\ link \in {"tcp", "rtu"}
    /\ DamageDetected
    /\ phase = "request" /\ ~damaged => Sound(wire)
    /\ phase = "request" /\ damaged => Unframe(wire) = None

(* A function on 1 .. n is a sequence.                                     *)
LEMMA FunctionIsSeq ==
    ASSUME NEW S, NEW n \in Nat, NEW f \in [1 .. n -> S]
    PROVE  f \in Seq(S) /\ Len(f) = n
  OBVIOUS

(* A payload for which there is room in a frame, with what goes with it.   *)
Room(stamp, payload, mac) == 9 + Len(stamp) + Len(payload) + Len(mac) < 65535

Arrives(frame, payload) ==
    Unframe(frame) # None /\ Unframe(frame)[1].pdu.payload = payload

(* A frame of either kind is sound as it is sent and gives back its PDU.   *)
LEMMA FrameCarries ==
    ASSUME NEW pdu, NEW bytes, Framed(pdu, bytes), Deserialize(bytes) # None
    PROVE  Sound(Frame(pdu)) /\ Holds(Unframe(Frame(pdu)), bytes)
<1>1. TcpSound(WrapTcp(1, pdu, 7)) /\ Holds(UnwrapTcp(WrapTcp(1, pdu, 7)), bytes)
  BY TcpFrame, TcpRoundTrip, Zenon
<1>2. RtuSound(WrapRtu(1, pdu)) /\ Holds(UnwrapRtu(WrapRtu(1, pdu)), bytes)
  BY RtuFrame, RtuRoundTrip, Zenon
<1>3. CASE link = "tcp"
  BY <1>1, <1>3, Zenon DEF Frame, Unframe, Sound
<1>4. CASE link # "tcp"
  BY <1>2, <1>4, Zenon DEF Frame, Unframe, Sound
<1> QED
  BY <1>3, <1>4

(* So a message arrives with its payload when nothing disturbs it.         *)
LEMMA MessageArrives ==
    ASSUME NEW payload, Short(payload), NEW stamp, Optional(stamp, 8),
           NEW mac, Optional(mac, 32), Room(stamp, payload, mac)
    PROVE  LET frame == Frame(MakeExtended(Header(1, stamp), payload, mac)) IN
           Sound(frame) /\ Arrives(frame, payload)
<1> DEFINE pdu == MakeExtended(Header(1, stamp), payload, mac)
           bytes == Serialize(pdu)
           length == 9 + Len(stamp) + Len(payload) + Len(mac)
<1>1. Carried(bytes, payload, length)
  BY PduRoundTrip, Zenon
<1>2. length >= 1 /\ length < 65535
  <2> DEFINE t == Len(stamp)
             p == Len(payload)
             x == Len(mac)
  <2>1. t \in Nat /\ p \in Nat /\ x \in Nat /\ 9 + t + p + x < 65535
    BY DEF Optional, Short, Bytes, Room
  <2> HIDE DEF t, p, x
  <2>2. 9 + t + p + x >= 1
    BY <2>1
  <2> QED
    BY <2>1, <2>2 DEF t, p, x
<1> HIDE DEF pdu, length
<1>3. bytes \in Bytes /\ Len(bytes) = length /\ Deserialize(bytes) # None
      /\ Deserialize(bytes)[1].payload = payload
  BY <1>1, Zenon DEF Carried
<1>4. Framed(pdu, bytes)
  BY <1>2, <1>3 DEF Framed
<1> HIDE DEF bytes
<1>5. Sound(Frame(pdu)) /\ Holds(Unframe(Frame(pdu)), bytes)
  BY <1>3, <1>4, FrameCarries, Zenon
<1>6. Arrives(Frame(pdu), payload)
  BY <1>3, <1>5, Zenon DEF Holds, Arrives
<1> QED
  BY <1>5, <1>6, Zenon DEF pdu

(* The items a client may send.                                            *)
Sent(items) ==
    /\ ShortBatch(items) /\ Disjoint(items)
    /\ Len(items) <= Len(map) /\ Len(map) \in Nat
    /\ Covered(items) = Covered(Asked)

(* They are the registers of the map, merged or not.                       *)
LEMMA SentFacts ==
    ASSUME map \in Maps, WellFormed(map), NEW items \in {Asked} \union Optimized(Asked)
    PROVE  Sent(items)
<1>1. Apart(Asked)
  BY AskedApart
<1>2. Asked \in Seq(Items) /\ Len(Asked) = Len(map)
  <2>1. Asked \in Seq(Items)
    BY <1>1 DEF Apart
  <2>2. Len(Asked) = Len(map)
    BY MapFacts DEF Asked
  <2> QED
    BY <2>1, <2>2
<1>3. Len(map) < 8192 /\ Len(map) \in Nat
  BY MapFacts
<1>4. Disjoint(Asked)
  BY <1>1 DEF Apart, Disjoint
<1>5. /\ items \in Seq(Items) /\ Len(items) <= Len(map) /\ Len(items) \in Nat
      /\ Disjoint(items) /\ Covered(items) = Covered(Asked)
  <2>1. CASE items = Asked
    BY <1>2, <1>3, <1>4, <2>1
  <2>2. CASE items \in Optimized(Asked)
    <3>1. /\ items \in Seq(Items) /\ Len(items) <= Len(Asked) /\ Disjoint(items)
          /\ AskedFor(items) = AskedFor(Asked)
      BY <1>1, <2>2, OptimizedSame, Zenon
    <3>2. Covered(items) = Covered(Asked)
      BY <3>1, SameRegisters, Zenon
    <3>3. Len(items) \in Nat
      BY <3>1
    <3> QED
      BY <1>2, <3>1, <3>2, <3>3, Zenon
  <2> QED
    BY <2>1, <2>2
<1>6. Len(items) < 8192
  BY <1>3, <1>5
<1> QED
  BY <1>3, <1>5, <1>6 DEF Sent, ShortBatch

(* A timestamp, a digest, or none.                                         *)
LEMMA OptionalFacts ==
    /\ Optional(None, 8) /\ Optional(Stamp, 8) /\ Optional(None, 32) /\ Optional(Digest, 32)
<1>1. Byte = Octet
  <2>1. Base = 256
    BY BatchAssumption
  <2> QED
    BY <2>1 DEF Byte, Octet
<1>2. \A n : Optional(None, n)
  BY DEF Optional, None, Bytes
<1>3. ASSUME NEW n \in Nat, n # 0, NEW bytes \in [1 .. n -> Byte] PROVE Optional(bytes, n)
  <2>1. bytes \in Seq(Octet) /\ Len(bytes) = n
    BY <1>1, FunctionIsSeq
  <2>2. bytes # None
    BY <1>3, <2>1 DEF None
  <2> QED
    BY <2>1, <2>2, Zenon DEF Optional, Bytes
<1>4. 8 \in Nat /\ 8 # 0 /\ 32 \in Nat /\ 32 # 0
  OBVIOUS
<1>5. Stamp \in [1 .. 8 -> Byte] /\ Digest \in [1 .. 32 -> Byte]
  BY BatchAssumption
<1> QED
  BY <1>2, <1>3, <1>4, <1>5, Zenon

Request(items, stamp) == MakeExtended(Header(1, stamp), SerializeRequest(items), None)

(* The request of a client is sound as it is sent, and the items it asks   *)
(* for arrive with it.                                                     *)
LEMMA RequestArrives ==
    ASSUME map \in Maps, WellFormed(map),
           NEW items \in {Asked} \union Optimized(Asked),
           NEW stamp \in {None, Stamp}
    PROVE  /\ Sound(Frame(Request(items, stamp)))
           /\ Arrives(Frame(Request(items, stamp)), SerializeRequest(items))
           /\ DeserializeRequest(SerializeRequest(items)) = <<items>>
<1> DEFINE payload == SerializeRequest(items)
<1>1. SixteenBits
  BY BatchAssumption DEF SixteenBits
<1>2. ShortBatch(items)
  BY SentFacts, Zenon DEF Sent
<1>3. RequestHolds(payload, items) /\ DeserializeRequest(payload) = <<items>>
  BY <1>1, <1>2, RequestPlaces, RequestRoundTrip, Zenon
<1>4. payload \in Bytes /\ Len(payload) = 2 + 6 * Len(items)
  BY <1>3, Zenon DEF RequestHolds
<1>5. Optional(stamp, 8) /\ Optional(None, 32)
  BY OptionalFacts
<1> HIDE DEF payload
<1>6. Short(payload) /\ Room(stamp, payload, None)
  <2> DEFINE n == Len(items)
             p == Len(payload)
             t == Len(stamp)
             x == Len(None)
  <2>1. n \in Nat /\ n < 8192
    BY <1>2 DEF ShortBatch
  <2>2. p = 2 + 6 * n
    BY <1>4
  <2>3. t = 0 \/ t = 8
    BY <1>5 DEF Optional
  <2>4. x = 0
    BY DEF None
  <2> HIDE DEF n, p, t, x
  <2>5. p \in Number /\ 9 + t + p + x < 65535
    BY <2>1, <2>2, <2>3, <2>4 DEF Number
  <2> QED
    BY <1>4, <2>5 DEF Short, Room, p, t, x
<1>7. Sound(Frame(Request(items, stamp))) /\ Arrives(Frame(Request(items, stamp)), payload)
  BY <1>5, <1>6, MessageArrives, Zenon DEF Request, payload
<1> QED
  BY <1>3, <1>7 DEF payload

(* Noise makes it a frame that is dropped.                                 *)
LEMMA NoiseDrops ==
    ASSUME DamageInv, Noise
    PROVE  Unframe(wire)' = None
<1>1. Sound(wire) /\ link' = link
  BY DEF DamageInv, Noise
<1>2. CASE link = "rtu"
  <2>1. RtuSound(wire)
    BY <1>1, <1>2 DEF Sound
  <2>2. PICK n \in 0 .. 8 * Len(wire) - 1, d \in 0 .. Burst :
            n + d < 8 * Len(wire) /\ wire' = Noisy(wire, n, d)
    BY <1>2 DEF Noise, Noisy
  <2>3. d \in 0 .. 8 /\ n \in Nat
    <3>1. Burst \in 0 .. 8
      BY BatchAssumption
    <3>2. Len(wire) \in Nat
      BY <2>1 DEF RtuSound, Bytes
    <3> DEFINE l == Len(wire)
    <3>3. n \in 0 .. 8 * l - 1 /\ d \in 0 .. Burst /\ l \in Nat
      BY <2>2, <3>2
    <3> HIDE DEF l
    <3> QED
      BY <3>1, <3>3
  <2>4. UnwrapRtu(wire') = None
    BY <2>1, <2>2, <2>3, RtuFlip
  <2> QED
    BY <1>1, <1>2, <2>4 DEF Unframe
<1>3. CASE link # "rtu"
  <2>1. PICK n \in 0 .. Len(wire) - 1 : wire' = SubSeq(wire, 1, n)
    BY <1>3 DEF Noise
  <2>2. CASE link = "tcp"
    <3>1. TcpSound(wire)
      BY <1>1, <2>2 DEF Sound
    <3>2. UnwrapTcp(wire') = None
      BY <2>1, <3>1, TcpCut
    <3> QED
      BY <1>1, <2>2, <3>2 DEF Unframe
  <2>3. link = "tcp"
    BY <1>3 DEF DamageInv
  <2> QED
    BY <2>2, <2>3
<1> QED
  BY <1>2, <1>3

(* No frame is on the line yet.                                            *)
LEMMA DamageInit == Init => DamageInv
  BY DEF Init, DamageInv, DamageDetected

(* Every step keeps a request sound until noise hits it, and after that    *)
(* one that is dropped.                                                    *)
LEMMA DamageStep == DamageInv /\ [Next]_vars => DamageInv'
<1> SUFFICES ASSUME DamageInv, [Next]_vars PROVE DamageInv'
  OBVIOUS
<1>1. ASSUME UNCHANGED <<map, link, phase, wire, damaged>> PROVE DamageInv'
  BY <1>1 DEF DamageInv, DamageDetected, Sound, Unframe
<1>2. ASSUME NEW i \in DOMAIN map, WriteValue(i) PROVE DamageInv'
  BY <1>1, <1>2 DEF WriteValue
<1>3. CASE Ask
  <2>1. PICK items \in {Asked} \union Optimized(Asked), stamp \in {None, Stamp} :
            wire' = Frame(Request(items, stamp))
    BY <1>3 DEF Ask, Request
  <2>2. Sound(wire')
    BY <2>1, RequestArrives DEF DamageInv
  <2>3. ~damaged'
    BY <1>3 DEF Ask, DamageInv, DamageDetected
  <2> QED
    BY <1>3, <2>2, <2>3 DEF Ask, DamageInv, DamageDetected, Sound
<1>4. CASE Noise
  BY <1>4, NoiseDrops DEF Noise, DamageInv, DamageDetected
<1>5. CASE Serve
  BY <1>5 DEF Serve, DamageInv, DamageDetected
<1>6. CASE Receive
  BY <1>6 DEF Receive, DamageInv, DamageDetected
<1>7. CASE UNCHANGED vars
  BY <1>1, <1>7 DEF vars
<1> QED
  BY <1>2, <1>3, <1>4, <1>5, <1>6, <1>7 DEF Next

(* The inductive invariant of the exchange up to the device: what is on    *)
(* the line is sound, or it is damaged and dropped.                        *)
THEOREM DamageInvariance == Spec => []DamageInv
<1> QED
  BY DamageInit, DamageStep, PTL DEF Spec

(* A damaged request is never taken for a good one.                        *)
THEOREM DamageIsDetected == Spec => []DamageDetected
<1> QED
  BY DamageInvariance, PTL DEF DamageInv

-----------------------------------------------------------------------------
(* The device's answer, and what the client reads                          *)

(* The ranges of a map as they are asked for.                              *)
AskedPlaces ==
    /\ DOMAIN Asked = DOMAIN map /\ DOMAIN map = 1 .. Len(map) /\ Len(Asked) = Len(map)
    /\ \A i \in DOMAIN map :
          /\ Inside(map[i]) /\ Span(Asked[i]) = Addresses(map[i])
          /\ Asked[i].start_address = map[i].address /\ Asked[i].count = map[i].count
    /\ \A i, j \in DOMAIN map : i # j => Addresses(map[i]) \intersect Addresses(map[j]) = {}
    /\ \A a : a \in Covered(Asked) <=> \E i \in DOMAIN map : a \in Addresses(map[i])

(* They are the addresses of the descriptors.                              *)
LEMMA AskedCovers ==
    ASSUME map \in Maps, WellFormed(map)
    PROVE  AskedPlaces
<1> DEFINE N == Len(map)
           item(i) == Item(map[i].address, map[i].count, map[i].type, map[i].order)
<1>1. N \in Nat /\ DOMAIN map = 1 .. N
  BY MapFacts
<1>2. \A i \in DOMAIN map : map[i] \in Descriptors
  BY PlaceFacts
<1>3. Asked = [i \in 1 .. N |-> item(i)]
  BY <1>1 DEF Asked
<1>4. ASSUME NEW i \in 1 .. N
      PROVE  /\ Inside(map[i]) /\ Span(item(i)) = Addresses(map[i])
             /\ item(i).start_address = map[i].address /\ item(i).count = map[i].count
  <2>1. map[i].address + map[i].count < Space /\ map[i].address \in 0 .. Space - 1
        /\ map[i].count \in 1 .. Space - 1
    BY <1>1, <1>2 DEF Descriptors
  <2>2. Space \in Nat
    BY BaseAssumption
  <2> QED
    BY <2>1, <2>2 DEF Item, Span, Addresses, Inside
<1>5. \A i, j \in 1 .. N : i # j => Addresses(map[i]) \intersect Addresses(map[j]) = {}
  <2>1. DOMAIN map \subseteq Int /\ \A i \in DOMAIN map : Inside(map[i])
    BY <1>1, <1>4
  <2> QED
    BY <1>1, <2>1, MapsDisjoint
<1> HIDE DEF item, N
<1>6. DOMAIN Asked = 1 .. N /\ Len(Asked) = N /\ \A i \in 1 .. N : Asked[i] = item(i)
  BY <1>1, <1>3
<1>7. \A i \in 1 .. N : /\ Inside(map[i]) /\ Span(Asked[i]) = Addresses(map[i])
                        /\ Asked[i].start_address = map[i].address
                        /\ Asked[i].count = map[i].count
  BY <1>4, <1>6, Zenon
<1>8. ASSUME NEW a
      PROVE  a \in Covered(Asked) <=> \E i \in 1 .. N : a \in Addresses(map[i])
  <2>1. a \in Covered(Asked) <=> \E i \in 1 .. N : a \in Span(Asked[i])
    BY <1>6 DEF Covered
  <2> QED
    BY <1>7, <2>1
<1> QED
  BY <1>1, <1>5, <1>6, <1>7, <1>8, Zenon DEF AskedPlaces, N

(* A register is a number of two bytes, and so is an address.              *)
LEMMA RegisterIsNumber == Register = Number
<1> DEFINE top == Base * Base - 1
<1>1. Register = 0 .. top
  BY DEF Register
<1>2. top = 65535
  <2>1. Base = 256
    BY BatchAssumption
  <2> QED
    BY <2>1
<1> HIDE DEF top
<1>3. ASSUME NEW n PROVE n \in 0 .. top <=> n \in Number
  <2>1. top \in Nat
    BY <1>2
  <2>2. n \in 0 .. top <=> n \in Nat /\ n <= top
    BY <2>1
  <2>3. ASSUME n \in Nat PROVE n <= top <=> n < 65536
    BY <1>2, <2>3
  <2> QED
    BY <2>2, <2>3 DEF Number
<1> QED
  BY <1>1, <1>3

LEMMA SpaceIsSixteenBits == SixteenBits
  BY BatchAssumption DEF SixteenBits

LEMMA SpaceIsNumber == ASSUME NEW n \in 0 .. Space - 1 PROVE n \in Number
<1>1. SixteenBits
  BY SpaceIsSixteenBits, Zenon
<1>2. Space \in Nat
  BY BaseAssumption
<1>3. n \in Nat /\ n < 65536
  BY <1>1, <1>2 DEF SixteenBits
<1> QED
  BY <1>3 DEF Number

(* The register that the device sends for an address of a descriptor is    *)
(* the one of that descriptor's value at that place.                       *)
LEMMA RegisterThere ==
    ASSUME MapInv, NEW i \in DOMAIN map, NEW a \in Addresses(map[i])
    PROVE  /\ RegisterAt(a) = buffer[Offset(map, i) + 1 + a - map[i].address]
           /\ RegisterAt(a) \in Number
<1>1. map \in Maps /\ WellFormed(map) /\ buffer \in [1 .. Total(map) -> Register]
  BY DEF MapInv
<1>2. AskedPlaces
  BY <1>1, AskedCovers
<1> DEFINE k == CHOOSE x \in DOMAIN map : a \in Addresses(map[x])
<1>3. RegisterAt(a) = buffer[Offset(map, k) + 1 + a - map[k].address]
  BY Zenon DEF RegisterAt, Addresses
<1>4. k \in DOMAIN map /\ a \in Addresses(map[k])
  <2>1. \E x \in DOMAIN map : a \in Addresses(map[x])
    OBVIOUS
  <2> QED
    BY <2>1, Zenon
<1> HIDE DEF k
<1>5. k = i
  BY <1>2, <1>4 DEF AskedPlaces
<1> DEFINE off == Offset(map, i)
           b == map[i].address
           c == map[i].count
           t == Total(map)
<1>6. off \in Nat /\ off + c <= t /\ c \in Nat /\ b \in Nat /\ t \in Nat
  <2>1. /\ map[i] \in Descriptors /\ c \in Nat /\ off \in Nat /\ off + c <= t
    BY <1>1, PlaceFacts
  <2>2. t \in Nat
    BY <1>1, MapFacts
  <2>3. b \in Nat
    BY <2>1, BaseAssumption DEF Descriptors
  <2> QED
    BY <2>1, <2>2, <2>3
<1>7. a \in b .. b + c - 1
  BY DEF Addresses
<1>8. RegisterAt(a) = buffer[off + 1 + a - b]
  BY <1>3, <1>5
<1>9. buffer \in [1 .. t -> Register]
  BY <1>1
<1> HIDE DEF off, b, c, t
<1>10. off + 1 + a - b \in 1 .. t
  BY <1>6, <1>7
<1>11. RegisterAt(a) \in Number
  BY <1>8, <1>9, <1>10, RegisterIsNumber
<1> QED
  BY <1>8, <1>11 DEF off, b

(* The result that the device sends for a range of the map.                *)
ResultFacts(item) ==
    /\ Reply(Result(item)) /\ Len(Result(item).registers) = item.count
    /\ Result(item).address = item.start_address /\ Result(item).status = 0

LEMMA ResultIsReply ==
    ASSUME MapInv, NEW item \in Items, Span(item) \subseteq Covered(Asked)
    PROVE  ResultFacts(item)
<1> DEFINE n == item.count
           s == item.start_address
           regs == [j \in 1 .. n |-> RegisterAt(s + j - 1)]
<1>1. map \in Maps /\ WellFormed(map)
  BY DEF MapInv
<1>2. AskedPlaces
  BY <1>1, AskedCovers
<1>3. n \in Nat /\ s \in Nat /\ n \in Number /\ s \in Number
  BY ItemFacts, SpaceIsNumber
<1>4. ASSUME NEW j \in 1 .. n PROVE RegisterAt(s + j - 1) \in Number
  <2> DEFINE a == s + j - 1
  <2>1. a \in s .. s + n - 1
    <3> HIDE DEF n, s
    <3> QED
      BY <1>3
  <2> HIDE DEF a
  <2>2. a \in Covered(Asked)
    BY <2>1 DEF Span
  <2>3. PICK i \in DOMAIN map : a \in Addresses(map[i])
    BY <1>2, <2>2, Zenon DEF AskedPlaces
  <2> QED
    BY <2>3, RegisterThere, Zenon DEF a
<1>5. Result(item) = [address |-> s, status |-> 0, registers |-> regs]
  BY DEF Result
<1> HIDE DEF n, s
<1>6. regs \in Seq(Number) /\ Len(regs) = n
  BY <1>3, <1>4
<1> HIDE DEF regs
<1>7. /\ Result(item).address = s /\ Result(item).status = 0
      /\ Result(item).registers = regs
  BY <1>5
<1>8. Result(item) \in Results
  <2>1. 0 \in Octet
    BY DEF Octet
  <2> QED
    BY <1>3, <1>5, <1>6, <2>1 DEF Results
<1>9. n < 65536
  BY <1>3 DEF Number
<1>10. Reply(Result(item))
  BY <1>6, <1>7, <1>8, <1>9 DEF Reply
<1> QED
  BY <1>6, <1>7, <1>10, Zenon DEF ResultFacts, n, s

Replies(items) == [i \in DOMAIN items |-> Result(items[i])]
Response(answer) == MakeExtended(Header(1, None), SerializeResponse(answer), Digest)

(* The results for a batch: one for each of its items, in their order.     *)
AnswerFacts(items) ==
    /\ Answer(Replies(items)) /\ Len(Replies(items)) = Len(items)
    /\ DOMAIN items = 1 .. Len(items) /\ DOMAIN Replies(items) = 1 .. Len(items)
    /\ \A i \in 1 .. Len(items) :
          items[i] \in Items /\ Replies(items)[i] = Result(items[i]) /\ ResultFacts(items[i])

LEMMA RepliesAnswer ==
    ASSUME MapInv, NEW items, Sent(items)
    PROVE  AnswerFacts(items)
<1> DEFINE N == Len(items)
           answer == Replies(items)
<1>1. /\ items \in Seq(Items) /\ N \in Nat /\ DOMAIN items = 1 .. N
      /\ \A i \in 1 .. N : items[i] \in Items
  BY DEF Sent, Disjoint
<1>2. Covered(items) = Covered(Asked)
  BY DEF Sent
<1>3. N \in Number
  <2>1. N < 8192
    BY DEF Sent, ShortBatch
  <2> HIDE DEF N
  <2> QED
    BY <1>1, <2>1 DEF Number
<1>4. ASSUME NEW i \in 1 .. N PROVE ResultFacts(items[i])
  <2>1. Span(items[i]) \subseteq Covered(Asked) /\ items[i] \in Items
    BY <1>1, <1>2 DEF Covered
  <2> QED
    BY <2>1, ResultIsReply, Zenon
<1> HIDE DEF N
<1>5. answer = [i \in 1 .. N |-> Result(items[i])]
  BY <1>1 DEF Replies
<1> HIDE DEF answer
<1>6. /\ DOMAIN answer = 1 .. N /\ Len(answer) = N
      /\ \A i \in 1 .. N : answer[i] = Result(items[i])
  BY <1>1, <1>5
<1>7. \A i \in 1 .. N : Reply(answer[i])
  BY <1>4, <1>6, Zenon DEF ResultFacts
<1>8. \E S : answer \in Seq(S)
  <2> DEFINE S == {Result(items[i]) : i \in 1 .. N}
  <2>1. answer \in [1 .. N -> S]
    BY <1>5
  <2> HIDE DEF S
  <2>2. answer \in Seq(S)
    BY <1>1, <2>1, FunctionIsSeq
  <2> QED
    BY <2>2
<1>9. Answer(answer)
  BY <1>3, <1>6, <1>7, <1>8, Zenon DEF Answer
<1> QED
  BY <1>1, <1>4, <1>6, <1>9, Zenon DEF AnswerFacts, answer, N

(* The registers of the map are as many as the addresses it covers.        *)
LEMMA TotalIsAsked ==
    ASSUME map \in Maps, WellFormed(map)
    PROVE  Total(map) = Cardinality(Covered(Asked))
<1> DEFINE N == Len(map)
<1>1. Apart(Asked) /\ AskedPlaces
  BY AskedApart, AskedCovers
<1>2. Disjoint(Asked)
  BY <1>1 DEF Apart, Disjoint
<1>3. PICK sum : Sums(sum, Asked) /\ sum[Len(Asked)] = Cardinality(Covered(Asked))
  BY <1>2, TotalIsCardinality, Zenon
<1>4. /\ N \in Nat /\ DOMAIN map = 1 .. N /\ Len(Asked) = N
      /\ \A i \in 1 .. N : map[i].count \in Nat /\ Asked[i].count = map[i].count
  BY <1>1, MapFacts DEF AskedPlaces, Counted
<1> HIDE DEF N
<1>5. sum[0] = 0 /\ \A n \in 1 .. N : sum[n] = sum[n - 1] + map[n].count
  BY <1>3, <1>4 DEF Sums
<1>6. PartialSums(sum, N, map)
  BY <1>4, <1>5 DEF PartialSums
<1> QED
  BY <1>3, <1>4, <1>6, TotalIs

(* The bytes of the answer to a batch: five for each item and two for each *)
(* register of the map.                                                    *)
LEMMA RepliesPlaces ==
    ASSUME MapInv, NEW items, Sent(items)
    PROVE  /\ SerializeResponse(Replies(items)) \in Bytes
           /\ Len(SerializeResponse(Replies(items))) = 2 + 5 * Len(items) + 2 * Total(map)
           /\ Len(items) \in Nat
<1> DEFINE N == Len(items)
           answer == Replies(items)
           data == SerializeResponse(answer)
<1>1. AnswerFacts(items)
  BY RepliesAnswer, Zenon
<1>2. Answer(answer) /\ Len(answer) = N
      /\ \A i \in 1 .. N : Len(answer[i].registers) = items[i].count
  BY <1>1, Zenon DEF AnswerFacts, ResultFacts
<1>3. Disjoint(items) /\ Covered(items) = Covered(Asked) /\ N \in Nat
  BY DEF Sent, Disjoint
<1>4. PICK sum : Sums(sum, items) /\ sum[Len(items)] = Cardinality(Covered(items))
  BY <1>3, TotalIsCardinality, Zenon
<1>5. sum[N] = Total(map)
  <2>1. map \in Maps /\ WellFormed(map)
    BY DEF MapInv
  <2> QED
    BY <1>3, <1>4, <2>1, TotalIsAsked
<1>6. /\ sum \in [0 .. N -> Nat] /\ sum[0] = 0
      /\ \A n \in 1 .. N : sum[n] = sum[n - 1] + items[n].count
  BY <1>4 DEF Sums
<1> HIDE DEF N, answer
<1> DEFINE place == [n \in 0 .. N |-> 5 * n + 2 * sum[n]]
<1>7. place \in [0 .. N -> Nat] /\ \A n \in 0 .. N : place[n] = 5 * n + 2 * sum[n]
  <2>1. \A n \in 0 .. N : 5 * n + 2 * sum[n] \in Nat
    BY <1>3, <1>6
  <2> QED
    BY <2>1
<1> HIDE DEF place
<1>8. ASSUME NEW n \in 1 .. N
      PROVE  place[n] = place[n - 1] + 5 + 2 * Len(answer[n].registers)
  <2>1. n \in 0 .. N /\ n - 1 \in 0 .. N /\ n \in Nat
    BY <1>3
  <2>2. place[n] = 5 * n + 2 * sum[n] /\ place[n - 1] = 5 * (n - 1) + 2 * sum[n - 1]
    BY <1>7, <2>1
  <2> DEFINE k == Len(answer[n].registers)
             x == sum[n]
             y == sum[n - 1]
  <2>3. x \in Nat /\ y \in Nat /\ x = y + k
    BY <1>2, <1>6, <2>1
  <2>4. place[n] = 5 * n + 2 * x /\ place[n - 1] = 5 * (n - 1) + 2 * y
    BY <2>2
  <2>5. k = x - y
    <3>1. k \in Nat
      <4>1. answer[n].registers \in Seq(Number)
        BY <1>2, ReplyFields, Zenon DEF Answer
      <4> QED
        BY <4>1
    <3> HIDE DEF k, x, y
    <3> QED
      BY <2>3, <3>1
  <2> HIDE DEF k, x, y
  <2>6. place[n] = place[n - 1] + 5 + 2 * k
    BY <2>1, <2>3, <2>4, <2>5
  <2> QED
    BY <2>6 DEF k
<1>9. place[0] = 0 /\ place[N] = 5 * N + 2 * Total(map)
  <2>1. 0 \in 0 .. N /\ N \in 0 .. N
    BY <1>3
  <2>2. place[0] = 5 * 0 + 2 * 0
    BY <1>6, <1>7, <2>1
  <2> QED
    BY <1>5, <1>7, <2>1, <2>2
<1>10. Starts(place, answer)
  BY <1>2, <1>7, <1>8, <1>9 DEF Starts
<1>11. ResponseHolds(data, answer, place)
  BY <1>2, <1>10, ResponsePlaces, Zenon
<1>12. data \in Bytes /\ Len(data) = 2 + place[N]
  BY <1>2, <1>11, Zenon DEF ResponseHolds
<1> DEFINE t == Total(map)
<1>13. t \in Nat
  BY MapFacts DEF MapInv
<1>14. Len(data) = 2 + (5 * N + 2 * t)
  BY <1>9, <1>12
<1> HIDE DEF data, t
<1>15. Len(data) = 2 + 5 * N + 2 * t
  BY <1>3, <1>13, <1>14
<1> QED
  BY <1>3, <1>12, <1>15 DEF N, t, data, answer

(* The device's response arrives, with the results for the batch.          *)
LEMMA ResponseArrives ==
    ASSUME MapInv, NEW items, Sent(items)
    PROVE  /\ Arrives(Frame(Response(Replies(items))), SerializeResponse(Replies(items)))
           /\ DeserializeResponse(SerializeResponse(Replies(items))) = <<Replies(items)>>
<1> DEFINE answer == Replies(items)
           payload == SerializeResponse(answer)
           n == Len(items)
           m == Len(map)
           t == Total(map)
<1>1. Answer(answer)
  BY RepliesAnswer, Zenon DEF AnswerFacts
<1>2. payload \in Bytes /\ Len(payload) = 2 + 5 * n + 2 * t /\ n \in Nat
  BY RepliesPlaces, Zenon
<1>3. n <= m /\ m \in Nat /\ t \in Nat /\ 5 * m + 2 * t < 65492
  <2>1. map \in Maps
    BY DEF MapInv
  <2>2. SoundMap(map) /\ t \in Nat
    BY <2>1, BatchAssumption, MapFacts
  <2> QED
    BY <2>2 DEF Sent, SoundMap
<1>4. DeserializeResponse(payload) = <<answer>>
  BY <1>1, ResponseRoundTrip, Zenon
<1> HIDE DEF payload, n, m, t
<1>5. Optional(None, 8) /\ Optional(Digest, 32)
  BY OptionalFacts
<1>6. Short(payload) /\ Room(None, payload, Digest)
  <2> DEFINE p == Len(payload)
             o == Len(None)
             x == Len(Digest)
  <2>1. p = 2 + 5 * n + 2 * t
    BY <1>2
  <2>2. o = 0
    BY DEF None
  <2>3. x = 0 \/ x = 32
    BY <1>5 DEF Optional
  <2> HIDE DEF p, o, x
  <2>4. p \in Number /\ 9 + o + p + x < 65535
    BY <1>2, <1>3, <2>1, <2>2, <2>3 DEF Number
  <2> QED
    BY <1>2, <2>4 DEF Short, Room, p, o, x
<1>7. Arrives(Frame(MakeExtended(Header(1, None), payload, Digest)), payload)
  BY <1>5, <1>6, MessageArrives, Zenon
<1>8. Response(answer) = MakeExtended(Header(1, None), payload, Digest)
  BY DEF Response, payload
<1> QED
  BY <1>4, <1>7, <1>8 DEF payload

(* What the client has asked for, and what is on the line.                 *)
Served == Replies(batch.sent)

AskInv ==
    phase # "idle" =>
        /\ batch.asked = Asked /\ batch.sent \in {Asked} \union Optimized(Asked)
        /\ \A i \in DOMAIN map : written[i] # Unwritten

RequestInv ==
    phase = "request" /\ ~damaged =>
        \E stamp \in {None, Stamp} : wire = Frame(Request(batch.sent, stamp))

ResponseInv == phase = "response" => wire = Frame(Response(Served))

DoneInv == phase = "done" => results = Served

ReadInv == AskInv /\ RequestInv /\ ResponseInv /\ DoneInv

(* Nothing has been asked for yet.                                         *)
LEMMA ReadInit == Init => ReadInv
  BY DEF Init, ReadInv, AskInv, RequestInv, ResponseInv, DoneInv

(* While map, registers and batch stay, so does what there is to serve.    *)
LEMMA ServedStays ==
    ASSUME UNCHANGED <<map, buffer, batch>>
    PROVE  Served' = Served
  BY DEF Served, Replies, Result, RegisterAt

LEMMA AskStays ==
    ASSUME AskInv, phase # "idle", UNCHANGED <<map, written, batch>>
    PROVE  AskInv'
<1>1. Asked' = Asked
  BY DEF Asked
<1> QED
  BY <1>1 DEF AskInv

(* What the client has asked for is what it may send.                      *)
LEMMA BatchSent ==
    ASSUME MapInv, AskInv, phase # "idle"
    PROVE  Sent(batch.sent)
<1>1. map \in Maps /\ WellFormed(map) /\ batch.sent \in {Asked} \union Optimized(Asked)
  BY DEF MapInv, AskInv
<1> QED
  BY <1>1, SentFacts, Zenon

(* A request that gets through is answered with the results for the batch. *)
LEMMA ServeAnswers ==
    ASSUME MapInv, DamageInv, ReadInv, Serve
    PROVE  ReadInv'
<1>1. phase = "request" /\ UNCHANGED <<map, buffer, written, link, batch, damaged, results>>
  BY DEF Serve
<1>2. AskInv' /\ Served' = Served
  BY <1>1, AskStays, ServedStays DEF ReadInv
<1>3. CASE Unframe(wire) = None
  <2>1. phase' = "lost"
    BY <1>3 DEF Serve
  <2> QED
    BY <1>2, <2>1 DEF ReadInv, RequestInv, ResponseInv, DoneInv
<1>4. CASE Unframe(wire) # None
  <2>1. ~damaged
    BY <1>1, <1>4 DEF DamageInv
  <2>2. PICK stamp \in {None, Stamp} : wire = Frame(Request(batch.sent, stamp))
    BY <1>1, <2>1 DEF ReadInv, RequestInv
  <2>3. map \in Maps /\ WellFormed(map) /\ batch.sent \in {Asked} \union Optimized(Asked)
    BY <1>1 DEF MapInv, ReadInv, AskInv
  <2>4. /\ Arrives(wire, SerializeRequest(batch.sent))
        /\ DeserializeRequest(SerializeRequest(batch.sent)) = <<batch.sent>>
    BY <2>2, <2>3, RequestArrives, Zenon
  <2>5. DeserializeRequest(Unframe(wire)[1].pdu.payload) = <<batch.sent>>
    BY <2>4, Zenon DEF Arrives
  <2> DEFINE items == DeserializeRequest(Unframe(wire)[1].pdu.payload)
  <2>6. /\ phase' = "response"
        /\ wire' = Frame(MakeExtended(Header(1, None),
                        SerializeResponse([i \in DOMAIN items[1] |-> Result(items[1][i])]),
                        Digest))
    BY <1>4, Zenon DEF Serve
  <2>7. items[1] = batch.sent
    BY <2>5
  <2> HIDE DEF items
  <2>8. wire' = Frame(Response(Served))
    BY <2>6, <2>7, Zenon DEF Response, Served, Replies
  <2>9. Frame(Response(Served))' = Frame(Response(Served))
    BY <1>1, <1>2 DEF Frame, Response
  <2> QED
    BY <1>2, <2>6, <2>8, <2>9 DEF ReadInv, RequestInv, ResponseInv, DoneInv
<1> QED
  BY <1>3, <1>4

(* The client reads them from the response.                                *)
LEMMA ReceiveReads ==
    ASSUME MapInv, ReadInv, Receive
    PROVE  ReadInv'
<1>1. /\ phase = "response" /\ phase' = "done"
      /\ UNCHANGED <<map, buffer, written, link, batch, damaged>>
      /\ results' = DeserializeResponse(Unframe(wire)[1].pdu.payload)[1]
  BY DEF Receive
<1>2. AskInv' /\ Served' = Served
  BY <1>1, AskStays, ServedStays DEF ReadInv
<1>3. wire = Frame(Response(Served)) /\ Sent(batch.sent)
  BY <1>1, BatchSent DEF ReadInv, ResponseInv
<1>4. /\ Arrives(wire, SerializeResponse(Served))
      /\ DeserializeResponse(SerializeResponse(Served)) = <<Served>>
  BY <1>3, ResponseArrives, Zenon DEF Served
<1>5. results' = <<Served>>[1]
  BY <1>1, <1>4, Zenon DEF Arrives
<1>6. results' = Served
  BY <1>5
<1> QED
  BY <1>1, <1>2, <1>6 DEF ReadInv, RequestInv, ResponseInv, DoneInv

(* Every step keeps it.                                                    *)
LEMMA ReadStep == MapInv /\ DamageInv /\ ReadInv /\ [Next]_vars => ReadInv'
<1> SUFFICES ASSUME MapInv, DamageInv, ReadInv, [Next]_vars PROVE ReadInv'
  OBVIOUS
<1>1. ASSUME NEW i \in DOMAIN map, WriteValue(i) PROVE ReadInv'
  BY <1>1 DEF WriteValue, ReadInv, AskInv, RequestInv, ResponseInv, DoneInv
<1>2. CASE Ask
  <2>1. PICK items \in {Asked} \union Optimized(Asked), stamp \in {None, Stamp} :
            /\ batch' = [asked |-> Asked, sent |-> items]
            /\ wire' = Frame(Request(items, stamp))
    BY <1>2 DEF Ask, Request
  <2>2. /\ phase' = "request" /\ UNCHANGED <<map, link, written>>
        /\ \A i \in DOMAIN map : written[i] # Unwritten
    BY <1>2 DEF Ask
  <2>3. batch'.asked = Asked /\ batch'.sent = items /\ Asked' = Asked
    BY <2>1, <2>2 DEF Asked
  <2>4. AskInv'
    BY <2>2, <2>3 DEF AskInv
  <2>5. Frame(Request(batch.sent, stamp))' = Frame(Request(items, stamp))
    BY <2>2, <2>3 DEF Frame, Request
  <2>6. RequestInv'
    BY <2>1, <2>5 DEF RequestInv
  <2> QED
    BY <2>2, <2>4, <2>6 DEF ReadInv, ResponseInv, DoneInv
<1>3. CASE Noise
  <2>1. phase = "request" /\ damaged' /\ UNCHANGED <<map, written, phase, batch>>
    BY <1>3 DEF Noise
  <2>2. AskInv'
    BY <2>1, AskStays DEF ReadInv
  <2> QED
    BY <2>1, <2>2 DEF ReadInv, RequestInv, ResponseInv, DoneInv
<1>4. CASE Serve
  BY <1>4, ServeAnswers
<1>5. CASE Receive
  BY <1>5, ReceiveReads
<1>6. CASE UNCHANGED vars
  <2>1. UNCHANGED <<map, buffer, written, link, phase, batch, wire, damaged, results>>
    BY <1>6 DEF vars
  <2>2. Served' = Served /\ Asked' = Asked
    BY <2>1, ServedStays DEF Asked
  <2>3. AskInv' /\ DoneInv'
    BY <2>1, <2>2 DEF ReadInv, AskInv, DoneInv
  <2>4. RequestInv'
    BY <2>1 DEF ReadInv, RequestInv, Frame
  <2>5. ResponseInv'
    BY <2>1, <2>2 DEF ReadInv, ResponseInv, Frame, Response
  <2> QED
    BY <2>3, <2>4, <2>5 DEF ReadInv
<1> QED
  BY <1>1, <1>2, <1>3, <1>4, <1>5, <1>6 DEF Next

(* The registers that the client finds for a descriptor are those of the   *)
(* device, whichever result they came in.                                  *)
LEMMA RegistersFound ==
    ASSUME MapInv, Sent(batch.sent), results = Served,
           NEW i \in DOMAIN map, NEW j \in 1 .. map[i].count
    PROVE  RegistersOf(map[i])[j] = buffer[Offset(map, i) + j]
<1> DEFINE d == map[i]
           items == batch.sent
           a == d.address + j - 1
           Has(r) == a \in r.address .. r.address + Len(r.registers) - 1
           r == CHOOSE x \in ToSet(results) : Has(x)
           b == d.address
           off == Offset(map, i)
<1>1. map \in Maps /\ WellFormed(map)
  BY DEF MapInv
<1>2. AskedPlaces /\ AnswerFacts(items)
  BY <1>1, AskedCovers, RepliesAnswer, Zenon
<1>3. b \in Nat /\ d.count \in Nat /\ j \in Nat /\ off \in Nat
  <2>1. d.count \in Nat /\ off \in Nat
    BY <1>1, PlaceFacts
  <2>2. b \in Nat
    BY <1>2 DEF AskedPlaces, Inside
  <2> QED
    BY <2>1, <2>2
<1>4. a \in Addresses(d) /\ a \in Nat /\ off + 1 + a - b = off + j /\ d.address + j = a + 1
  <2> DEFINE c == d.count
  <2>1. j \in 1 .. c
    OBVIOUS
  <2> HIDE DEF b, c, off
  <2>2. b + j - 1 \in b .. b + c - 1 /\ b + j - 1 \in Nat
        /\ off + 1 + (b + j - 1) - b = off + j /\ b + j = (b + j - 1) + 1
    BY <1>3, <2>1 DEF c
  <2> QED
    BY <2>2 DEF Addresses, b, c
<1>5. RegistersOf(d)[j] = r.registers[d.address + j - r.address]
  BY DEF RegistersOf
<1> HIDE DEF a, b, off
<1>6. \A k \in 1 .. Len(items) :
          /\ results[k] = Result(items[k]) /\ Result(items[k]).address = items[k].start_address
          /\ Len(Result(items[k]).registers) = items[k].count /\ items[k] \in Items
  BY <1>2, Zenon DEF AnswerFacts, ResultFacts, Served
<1>7. \A x : x \in ToSet(results) <=> \E k \in 1 .. Len(items) : x = results[k]
  <2>1. DOMAIN results = 1 .. Len(items)
    BY <1>2, Zenon DEF AnswerFacts, Served
  <2> HIDE DEF items
  <2> QED
    BY <2>1 DEF ToSet
<1>8. \A k \in 1 .. Len(items) : Has(results[k]) <=> a \in Span(items[k])
  BY <1>6, Zenon DEF Span
<1>9. \E x \in ToSet(results) : Has(x)
  <2>1. a \in Covered(items)
    <3>1. a \in Covered(Asked)
      BY <1>2, <1>4, Zenon DEF AskedPlaces
    <3>2. Covered(items) = Covered(Asked)
      BY DEF Sent
    <3> QED
      BY <3>1, <3>2, Zenon
  <2>2. PICK k \in DOMAIN items : a \in Span(items[k])
    BY <2>1 DEF Covered
  <2>3. k \in 1 .. Len(items)
    BY <1>2, Zenon DEF AnswerFacts
  <2> HIDE DEF Has
  <2> QED
    BY <1>7, <1>8, <2>2, <2>3, Zenon
<1>10. r \in ToSet(results) /\ Has(r)
  <2> HIDE DEF Has
  <2> QED
    BY <1>9, Zenon
<1> HIDE DEF r, Has
<1>11. PICK k \in 1 .. Len(items) : r = Result(items[k]) /\ a \in Span(items[k])
  <2>1. PICK k \in 1 .. Len(items) : r = results[k]
    BY <1>7, <1>10, Zenon
  <2>2. a \in results[k].address .. results[k].address + Len(results[k].registers) - 1
    BY <1>10, <2>1, Zenon DEF Has
  <2>3. a \in Span(items[k])
    BY <1>6, <2>2, Zenon DEF Span
  <2> QED
    BY <1>6, <2>1, <2>3, Zenon
<1> DEFINE s == items[k].start_address
           n == items[k].count
<1>12. r.address = s /\ a \in s .. s + n - 1 /\ s \in Nat /\ n \in Nat
  BY <1>6, <1>11, ItemFacts DEF Span
<1>13. \A x \in 1 .. n : r.registers[x] = RegisterAt(s + x - 1)
  BY <1>11 DEF Result
<1> HIDE DEF s, n
<1>14. (a + 1) - s \in 1 .. n /\ s + ((a + 1) - s) - 1 = a
  BY <1>4, <1>12
<1>15. r.registers[(a + 1) - s] = RegisterAt(a)
  BY <1>13, <1>14
<1>16. RegisterAt(a) = buffer[off + 1 + a - b]
  BY <1>4, RegisterThere, Zenon DEF off, b
<1>17. d.address + j - r.address = (a + 1) - s
  <2> DEFINE f == d.address
  <2>1. r.address = s /\ f + j = a + 1 /\ f \in Nat
    BY <1>3, <1>4, <1>12, Zenon DEF b
  <2> HIDE DEF f
  <2>2. f + j - s = (a + 1) - s
    BY <1>3, <1>4, <1>12, <2>1
  <2> QED
    BY <2>1, <2>2 DEF f
<1>18. RegistersOf(d)[j] = buffer[off + j]
  BY <1>4, <1>5, <1>15, <1>16, <1>17, Zenon
<1> QED
  BY <1>18 DEF off

(* When nothing was merged, find() gives the result of the descriptor.     *)
LEMMA FindsFirst ==
    ASSUME MapInv, Sent(batch.sent), results = Served, batch.sent = Asked,
           NEW i \in DOMAIN map
    PROVE  Find(results, map[i].address) = i
<1> DEFINE N == Len(map)
           I == {k \in 1 .. Len(results) : results[k].address = map[i].address}
<1>1. map \in Maps /\ WellFormed(map)
  BY DEF MapInv
<1>2. AskedPlaces /\ AnswerFacts(Asked)
  BY <1>1, AskedCovers, RepliesAnswer, Zenon
<1>3. N \in Nat /\ DOMAIN map = 1 .. N /\ Len(Asked) = N
  BY <1>1, <1>2, MapFacts DEF AskedPlaces
<1>4. Len(results) = N
  BY <1>2, <1>3, Zenon DEF AnswerFacts, Served
<1>5. ASSUME NEW k \in 1 .. N PROVE results[k].address = map[k].address
  <2>1. results[k] = Result(Asked[k]) /\ Result(Asked[k]).address = Asked[k].start_address
    BY <1>2, <1>3, Zenon DEF AnswerFacts, ResultFacts, Served
  <2>2. Asked[k].start_address = map[k].address
    BY <1>2, <1>3, Zenon DEF AskedPlaces
  <2> QED
    BY <2>1, <2>2
<1>6. ASSUME NEW k \in 1 .. N PROVE map[k].address \in Addresses(map[k])
  <2>1. Inside(map[k])
    BY <1>2, <1>3, Zenon DEF AskedPlaces
  <2> DEFINE b == map[k].address
             c == map[k].count
  <2>2. b \in Nat /\ c \in Nat /\ c # 0
    BY <2>1 DEF Inside
  <2> HIDE DEF b, c
  <2>3. b \in b .. b + c - 1
    BY <2>2
  <2> QED
    BY <2>3 DEF Addresses, b, c
<1>7. ASSUME NEW k \in 1 .. N, k # i PROVE map[k].address # map[i].address
  <2>1. Addresses(map[k]) \intersect Addresses(map[i]) = {}
    BY <1>2, <1>3, <1>7 DEF AskedPlaces
  <2>2. map[k].address \in Addresses(map[k]) /\ map[i].address \in Addresses(map[i])
    BY <1>3, <1>6
  <2> QED
    BY <2>1, <2>2
<1> HIDE DEF N
<1>8. I = {i}
  BY <1>3, <1>4, <1>5, <1>7
<1>9. Find(results, map[i].address) = IF I # {} THEN Min(I) ELSE 0
  BY DEF Find, SelectInSeq
<1> HIDE DEF I
<1>10. Min({i}) = i
  BY <1>3 DEF Min
<1> QED
  BY <1>8, <1>9, <1>10

(* What the client decodes is what was written.                            *)
LEMMA DoneReadsBack == MapInv /\ ReadInv => ReadsBack
<1> SUFFICES ASSUME MapInv, ReadInv, phase = "done"
             PROVE  /\ AllSucceeded(results)
                    /\ \A i \in DOMAIN map :
                          /\ DecodeRegister(map[i], RegistersOf(map[i])) = written[i][1]
                          /\ batch.sent = batch.asked
                                => Find(results, map[i].address) = i
  BY DEF ReadsBack
<1>1. results = Served /\ batch.asked = Asked /\ Sent(batch.sent)
      /\ \A i \in DOMAIN map : written[i] # Unwritten
  BY BatchSent DEF ReadInv, DoneInv, AskInv
<1>2. AnswerFacts(batch.sent)
  BY <1>1, RepliesAnswer, Zenon
<1>3. AllSucceeded(results)
  <2>1. DOMAIN results = 1 .. Len(batch.sent)
    BY <1>1, <1>2, Zenon DEF AnswerFacts, Served
  <2>2. \A i \in 1 .. Len(batch.sent) : results[i].status = 0
    BY <1>1, <1>2, Zenon DEF AnswerFacts, ResultFacts, Served
  <2> QED
    BY <2>1, <2>2, Zenon DEF AllSucceeded
<1>4. ASSUME NEW i \in DOMAIN map
      PROVE  DecodeRegister(map[i], RegistersOf(map[i])) = written[i][1]
  <2> DEFINE d == map[i]
             v == written[i][1]
             regs == RegistersOf(d)
             off == Offset(map, i)
  <2>1. d \in Descriptors /\ Suited(d) /\ d.count \in Nat
    BY PlaceFacts DEF MapInv
  <2>2. v \in Values(d.type) /\ \A n \in 1 .. Words(d) : buffer[off + n] = EncodeRegister(d, v)[n]
    BY <1>1 DEF MapInv, Kept
  <2>3. Fits(d, v)
    BY <2>1, <2>2 DEF Suited
  <2> HIDE DEF v
  <2>4. /\ Words(d) \in Nat /\ Words(d) <= d.count
        /\ \A r : (\A n \in 1 .. Words(d) : r[n] = EncodeRegister(d, v)[n])
                     => DecodeRegister(d, r) = v
    BY <2>1, <2>3, EncodedRegister
  <2>5. ASSUME NEW n \in 1 .. Words(d) PROVE regs[n] = EncodeRegister(d, v)[n]
    <3>1. n \in 1 .. d.count
      BY <2>1, <2>4
    <3>2. regs[n] = buffer[off + n]
      BY <1>1, <3>1, RegistersFound, Zenon
    <3> QED
      BY <2>2, <3>2
  <2> HIDE DEF regs
  <2>6. DecodeRegister(d, regs) = v
    BY <2>4, <2>5, Zenon
  <2> QED
    BY <2>6 DEF v, regs
<1>5. ASSUME NEW i \in DOMAIN map, batch.sent = batch.asked
      PROVE  Find(results, map[i].address) = i
  <2>1. batch.sent = Asked
    BY <1>1, <1>5
  <2> QED
    BY <1>1, <2>1, FindsFirst, Zenon
<1> QED
  BY <1>3, <1>4, <1>5

(* The inductive invariant of the exchange: what is on the line is the     *)
(* request for the batch, or the response with what the registers hold.    *)
THEOREM ReadInvariance == Spec => []ReadInv
<1> QED
  BY MapInvariance, DamageInvariance, ReadInit, ReadStep, PTL DEF Spec

(* What the client decodes from the response to its batch, merged or not,  *)
(* is what was written through the register map on the device, for every   *)
(* map, type and byte order (RegisterMap::encode, BatchRequest::optimized, *)
(* serialize and deserialize of batches, PDU and frame, decode and find).  *)
THEOREM BatchReadsBack == Spec => []ReadsBack
<1> QED
  BY MapInvariance, ReadInvariance, DoneReadsBack, PTL
=============================================================================
