---------------------------- MODULE CodecProofs -----------------------------
(***************************************************************************)
(* What the codecs do for every value, width and length: the byte orders   *)
(* permute the bytes as their names say, decoding inverts encoding, the    *)
(* descriptors of a map keep apart, the CRC of RTU finds whatever changes  *)
(* in two adjacent bytes, and the bytes of a batch request, of a batch     *)
(* response, of the PDU around them and of the frame around that give back *)
(* what they were made of. Recursive definitions over data are reached by  *)
(* induction over sets of numbers, which the first section provides.       *)
(***************************************************************************)
EXTENDS BatchFormat, FiniteSetTheorems, WellFoundedInduction, TLAPS

-----------------------------------------------------------------------------
(* Induction: a set of numbers has a least element, hence what holds of 0  *)
(* and is passed on from n to n + 1 holds up to any bound, and functions   *)
(* defined by recursion, folds among them, have values.                    *)

(* A set of naturals that is not empty has a least element.                *)
LEMMA Least ==
    ASSUME NEW T \in SUBSET Nat, T # {}
    PROVE  \E x \in T : \A y \in T : x <= y
<1>1. PICK m \in T : TRUE
  OBVIOUS
<1> DEFINE S == 1 .. m
           W == {1 .. x : x \in {y \in T : y <= m}}
<1>2. IsFiniteSet(S)
  BY <1>1, FS_Interval
<1>3. W \subseteq SUBSET S /\ W # {}
  BY <1>1
<1>4. IsWellFoundedOn(StrictSubsetOrdering(S), SUBSET S)
  BY <1>2, FS_StrictSubsetOrderingWellFounded, FS_FiniteSubsetsOfFinite, FS_SUBSET
<1> HIDE DEF S, W
<1>5. PICK w \in W : \A v \in W : ~(<<v, w>> \in StrictSubsetOrdering(S))
  BY <1>3, <1>4, WFMin
<1>6. PICK x \in T : x <= m /\ w = 1 .. x
  BY <1>5 DEF W
<1>7. ASSUME NEW y \in T, y < x PROVE FALSE
  <2>1. 1 .. y \in W
    BY <1>1, <1>6, <1>7 DEF W
  <2>2. (1 .. y) \subseteq (1 .. x) /\ 1 .. y # 1 .. x
    BY <1>7
  <2>3. <<1 .. y, w>> \in StrictSubsetOrdering(S)
    BY <2>1, <2>2, <1>3, <1>6 DEF StrictSubsetOrdering
  <2> QED BY <2>1, <2>3, <1>5
<1> QED BY <1>7

(* Induction up to a bound, for a set.                                     *)
LEMMA UpTo ==
    ASSUME NEW N \in Nat, NEW S, 0 \in S, \A n \in 0 .. N - 1 : n \in S => n + 1 \in S
    PROVE  0 .. N \subseteq S
<1> DEFINE T == {n \in 0 .. N : n \notin S}
<1> SUFFICES ASSUME T # {} PROVE FALSE
  OBVIOUS
<1>1. PICK x \in T : \A y \in T : x <= y
  <2>1. T \in SUBSET Nat
    OBVIOUS
  <2> HIDE DEF T
  <2> QED
    BY <2>1, Least
<1>2. x # 0 /\ x \in 0 .. N /\ x \notin S
  OBVIOUS
<1>3. x - 1 \in 0 .. N - 1 /\ x - 1 \notin T
  BY <1>1, <1>2
<1> QED
  BY <1>2, <1>3

(* A definition by recursion up to a bound has a value.                    *)
Recurs(f, N, base, F) ==
    f = [n \in 0 .. N |-> IF n = 0 THEN base ELSE F[<<f[n - 1], n>>]]

(* A recursive function on 0 .. N exists and has its values in V.          *)
LEMMA Recursion ==
    ASSUME NEW N \in Nat, NEW V, NEW base \in V, NEW F \in [V \X (1 .. N) -> V]
    PROVE  \E f \in [0 .. N -> V] : Recurs(f, N, base, F)
<1> DEFINE Def(m, f) == Recurs(f, m, base, F)
           S == {m \in 0 .. N : \E f \in [0 .. m -> V] : Def(m, f)}
<1>1. 0 \in S
  <2> DEFINE f == [n \in 0 .. 0 |-> base]
  <2>1. f \in [0 .. 0 -> V] /\ Def(0, f)
    BY DEF Recurs
  <2> HIDE DEF f, Def
  <2> QED
    BY <2>1
<1>2. ASSUME NEW m \in 0 .. N - 1, m \in S PROVE m + 1 \in S
  <2>1. PICK f \in [0 .. m -> V] : Def(m, f)
    BY <1>2
  <2> DEFINE g == [n \in 0 .. m + 1 |-> IF n \in 0 .. m THEN f[n] ELSE F[<<f[m], m + 1>>]]
  <2>2. f[m] \in V /\ m + 1 \in 1 .. N
    OBVIOUS
  <2>3. g \in [0 .. m + 1 -> V]
    BY <2>2
  <2>4. ASSUME NEW n \in 0 .. m + 1
        PROVE  g[n] = IF n = 0 THEN base ELSE F[<<g[n - 1], n>>]
    <3>1. CASE n = 0
      BY <2>1, <3>1 DEF Recurs
    <3>2. CASE n \in 1 .. m
      <4>1. n \in 0 .. m /\ n - 1 \in 0 .. m /\ n \in 0 .. m + 1 /\ n - 1 \in 0 .. m + 1
        BY <3>2
      <4>2. g[n] = f[n] /\ g[n - 1] = f[n - 1]
        BY <4>1
      <4> QED
        BY <2>1, <3>2, <4>1, <4>2 DEF Recurs
    <3>3. CASE n = m + 1
      <4>1. n \notin 0 .. m /\ m \in 0 .. m /\ m \in 0 .. m + 1 /\ n - 1 = m /\ n # 0
        BY <3>3
      <4> QED
        BY <3>3, <4>1
    <3> QED
      BY <3>1, <3>2, <3>3
  <2>5. Def(m + 1, g)
    BY <2>4 DEF Recurs
  <2>6. m + 1 \in 0 .. N
    OBVIOUS
  <2> HIDE DEF g, Def
  <2> QED
    BY <2>3, <2>5, <2>6
<1> HIDE DEF S
<1>3. N \in S
  BY <1>1, <1>2, UpTo
<1> QED
  BY <1>3 DEF S

(* So has one over the subsets of a range, which is what folding over the  *)
(* indexes of a sequence is.                                               *)
Folds(f, N, base, F) ==
    f = [t \in SUBSET (1 .. N) |->
            IF t = {} THEN base ELSE F[<<f[t \ {Max(t)}], Max(t)>>]]

(* Such a function on the subsets of 1 .. N exists and has its values in   *)
(* V.                                                                      *)
LEMMA FoldRecursion ==
    ASSUME NEW N \in Nat, NEW V, NEW base \in V, NEW F \in [V \X (1 .. N) -> V]
    PROVE  \E f \in [SUBSET (1 .. N) -> V] : Folds(f, N, base, F)
<1> DEFINE Def(m, f) == Folds(f, m, base, F)
           S == {m \in 0 .. N : \E f \in [SUBSET (1 .. m) -> V] : Def(m, f)}
<1>1. 0 \in S
  <2> DEFINE f == [t \in SUBSET (1 .. 0) |-> base]
  <2>0. 1 .. 0 = {}
    OBVIOUS
  <2>1. f \in [SUBSET (1 .. 0) -> V] /\ Def(0, f)
    BY <2>0 DEF Folds
  <2> QED
    BY <2>1
<1>2. ASSUME NEW m \in 0 .. N - 1, m \in S PROVE m + 1 \in S
  <2>1. PICK f \in [SUBSET (1 .. m) -> V] : Def(m, f)
    BY <1>2
  <2> DEFINE g == [t \in SUBSET (1 .. m + 1) |->
                      IF m + 1 \in t THEN F[<<f[t \ {m + 1}], m + 1>>] ELSE f[t]]
  <2>2. \A t \in SUBSET (1 .. m + 1) : t \ {m + 1} \in SUBSET (1 .. m)
    OBVIOUS
  <2>3. g \in [SUBSET (1 .. m + 1) -> V]
    BY <2>2
  <2>4. ASSUME NEW t \in SUBSET (1 .. m + 1), t # {}
        PROVE  g[t] = F[<<g[t \ {Max(t)}], Max(t)>>]
    <3>1. CASE m + 1 \in t
      <4>1. Max(t) = m + 1
        <5>1. m + 1 \in t /\ \A y \in t : m + 1 >= y
          BY <3>1
        <5>2. \A x \in t : (\A y \in t : x >= y) => x = m + 1
          BY <3>1
        <5> QED
          BY <5>1, <5>2 DEF Max
      <4>2. g[t \ {m + 1}] = f[t \ {m + 1}]
        BY <2>2
      <4> QED
        BY <3>1, <4>1, <4>2
    <3>2. CASE m + 1 \notin t
      <4>1. t \in SUBSET (1 .. m) /\ t \ {Max(t)} \in SUBSET (1 .. m)
        BY <3>2, <2>2
      <4>2. g[t] = f[t] /\ g[t \ {Max(t)}] = f[t \ {Max(t)}]
        BY <3>2, <4>1
      <4>3. f[t] = F[<<f[t \ {Max(t)}], Max(t)>>]
        BY <2>1, <2>4, <4>1 DEF Folds
      <4> QED
        BY <4>2, <4>3
    <3> QED
      BY <3>1, <3>2
  <2>5. g[{}] = base
    BY <2>1 DEF Folds
  <2>6. Def(m + 1, g)
    BY <2>4, <2>5 DEF Folds
  <2>7. m + 1 \in 0 .. N
    OBVIOUS
  <2> HIDE DEF g, Def
  <2> QED
    BY <2>3, <2>6, <2>7
<1> HIDE DEF S
<1>3. N \in S
  BY <1>1, <1>2, UpTo
<1> QED
  BY <1>3 DEF S

(* The maximum of a set of indexes that is not empty is one of them.       *)
LEMMA MaxIn ==
    ASSUME NEW N \in Nat, NEW t \in SUBSET (1 .. N), t # {}
    PROVE  Max(t) \in t
<1> DEFINE T == {N - x : x \in t}
<1>1. PICK m \in T : \A y \in T : m <= y
  <2>1. T \subseteq Nat
    OBVIOUS
  <2>2. T # {}
    OBVIOUS
  <2> HIDE DEF T
  <2> QED
    BY <2>1, <2>2, Least
<1>2. PICK x \in t : m = N - x
  OBVIOUS
<1>3. ASSUME NEW y \in t PROVE x >= y
  <2>1. m <= N - y
    BY <1>1
  <2>2. x \in 1 .. N /\ y \in 1 .. N
    OBVIOUS
  <2> QED
    BY <1>2, <2>1, <2>2
<1> QED
  BY <1>3 DEF Max

(* The maximum of the first n indexes, and what is left without it.        *)
LEMMA MaxPrefix ==
    ASSUME NEW n \in Nat \ {0}
    PROVE  Max(1 .. n) = n /\ (1 .. n) \ {n} = 1 .. n - 1 /\ 1 .. n # {}
<1>1. n \in 1 .. n /\ \A y \in 1 .. n : n >= y
  OBVIOUS
<1>2. \A x \in 1 .. n : (\A y \in 1 .. n : x >= y) => x = n
  BY <1>1
<1>3. Max(1 .. n) = n
  BY <1>1, <1>2 DEF Max
<1> QED
  BY <1>1, <1>3

(* Widths in registers, and the values of that many bytes.                 *)
Widths == Nat \ {0}
Numbers(W) == [0 .. 2 * W - 1 -> Byte]

-----------------------------------------------------------------------------
(* Bytes and registers                                                     *)

(* decode_uint16 and encode_uint16 invert each other (endian.hpp).         *)
LEMMA JoinSplit ==
    ASSUME NEW h \in Byte, NEW l \in Byte
    PROVE  Join(h, l) \in Register /\ High(Join(h, l)) = h /\ Low(Join(h, l)) = l
<1>0. Base \in Nat \ {0} /\ h \in 0 .. Base - 1 /\ l \in 0 .. Base - 1
  BY BaseAssumption DEF Byte
<1>1. h * Base \in Nat /\ h * Base <= (Base - 1) * Base
  BY <1>0
<1>2. (Base - 1) * Base = Base * Base - Base
  BY <1>0
<1>3. Join(h, l) \in Register
  BY <1>0, <1>1, <1>2 DEF Join, Register
<1>4. (h * Base + l) \div Base = h
  BY <1>0, <1>1
<1>5. (h * Base + l) % Base = l
  BY <1>0, <1>1, <1>4
<1> QED
  BY <1>3, <1>4, <1>5 DEF Join, High, Low

-----------------------------------------------------------------------------
(* The byte orders                                                         *)

(* The odd places 2j - 1 and the even places 2j of W registers.            *)
LEMMA Places ==
    ASSUME NEW W \in Widths, NEW i \in 1 .. 2 * W
    PROVE  \E j \in 1 .. W : (i = 2 * j - 1 /\ i % 2 = 1) \/ (i = 2 * j /\ i % 2 = 0)
<1>1. CASE i % 2 = 1
  <2>1. (i + 1) \div 2 \in 1 .. W /\ i = 2 * ((i + 1) \div 2) - 1
    BY <1>1 DEF Widths
  <2> QED
    BY <1>1, <2>1
<1>2. CASE i % 2 = 0
  <2>1. i \div 2 \in 1 .. W /\ i = 2 * (i \div 2)
    BY <1>2 DEF Widths
  <2> QED
    BY <1>2, <2>1
<1> QED
  BY <1>1, <1>2 DEF Widths

(* Where the bytes of register j come from, in each order (reorder in      *)
(* endian.hpp).                                                            *)
LEMMA SourceOfPlace ==
    ASSUME NEW W \in Widths, NEW j \in 1 .. W
    PROVE  /\ Source("ABCD", 2 * W, 2 * j - 1) = 2 * j - 1
           /\ Source("ABCD", 2 * W, 2 * j) = 2 * j
           /\ Source("BADC", 2 * W, 2 * j - 1) = 2 * j
           /\ Source("BADC", 2 * W, 2 * j) = 2 * j - 1
           /\ Source("CDAB", 2 * W, 2 * j - 1) = 2 * (W + 1 - j) - 1
           /\ Source("CDAB", 2 * W, 2 * j) = 2 * (W + 1 - j)
           /\ Source("DCBA", 2 * W, 2 * j - 1) = 2 * (W + 1 - j)
           /\ Source("DCBA", 2 * W, 2 * j) = 2 * (W + 1 - j) - 1
<1>1. (2 * j - 1) % 2 = 1 /\ (2 * j) % 2 = 0 /\ W \in Nat /\ j \in Nat
  BY DEF Widths
<1> QED
  BY <1>1 DEF Source

(* Every order is a permutation of the bytes that is its own inverse, so   *)
(* that reorder serves for both directions.                                *)
THEOREM SourceInvolution ==
    ASSUME NEW W \in Widths, NEW order \in ByteOrders, NEW i \in 1 .. 2 * W
    PROVE  /\ Source(order, 2 * W, i) \in 1 .. 2 * W
           /\ Source(order, 2 * W, Source(order, 2 * W, i)) = i
<1>1. PICK j \in 1 .. W : i = 2 * j - 1 \/ i = 2 * j
  BY Places
<1>2. W + 1 - j \in 1 .. W /\ W + 1 - (W + 1 - j) = j /\ W \in Nat /\ j \in Nat
  BY DEF Widths
<1>3. /\ 2 * j - 1 \in 1 .. 2 * W /\ 2 * j \in 1 .. 2 * W
      /\ 2 * (W + 1 - j) - 1 \in 1 .. 2 * W /\ 2 * (W + 1 - j) \in 1 .. 2 * W
  BY <1>2
<1>4. CASE order = "ABCD"
  BY <1>1, <1>3, <1>4 DEF Source
<1>5. CASE order = "BADC"
  BY <1>1, <1>3, <1>5, SourceOfPlace
<1>6. CASE order = "CDAB"
  <2>1. /\ Source("CDAB", 2 * W, 2 * (W + 1 - j) - 1) = 2 * j - 1
        /\ Source("CDAB", 2 * W, 2 * (W + 1 - j)) = 2 * j
    BY <1>2, SourceOfPlace
  <2> QED
    BY <1>1, <1>3, <1>6, <2>1, SourceOfPlace
<1>7. CASE order = "DCBA"
  <2>1. /\ Source("DCBA", 2 * W, 2 * (W + 1 - j)) = 2 * j - 1
        /\ Source("DCBA", 2 * W, 2 * (W + 1 - j) - 1) = 2 * j
    BY <1>2, SourceOfPlace
  <2> QED
    BY <1>1, <1>3, <1>7, <2>1, SourceOfPlace
<1> QED
  BY <1>4, <1>5, <1>6, <1>7 DEF ByteOrders

(* What the orders mean in registers: BADC swaps the bytes of each         *)
(* register, CDAB reverses the registers, DCBA does both.                  *)
Word(W, value, j) == Join(value[2 * W - (2 * j - 1)], value[2 * W - 2 * j])
Swapped(W, value, j) == Join(value[2 * W - 2 * j], value[2 * W - (2 * j - 1)])

(* Each order in registers: ABCD keeps them, BADC swaps the bytes of each, *)
(* CDAB reverses them, DCBA does both (reorder in endian.hpp).             *)
THEOREM OrderMeaning ==
    ASSUME NEW W \in Widths, NEW value \in Numbers(W), NEW j \in 1 .. W
    PROVE  /\ EncodeNumber("ABCD", 2 * W, value)[j] = Word(W, value, j)
           /\ EncodeNumber("BADC", 2 * W, value)[j] = Swapped(W, value, j)
           /\ EncodeNumber("CDAB", 2 * W, value)[j] = Word(W, value, W + 1 - j)
           /\ EncodeNumber("DCBA", 2 * W, value)[j] = Swapped(W, value, W + 1 - j)
<1>0. /\ W \in Nat /\ j \in Nat /\ (2 * W) \div 2 = W
      /\ 2 * j - 1 \in 1 .. 2 * W /\ 2 * j \in 1 .. 2 * W
      /\ 2 * (W + 1 - j) - 1 \in 1 .. 2 * W /\ 2 * (W + 1 - j) \in 1 .. 2 * W
  BY DEF Widths
<1>1. ASSUME NEW order \in ByteOrders
      PROVE  EncodeNumber(order, 2 * W, value)[j] =
                Join(ToBigEndian(2 * W, value)[Source(order, 2 * W, 2 * j - 1)],
                     ToBigEndian(2 * W, value)[Source(order, 2 * W, 2 * j)])
  BY <1>0 DEF EncodeNumber, EncodeBytes, Reorder
<1>2. \A i \in 1 .. 2 * W : ToBigEndian(2 * W, value)[i] = value[2 * W - i]
  BY DEF ToBigEndian
<1>3. "ABCD" \in ByteOrders /\ "BADC" \in ByteOrders /\ "CDAB" \in ByteOrders
      /\ "DCBA" \in ByteOrders
  BY DEF ByteOrders
<1> DEFINE big == ToBigEndian(2 * W, value)
           k == W + 1 - j
<1>a. /\ big[2 * j - 1] = value[2 * W - (2 * j - 1)] /\ big[2 * j] = value[2 * W - 2 * j]
      /\ big[2 * k - 1] = value[2 * W - (2 * k - 1)] /\ big[2 * k] = value[2 * W - 2 * k]
  <2> HIDE DEF big, k
  <2> QED
    BY <1>0, <1>2 DEF big, k
<1> HIDE DEF big
<1>4. EncodeNumber("ABCD", 2 * W, value)[j] = Word(W, value, j)
  <2>1. EncodeNumber("ABCD", 2 * W, value)[j] = Join(big[2 * j - 1], big[2 * j])
    BY <1>1, <1>3, SourceOfPlace DEF big
  <2> QED
    BY <1>a, <2>1 DEF Word
<1>5. EncodeNumber("BADC", 2 * W, value)[j] = Swapped(W, value, j)
  <2>1. EncodeNumber("BADC", 2 * W, value)[j] = Join(big[2 * j], big[2 * j - 1])
    BY <1>1, <1>3, SourceOfPlace DEF big
  <2> QED
    BY <1>a, <2>1 DEF Swapped
<1>6. EncodeNumber("CDAB", 2 * W, value)[j] = Word(W, value, W + 1 - j)
  <2>1. EncodeNumber("CDAB", 2 * W, value)[j] = Join(big[2 * k - 1], big[2 * k])
    BY <1>1, <1>3, SourceOfPlace DEF big
  <2> QED
    BY <1>a, <2>1 DEF Word
<1>7. EncodeNumber("DCBA", 2 * W, value)[j] = Swapped(W, value, W + 1 - j)
  <2>1. EncodeNumber("DCBA", 2 * W, value)[j] = Join(big[2 * k], big[2 * k - 1])
    BY <1>1, <1>3, SourceOfPlace DEF big
  <2> QED
    BY <1>a, <2>1 DEF Swapped
<1> QED
  BY <1>4, <1>5, <1>6, <1>7

-----------------------------------------------------------------------------
(* The round trips                                                         *)

(* Decoding a number gives back what was encoded, in every byte order and  *)
(* for every width (the decoders of TypeCodec after its encoders).         *)
THEOREM NumberRoundTrip ==
    ASSUME NEW W \in Widths, NEW order \in ByteOrders, NEW value \in Numbers(W)
    PROVE  /\ EncodeNumber(order, 2 * W, value) \in [1 .. W -> Register]
           /\ DecodeNumber(order, 2 * W, EncodeNumber(order, 2 * W, value)) = value
<1> DEFINE N == 2 * W
           big == ToBigEndian(N, value)
           bytes == Reorder(order, N, big)
           regs == EncodeNumber(order, N, value)
           back == [i \in 1 .. N |-> IF i % 2 = 1 THEN High(regs[(i + 1) \div 2])
                                                  ELSE Low(regs[(i + 1) \div 2])]
<1>0. W \in Nat /\ N \in Nat /\ N \div 2 = W
  BY DEF Widths
<1>1. \A i \in 1 .. N : big[i] = value[N - i] /\ big[i] \in Byte
  BY <1>0 DEF ToBigEndian, Numbers
<1>2. \A i \in 1 .. N : bytes[i] = big[Source(order, N, i)] /\ bytes[i] \in Byte
  BY <1>1, SourceInvolution DEF Reorder
<1>3. ASSUME NEW j \in 1 .. W
      PROVE  /\ regs[j] = Join(bytes[2 * j - 1], bytes[2 * j])
             /\ bytes[2 * j - 1] \in Byte /\ bytes[2 * j] \in Byte
  <2>1. {2 * j - 1, 2 * j} \subseteq 1 .. N
    BY <1>0
  <2> QED
    BY <1>0, <1>2, <2>1 DEF EncodeNumber, EncodeBytes
<1>4. regs \in [1 .. W -> Register]
  <2>1. regs = [j \in 1 .. W |-> Join(bytes[2 * j - 1], bytes[2 * j])]
    BY <1>0 DEF EncodeNumber, EncodeBytes
  <2> QED
    BY <1>3, <2>1, JoinSplit
<1>5. ASSUME NEW i \in 1 .. N PROVE back[i] = bytes[i]
  <2>1. PICK j \in 1 .. W : (i = 2 * j - 1 /\ i % 2 = 1) \/ (i = 2 * j /\ i % 2 = 0)
    BY Places
  <2>2. (i + 1) \div 2 = j
    BY <2>1, <1>0
  <2>3. High(regs[j]) = bytes[2 * j - 1] /\ Low(regs[j]) = bytes[2 * j]
    BY <1>3, JoinSplit
  <2> QED
    BY <2>1, <2>2, <2>3
<1>6. ASSUME NEW i \in 1 .. N PROVE Reorder(order, N, back)[i] = big[i]
  <2>1. Source(order, N, i) \in 1 .. N /\ Source(order, N, Source(order, N, i)) = i
    BY SourceInvolution
  <2>2. Reorder(order, N, back)[i] = back[Source(order, N, i)]
    BY DEF Reorder
  <2> QED
    BY <1>2, <1>5, <2>1, <2>2
<1>7. ASSUME NEW k \in 0 .. N - 1
      PROVE  FromBigEndian(N, Reorder(order, N, back))[k] = value[k]
  <2>1. N - k \in 1 .. N /\ N - (N - k) = k
    BY <1>0
  <2> QED
    BY <1>1, <1>6, <2>1 DEF FromBigEndian
<1>8. FromBigEndian(N, Reorder(order, N, back)) = value
  <2>1. value = [k \in 0 .. N - 1 |-> value[k]]
    BY DEF Numbers
  <2> QED
    BY <1>7, <2>1 DEF FromBigEndian
<1>9. DecodeNumber(order, N, regs) = FromBigEndian(N, Reorder(order, N, back))
  BY DEF DecodeNumber, DecodeBytes
<1> QED
  BY <1>4, <1>8, <1>9

(* The same of a descriptor of any numeric type: RegisterMap::decode reads *)
(* from its registers what RegisterMap::encode wrote to them.              *)
THEOREM TypedRoundTrip ==
    ASSUME NEW d, d.type \in {"UInt16", "Int16", "UInt32", "Int32", "Float32", "Float64"},
           d.order \in ByteOrders, NEW value \in Numbers(Width(d.type))
    PROVE  DecodeRegister(d, EncodeRegister(d, value)) = value
<1>1. CASE d.type \in {"UInt16", "Int16"}
  <2>1. Width(d.type) = 1 /\ d.type # "String"
    BY <1>1 DEF Width
  <2>2. value = [k \in 0 .. 1 |-> IF k = 0 THEN value[0] ELSE value[1]]
        /\ value[0] \in Byte /\ value[1] \in Byte
    BY <2>1 DEF Numbers
  <2>3. EncodeRegister(d, value) = <<Join(value[1], value[0])>>
    BY <2>1 DEF EncodeRegister
  <2>4. High(EncodeRegister(d, value)[1]) = value[1] /\ Low(EncodeRegister(d, value)[1]) = value[0]
    BY <2>2, <2>3, JoinSplit
  <2> QED
    BY <2>1, <2>2, <2>4 DEF DecodeRegister
<1>2. CASE d.type \in {"UInt32", "Int32", "Float32", "Float64"}
  <2>1. Width(d.type) \in Widths /\ Width(d.type) # 1 /\ d.type # "String"
    BY <1>2 DEF Width, Widths
  <2> QED
    BY <2>1, NumberRoundTrip DEF EncodeRegister, DecodeRegister
<1> QED
  BY <1>1, <1>2

-----------------------------------------------------------------------------
(* The overlap check                                                       *)

(* The addresses of a descriptor.                                          *)
Addresses(d) == d.address .. d.address + d.count - 1

(* A descriptor that ends before the address space does: EndAddress, which *)
(* the code computes in sixteen bits, has not wrapped.                     *)
Inside(d) ==
    /\ d.address \in Nat /\ d.count \in Nat \ {0}
    /\ d.address + d.count < Space

(* For such descriptors the static assertion of a RegisterMap refuses      *)
(* exactly the pairs that share an address.                                *)
THEOREM OverlapExact ==
    ASSUME NEW a, NEW b, Inside(a), Inside(b)
    PROVE  Overlap(a, b) <=> Addresses(a) \intersect Addresses(b) # {}
<1>1. EndAddress(a) = a.address + a.count /\ EndAddress(b) = b.address + b.count
  BY BaseAssumption DEF Inside, EndAddress
<1>2. ASSUME Overlap(a, b) PROVE Addresses(a) \intersect Addresses(b) # {}
  <2>1. CASE a.address <= b.address
    <3>1. b.address \in Addresses(a) /\ b.address \in Addresses(b)
      BY <1>1, <1>2, <2>1 DEF Overlap, Addresses, Inside
    <3> QED
      BY <3>1
  <2>2. CASE b.address <= a.address
    <3>1. a.address \in Addresses(a) /\ a.address \in Addresses(b)
      BY <1>1, <1>2, <2>2 DEF Overlap, Addresses, Inside
    <3> QED
      BY <3>1
  <2> QED
    BY <2>1, <2>2 DEF Inside
<1>3. ASSUME NEW x \in Addresses(a) \intersect Addresses(b) PROVE Overlap(a, b)
  BY <1>1, <1>3 DEF Overlap, Addresses, Inside
<1> QED
  BY <1>2, <1>3

(* No two descriptors of a map that compiles share an address, when none   *)
(* reaches the end of the address space.                                   *)
THEOREM MapsDisjoint ==
    ASSUME NEW map, WellFormed(map), \A i \in DOMAIN map : Inside(map[i]),
           DOMAIN map \subseteq Int
    PROVE  \A i, j \in DOMAIN map :
              i # j => Addresses(map[i]) \intersect Addresses(map[j]) = {}
<1> SUFFICES ASSUME NEW i \in DOMAIN map, NEW j \in DOMAIN map, i < j
             PROVE  Addresses(map[i]) \intersect Addresses(map[j]) = {}
  <2>1. ASSUME NEW i \in DOMAIN map, NEW j \in DOMAIN map, i # j
        PROVE  i < j \/ j < i
    BY <2>1
  <2> QED
    BY <2>1
<1>1. ~Overlap(map[i], map[j])
  BY DEF WellFormed
<1> QED
  BY <1>1, OverlapExact

-----------------------------------------------------------------------------
(* The places of a map, and values in their registers                      *)

(* The sum of the counts, by its partial sums.                             *)
PartialSums(sum, N, s) ==
    /\ DOMAIN s = 1 .. N /\ \A i \in 1 .. N : s[i].count \in Nat
    /\ sum[0] = 0 /\ \A n \in 1 .. N : sum[n] = sum[n - 1] + s[n].count

(* The registers of a map (RegisterMap::total_registers, a fold over the   *)
(* descriptors) are the last partial sum.                                  *)
LEMMA TotalIs ==
    ASSUME NEW N \in Nat, NEW s, NEW sum, PartialSums(sum, N, s)
    PROVE  Total(s) = sum[N]
<1>0. /\ DOMAIN s = 1 .. N /\ \A i \in 1 .. N : s[i].count \in Nat
      /\ sum[0] = 0 /\ \A n \in 1 .. N : sum[n] = sum[n - 1] + s[n].count
  BY DEF PartialSums
<1> USE <1>0
<1> DEFINE F == [x \in Nat \X (1 .. N) |-> x[1] + s[x[2]].count]
           Def(f) == f = [t \in SUBSET DOMAIN s |->
                             IF t = {} THEN 0
                             ELSE LET x == Max(t) IN f[t \ {x}] + s[x].count]
           total == CHOOSE f : Def(f)
<1>1. PICK f \in [SUBSET (1 .. N) -> Nat] :
              Folds(f, N, 0, F)
  <2>1. F \in [Nat \X (1 .. N) -> Nat] /\ 0 \in Nat
    OBVIOUS
  <2> HIDE DEF F
  <2> QED
    BY <2>1, FoldRecursion, Zenon
<1>2. Def(f)
  <2>1. ASSUME NEW t \in SUBSET (1 .. N), t # {}
        PROVE  F[<<f[t \ {Max(t)}], Max(t)>>] = f[t \ {Max(t)}] + s[Max(t)].count
    <3>1. Max(t) \in 1 .. N /\ t \ {Max(t)} \in SUBSET (1 .. N)
      BY <2>1, MaxIn
    <3> QED
      BY <3>1
  <2> HIDE DEF F
  <2> QED
    BY <1>1, <2>1 DEF Folds
<1>3. Def(total)
  <2> HIDE DEF Def
  <2> QED
    BY <1>2
<1>4. Total(s) = total[1 .. N]
  BY DEF Total, FoldLeft, MapThenFoldSet
<1> DEFINE S == {n \in 0 .. N : total[1 .. n] = sum[n]}
<1> HIDE DEF total
<1>5. 0 \in S
  <2>1. 1 .. 0 = {}
    OBVIOUS
  <2> QED
    BY <1>3, <2>1
<1>6. ASSUME NEW n \in 0 .. N - 1, n \in S PROVE n + 1 \in S
  <2>1. /\ Max(1 .. n + 1) = n + 1 /\ (1 .. n + 1) \ {n + 1} = 1 .. n
        /\ 1 .. n + 1 # {} /\ 1 .. n + 1 \in SUBSET DOMAIN s /\ n + 1 \in 1 .. N
    <3>1. n + 1 \in Nat \ {0} /\ (n + 1) - 1 = n
      OBVIOUS
    <3>2. /\ Max(1 .. n + 1) = n + 1 /\ (1 .. n + 1) \ {n + 1} = 1 .. (n + 1) - 1
          /\ 1 .. n + 1 # {}
      BY <3>1, MaxPrefix, Zenon
    <3>3. 1 .. n + 1 \in SUBSET DOMAIN s /\ n + 1 \in 1 .. N
      OBVIOUS
    <3> QED
      BY <3>1, <3>2, <3>3, Zenon
  <2>2. total[1 .. n + 1] = LET x == Max(1 .. n + 1) IN total[(1 .. n + 1) \ {x}] + s[x].count
    BY <1>3, <2>1
  <2>3. total[1 .. n + 1] = total[1 .. n] + s[n + 1].count
    BY <2>1, <2>2
  <2>4. sum[n + 1] = sum[n] + s[n + 1].count
    BY <2>1
  <2> QED
    BY <1>6, <2>1, <2>3, <2>4
<1>7. 0 .. N \subseteq S
  <2> HIDE DEF S
  <2> QED
    BY <1>5, <1>6, UpTo, Zenon
<1> QED
  BY <1>4, <1>7

(* There are partial sums, and they ascend.                                *)
Sums(sum, s) ==
    /\ sum \in [0 .. Len(s) -> Nat]
    /\ sum[0] = 0
    /\ \A n \in 1 .. Len(s) : sum[n] = sum[n - 1] + s[n].count

Counted(s) ==
    /\ \E S : s \in Seq(S)
    /\ Len(s) \in Nat /\ DOMAIN s = 1 .. Len(s)
    /\ \A i \in 1 .. Len(s) : s[i].count \in Nat

(* The partial sums of the counts exist.                                   *)
LEMMA SumsExist ==
    ASSUME NEW s, Counted(s)
    PROVE  \E sum : Sums(sum, s)
<1> DEFINE N == Len(s)
           F == [x \in Nat \X (1 .. N) |-> x[1] + s[x[2]].count]
<1>1. N \in Nat /\ 0 \in Nat /\ F \in [Nat \X (1 .. N) -> Nat]
  BY DEF Counted
<1>2. PICK f \in [0 .. N -> Nat] : Recurs(f, N, 0, F)
  <2> HIDE DEF F, N
  <2> QED
    BY <1>1, Recursion, Zenon
<1>3. f[0] = 0
  BY <1>1, <1>2 DEF Recurs
<1>4. ASSUME NEW n \in 1 .. N PROVE f[n] = f[n - 1] + s[n].count
  <2>1. n \in 0 .. N /\ n # 0 /\ n - 1 \in 0 .. N
    BY <1>1
  <2>2. f[n] = F[<<f[n - 1], n>>]
    BY <1>2, <2>1 DEF Recurs
  <2> QED
    BY <2>1, <2>2
<1> QED
  BY <1>3, <1>4 DEF Sums

(* Partial sums of natural numbers ascend.                                 *)
LEMMA SumsAscend ==
    ASSUME NEW s, Counted(s), NEW sum, Sums(sum, s),
           NEW j \in 0 .. Len(s), NEW i \in 0 .. j
    PROVE  sum[i] <= sum[j]
<1> DEFINE N == Len(s)
           S == {n \in 0 .. N : \A m \in 0 .. n : sum[m] <= sum[n]}
<1>1. N \in Nat
  BY DEF Counted
<1>2. 0 \in S
  BY <1>1 DEF Sums
<1>3. ASSUME NEW n \in 0 .. N - 1, n \in S PROVE n + 1 \in S
  <2>1. /\ n + 1 \in 1 .. N /\ n + 1 \in 0 .. N /\ n \in 0 .. N
        /\ sum[n + 1] = sum[n] + s[n + 1].count
    BY <1>1 DEF Sums
  <2>2. s[n + 1].count \in Nat /\ sum[n] \in Nat /\ sum[n + 1] \in Nat
    BY <2>1 DEF Counted, Sums
  <2>3. ASSUME NEW m \in 0 .. n + 1 PROVE sum[m] <= sum[n + 1]
    <3>1. CASE m = n + 1
      BY <2>2, <3>1
    <3>2. CASE m \in 0 .. n
      <4>1. sum[m] <= sum[n]
        BY <1>3, <3>2
      <4>2. sum[m] \in Nat
        <5>1. m \in 0 .. Len(s)
          BY <1>1, <3>2
        <5>2. sum \in [0 .. Len(s) -> Nat]
          BY Zenon DEF Sums
        <5> QED
          BY <5>1, <5>2, Zenon
      <4> QED
        BY <2>1, <2>2, <4>1, <4>2
    <3> QED
      BY <3>1, <3>2
  <2> QED
    BY <2>1, <2>3
<1>4. 0 .. N \subseteq S
  <2> HIDE DEF S, N
  <2> QED
    BY <1>1, <1>2, <1>3, UpTo, Zenon
<1> QED
  BY <1>4

(* Offsets are the partial sums, and so the places of the descriptors in   *)
(* the flat buffer do not overlap.                                         *)
LEMMA OffsetSum ==
    ASSUME NEW s, Counted(s),
           NEW sum, Sums(sum, s)
    PROVE  /\ Total(s) = sum[Len(s)]
           /\ \A i \in 1 .. Len(s) : Offset(s, i) = sum[i - 1]
<1>1. Total(s) = sum[Len(s)]
  <2>1. Len(s) \in Nat /\ PartialSums(sum, Len(s), s)
    BY DEF Counted, Sums, PartialSums
  <2> QED
    BY <2>1, TotalIs, Zenon
<1>2. ASSUME NEW i \in 1 .. Len(s) PROVE Offset(s, i) = sum[i - 1]
  <2> DEFINE m == i - 1
             t == SubSeq(s, 1, m)
  <2>1. m \in Nat /\ m <= Len(s) /\ Len(s) \in Nat
    BY DEF Counted
  <2>2. DOMAIN t = 1 .. m /\ \A k \in 1 .. m : t[k] = s[k]
    <3>1. PICK S : s \in Seq(S)
      BY DEF Counted
    <3> QED
      BY <2>1, <3>1
  <2>3. \A k \in 1 .. m : t[k].count \in Nat
    BY <2>1, <2>2 DEF Counted
  <2>4. ASSUME NEW k \in 1 .. m PROVE sum[k] = sum[k - 1] + t[k].count
    <3>1. k \in 1 .. Len(s)
      BY <2>1
    <3> QED
      BY <2>2, <3>1 DEF Sums
  <2>5. sum[0] = 0
    BY DEF Sums
  <2>6. Total(t) = sum[m]
    <3> HIDE DEF t, m
    <3>1. PartialSums(sum, m, t)
      BY <2>2, <2>3, <2>4, <2>5 DEF PartialSums
    <3> QED
      BY <2>1, <3>1, TotalIs
  <2> QED
    BY <2>6 DEF Offset
<1> QED
  BY <1>1, <1>2

(* The place of a descriptor in the flat buffer lies within it and ends    *)
(* before the place of the next one begins (RegisterMap's offsets).        *)
LEMMA OffsetsApart ==
    ASSUME NEW s, Counted(s)
    PROVE  /\ Total(s) \in Nat
           /\ \A i \in 1 .. Len(s) :
                 /\ Offset(s, i) \in Nat /\ Offset(s, i) + s[i].count <= Total(s)
                 /\ \A j \in 1 .. Len(s) : i < j => Offset(s, i) + s[i].count <= Offset(s, j)
<1>1. PICK sum : Sums(sum, s)
  BY SumsExist
<1>2. /\ Total(s) = sum[Len(s)]
      /\ \A i \in 1 .. Len(s) : Offset(s, i) = sum[i - 1]
  BY <1>1, OffsetSum
<1>3. /\ Len(s) \in Nat /\ \A n \in 0 .. Len(s) : sum[n] \in Nat
      /\ \A i \in 1 .. Len(s) : sum[i] = sum[i - 1] + s[i].count
  BY <1>1 DEF Counted, Sums
<1>4. ASSUME NEW i \in 1 .. Len(s)
      PROVE  /\ Offset(s, i) \in Nat /\ Offset(s, i) + s[i].count <= Total(s)
             /\ \A j \in 1 .. Len(s) : i < j => Offset(s, i) + s[i].count <= Offset(s, j)
  <2>1. i - 1 \in 0 .. Len(s) /\ i \in 0 .. Len(s) /\ Len(s) \in 0 .. Len(s)
    BY <1>3
  <2>2. Offset(s, i) \in Nat /\ Offset(s, i) + s[i].count = sum[i]
    BY <1>2, <1>3, <2>1
  <2>3. sum[i] <= Total(s)
    BY <1>1, <1>2, <2>1, SumsAscend
  <2>4. ASSUME NEW j \in 1 .. Len(s), i < j PROVE sum[i] <= Offset(s, j)
    <3>1. j - 1 \in 0 .. Len(s) /\ i \in 0 .. j - 1
      BY <1>3, <2>4
    <3>2. sum[i] <= sum[j - 1]
      BY <1>1, <3>1, SumsAscend
    <3> QED
      BY <1>2, <3>2
  <2> QED
    BY <2>2, <2>3, <2>4
<1>5. Len(s) \in 0 .. Len(s)
  BY <1>3
<1> QED
  BY <1>2, <1>3, <1>4, <1>5

(* The registers a descriptor's value takes.                               *)
Words(d) == IF d.type = "String" THEN d.count ELSE Width(d.type)

(* An ASCII string that fits its registers is padded with zeros and read   *)
(* back up to the first zero (TypeCodec's strings).                        *)
LEMMA EncodedString ==
    ASSUME NEW count \in Nat \ {0}, NEW str \in Seq({c \in Nat \ {0} : 2 * c < Base}),
           Len(str) <= 2 * count
    PROVE  /\ EncodeString(str, count) \in [1 .. count -> Register]
           /\ \A regs :
                 (\A n \in 1 .. count : regs[n] = EncodeString(str, count)[n])
                    => DecodeString(regs, count) = str
<1> DEFINE char(i) == IF i <= Len(str) THEN str[i] ELSE 0
           L == Len(str)
<1>0. L \in Nat /\ L <= 2 * count /\ Base \in Nat
  BY BaseAssumption
<1>1. ASSUME NEW i \in 1 .. 2 * count
      PROVE  char(i) \in Byte /\ 2 * char(i) < Base /\ (char(i) = 0 <=> i > L)
  <2>1. CASE i <= L
    <3>1. str[i] \in Nat \ {0} /\ 2 * str[i] < Base
      BY <1>0, <2>1
    <3> QED
      BY <1>0, <2>1, <3>1 DEF Byte
  <2>2. CASE i > L
    BY <1>0, <2>2, BaseAssumption DEF Byte
  <2> QED
    BY <1>0, <2>1, <2>2
<1> HIDE DEF char
<1>2. EncodeString(str, count) = [j \in 1 .. count |-> Join(char(2 * j - 1), char(2 * j))]
  <2>1. \A j \in 1 .. count : 2 * j \in 1 .. 2 * count
    OBVIOUS
  <2>2. \A j \in 1 .. count : 2 * char(2 * j) < Base /\ char(2 * j) \in Byte
    BY <1>1, <2>1
  <2>3. \A j \in 1 .. count : ~(2 * char(2 * j) >= Base)
    BY <1>0, <2>2 DEF Byte
  <2> QED
    BY <2>3 DEF EncodeString, char
<1>3. ASSUME NEW j \in 1 .. count
      PROVE  /\ EncodeString(str, count)[j] \in Register
             /\ High(EncodeString(str, count)[j]) = char(2 * j - 1)
             /\ Low(EncodeString(str, count)[j]) = char(2 * j)
  <2>1. 2 * j - 1 \in 1 .. 2 * count /\ 2 * j \in 1 .. 2 * count
    OBVIOUS
  <2>2. char(2 * j - 1) \in Byte /\ char(2 * j) \in Byte
    BY <1>1, <2>1
  <2> QED
    BY <1>2, <2>2, JoinSplit
<1>4. EncodeString(str, count) \in [1 .. count -> Register]
  BY <1>2, <1>3
<1>5. ASSUME NEW regs, \A n \in 1 .. count : regs[n] = EncodeString(str, count)[n]
      PROVE  DecodeString(regs, count) = str
  <2> DEFINE read(i) == IF i % 2 = 1 THEN High(regs[(i + 1) \div 2])
                                     ELSE Low(regs[(i + 1) \div 2])
             Stop(n) == n = 2 * count \/ read(n + 1) = 0
             n == CHOOSE n \in 0 .. 2 * count : Stop(n) /\ \A m \in 0 .. n - 1 : ~Stop(m)
  <2>1. ASSUME NEW i \in 1 .. 2 * count PROVE read(i) = char(i)
    <3>1. PICK j \in 1 .. count : (i = 2 * j - 1 /\ i % 2 = 1) \/ (i = 2 * j /\ i % 2 = 0)
      BY Places DEF Widths
    <3>2. (i + 1) \div 2 = j
      BY <3>1
    <3> QED
      BY <1>3, <1>5, <3>1, <3>2
  <2>2. DecodeString(regs, count) = [i \in 1 .. n |-> read(i)]
    BY DEF DecodeString
  <2> HIDE DEF read
  <2>3. L \in 0 .. 2 * count /\ Stop(L)
    BY <1>0, <1>1, <2>1
  <2>4. \A m \in 0 .. L - 1 : ~Stop(m)
    <3> TAKE m \in 0 .. L - 1
    <3>1. m + 1 \in 1 .. 2 * count /\ ~(m + 1 > L) /\ m # 2 * count
      BY <1>0
    <3> QED
      BY <1>1, <2>1, <3>1
  <2>5. n = L
    <3>1. ASSUME NEW x \in 0 .. 2 * count, Stop(x), \A m \in 0 .. x - 1 : ~Stop(m)
          PROVE  x = L
      <4>1. ~(L < x)
        BY <2>3, <3>1, <1>0
      <4>2. ~(x < L)
        BY <2>4, <3>1, <1>0
      <4> QED
        BY <1>0, <4>1, <4>2
    <3> HIDE DEF Stop
    <3> QED
      BY <2>3, <2>4, <3>1
  <2>6. \A i \in 1 .. L : read(i) = str[i]
    BY <1>0, <2>1 DEF char
  <2>7. str = [i \in 1 .. L |-> str[i]]
    OBVIOUS
  <2> HIDE DEF n
  <2> QED
    BY <2>2, <2>5, <2>6, <2>7
<1> QED
  BY <1>4, <1>5

(* What a sound descriptor's value is encoded to fits its registers, and   *)
(* is decoded from them whatever follows.                                  *)
LEMMA EncodedRegister ==
    ASSUME NEW d \in Descriptors, NEW value, Fits(d, value)
    PROVE  /\ Words(d) \in Nat /\ Words(d) <= d.count
           /\ EncodeRegister(d, value) \in [1 .. Words(d) -> Register]
           /\ \A regs :
                 (\A n \in 1 .. Words(d) : regs[n] = EncodeRegister(d, value)[n])
                    => DecodeRegister(d, regs) = value
<1>1. CASE d.type = "String"
  <2>1. EncodeRegister(d, value) = EncodeString(value, d.count)
        /\ Words(d) = d.count /\ d.count \in Nat \ {0}
    BY <1>1 DEF EncodeRegister, Words, Descriptors
  <2>2. \A regs : DecodeRegister(d, regs) = DecodeString(regs, d.count)
    BY <1>1 DEF DecodeRegister
  <2>3. value \in Seq({c \in Nat \ {0} : 2 * c < Base}) /\ Len(value) <= 2 * d.count
    BY <1>1 DEF Fits
  <2> DEFINE count == d.count
  <2> HIDE DEF count
  <2>4. /\ EncodeString(value, count) \in [1 .. count -> Register]
        /\ \A regs : (\A n \in 1 .. count : regs[n] = EncodeString(value, count)[n])
                          => DecodeString(regs, count) = value
    <3>1. /\ count \in Nat \ {0} /\ Len(value) <= 2 * count
          /\ value \in Seq({c \in Nat \ {0} : 2 * c < Base})
      BY <2>1, <2>3 DEF count
    <3> QED
      BY <3>1, EncodedString
  <2> QED
    BY <2>1, <2>2, <2>4 DEF count
<1>2. CASE d.type # "String"
  <2>1. /\ d.type \in {"UInt16", "Int16", "UInt32", "Int32", "Float32", "Float64"}
        /\ Width(d.type) \in Widths /\ Words(d) = Width(d.type) /\ d.order \in ByteOrders
        /\ value \in Numbers(Width(d.type)) /\ Width(d.type) <= d.count
    BY <1>2 DEF Descriptors, Types, Width, Widths, Words, Fits, Numbers
  <2>2. DecodeRegister(d, EncodeRegister(d, value)) = value
    BY <2>1, TypedRoundTrip
  <2>3. CASE Width(d.type) = 1
    <3>1. EncodeRegister(d, value) = <<Join(value[1], value[0])>>
      BY <1>2, <2>3 DEF EncodeRegister
    <3>2. value[0] \in Byte /\ value[1] \in Byte
      BY <2>1, <2>3 DEF Numbers
    <3>3. EncodeRegister(d, value) \in [1 .. 1 -> Register]
      BY <3>1, <3>2, JoinSplit
    <3>4. ASSUME NEW regs, regs[1] = EncodeRegister(d, value)[1]
          PROVE  DecodeRegister(d, regs) = DecodeRegister(d, EncodeRegister(d, value))
      BY <1>2, <2>3, <3>4 DEF DecodeRegister
    <3> QED
      BY <2>1, <2>2, <2>3, <3>3, <3>4 DEF Widths
  <2>4. CASE Width(d.type) # 1
    <3> DEFINE W == Width(d.type)
               regs0 == EncodeNumber(d.order, 2 * W, value)
    <3>1. EncodeRegister(d, value) = regs0 /\ regs0 \in [1 .. W -> Register]
      BY <1>2, <2>1, <2>4, NumberRoundTrip DEF EncodeRegister
    <3>2. ASSUME NEW regs, \A n \in 1 .. W : regs[n] = regs0[n]
          PROVE  DecodeNumber(d.order, 2 * W, regs) = DecodeNumber(d.order, 2 * W, regs0)
      <4>1. \A i \in 1 .. 2 * W : (i + 1) \div 2 \in 1 .. W
        BY <2>1 DEF Widths
      <4>2. \A i \in 1 .. 2 * W : regs[(i + 1) \div 2] = regs0[(i + 1) \div 2]
        BY <3>2, <4>1
      <4> HIDE DEF W, regs0
      <4> QED
        BY <4>2 DEF DecodeNumber
    <3>3. \A regs : DecodeRegister(d, regs) = DecodeNumber(d.order, 2 * W, regs)
      BY <1>2, <2>4 DEF DecodeRegister
    <3> HIDE DEF W, regs0
    <3> QED
      BY <2>1, <2>2, <3>1, <3>2, <3>3 DEF W, Widths
  <2> QED
    BY <2>3, <2>4
<1> QED
  BY <1>1, <1>2

-----------------------------------------------------------------------------
(* The CRC                                                                 *)

(* A CRC as the set of its ones.                                           *)
Crc == SUBSET (0 .. 15)

(* One bit of the CRC, bit by bit.                                         *)
LEMMA ShiftBitIs ==
    ASSUME NEW x \in Crc
    PROVE  /\ ShiftBit(x) \in Crc
           /\ \A j \in 0 .. 15 :
                 j \in ShiftBit(x) <=> ~((j + 1 \in x) <=> (0 \in x /\ j \in {0, 13, 15}))
<1> DEFINE shifted == {k - 1 : k \in x \ {0}}
<1>1. shifted \in SUBSET (0 .. 14) /\ \A j \in 0 .. 15 : j \in shifted <=> j + 1 \in x
  <2>1. \A k \in x \ {0} : k \in 1 .. 15
    BY DEF Crc
  <2>2. ASSUME NEW j \in 0 .. 15, j + 1 \in x PROVE j \in shifted
    <3>1. j + 1 \in x \ {0} /\ (j + 1) - 1 = j
      BY <2>2
    <3> QED
      BY <3>1
  <2> QED
    BY <2>1, <2>2
<1>2. ShiftBit(x) = IF 0 \in x THEN (shifted \ {0, 13, 15}) \union ({0, 13, 15} \ shifted)
                               ELSE shifted
  <2>1. ShiftBit(x) = IF 0 \in x THEN SymDiff(shifted, {0, 13, 15}) ELSE shifted
    BY Zenon DEF ShiftBit
  <2> HIDE DEF shifted
  <2>2. SymDiff(shifted, {0, 13, 15}) =
            (shifted \ {0, 13, 15}) \union ({0, 13, 15} \ shifted)
    <3>1. \A a, b : SymDiff(a, b) = (a \ b) \union (b \ a)
      BY DEF SymDiff
    <3> QED
      BY <3>1, Zenon
  <2> QED
    BY <2>1, <2>2, Zenon
<1> HIDE DEF shifted
<1> QED
  BY <1>1, <1>2 DEF Crc

(* It is linear, and so is the shift by a byte.                            *)
LEMMA ShiftBitLinear ==
    ASSUME NEW x \in Crc, NEW y \in Crc
    PROVE  /\ SymDiff(x, y) \in Crc
           /\ ShiftBit(SymDiff(x, y)) = SymDiff(ShiftBit(x), ShiftBit(y))
<1>1. SymDiff(x, y) \in Crc /\ \A j : j \in SymDiff(x, y) <=> ~(j \in x <=> j \in y)
  BY DEF Crc, SymDiff
<1>2. \A j : j \in SymDiff(ShiftBit(x), ShiftBit(y)) <=> ~(j \in ShiftBit(x) <=> j \in ShiftBit(y))
  BY DEF SymDiff
<1>3. /\ ShiftBit(x) \in SUBSET (0 .. 15) /\ ShiftBit(y) \in SUBSET (0 .. 15)
      /\ ShiftBit(SymDiff(x, y)) \in SUBSET (0 .. 15)
  BY <1>1, ShiftBitIs DEF Crc
<1>4. ASSUME NEW j \in 0 .. 15
      PROVE  j \in ShiftBit(SymDiff(x, y)) <=> j \in SymDiff(ShiftBit(x), ShiftBit(y))
  BY <1>1, <1>2, ShiftBitIs
<1>5. SymDiff(ShiftBit(x), ShiftBit(y)) \in SUBSET (0 .. 15)
  BY <1>3 DEF SymDiff
<1> QED
  BY <1>1, <1>3, <1>4, <1>5

(* The eight bits of a byte, one after the other.                          *)
ByteRun(f, x) ==
    /\ f[0] = x /\ f[8] = ShiftByte(x)
    /\ \A k \in 0 .. 7 : f[k + 1] = ShiftBit(f[k])

(* The loop over the bits of a byte, taken apart.                          *)
LEMMA ByteRuns ==
    ASSUME NEW x \in Crc
    PROVE  \E f \in [0 .. 8 -> Crc] : ByteRun(f, x)
<1> DEFINE a == ShiftBit(x)
           b == ShiftBit(a)
           c == ShiftBit(b)
           d == ShiftBit(c)
           e == ShiftBit(d)
           g == ShiftBit(e)
           h == ShiftBit(g)
           i == ShiftBit(h)
           run == <<a, b, c, d, e, g, h, i>>
           f == [k \in 0 .. 8 |-> IF k = 0 THEN x ELSE run[k]]
<1>1. i = ShiftByte(x)
  BY DEF ShiftByte
<1>2. /\ a = ShiftBit(x) /\ b = ShiftBit(a) /\ c = ShiftBit(b) /\ d = ShiftBit(c)
      /\ e = ShiftBit(d) /\ g = ShiftBit(e) /\ h = ShiftBit(g) /\ i = ShiftBit(h)
  OBVIOUS
<1> HIDE DEF a, b, c, d, e, g, h, i
<1>3. a \in Crc /\ b \in Crc /\ c \in Crc /\ d \in Crc
  BY <1>2, ShiftBitIs
<1>4. e \in Crc /\ g \in Crc /\ h \in Crc /\ i \in Crc
  BY <1>2, <1>3, ShiftBitIs
<1>5. f \in [0 .. 8 -> Crc]
  BY <1>3, <1>4
<1>6. \A k \in 0 .. 7 : f[k + 1] = ShiftBit(f[k])
  <2>1. /\ f[0] = x /\ f[1] = a /\ f[2] = b /\ f[3] = c /\ f[4] = d /\ f[5] = e
        /\ f[6] = g /\ f[7] = h /\ f[8] = i
    OBVIOUS
  <2>2. \A k \in 0 .. 7 : k \in {0, 1, 2, 3, 4, 5, 6, 7}
    OBVIOUS
  <2> HIDE DEF f
  <2> QED
    BY <1>2, <2>1, <2>2
<1>7. f[0] = x /\ f[8] = i
  OBVIOUS
<1> HIDE DEF f
<1>8. ByteRun(f, x)
  BY <1>1, <1>6, <1>7 DEF ByteRun
<1> QED
  BY <1>5, <1>8

(* The loop over a byte is linear, too: a difference is carried through it *)
(* by itself.                                                              *)
LEMMA ShiftByteLinear ==
    ASSUME NEW x \in Crc, NEW y \in Crc
    PROVE  /\ SymDiff(x, y) \in Crc
           /\ ShiftByte(SymDiff(x, y)) = SymDiff(ShiftByte(x), ShiftByte(y))
<1>1. SymDiff(x, y) \in Crc
  BY ShiftBitLinear
<1>2. PICK f \in [0 .. 8 -> Crc] : ByteRun(f, x)
  BY ByteRuns
<1>3. PICK g \in [0 .. 8 -> Crc] : ByteRun(g, y)
  BY ByteRuns
<1>4. PICK h \in [0 .. 8 -> Crc] : ByteRun(h, SymDiff(x, y))
  BY <1>1, ByteRuns
<1> DEFINE S == {k \in 0 .. 8 : h[k] = SymDiff(f[k], g[k])}
<1>5. 0 \in S
  BY <1>2, <1>3, <1>4 DEF ByteRun
<1>6. ASSUME NEW k \in 0 .. 8 - 1, k \in S PROVE k + 1 \in S
  <2>1. /\ h[k + 1] = ShiftBit(h[k]) /\ f[k + 1] = ShiftBit(f[k]) /\ g[k + 1] = ShiftBit(g[k])
        /\ f[k] \in Crc /\ g[k] \in Crc /\ k + 1 \in 0 .. 8
    BY <1>2, <1>3, <1>4 DEF ByteRun
  <2> QED
    BY <1>6, <2>1, ShiftBitLinear
<1>7. 0 .. 8 \subseteq S
  <2>1. 8 \in Nat
    OBVIOUS
  <2> HIDE DEF S
  <2> QED
    BY <1>5, <1>6, <2>1, UpTo, Zenon
<1>8. h[8] = SymDiff(f[8], g[8])
  BY <1>7
<1> QED
  BY <1>1, <1>2, <1>3, <1>4, <1>8 DEF ByteRun

(* Nothing but no ones at all is shifted to nothing.                       *)
LEMMA ShiftByteNothing ==
    ASSUME NEW x \in Crc
    PROVE  ShiftByte(x) \in Crc /\ (ShiftByte(x) = {} <=> x = {})
<1>1. ASSUME NEW y \in Crc PROVE ShiftBit(y) = {} <=> y = {}
  <2>1. ASSUME NEW k \in y PROVE ShiftBit(y) # {}
    <3>1. CASE 0 \in y
      <4>1. 15 \in ShiftBit(y)
        BY <3>1, ShiftBitIs DEF Crc
      <4> QED
        BY <4>1
    <3>2. CASE 0 \notin y
      <4>1. k - 1 \in 0 .. 15 /\ (k - 1) + 1 = k
        BY <3>2 DEF Crc
      <4>2. k - 1 \in ShiftBit(y)
        BY <3>2, <4>1, ShiftBitIs
      <4> QED
        BY <4>2
    <3> QED
      BY <3>1, <3>2
  <2>2. ASSUME y = {} PROVE ShiftBit(y) = {}
    BY <2>2 DEF ShiftBit
  <2> QED
    BY <2>1, <2>2
<1>2. PICK f \in [0 .. 8 -> Crc] : ByteRun(f, x)
  BY ByteRuns
<1> DEFINE S == {k \in 0 .. 8 : f[k] = {} <=> x = {}}
<1>3. 0 \in S
  BY <1>2 DEF ByteRun
<1>4. ASSUME NEW k \in 0 .. 8 - 1, k \in S PROVE k + 1 \in S
  BY <1>1, <1>2, <1>4 DEF ByteRun
<1>5. 0 .. 8 \subseteq S
  <2>1. 8 \in Nat
    OBVIOUS
  <2> HIDE DEF S
  <2> QED
    BY <1>3, <1>4, <2>1, UpTo, Zenon
<1>6. f[8] = {} <=> x = {}
  BY <1>5
<1> QED
  BY <1>2, <1>6 DEF ByteRun

(* A high byte is shifted down to the low byte.                            *)
LEMMA ShiftByteDown ==
    ASSUME NEW x \in SUBSET (8 .. 15)
    PROVE  ShiftByte(x) = {k - 8 : k \in x}
<1>1. x \in Crc
  BY DEF Crc
<1>2. PICK f \in [0 .. 8 -> Crc] : ByteRun(f, x)
  BY <1>1, ByteRuns
<1> DEFINE S == {k \in 0 .. 8 : f[k] = {j - k : j \in x}}
<1>3. 0 \in S
  <2>1. \A j \in x : j - 0 = j
    OBVIOUS
  <2>2. {j - 0 : j \in x} = x
    BY <2>1
  <2> QED
    BY <1>2, <2>2 DEF ByteRun
<1>4. ASSUME NEW k \in 0 .. 8 - 1, k \in S PROVE k + 1 \in S
  <2>1. 0 \notin f[k]
    BY <1>4
  <2>2. f[k + 1] = {i - 1 : i \in f[k]}
    <3>1. f[k + 1] = ShiftBit(f[k]) /\ f[k] \ {0} = f[k]
      BY <1>2, <2>1 DEF ByteRun
    <3> QED
      BY <2>1, <3>1 DEF ShiftBit
  <2>3. {i - 1 : i \in {j - k : j \in x}} = {j - (k + 1) : j \in x}
    <3>1. \A j \in x : (j - k) - 1 = j - (k + 1)
      OBVIOUS
    <3> QED
      BY <3>1
  <2> QED
    BY <1>4, <2>2, <2>3
<1>5. 0 .. 8 \subseteq S
  <2>1. 8 \in Nat
    OBVIOUS
  <2> HIDE DEF S
  <2> QED
    BY <1>3, <1>4, <2>1, UpTo, Zenon
<1>6. f[8] = {j - 8 : j \in x}
  BY <1>5
<1> QED
  BY <1>2, <1>6 DEF ByteRun

(* A low byte is not: the polynomial leaves a one in the high byte.        *)
LEMMA ShiftByteHigh ==
    ASSUME NEW x \in SUBSET (0 .. 7), x # {}
    PROVE  ~(ShiftByte(x) \subseteq 0 .. 7)
<1>1. x \in Crc
  BY DEF Crc
<1>2. PICK f \in [0 .. 8 -> Crc] : ByteRun(f, x)
  BY <1>1, ByteRuns
<1> DEFINE InLow(k) == f[k] # {} /\ f[k] \subseteq 0 .. 7 - k
           InHigh(k) == \E j \in f[k] : j >= 16 - k
           S == {k \in 0 .. 8 : InLow(k) \/ InHigh(k)}
<1>3. 0 \in S
  <2>1. f[0] = x
    BY <1>2 DEF ByteRun
  <2>2. InLow(0)
    BY <2>1
  <2> QED
    BY <2>2
<1>4. ASSUME NEW k \in 0 .. 8 - 1, k \in S PROVE k + 1 \in S
  <2>1. f[k] \in Crc /\ f[k + 1] = ShiftBit(f[k]) /\ k + 1 \in 0 .. 8
    BY <1>2 DEF ByteRun
  <2>2. CASE 0 \in f[k]
    <3>1. 15 \in f[k + 1]
      BY <2>1, <2>2, ShiftBitIs DEF Crc
    <3> QED
      BY <2>1, <3>1
  <2>3. CASE 0 \notin f[k]
    <3>1. \A j \in 0 .. 15 : j \in f[k + 1] <=> j + 1 \in f[k]
      BY <2>1, <2>3, ShiftBitIs
    <3>2. \A j \in f[k] : j \in 1 .. 15 /\ j - 1 \in f[k + 1]
      <4> TAKE j \in f[k]
      <4>1. j \in 1 .. 15 /\ j - 1 \in 0 .. 15 /\ (j - 1) + 1 = j
        BY <2>1, <2>3 DEF Crc
      <4> QED
        BY <3>1, <4>1
    <3>3. ASSUME InHigh(k) PROVE InHigh(k + 1)
      BY <3>2, <3>3
    <3>4. ASSUME InLow(k) PROVE InLow(k + 1)
      <4>1. f[k + 1] # {}
        BY <3>2, <3>4
      <4>2. ASSUME NEW j \in f[k + 1] PROVE j \in 0 .. 7 - (k + 1)
        <5>1. j \in 0 .. 15
          BY <2>1, ShiftBitIs DEF Crc
        <5>2. j + 1 \in 0 .. 7 - k
          BY <3>1, <3>4, <5>1
        <5> QED
          BY <5>1, <5>2
      <4> QED
        BY <4>1, <4>2
    <3> QED
      BY <1>4, <2>1, <3>3, <3>4
  <2> QED
    BY <2>2, <2>3
<1>5. 0 .. 8 \subseteq S
  <2>1. 8 \in Nat
    OBVIOUS
  <2> HIDE DEF S
  <2> QED
    BY <1>3, <1>4, <2>1, UpTo, Zenon
<1>6. InLow(8) \/ InHigh(8)
  BY <1>5
<1>7. ~InLow(8)
  OBVIOUS
<1> QED
  BY <1>2, <1>6, <1>7 DEF ByteRun

(* Eight binary digits of a number.                                        *)
LEMMA Digits ==
    ASSUME NEW a \in {0, 1}, NEW b \in {0, 1}, NEW c \in {0, 1}, NEW d \in {0, 1},
           NEW e \in {0, 1}, NEW f \in {0, 1}, NEW g \in {0, 1}, NEW h \in {0, 1}
    PROVE  LET n == a + 2 * b + 4 * c + 8 * d + 16 * e + 32 * f + 64 * g + 128 * h IN
           /\ n \in 0 .. 255
           /\ n % 2 = a /\ (n \div 2) % 2 = b /\ (n \div 4) % 2 = c /\ (n \div 8) % 2 = d
           /\ (n \div 16) % 2 = e /\ (n \div 32) % 2 = f /\ (n \div 64) % 2 = g
           /\ (n \div 128) % 2 = h
  OBVIOUS

(* A byte is what its bits are.                                            *)
LEMMA BitsOfByte ==
    ASSUME NEW s \in SUBSET (0 .. 7)
    PROVE  ByteOf(s) \in 0 .. 255 /\ Bits(ByteOf(s)) = s
<1> DEFINE one(k) == IF k \in s THEN 1 ELSE 0
           n == one(0) + 2 * one(1) + 4 * one(2) + 8 * one(3) + 16 * one(4)
                       + 32 * one(5) + 64 * one(6) + 128 * one(7)
<1>1. /\ Weight(0) = 1 /\ Weight(1) = 2 /\ Weight(2) = 4 /\ Weight(3) = 8
      /\ Weight(4) = 16 /\ Weight(5) = 32 /\ Weight(6) = 64 /\ Weight(7) = 128
  BY DEF Weight
<1>2. ByteOf(s) = n
  BY <1>1 DEF ByteOf
<1>3. \A k \in 0 .. 7 : one(k) \in {0, 1} /\ (one(k) = 1 <=> k \in s)
  OBVIOUS
<1> HIDE DEF one
<1>4. /\ n \in 0 .. 255
      /\ n % 2 = one(0) /\ (n \div 2) % 2 = one(1) /\ (n \div 4) % 2 = one(2)
      /\ (n \div 8) % 2 = one(3) /\ (n \div 16) % 2 = one(4) /\ (n \div 32) % 2 = one(5)
      /\ (n \div 64) % 2 = one(6) /\ (n \div 128) % 2 = one(7)
  BY <1>3, Digits
<1> HIDE DEF n
<1>5. \A k \in 0 .. 7 : (n \div Weight(k)) % 2 = one(k)
  <2>1. \A k \in 0 .. 7 : k \in {0, 1, 2, 3, 4, 5, 6, 7}
    OBVIOUS
  <2>2. n \div 1 = n
    BY <1>4
  <2> QED
    BY <1>1, <1>4, <2>1, <2>2
<1>6. ASSUME NEW k \in 0 .. 7 PROVE (n \div Weight(k)) % 2 = 1 <=> k \in s
  BY <1>3, <1>5, Zenon
<1>7. Bits(n) = s
  <2>1. Bits(n) = {k \in 0 .. 7 : (n \div Weight(k)) % 2 = 1}
    BY Zenon DEF Bits
  <2>2. {k \in 0 .. 7 : (n \div Weight(k)) % 2 = 1} = s
    BY <1>6, Zenon
  <2> QED
    BY <2>1, <2>2, Zenon
<1> QED
  BY <1>2, <1>4, <1>7, Zenon

(* Bytes as they are on a line.                                            *)
Octet == 0 .. 255
Bytes == Seq(Octet)

(* The length of a concatenation of bytes.                                 *)
LEMMA Joined ==
    ASSUME NEW a \in Bytes, NEW b \in Bytes
    PROVE  /\ a \o b \in Bytes /\ Len(a) \in Nat /\ Len(b) \in Nat
           /\ Len(a \o b) = Len(a) + Len(b)
  BY DEF Bytes

(* The bytes of a concatenation.                                           *)
LEMMA JoinedItems ==
    ASSUME NEW a \in Bytes, NEW b \in Bytes
    PROVE  /\ \A n \in 1 .. Len(a) : (a \o b)[n] = a[n]
           /\ \A n \in 1 .. Len(b) : (a \o b)[Len(a) + n] = b[n]
  BY DEF Bytes

(* The CRC after each byte.                                                *)
CrcRun(c, N, data) ==
    /\ c[0] = 0 .. 15
    /\ \A n \in 1 .. N : c[n] = ShiftByte(SymDiff(c[n - 1], Bits(data[n])))

(* Adding a byte to a CRC gives a CRC.                                     *)
LEMMA AddByteIn ==
    ASSUME NEW x \in Crc, NEW b
    PROVE  /\ Bits(b) \in Crc /\ Bits(b) \in SUBSET (0 .. 7) /\ SymDiff(x, Bits(b)) \in Crc
           /\ AddByte(b)[x] = ShiftByte(SymDiff(x, Bits(b))) /\ AddByte(b)[x] \in Crc
<1>1. Bits(b) \in SUBSET (0 .. 7) /\ Bits(b) \in Crc
  BY DEF Bits, Crc
<1>2. SymDiff(x, Bits(b)) \in Crc
  BY <1>1, ShiftByteLinear
<1>3. ShiftByte(SymDiff(x, Bits(b))) \in Crc
  BY <1>2, ShiftByteNothing
<1> QED
  BY <1>1, <1>2, <1>3 DEF AddByte, Crc

(* The values of the CRC after each byte exist.                            *)
LEMMA CrcRuns ==
    ASSUME NEW N \in Nat, NEW data
    PROVE  \E c \in [0 .. N -> Crc] : CrcRun(c, N, data)
<1> DEFINE F == [x \in Crc \X (1 .. N) |-> AddByte(data[x[2]])[x[1]]]
<1>1. F \in [Crc \X (1 .. N) -> Crc]
  BY AddByteIn
<1>2. (0 .. 15) \in Crc
  BY DEF Crc
<1>3. PICK c \in [0 .. N -> Crc] : Recurs(c, N, 0 .. 15, F)
  <2> HIDE DEF F
  <2> QED
    BY <1>1, <1>2, Recursion, Zenon
<1>4. c[0] = 0 .. 15
  BY <1>3 DEF Recurs
<1>5. ASSUME NEW n \in 1 .. N PROVE c[n] = ShiftByte(SymDiff(c[n - 1], Bits(data[n])))
  <2>1. n \in 0 .. N /\ n # 0 /\ n - 1 \in 0 .. N
    OBVIOUS
  <2>2. c[n] = F[<<c[n - 1], n>>]
    BY <1>3, <2>1 DEF Recurs
  <2>3. c[n - 1] \in Crc
    BY <2>1
  <2>4. F[<<c[n - 1], n>>] = AddByte(data[n])[c[n - 1]]
    BY <2>3
  <2> QED
    BY <2>2, <2>3, <2>4, AddByteIn
<1> QED
  BY <1>4, <1>5 DEF CrcRun

(* Crc16, a fold over the bytes, is the value after the last one.          *)
LEMMA CrcIs ==
    ASSUME NEW N \in Nat, NEW data, DOMAIN data = 1 .. N, NEW M \in Nat, N <= M,
           NEW c \in [0 .. M -> Crc], CrcRun(c, N, data)
    PROVE  Crc16(data) = c[N]
<1> DEFINE F == [x \in Crc \X (1 .. N) |-> AddByte(data[x[2]])[x[1]]]
           Def(f) == f = [t \in SUBSET DOMAIN data |->
                             IF t = {} THEN 0 .. 15
                             ELSE LET x == Max(t) IN AddByte(data[x])[f[t \ {x}]]]
           crc == CHOOSE f : Def(f)
<1>1. PICK f \in [SUBSET (1 .. N) -> Crc] : Folds(f, N, 0 .. 15, F)
  <2>1. F \in [Crc \X (1 .. N) -> Crc] /\ (0 .. 15) \in Crc
    BY AddByteIn DEF Crc
  <2> HIDE DEF F
  <2> QED
    BY <2>1, FoldRecursion, Zenon
<1>2. Def(f)
  <2>1. ASSUME NEW t \in SUBSET (1 .. N), t # {}
        PROVE  F[<<f[t \ {Max(t)}], Max(t)>>] = AddByte(data[Max(t)])[f[t \ {Max(t)}]]
    <3>1. Max(t) \in 1 .. N /\ t \ {Max(t)} \in SUBSET (1 .. N)
      BY <2>1, MaxIn
    <3> QED
      BY <3>1
  <2> HIDE DEF F
  <2> QED
    BY <1>1, <2>1 DEF Folds
<1>3. Def(crc)
  <2> HIDE DEF Def
  <2> QED
    BY <1>2
<1>4. Crc16(data) = crc[1 .. N]
  BY DEF Crc16, FoldLeft, MapThenFoldSet
<1> DEFINE S == {n \in 0 .. N : crc[1 .. n] = c[n]}
<1> HIDE DEF crc
<1>5. 0 \in S
  <2>1. 1 .. 0 = {}
    OBVIOUS
  <2> QED
    BY <1>3, <2>1 DEF CrcRun
<1>6. ASSUME NEW n \in 0 .. N - 1, n \in S PROVE n + 1 \in S
  <2> DEFINE m == n + 1
  <2>1. m \in Nat \ {0} /\ m - 1 = n /\ m \in 1 .. N /\ m \in 0 .. N /\ n \in 0 .. M
        /\ 1 .. m \in SUBSET DOMAIN data
    OBVIOUS
  <2> HIDE DEF m
  <2>2. /\ Max(1 .. m) = m /\ (1 .. m) \ {m} = 1 .. n /\ 1 .. m # {}
    BY <2>1, MaxPrefix
  <2>3. crc[1 .. m] = LET x == Max(1 .. m) IN AddByte(data[x])[crc[(1 .. m) \ {x}]]
    BY <1>3, <2>1, <2>2
  <2>4. crc[1 .. m] = AddByte(data[m])[c[n]]
    BY <1>6, <2>2, <2>3
  <2>5. c[m] = ShiftByte(SymDiff(c[n], Bits(data[m]))) /\ c[n] \in Crc
    BY <2>1 DEF CrcRun
  <2> QED
    BY <2>1, <2>4, <2>5, AddByteIn DEF m
<1>7. 0 .. N \subseteq S
  <2> HIDE DEF S
  <2> QED
    BY <1>5, <1>6, UpTo, Zenon
<1> QED
  BY <1>4, <1>7

(* The check of UnwrapRtu on a frame of N + 2 bytes.                       *)
CrcMatches(frame, N) ==
    /\ Low8(Crc16(SubSeq(frame, 1, N))) = Bits(frame[N + 1])
    /\ High8(Crc16(SubSeq(frame, 1, N))) = Bits(frame[N + 2])

(* The CRC of a frame with its CRC is nothing.                             *)
LEMMA Residue ==
    ASSUME NEW N \in Nat, NEW frame \in Bytes, Len(frame) = N + 2,
           NEW c \in [0 .. N + 2 -> Crc], CrcRun(c, N + 2, frame),
           CrcMatches(frame, N)
    PROVE  c[N + 2] = {}
<1> DEFINE data == SubSeq(frame, 1, N)
           crc == c[N]
<1>1. DOMAIN data = 1 .. N /\ \A n \in 1 .. N : data[n] = frame[n]
  BY DEF Bytes
<1>2. Crc16(data) = crc
  <2>1. CrcRun(c, N, data)
    <3>1. \A n \in 1 .. N : n \in 1 .. N + 2
      OBVIOUS
    <3> HIDE DEF data
    <3> QED
      BY <1>1, <3>1 DEF CrcRun
  <2>2. N + 2 \in Nat /\ N <= N + 2
    OBVIOUS
  <2> HIDE DEF data
  <2> QED
    BY <1>1, <2>1, <2>2, CrcIs
<1>3. /\ c[N + 1] = ShiftByte(SymDiff(crc, Bits(frame[N + 1])))
      /\ c[N + 2] = ShiftByte(SymDiff(c[N + 1], Bits(frame[N + 2])))
  <2>1. N + 1 \in 1 .. N + 2 /\ N + 2 \in 1 .. N + 2 /\ (N + 1) - 1 = N /\ (N + 2) - 1 = N + 1
    OBVIOUS
  <2> QED
    BY <2>1 DEF CrcRun
<1>4. Bits(frame[N + 1]) = Low8(crc) /\ Bits(frame[N + 2]) = High8(crc)
  BY <1>2 DEF CrcMatches
<1>5. crc \in SUBSET (0 .. 15)
  BY DEF Crc
<1> HIDE DEF crc, data
<1>6. SymDiff(crc, Low8(crc)) = crc \intersect 8 .. 15
  <2>1. \A k \in 0 .. 15 : k \notin 0 .. 7 <=> k \in 8 .. 15
    OBVIOUS
  <2> QED
    BY <1>5, <2>1 DEF SymDiff, Low8
<1>7. ShiftByte(crc \intersect 8 .. 15) = High8(crc)
  BY ShiftByteDown DEF High8
<1>8. SymDiff(c[N + 1], Bits(frame[N + 2])) = {}
  BY <1>3, <1>4, <1>6, <1>7 DEF SymDiff
<1>9. {} \in Crc
  BY DEF Crc
<1> QED
  BY <1>3, <1>8, <1>9, ShiftByteNothing

(* Two frames that agree but for two adjacent bytes do not both match.     *)
THEOREM BurstFound ==
    ASSUME NEW N \in Nat, NEW f \in Bytes, NEW g \in Bytes,
           Len(f) = N + 2, Len(g) = N + 2, CrcMatches(f, N), CrcMatches(g, N),
           NEW a \in 1 .. N + 2,
           \A n \in 1 .. N + 2 : n \notin {a, a + 1} => f[n] = g[n],
           NEW m \in 1 .. N + 2, m \in {a, a + 1}, Bits(f[m]) # Bits(g[m])
    PROVE  FALSE
<1> DEFINE M == N + 2
<1>0. M \in Nat
  OBVIOUS
<1>1. PICK c \in [0 .. M -> Crc] : CrcRun(c, M, f)
  BY <1>0, CrcRuns
<1>2. PICK d \in [0 .. M -> Crc] : CrcRun(d, M, g)
  BY <1>0, CrcRuns
<1>3. c[M] = {} /\ d[M] = {}
  BY <1>1, <1>2, Residue
<1> DEFINE D == [n \in 0 .. M |-> SymDiff(c[n], d[n])]
           e == [n \in 1 .. M |-> SymDiff(Bits(f[n]), Bits(g[n]))]
<1>4. M \in Nat /\ a \in 1 .. M /\ m \in 1 .. M /\ (m = a \/ m = a + 1)
  OBVIOUS
<1>5. D[0] = {} /\ D[M] = {}
  BY <1>1, <1>2, <1>3 DEF CrcRun, SymDiff
<1>6. \A n \in 0 .. M : D[n] \in Crc
  BY ShiftByteLinear
<1>7. \A n \in 1 .. M : e[n] \in SUBSET (0 .. 7)
  BY DEF SymDiff, Bits
<1>8. ASSUME NEW n \in 1 .. M PROVE D[n] = ShiftByte(SymDiff(D[n - 1], e[n]))
  <2> DEFINE x == c[n - 1]
             y == d[n - 1]
             u == Bits(f[n])
             v == Bits(g[n])
  <2>1. /\ n - 1 \in 0 .. M /\ n \in 0 .. M /\ x \in Crc /\ y \in Crc
        /\ D[n] = SymDiff(c[n], d[n]) /\ D[n - 1] = SymDiff(x, y) /\ e[n] = SymDiff(u, v)
    BY <1>4
  <2>2. c[n] = ShiftByte(SymDiff(x, u)) /\ d[n] = ShiftByte(SymDiff(y, v))
    BY <1>1, <1>2 DEF CrcRun
  <2>3. SymDiff(x, u) \in Crc /\ SymDiff(y, v) \in Crc
    BY <2>1, AddByteIn
  <2>4. SymDiff(SymDiff(x, u), SymDiff(y, v)) = SymDiff(SymDiff(x, y), SymDiff(u, v))
    BY DEF SymDiff
  <2> HIDE DEF x, y, u, v, D, e
  <2> QED
    BY <2>1, <2>2, <2>3, <2>4, ShiftByteLinear
<1>9. \A n \in 1 .. M : n \notin {a, a + 1} => e[n] = {}
  BY DEF SymDiff
<1>10. e[m] # {}
  BY DEF SymDiff
<1> HIDE DEF M, D, e
<1>11. PICK b \in 1 .. M : b \in {a, a + 1} /\ e[b] # {} /\ \A n \in 1 .. M : n > b => e[n] = {}
  <2>1. CASE a + 1 \in 1 .. M /\ e[a + 1] # {}
    <3>1. \A n \in 1 .. M : n > a + 1 => n \notin {a, a + 1}
      BY <1>4
    <3> QED
      BY <1>9, <2>1, <3>1
  <2>2. CASE ~(a + 1 \in 1 .. M /\ e[a + 1] # {})
    <3>1. m = a
      BY <1>4, <1>10, <2>2
    <3>2. \A n \in 1 .. M : n > a /\ n # a + 1 => n \notin {a, a + 1}
      BY <1>4
    <3> QED
      BY <1>4, <1>9, <1>10, <2>2, <3>1, <3>2
  <2> QED
    BY <2>1, <2>2
(* After the last byte that differs nothing is left of the difference,     *)
<1>12. D[b] = {}
  <2> DEFINE S == {k \in 0 .. M - b : D[M - k] = {}}
  <2>1. 0 \in S
    BY <1>4, <1>5
  <2>2. ASSUME NEW k \in 0 .. (M - b) - 1, k \in S PROVE k + 1 \in S
    <3> DEFINE n == M - k
    <3>1. n \in 1 .. M /\ n > b /\ n - 1 = M - (k + 1) /\ n - 1 \in 0 .. M /\ D[n] = {}
          /\ k + 1 \in 0 .. M - b
      BY <1>4, <2>2
    <3> HIDE DEF n
    <3>2. e[n] = {} /\ D[n - 1] \in Crc
      BY <1>6, <1>11, <3>1
    <3>3. SymDiff(D[n - 1], e[n]) = D[n - 1]
      BY <3>2 DEF SymDiff
    <3>4. D[n - 1] = {}
      BY <1>8, <3>1, <3>2, <3>3, ShiftByteNothing
    <3> QED
      BY <3>1, <3>4
  <2>3. 0 .. M - b \subseteq S
    <3>1. M - b \in Nat
      BY <1>4
    <3> HIDE DEF S
    <3> QED
      BY <2>1, <2>2, <3>1, UpTo, Zenon
  <2>4. M - b \in 0 .. M - b /\ M - (M - b) = b
    BY <1>4
  <2> QED
    BY <2>3, <2>4
(* so that before it the difference is that byte's.                        *)
<1>13. D[b - 1] = e[b]
  <2>1. b - 1 \in 0 .. M /\ D[b - 1] \in Crc /\ e[b] \in Crc
    <3>1. b - 1 \in 0 .. M
      BY <1>4
    <3>2. D[b - 1] \in Crc
      BY <1>6, <3>1, Zenon
    <3>3. e[b] \in SUBSET (0 .. 7)
      BY <1>7, Zenon
    <3>4. 0 .. 7 \subseteq 0 .. 15
      OBVIOUS
    <3>5. e[b] \in Crc
      BY <3>3, <3>4, Zenon DEF Crc
    <3> QED
      BY <3>1, <3>2, <3>5, Zenon
  <2>2. SymDiff(D[b - 1], e[b]) = {}
    BY <1>8, <1>12, <2>1, ShiftByteLinear, ShiftByteNothing
  <2> QED
    BY <2>2 DEF SymDiff
<1>14. D[a - 1] = {}
  <2> DEFINE S == {k \in 0 .. a - 1 : D[k] = {}}
  <2>1. 0 \in S
    BY <1>4, <1>5
  <2>2. ASSUME NEW k \in 0 .. (a - 1) - 1, k \in S PROVE k + 1 \in S
    <3>1. k + 1 \in 1 .. M /\ (k + 1) - 1 = k /\ k + 1 \in 0 .. a - 1
          /\ k + 1 \notin {a, a + 1} /\ D[k] = {}
      BY <1>4, <2>2
    <3>2. e[k + 1] = {}
      BY <1>9, <3>1
    <3>3. SymDiff({}, {}) = {} /\ {} \in Crc
      BY DEF SymDiff, Crc
    <3>4. D[k + 1] = ShiftByte(SymDiff(D[k], e[k + 1]))
      BY <1>8, <3>1
    <3>5. D[k + 1] = {}
      BY <3>1, <3>2, <3>3, <3>4, ShiftByteNothing
    <3> QED
      BY <3>1, <3>5
  <2>3. 0 .. a - 1 \subseteq S
    <3>1. a - 1 \in Nat
      BY <1>4
    <3> HIDE DEF S
    <3> QED
      BY <2>1, <2>2, <3>1, UpTo, Zenon
  <2> QED
    BY <1>4, <2>3
<1>15. b = a + 1
  BY <1>11, <1>13, <1>14
<1>16. D[a] = ShiftByte(e[a])
  <2>1. SymDiff({}, e[a]) = e[a]
    BY DEF SymDiff
  <2> QED
    BY <1>4, <1>8, <1>14, <2>1
<1>17. D[a] = e[b] /\ e[b] # {} /\ e[b] \subseteq 0 .. 7 /\ e[a] \in SUBSET (0 .. 7)
  BY <1>4, <1>7, <1>11, <1>13, <1>15
<1>18. CASE e[a] = {}
  <2>1. {} \in Crc
    BY DEF Crc
  <2> QED
    BY <1>16, <1>17, <1>18, <2>1, ShiftByteNothing
<1>19. CASE e[a] # {}
  BY <1>16, <1>17, <1>19, ShiftByteHigh
<1> QED
  BY <1>18, <1>19

-----------------------------------------------------------------------------
(* Bytes one after the other                                               *)

(* A number of sixteen bits in two bytes, high byte first, is read back.   *)
LEMMA U16Bytes ==
    ASSUME NEW n \in Nat, n < 65536
    PROVE  /\ U16(n) \in Bytes /\ Len(U16(n)) = 2
           /\ U16(n)[1] * 256 + U16(n)[2] = n
<1> DEFINE h == n \div 256
           l == n % 256
<1>1. h \in 0 .. 255
  OBVIOUS
<1>2. l \in 0 .. 255
  OBVIOUS
<1>3. n = 256 * h + l
  OBVIOUS
<1>4. U16(n) = <<h, l>>
  BY DEF U16
<1> HIDE DEF h, l
<1>5. h * 256 + l = n
  BY <1>1, <1>2, <1>3
<1>6. h \in Octet /\ l \in Octet
  BY <1>1, <1>2 DEF Octet
<1>7. <<h, l>> \in Bytes
  BY <1>6 DEF Bytes
<1> QED
  BY <1>4, <1>5, <1>7

(* The bytes b stand in w after the first at of them.                      *)
Stands(w, at, b) ==
    /\ w \in Bytes /\ b \in Bytes /\ at \in Nat /\ at + Len(b) <= Len(w)
    /\ \A n \in 1 .. Len(b) : w[at + n] = b[n]

(* Bytes and their concatenation.                                          *)
Follows(c, a, b) == a \in Bytes /\ b \in Bytes /\ c = a \o b

Joins(c, a, b) ==
    /\ c \in Bytes /\ Len(a) \in Nat /\ Len(b) \in Nat
    /\ Len(c) = Len(a) + Len(b)
    /\ Stands(c, 0, a) /\ Stands(c, Len(a), b)

(* Both parts stand in a concatenation.                                    *)
LEMMA FollowsFacts ==
    ASSUME NEW c, NEW a, NEW b, Follows(c, a, b)
    PROVE  Joins(c, a, b)
<1>1. a \in Bytes /\ b \in Bytes /\ c = a \o b
  BY Zenon DEF Follows
<1>2. c \in Bytes /\ Len(a) \in Nat /\ Len(b) \in Nat /\ Len(c) = Len(a) + Len(b)
  BY <1>1, Joined, Zenon
<1>3. (\A n \in 1 .. Len(a) : c[n] = a[n]) /\ (\A n \in 1 .. Len(b) : c[Len(a) + n] = b[n])
  BY <1>1, JoinedItems, Zenon
<1> DEFINE k == Len(a)
           m == Len(b)
           l == Len(c)
<1>4. k \in Nat /\ m \in Nat /\ l = k + m
  BY <1>2
<1> HIDE DEF k, m, l
<1>5. 0 \in Nat /\ 0 + k <= l /\ k + m <= l
  BY <1>4
<1>6. \A n \in 1 .. k : c[0 + n] = a[n]
  <2>1. \A n \in 1 .. k : c[n] = a[n]
    BY <1>3 DEF k
  <2>2. \A n \in 1 .. k : 0 + n = n
    BY <1>4
  <2> QED
    BY <2>1, <2>2
<1>7. Stands(c, 0, a)
  BY <1>1, <1>2, <1>5, <1>6, Zenon DEF Stands, k, l
<1>8. Stands(c, k, b)
  BY <1>1, <1>2, <1>3, <1>4, <1>5, Zenon DEF Stands, k, m, l
<1> QED
  BY <1>2, <1>7, <1>8, Zenon DEF k, Joins

(* What stands in a part stands in the whole.                              *)
LEMMA StandsWithin ==
    ASSUME NEW w, NEW v, NEW b, NEW at, NEW k, Stands(w, at, v), Stands(v, k, b)
    PROVE  Stands(w, at + k, b)
<1>1. /\ w \in Bytes /\ b \in Bytes /\ v \in Bytes /\ at \in Nat /\ k \in Nat
      /\ at + Len(v) <= Len(w) /\ k + Len(b) <= Len(v)
      /\ \A n \in 1 .. Len(v) : w[at + n] = v[n]
      /\ \A n \in 1 .. Len(b) : v[k + n] = b[n]
  BY Zenon DEF Stands
<1>2. Len(w) \in Nat /\ Len(v) \in Nat /\ Len(b) \in Nat
  BY <1>1 DEF Bytes
<1> DEFINE x == Len(w)
           y == Len(v)
           z == Len(b)
<1>3. /\ x \in Nat /\ y \in Nat /\ z \in Nat /\ at \in Nat /\ k \in Nat
      /\ at + y <= x /\ k + z <= y
  BY <1>1, <1>2, Zenon
<1> HIDE DEF x, y, z
<1>4. at + k \in Nat /\ (at + k) + z <= x
  BY <1>3
<1>5. ASSUME NEW n \in 1 .. z PROVE w[(at + k) + n] = b[n]
  <2>1. k + n \in 1 .. y /\ at + (k + n) = (at + k) + n
    BY <1>3
  <2>2. w[at + (k + n)] = v[k + n]
    BY <1>1, <2>1, Zenon DEF y
  <2>3. v[k + n] = b[n]
    BY <1>1, <1>5, Zenon DEF z
  <2> QED
    BY <2>1, <2>2, <2>3, Zenon
<1> QED
  BY <1>1, <1>4, <1>5, Zenon DEF Stands, x, z

(* What stands in the first part of a concatenation stands in it.          *)
LEMMA StandsBefore ==
    ASSUME NEW c, NEW a, NEW b, NEW x, NEW at, Follows(c, a, b), Stands(a, at, x)
    PROVE  Stands(c, at, x)
<1>1. Stands(c, 0, a)
  BY FollowsFacts, Zenon DEF Joins
<1>2. Stands(c, 0 + at, x)
  BY <1>1, StandsWithin, Zenon
<1>3. 0 + at = at
  BY DEF Stands
<1> QED
  BY <1>2, <1>3, Zenon

(* Bytes stand in themselves.                                              *)
LEMMA StandsItself ==
    ASSUME NEW w \in Bytes
    PROVE  Stands(w, 0, w)
<1>1. Len(w) \in Nat
  BY DEF Bytes
<1>2. 0 \in Nat /\ 0 + Len(w) <= Len(w) /\ \A n \in 1 .. Len(w) : 0 + n = n
  BY <1>1
<1>3. \A n \in 1 .. Len(w) : w[0 + n] = w[n]
  BY <1>2
<1> QED
  BY <1>2, <1>3, Zenon DEF Stands

(* A number is read where its two bytes stand.                             *)
LEMMA StandsNumber ==
    ASSUME NEW n \in Nat, n < 65536, NEW w, NEW at, Stands(w, at, U16(n))
    PROVE  FromU16(w, at + 1) = n
<1>1. Len(U16(n)) = 2 /\ U16(n)[1] * 256 + U16(n)[2] = n
  BY U16Bytes
<1> DEFINE b == U16(n)
<1>2. at \in Nat /\ \A k \in 1 .. 2 : w[at + k] = b[k]
  <2> HIDE DEF b
  <2> QED
    BY <1>1 DEF Stands, b
<1>3. w[at + 1] = b[1] /\ w[at + 2] = b[2]
  <2> HIDE DEF b
  <2> QED
    BY <1>2
<1>4. (at + 1) + 1 = at + 2
  BY <1>2
<1> QED
  BY <1>1, <1>3, <1>4 DEF FromU16

(* Bytes are cut out where they stand.                                     *)
LEMMA StandsSlice ==
    ASSUME NEW w, NEW at, NEW b, Stands(w, at, b)
    PROVE  SubSeq(w, at + 1, at + Len(b)) = b
<1>1. /\ w \in Seq(Octet) /\ b \in Seq(Octet) /\ at \in Nat /\ at + Len(b) <= Len(w)
      /\ \A n \in 1 .. Len(b) : w[at + n] = b[n]
  BY DEF Stands, Bytes
<1> DEFINE k == Len(b)
           l == Len(w)
           v == SubSeq(w, at + 1, at + k)
<1>2. k \in Nat /\ l \in Nat /\ at + k <= l
  BY <1>1
<1>3. b = [n \in 1 .. k |-> b[n]]
  BY <1>1
<1>4. v = [n \in 1 .. k |-> w[at + n]]
  <2>1. v = [n \in 1 .. ((at + k) - (at + 1) + 1) |-> w[(at + 1) + n - 1]]
    BY <1>1, <1>2
  <2>2. (at + k) - (at + 1) + 1 = k /\ \A n \in 1 .. k : (at + 1) + n - 1 = at + n
    <3> HIDE DEF k, v
    <3> QED
      BY <1>1, <1>2
  <2> HIDE DEF k, v
  <2> QED
    BY <2>1, <2>2
<1> HIDE DEF v, k
<1>5. \A n \in 1 .. k : w[at + n] = b[n]
  BY <1>1 DEF k
<1>6. v = b
  BY <1>3, <1>4, <1>5
<1> QED
  BY <1>6 DEF v, k

(* Three pieces of bytes one after the other, and where they stand.        *)
Three(w, c1, c2, c3) ==
    /\ c1 \in Bytes /\ c2 \in Bytes /\ c3 \in Bytes
    /\ w = c1 \o c2 \o c3

ThreeStand(w, c1, c2, c3) ==
    /\ w \in Bytes /\ Len(w) = Len(c1) + Len(c2) + Len(c3)
    /\ Stands(w, 0, c1) /\ Stands(w, Len(c1), c2) /\ Stands(w, Len(c1) + Len(c2), c3)

(* Where three pieces stand in what they make together.                    *)
LEMMA ThreePieces ==
    ASSUME NEW w, NEW c1, NEW c2, NEW c3, Three(w, c1, c2, c3)
    PROVE  ThreeStand(w, c1, c2, c3)
<1> DEFINE s == c1 \o c2
<1>1. Follows(s, c1, c2)
  BY Zenon DEF Three, Follows
<1>2. Joins(s, c1, c2)
  BY <1>1, FollowsFacts, Zenon
<1>3. Follows(w, s, c3)
  BY <1>2, Zenon DEF Three, Follows, Joins
<1> HIDE DEF s
<1>4. Joins(w, s, c3)
  BY <1>3, FollowsFacts, Zenon
<1>5. Stands(w, 0, c1) /\ Stands(w, Len(c1), c2)
  <2>1. Stands(s, 0, c1) /\ Stands(s, Len(c1), c2)
    BY <1>2, Zenon DEF Joins
  <2> QED
    BY <1>3, <2>1, StandsBefore, Zenon
<1>6. Len(s) = Len(c1) + Len(c2)
  BY <1>2, Zenon DEF Joins
<1>7. w \in Bytes /\ Len(w) = Len(s) + Len(c3) /\ Stands(w, Len(s), c3)
  BY <1>4, Zenon DEF Joins
<1> QED
  BY <1>5, <1>6, <1>7, Zenon DEF ThreeStand

(* Sequences one after the other.                                          *)
FlattenRun(f, N, seqs) ==
    /\ f[0] = << >> /\ \A n \in 1 .. N : f[n] = f[n - 1] \o seqs[n]
    /\ FlattenSeq(seqs) = f[N]

(* Concatenating one sequence after the other ends in what FlattenSeq      *)
(* gives.                                                                  *)
LEMMA FlattenRuns ==
    ASSUME NEW S, NEW seqs \in Seq(Seq(S))
    PROVE  \E f \in [0 .. Len(seqs) -> Seq(S)] : FlattenRun(f, Len(seqs), seqs)
<1> DEFINE N == Len(seqs)
           F == [x \in Seq(S) \X (1 .. N) |-> x[1] \o seqs[x[2]]]
           Def(g) == g = [i \in 1 .. N |-> IF i = 1 THEN seqs[i] ELSE g[i - 1] \o seqs[i]]
           flatten == CHOOSE g : Def(g)
<1>0. N \in Nat /\ \A n \in 1 .. N : seqs[n] \in Seq(S)
  OBVIOUS
<1>1. PICK f \in [0 .. N -> Seq(S)] : Recurs(f, N, << >>, F)
  <2>1. << >> \in Seq(S) /\ F \in [Seq(S) \X (1 .. N) -> Seq(S)]
    BY <1>0
  <2> HIDE DEF F, N
  <2> QED
    BY <1>0, <2>1, Recursion, Zenon
<1>2. f[0] = << >> /\ \A n \in 1 .. N : f[n] = f[n - 1] \o seqs[n]
  <2>1. f[0] = << >>
    BY <1>0, <1>1 DEF Recurs
  <2>2. ASSUME NEW n \in 1 .. N PROVE f[n] = f[n - 1] \o seqs[n]
    <3>1. n \in 0 .. N /\ n # 0 /\ n - 1 \in 0 .. N
      BY <1>0
    <3>2. f[n] = F[<<f[n - 1], n>>] /\ f[n - 1] \in Seq(S)
      BY <1>1, <3>1 DEF Recurs
    <3> QED
      BY <3>2
  <2> QED
    BY <2>1, <2>2
<1>3. CASE N = 0
  <2>1. FlattenSeq(seqs) = << >>
    BY <1>3 DEF FlattenSeq
  <2> QED
    BY <1>2, <1>3, <2>1 DEF FlattenRun
<1>4. CASE N # 0
  <2> DEFINE g == [i \in 1 .. N |-> f[i]]
  <2>1. Def(g)
    <3>1. f[1] = seqs[1]
      <4>1. 1 \in 1 .. N /\ 1 - 1 = 0 /\ seqs[1] \in Seq(S)
        BY <1>0, <1>4
      <4>2. f[1] = << >> \o seqs[1]
        BY <1>2, <4>1
      <4> QED
        BY <4>1, <4>2
    <3>2. ASSUME NEW i \in 1 .. N
          PROVE  g[i] = IF i = 1 THEN seqs[i] ELSE g[i - 1] \o seqs[i]
      <4>1. g[i] = f[i] /\ f[i] = f[i - 1] \o seqs[i]
        BY <1>2
      <4>2. ASSUME i # 1 PROVE i - 1 \in 1 .. N /\ g[i - 1] = f[i - 1]
        BY <1>0, <4>2
      <4> HIDE DEF g
      <4> QED
        BY <3>1, <4>1, <4>2
    <3> QED
      BY <3>2
  <2>2. Def(flatten)
    <3> HIDE DEF Def, g
    <3> QED
      BY <2>1
  <2>3. FlattenSeq(seqs) = flatten[N]
    BY <1>4 DEF FlattenSeq
  <2> DEFINE T == {n \in 0 .. N : n = 0 \/ flatten[n] = f[n]}
  <2> HIDE DEF flatten
  <2>4. 0 \in T
    BY <1>0
  <2>5. ASSUME NEW n \in 0 .. N - 1, n \in T PROVE n + 1 \in T
    <3> DEFINE m == n + 1
    <3>1. m \in 1 .. N /\ m \in 0 .. N /\ m - 1 = n
      BY <1>0
    <3> HIDE DEF m
    <3>2. flatten[m] = IF m = 1 THEN seqs[m] ELSE flatten[n] \o seqs[m]
      BY <2>2, <3>1
    <3>3. f[m] = f[n] \o seqs[m] /\ seqs[m] \in Seq(S)
      BY <1>0, <1>2, <3>1
    <3>4. flatten[m] = f[m]
      <4>1. CASE n = 0
        <5>1. f[n] = << >> /\ m = 1
          BY <1>2, <4>1 DEF m
        <5>2. << >> \o seqs[m] = seqs[m]
          BY <3>3
        <5> QED
          BY <3>2, <3>3, <5>1, <5>2
      <4>2. CASE n # 0
        <5>1. m # 1 /\ flatten[n] = f[n]
          BY <2>5, <4>2 DEF m
        <5> QED
          BY <3>2, <3>3, <5>1
      <4> QED
        BY <4>1, <4>2
    <3> QED
      BY <3>1, <3>4 DEF m
  <2>6. 0 .. N \subseteq T
    <3> HIDE DEF T, N
    <3> QED
      BY <1>0, <2>4, <2>5, UpTo, Zenon
  <2>7. flatten[N] = f[N]
    BY <1>0, <1>4, <2>6
  <2> QED
    BY <1>2, <2>3, <2>7 DEF FlattenRun
<1> QED
  BY <1>3, <1>4

(* Pieces that are laid one after the other, at the given places.          *)
Laid(seqs, place) ==
    /\ seqs \in Seq(Bytes)
    /\ place \in [0 .. Len(seqs) -> Nat] /\ place[0] = 0
    /\ \A n \in 1 .. Len(seqs) : place[n] = place[n - 1] + Len(seqs[n])

LaidUp(w, n, seqs, place) ==
    /\ w \in Bytes /\ Len(w) = place[n]
    /\ \A i \in 1 .. n : Stands(w, place[i - 1], seqs[i])

(* FlattenSeq leaves each piece at its place.                              *)
LEMMA FlattenLaid ==
    ASSUME NEW seqs, NEW place, Laid(seqs, place)
    PROVE  LaidUp(FlattenSeq(seqs), Len(seqs), seqs, place)
<1> DEFINE N == Len(seqs)
<1>0. /\ N \in Nat /\ seqs \in Seq(Seq(Octet)) /\ \A n \in 1 .. N : seqs[n] \in Bytes
      /\ place \in [0 .. N -> Nat] /\ place[0] = 0
      /\ \A n \in 1 .. N : place[n] = place[n - 1] + Len(seqs[n])
  <2>1. seqs \in Seq(Bytes)
    BY Zenon DEF Laid
  <2>2. N \in Nat /\ seqs \in Seq(Seq(Octet)) /\ \A n \in 1 .. N : seqs[n] \in Bytes
    BY <2>1 DEF Bytes
  <2> QED
    BY <2>2, Zenon DEF Laid
<1>1. PICK f \in [0 .. N -> Seq(Octet)] : FlattenRun(f, N, seqs)
  BY <1>0, FlattenRuns
<1>2. f[0] = << >> /\ (\A n \in 1 .. N : f[n] = f[n - 1] \o seqs[n]) /\ FlattenSeq(seqs) = f[N]
  BY <1>1 DEF FlattenRun
<1> HIDE DEF N
<1>3. \A n \in 0 .. N : f[n] \in Bytes
  BY <1>1 DEF Bytes
<1> DEFINE T == {n \in 0 .. N : LaidUp(f[n], n, seqs, place)}
<1>4. 0 \in T
  <2>1. f[0] \in Bytes /\ Len(f[0]) = place[0] /\ 1 .. 0 = {} /\ 0 \in 0 .. N
    BY <1>0, <1>2, <1>3
  <2>2. \A i \in 1 .. 0 : Stands(f[0], place[i - 1], seqs[i])
    BY <2>1
  <2> QED
    BY <2>1, <2>2, Zenon DEF LaidUp
<1>5. ASSUME NEW n \in 0 .. N - 1, n \in T PROVE n + 1 \in T
  <2> DEFINE m == n + 1
  <2>1. m \in 1 .. N /\ m \in 0 .. N /\ n \in 0 .. N /\ m - 1 = n
    BY <1>0
  <2>2. \A i \in 1 .. m : i \in 1 .. n \/ i = m
    BY <2>1
  <2> HIDE DEF m
  <2>3. LaidUp(f[n], n, seqs, place)
    BY <1>5
  <2> DEFINE a == f[n]
             b == seqs[m]
             c == f[m]
  <2>4. Follows(c, a, b)
    BY <1>0, <1>2, <1>3, <2>1 DEF Follows
  <2>5. place[m] = place[n] + Len(b)
    BY <1>0, <2>1
  <2> HIDE DEF a, b, c
  <2>6. Joins(c, a, b)
    BY <2>4, FollowsFacts, Zenon
  <2>7. Len(a) = place[n] /\ \A i \in 1 .. n : Stands(a, place[i - 1], seqs[i])
    BY <2>3, Zenon DEF LaidUp, a
  <2>8. c \in Bytes /\ Len(c) = place[m]
    <3>1. c \in Bytes /\ Len(c) = Len(a) + Len(b)
      BY <2>6, Zenon DEF Joins
    <3> QED
      BY <2>5, <2>7, <3>1, Zenon
  <2>9. ASSUME NEW i \in 1 .. m PROVE Stands(c, place[i - 1], seqs[i])
    <3>1. CASE i \in 1 .. n
      BY <2>4, <2>7, <3>1, StandsBefore, Zenon
    <3>2. CASE i = m
      <4>1. Stands(c, Len(a), b)
        BY <2>6, Zenon DEF Joins
      <4> QED
        BY <2>1, <2>7, <3>2, <4>1, Zenon DEF b
    <3> QED
      BY <2>2, <3>1, <3>2, Zenon
  <2>10. LaidUp(c, m, seqs, place)
    BY <2>8, <2>9, Zenon DEF LaidUp
  <2>11. m \in T
    BY <2>1, <2>10, Zenon DEF c
  <2> QED
    BY <2>11 DEF m
<1>6. 0 .. N \subseteq T
  <2> HIDE DEF T
  <2> QED
    BY <1>0, <1>4, <1>5, UpTo, Zenon
<1>7. LaidUp(f[N], N, seqs, place)
  <2>1. N \in 0 .. N
    BY <1>0
  <2> QED
    BY <1>6, <2>1
<1> QED
  BY <1>2, <1>7, Zenon DEF N

-----------------------------------------------------------------------------

-----------------------------------------------------------------------------
(* The bytes of a batch request                                            *)

(* Addresses and counts fit two bytes.                                     *)
SixteenBits == Space <= 65536

(* The ranges of a batch, as BatchItem can hold them.                      *)
Items == [start_address : 0 .. Space - 1, count : 0 .. Space - 1,
          type : Types, byte_order : ByteOrders]

(* The bytes of a batch request                                            *)

(* The code of a type is a byte that gives it back.                        *)
LEMMA TypeRead ==
    ASSUME NEW x \in Types
    PROVE  types[Code(types, x) + 1] = x /\ Code(types, x) \in Octet
<1> DEFINE i == CHOOSE k \in DOMAIN types : types[k] = x
<1>1. DOMAIN types = 1 .. 7
  BY DEF types
<1>2. \E k \in DOMAIN types : types[k] = x
  <2>1. /\ types[1] = "UInt16" /\ types[2] = "Int16" /\ types[3] = "UInt32"
        /\ types[4] = "Int32" /\ types[5] = "Float32" /\ types[6] = "Float64"
        /\ types[7] = "String"
    BY DEF types
  <2> QED
    BY <1>1, <2>1 DEF Types
<1>3. i \in 1 .. 7 /\ types[i] = x
  BY <1>1, <1>2
<1> HIDE DEF i
<1>4. Code(types, x) = i - 1
  BY Zenon DEF Code, i
<1>5. (i - 1) + 1 = i /\ i - 1 \in 0 .. 255
  BY <1>3
<1> QED
  BY <1>3, <1>4, <1>5 DEF Octet

(* The code of a byte order is a byte that gives it back.                  *)
LEMMA OrderRead ==
    ASSUME NEW x \in ByteOrders
    PROVE  orders[Code(orders, x) + 1] = x /\ Code(orders, x) \in Octet
<1> DEFINE i == CHOOSE k \in DOMAIN orders : orders[k] = x
<1>1. DOMAIN orders = 1 .. 4
  BY DEF orders
<1>2. \E k \in DOMAIN orders : orders[k] = x
  <2>1. /\ orders[1] = "ABCD" /\ orders[2] = "DCBA" /\ orders[3] = "BADC"
        /\ orders[4] = "CDAB"
    BY DEF orders
  <2> QED
    BY <1>1, <2>1 DEF ByteOrders
<1>3. i \in 1 .. 4 /\ orders[i] = x
  BY <1>1, <1>2
<1> HIDE DEF i
<1>4. Code(orders, x) = i - 1
  BY Zenon DEF Code, i
<1>5. (i - 1) + 1 = i /\ i - 1 \in 0 .. 255
  BY <1>3
<1> QED
  BY <1>3, <1>4, <1>5 DEF Octet

(* The six bytes of an item.                                               *)
ItemCode(x) ==
    U16(x.start_address) \o U16(x.count)
    \o <<Code(types, x.type), Code(orders, x.byte_order)>>

(* An item has fields of sixteen bits.                                     *)
LEMMA ItemFields ==
    ASSUME SixteenBits, NEW x \in Items
    PROVE  /\ x.start_address \in Nat /\ x.start_address < 65536
           /\ x.count \in Nat /\ x.count < 65536
           /\ x.type \in Types /\ x.byte_order \in ByteOrders
<1>1. x.start_address \in 0 .. Space - 1 /\ x.count \in 0 .. Space - 1
      /\ x.type \in Types /\ x.byte_order \in ByteOrders
  BY DEF Items
<1>2. \A n \in 0 .. Space - 1 : n \in Nat /\ n < 65536
  BY BaseAssumption DEF SixteenBits
<1> QED
  BY <1>1, <1>2

(* Two bytes.                                                              *)
LEMMA TwoBytes ==
    ASSUME NEW a \in Octet, NEW b \in Octet
    PROVE  <<a, b>> \in Bytes /\ Len(<<a, b>>) = 2 /\ <<a, b>>[1] = a /\ <<a, b>>[2] = b
  BY DEF Bytes

(* Where the two numbers and the two codes of an item stand.               *)
LEMMA ItemStands ==
    ASSUME SixteenBits, NEW x \in Items
    PROVE  /\ ItemCode(x) \in Bytes /\ Len(ItemCode(x)) = 6
           /\ Stands(ItemCode(x), 0, U16(x.start_address))
           /\ Stands(ItemCode(x), 2, U16(x.count))
           /\ Stands(ItemCode(x), 4, <<Code(types, x.type), Code(orders, x.byte_order)>>)
<1> DEFINE a == U16(x.start_address)
           b == U16(x.count)
           c == <<Code(types, x.type), Code(orders, x.byte_order)>>
           w == ItemCode(x)
<1>1. a \in Bytes /\ Len(a) = 2 /\ b \in Bytes /\ Len(b) = 2
  BY ItemFields, U16Bytes
<1>2. c \in Bytes /\ Len(c) = 2
  BY ItemFields, TypeRead, OrderRead, TwoBytes
<1>3. w = a \o b \o c
  BY Zenon DEF ItemCode
<1> HIDE DEF a, b, c, w
<1>4. Three(w, a, b, c)
  BY <1>1, <1>2, <1>3, Zenon DEF Three
<1>5. ThreeStand(w, a, b, c)
  BY <1>4, ThreePieces, Zenon
<1>6. w \in Bytes /\ Len(w) = Len(a) + Len(b) + Len(c)
      /\ Stands(w, 0, a) /\ Stands(w, Len(a), b) /\ Stands(w, Len(a) + Len(b), c)
  BY <1>5, Zenon DEF ThreeStand
<1> DEFINE p == Len(a)
           q == Len(b)
           r == Len(c)
<1>7. p = 2 /\ q = 2 /\ r = 2
  BY <1>1, <1>2
<1> HIDE DEF p, q, r
<1>8. p + q + r = 6 /\ p + q = 4
  BY <1>7
<1>9. Len(w) = p + q + r /\ Stands(w, p, b) /\ Stands(w, p + q, c)
  BY <1>6, Zenon DEF p, q, r
<1>10. w \in Bytes /\ Len(w) = 6 /\ Stands(w, 0, a) /\ Stands(w, 2, b) /\ Stands(w, 4, c)
  <2>1. Len(w) = 6
    BY <1>8, <1>9, Zenon
  <2>2. Stands(w, 2, b)
    BY <1>7, <1>9, Zenon
  <2>3. Stands(w, 4, c)
    BY <1>8, <1>9, Zenon
  <2> QED
    BY <1>6, <2>1, <2>2, <2>3, Zenon
<1> QED
  BY <1>10, Zenon DEF a, b, c, w

(* An item is read back wherever its six bytes stand.                      *)
LEMMA ItemRead ==
    ASSUME SixteenBits, NEW x \in Items, NEW w, NEW at, Stands(w, at, ItemCode(x))
    PROVE  Item(FromU16(w, at + 1), FromU16(w, at + 3),
                types[w[at + 5] + 1], orders[w[at + 6] + 1]) = x
<1> DEFINE v == ItemCode(x)
           a == x.start_address
           b == x.count
           s == Code(types, x.type)
           t == Code(orders, x.byte_order)
           c == <<s, t>>
<1>1. /\ a \in Nat /\ a < 65536 /\ b \in Nat /\ b < 65536
      /\ x.type \in Types /\ x.byte_order \in ByteOrders
  BY ItemFields
<1>2. Len(c) = 2 /\ c[1] = s /\ c[2] = t
  OBVIOUS
<1>3. Stands(v, 0, U16(a)) /\ Stands(v, 2, U16(b)) /\ Stands(v, 4, c)
  BY ItemStands
<1>4. at \in Nat
  BY DEF Stands
<1> HIDE DEF v, c
<1>5. Stands(w, at, v)
  BY DEF v
<1>6. Stands(w, at + 0, U16(a)) /\ Stands(w, at + 2, U16(b)) /\ Stands(w, at + 4, c)
  BY <1>3, <1>5, StandsWithin
<1>7. FromU16(w, at + 1) = a
  <2>1. FromU16(w, (at + 0) + 1) = a
    BY <1>1, <1>6, StandsNumber
  <2> QED
    BY <1>4, <2>1
<1>8. FromU16(w, at + 3) = b
  <2>1. FromU16(w, (at + 2) + 1) = b
    BY <1>1, <1>6, StandsNumber
  <2>2. (at + 2) + 1 = at + 3
    BY <1>4
  <2> QED
    BY <2>1, <2>2
<1>9. w[at + 5] = s /\ w[at + 6] = t
  <2>1. \A n \in 1 .. Len(c) : w[(at + 4) + n] = c[n]
    BY <1>6, Zenon DEF Stands
  <2>2. (at + 4) + 1 = at + 5 /\ (at + 4) + 2 = at + 6 /\ 1 \in 1 .. Len(c) /\ 2 \in 1 .. Len(c)
    BY <1>2, <1>4
  <2> QED
    BY <1>2, <2>1, <2>2
<1>10. types[s + 1] = x.type /\ orders[t + 1] = x.byte_order
  BY <1>1, TypeRead, OrderRead
<1> HIDE DEF s, t
<1>11. Item(a, b, x.type, x.byte_order) = x
  BY DEF Items, Item
<1> QED
  BY <1>7, <1>8, <1>9, <1>10, <1>11

(* A batch whose frame has room for it.                                    *)
ShortBatch(items) == items \in Seq(Items) /\ Len(items) < 8192

(* What BatchRequest::serialize makes of items.                            *)
RequestHolds(data, items) ==
    /\ data \in Bytes /\ Len(data) = 2 + 6 * Len(items)
    /\ FromU16(data, 1) = Len(items)
    /\ \A i \in 1 .. Len(items) : Stands(data, 2 + 6 * (i - 1), ItemCode(items[i]))

(* BatchRequest::serialize: the number of items, then six bytes for each,  *)
(* in their order.                                                         *)
LEMMA RequestPlaces ==
    ASSUME SixteenBits, NEW items, ShortBatch(items)
    PROVE  RequestHolds(SerializeRequest(items), items)
<1> DEFINE N == Len(items)
           seqs == [i \in 1 .. N |-> ItemCode(items[i])]
           place == [i \in 0 .. N |-> 6 * i]
           head == U16(N % 65536)
           all == FlattenSeq(seqs)
           data == SerializeRequest(items)
<1>1. N \in Nat /\ N < 65536 /\ DOMAIN items = 1 .. N /\ \A i \in 1 .. N : items[i] \in Items
  <2>1. items \in Seq(Items) /\ N < 8192
    BY DEF ShortBatch
  <2>2. N \in Nat /\ DOMAIN items = 1 .. N /\ \A i \in 1 .. N : items[i] \in Items
    BY <2>1
  <2> HIDE DEF N
  <2> QED
    BY <2>1, <2>2
<1>2. data = head \o all
  BY <1>1 DEF SerializeRequest, ItemCode
<1> HIDE DEF N, data
<1>3. N % 65536 = N
  BY <1>1
<1>4. head = U16(N) /\ head \in Bytes /\ Len(head) = 2
  BY <1>1, <1>3, U16Bytes
<1>5. \A i \in 1 .. N : ItemCode(items[i]) \in Bytes /\ Len(ItemCode(items[i])) = 6
  <2>1. ASSUME NEW x \in Items PROVE ItemCode(x) \in Bytes /\ Len(ItemCode(x)) = 6
    BY ItemStands, Zenon
  <2>2. \A i \in 1 .. N : items[i] \in Items
    BY <1>1
  <2> QED
    BY <2>1, <2>2, Zenon
<1>6. seqs \in Seq(Bytes) /\ Len(seqs) = N /\ \A i \in 1 .. N : seqs[i] = ItemCode(items[i])
  BY <1>1, <1>5
<1>7. place \in [0 .. N -> Nat] /\ \A i \in 0 .. N : place[i] = 6 * i
  <2>1. \A i \in 0 .. N : 6 * i \in Nat
    BY <1>1
  <2> QED
    BY <2>1
<1> HIDE DEF seqs, place, all, head
<1>8. place[0] = 0 /\ \A i \in 1 .. N : place[i - 1] = 6 * (i - 1) /\ place[i] = place[i - 1] + 6
  <2>1. 0 \in 0 .. N /\ 6 * 0 = 0
    BY <1>1
  <2>2. ASSUME NEW i \in 1 .. N
        PROVE  place[i - 1] = 6 * (i - 1) /\ place[i] = place[i - 1] + 6
    <3>1. i \in 0 .. N /\ i - 1 \in 0 .. N
      BY <1>1
    <3>2. place[i - 1] = 6 * (i - 1) /\ place[i] = 6 * i
      BY <1>7, <3>1
    <3> QED
      BY <3>2
  <2> QED
    BY <1>7, <2>1, <2>2
<1>9. Laid(seqs, place)
  BY <1>5, <1>6, <1>7, <1>8 DEF Laid
<1>10. LaidUp(all, N, seqs, place)
  BY <1>6, <1>9, FlattenLaid DEF all
<1>11. all \in Bytes /\ Len(all) = 6 * N
  <2>1. all \in Bytes /\ Len(all) = place[N]
    BY <1>10, Zenon DEF LaidUp
  <2>2. N \in 0 .. N
    BY <1>1
  <2> QED
    BY <1>7, <2>1, <2>2, Zenon
<1>12. Follows(data, head, all)
  BY <1>2, <1>4, <1>11, Zenon DEF Follows
<1>13. Joins(data, head, all)
  BY <1>12, FollowsFacts, Zenon
<1>14. data \in Bytes /\ Len(data) = 2 + 6 * N /\ Stands(data, 0, U16(N)) /\ Stands(data, 2, all)
  BY <1>4, <1>11, <1>13, Zenon DEF Joins
<1>15. FromU16(data, 1) = N
  <2>1. FromU16(data, 0 + 1) = N
    BY <1>1, <1>14, StandsNumber
  <2> QED
    BY <2>1
<1>16. ASSUME NEW i \in 1 .. N PROVE Stands(data, 2 + 6 * (i - 1), ItemCode(items[i]))
  <2>1. Stands(all, place[i - 1], seqs[i])
    BY <1>10, Zenon DEF LaidUp
  <2>2. Stands(data, 2 + place[i - 1], seqs[i])
    BY <1>14, <2>1, StandsWithin, Zenon
  <2> QED
    BY <1>6, <1>8, <2>2
<1> QED
  BY <1>14, <1>15, <1>16, Zenon DEF RequestHolds, N, data

(* BatchRequest::deserialize gives back every item that was serialized, in *)
(* order.                                                                  *)
THEOREM RequestRoundTrip ==
    ASSUME SixteenBits, NEW items, ShortBatch(items)
    PROVE  DeserializeRequest(SerializeRequest(items)) = <<items>>
<1> DEFINE data == SerializeRequest(items)
           N == Len(items)
           Read(i) == Item(FromU16(data, 6 * i - 3), FromU16(data, (6 * i - 3) + 2),
                           types[data[(6 * i - 3) + 4] + 1], orders[data[(6 * i - 3) + 5] + 1])
<1>1. /\ Len(data) = 2 + 6 * N /\ FromU16(data, 1) = N
      /\ \A i \in 1 .. N : Stands(data, 2 + 6 * (i - 1), ItemCode(items[i]))
  BY RequestPlaces, Zenon DEF RequestHolds
<1>2. items \in Seq(Items) /\ N \in Nat
  BY DEF ShortBatch
<1> HIDE DEF data, N
<1>3. DeserializeRequest(data) = <<[i \in 1 .. N |-> Read(i)]>>
  <2>1. ~(2 + 6 * N < 2) /\ 2 + 6 * N = 2 + N * 6 /\ ~(2 + N * 6 < 2 + N * 6)
    BY <1>2
  <2>2. ~(Len(data) < 2) /\ ~(Len(data) < 2 + FromU16(data, 1) * 6)
    BY <1>1, <2>1, Zenon
  <2> QED
    BY <1>1, <2>2, Zenon DEF DeserializeRequest
<1>4. ASSUME NEW i \in 1 .. N PROVE Read(i) = items[i]
  <2> DEFINE at == 2 + 6 * (i - 1)
  <2>1. /\ 6 * i - 3 = at + 1 /\ (6 * i - 3) + 2 = at + 3
        /\ (6 * i - 3) + 4 = at + 5 /\ (6 * i - 3) + 5 = at + 6
    BY <1>2
  <2>2. items[i] \in Items
    BY <1>2 DEF N
  <2>3. Stands(data, at, ItemCode(items[i]))
    BY <1>1, Zenon
  <2> HIDE DEF at
  <2>4. Item(FromU16(data, at + 1), FromU16(data, at + 3),
             types[data[at + 5] + 1], orders[data[at + 6] + 1]) = items[i]
    BY <2>2, <2>3, ItemRead, Zenon
  <2> QED
    BY <2>1, <2>4, Zenon
<1>5. items = [i \in 1 .. N |-> items[i]]
  BY <1>2 DEF N
<1>6. [i \in 1 .. N |-> Read(i)] = [i \in 1 .. N |-> items[i]]
  BY <1>4, Zenon
<1> QED
  BY <1>3, <1>5, <1>6, Zenon DEF data

-----------------------------------------------------------------------------
(* The bytes of a batch response                                           *)

(* A number that two bytes hold.                                           *)
Number == {n \in Nat : n < 65536}

(* A number is read back wherever its two bytes stand.                     *)
LEMMA NumberRead ==
    ASSUME NEW n \in Number
    PROVE  /\ U16(n) \in Bytes /\ Len(U16(n)) = 2
           /\ \A w, at : Stands(w, at, U16(n)) => FromU16(w, at + 1) = n
<1>1. n \in Nat /\ n < 65536
  BY DEF Number
<1>2. U16(n) \in Bytes /\ Len(U16(n)) = 2
  BY <1>1, U16Bytes
<1>3. ASSUME NEW w, NEW at, Stands(w, at, U16(n)) PROVE FromU16(w, at + 1) = n
  BY <1>1, <1>3, StandsNumber
<1> QED
  BY <1>2, <1>3

(* A result that its fields can hold.                                      *)
Results == [address : Number, status : Octet, registers : Seq(Number)]
Reply(r) == r \in Results /\ Len(r.registers) < 65536

(* The bytes of the registers of a result, and of the result.              *)
RegisterCode(regs) == FlattenSeq([j \in DOMAIN regs |-> U16(regs[j])])

ResultCode(r) ==
    U16(r.address) \o <<r.status % 256>>
    \o U16(Len(r.registers) % 65536) \o RegisterCode(r.registers)

(* Registers are read back wherever their bytes stand.                     *)
RegistersRead(c, regs) ==
    /\ c \in Bytes /\ Len(c) = 2 * Len(regs)
    /\ \A w, at : Stands(w, at, c) =>
          \A j \in 1 .. Len(regs) : FromU16(w, at + 2 * j - 1) = regs[j]

(* Two bytes each.                                                         *)
LEMMA RegisterCodeRead ==
    ASSUME NEW regs \in Seq(Number)
    PROVE  RegistersRead(RegisterCode(regs), regs)
<1> DEFINE N == Len(regs)
           seqs == [j \in 1 .. N |-> U16(regs[j])]
           place == [j \in 0 .. N |-> 2 * j]
           all == FlattenSeq(seqs)
<1>1. N \in Nat /\ DOMAIN regs = 1 .. N /\ \A j \in 1 .. N : regs[j] \in Number
  OBVIOUS
<1> HIDE DEF N
<1>2. RegisterCode(regs) = all
  BY <1>1 DEF RegisterCode
<1>3. \A j \in 1 .. N : U16(regs[j]) \in Bytes /\ Len(U16(regs[j])) = 2
  BY <1>1, NumberRead, Zenon
<1>4. seqs \in Seq(Bytes) /\ Len(seqs) = N /\ \A j \in 1 .. N : seqs[j] = U16(regs[j])
  BY <1>1, <1>3
<1>5. place \in [0 .. N -> Nat] /\ \A i \in 0 .. N : place[i] = 2 * i
  <2>1. \A i \in 0 .. N : 2 * i \in Nat
    BY <1>1
  <2> QED
    BY <2>1
<1> HIDE DEF seqs, place, all
<1>6. place[0] = 0 /\ \A i \in 1 .. N : place[i - 1] = 2 * (i - 1) /\ place[i] = place[i - 1] + 2
  <2>1. 0 \in 0 .. N /\ 2 * 0 = 0
    BY <1>1
  <2>2. ASSUME NEW i \in 1 .. N
        PROVE  place[i - 1] = 2 * (i - 1) /\ place[i] = place[i - 1] + 2
    <3>1. i \in 0 .. N /\ i - 1 \in 0 .. N
      BY <1>1
    <3>2. place[i - 1] = 2 * (i - 1) /\ place[i] = 2 * i
      BY <1>5, <3>1
    <3> QED
      BY <3>2
  <2> QED
    BY <1>5, <2>1, <2>2
<1>7. Laid(seqs, place)
  BY <1>3, <1>4, <1>5, <1>6 DEF Laid
<1>8. LaidUp(all, N, seqs, place)
  BY <1>4, <1>7, FlattenLaid DEF all
<1>9. all \in Bytes /\ Len(all) = 2 * N
  <2>1. all \in Bytes /\ Len(all) = place[N]
    BY <1>8, Zenon DEF LaidUp
  <2>2. N \in 0 .. N
    BY <1>1
  <2> QED
    BY <1>5, <2>1, <2>2, Zenon
<1>10. ASSUME NEW w, NEW at, Stands(w, at, all), NEW j \in 1 .. N
       PROVE  FromU16(w, at + 2 * j - 1) = regs[j]
  <2>1. Stands(all, place[j - 1], seqs[j])
    BY <1>8, Zenon DEF LaidUp
  <2>2. Stands(w, at + place[j - 1], seqs[j])
    BY <1>10, <2>1, StandsWithin, Zenon
  <2>3. FromU16(w, (at + place[j - 1]) + 1) = regs[j]
    <3>1. regs[j] \in Number /\ Stands(w, at + place[j - 1], U16(regs[j]))
      BY <1>1, <1>4, <2>2, Zenon
    <3> QED
      BY <3>1, NumberRead, Zenon
  <2>4. at \in Nat
    BY <1>10 DEF Stands
  <2>5. (at + place[j - 1]) + 1 = at + 2 * j - 1
    BY <1>6, <2>4
  <2> QED
    BY <2>3, <2>5, Zenon
<1> QED
  BY <1>2, <1>9, <1>10, Zenon DEF RegistersRead, N

(* One byte.                                                               *)
LEMMA OneByte ==
    ASSUME NEW a \in Octet
    PROVE  <<a>> \in Bytes /\ Len(<<a>>) = 1 /\ <<a>>[1] = a /\ a % 256 = a
  BY DEF Bytes, Octet

(* Where the fields of a result stand in its bytes.                        *)
ResultStand(c, r) ==
    /\ c \in Bytes /\ Len(c) = 5 + 2 * Len(r.registers)
    /\ Stands(c, 0, U16(r.address)) /\ Stands(c, 2, <<r.status>>)
    /\ Stands(c, 3, U16(Len(r.registers))) /\ Stands(c, 5, RegisterCode(r.registers))

LEMMA ReplyFields ==
    ASSUME NEW r, Reply(r)
    PROVE  /\ r.address \in Number /\ r.status \in Octet /\ r.registers \in Seq(Number)
           /\ Len(r.registers) \in Number
<1>1. r \in Results /\ Len(r.registers) < 65536
  BY DEF Reply
<1>2. r.address \in Number /\ r.status \in Octet /\ r.registers \in Seq(Number)
  BY <1>1 DEF Results
<1>3. Len(r.registers) \in Nat
  BY <1>2
<1> QED
  BY <1>1, <1>2, <1>3 DEF Number

LEMMA ResultStands ==
    ASSUME NEW r, Reply(r)
    PROVE  ResultStand(ResultCode(r), r)
<1> DEFINE n == Len(r.registers)
           a == U16(r.address)
           b == <<r.status>>
           c == U16(n)
           d == RegisterCode(r.registers)
           t == a \o b \o c
           w == ResultCode(r)
<1>1. /\ r.address \in Number /\ r.status \in Octet /\ r.registers \in Seq(Number)
      /\ n \in Number
  BY ReplyFields, Zenon
<1>2. a \in Bytes /\ Len(a) = 2 /\ c \in Bytes /\ Len(c) = 2
  BY <1>1, NumberRead, Zenon
<1>3. b \in Bytes /\ Len(b) = 1 /\ r.status % 256 = r.status
  BY <1>1, OneByte, Zenon
<1>4. d \in Bytes /\ Len(d) = 2 * n
  BY <1>1, RegisterCodeRead, Zenon DEF RegistersRead
<1>5. n % 65536 = n
  <2> HIDE DEF n
  <2>1. n \in Nat /\ n < 65536
    BY <1>1 DEF Number
  <2> QED
    BY <2>1
<1>6. w = t \o d
  <2> HIDE DEF a, d
  <2>1. w = a \o <<r.status % 256>> \o U16(n % 65536) \o d
    BY DEF ResultCode, a, d
  <2> HIDE DEF w, n
  <2> QED
    BY <1>3, <1>5, <2>1
<1> HIDE DEF a, b, c, d, w
<1>7. Three(t, a, b, c)
  BY <1>2, <1>3, Zenon DEF Three
<1> HIDE DEF t, n
<1>8. ThreeStand(t, a, b, c)
  BY <1>7, ThreePieces, Zenon
<1>9. t \in Bytes
  BY <1>8, Zenon DEF ThreeStand
<1>10. Len(t) = 5 /\ Stands(t, 0, a) /\ Stands(t, 2, b) /\ Stands(t, 3, c)
  <2> DEFINE p == Len(a)
             q == Len(b)
             s == Len(c)
  <2>1. p = 2 /\ q = 1 /\ s = 2
    BY <1>2, <1>3
  <2>2. Len(t) = p + q + s /\ Stands(t, 0, a) /\ Stands(t, p, b) /\ Stands(t, p + q, c)
    BY <1>8, Zenon DEF ThreeStand
  <2> HIDE DEF p, q, s
  <2>3. p + q + s = 5 /\ p + q = 3
    BY <2>1
  <2> QED
    BY <2>1, <2>2, <2>3, Zenon
<1>11. Follows(w, t, d)
  BY <1>4, <1>6, <1>9, Zenon DEF Follows
<1>12. Joins(w, t, d)
  BY <1>11, FollowsFacts, Zenon
<1>13. Stands(w, 0, a) /\ Stands(w, 2, b) /\ Stands(w, 3, c)
  BY <1>10, <1>11, StandsBefore, Zenon
<1>14. w \in Bytes /\ Len(w) = 5 + 2 * n /\ Stands(w, 5, d)
  BY <1>4, <1>10, <1>12, Zenon DEF Joins
<1> QED
  BY <1>13, <1>14, Zenon DEF ResultStand, a, b, c, d, w, n

(* The bytes of one result, wherever they stand, give back its address,    *)
(* its status, the number of its registers and each of them.               *)
ResultGives(w, at, r) ==
    /\ FromU16(w, at + 1) = r.address /\ w[at + 3] = r.status
    /\ FromU16(w, at + 4) = Len(r.registers)
    /\ \A j \in 1 .. Len(r.registers) : FromU16(w, at + 4 + 2 * j) = r.registers[j]

LEMMA ResultRead ==
    ASSUME NEW r, Reply(r), NEW w, NEW at, Stands(w, at, ResultCode(r))
    PROVE  ResultGives(w, at, r)
<1> DEFINE n == Len(r.registers)
           v == ResultCode(r)
           b == <<r.status>>
<1>1. /\ r.address \in Number /\ r.status \in Octet /\ r.registers \in Seq(Number)
      /\ n \in Number
  BY ReplyFields, Zenon
<1>2. Stands(v, 0, U16(r.address)) /\ Stands(v, 2, b) /\ Stands(v, 3, U16(n))
      /\ Stands(v, 5, RegisterCode(r.registers))
  BY ResultStands, Zenon DEF ResultStand
<1>3. Len(b) = 1 /\ b[1] = r.status
  OBVIOUS
<1>4. at \in Nat /\ n \in Nat
  BY <1>1 DEF Stands, Number
<1> HIDE DEF v, b
<1>5. Stands(w, at, v)
  BY DEF v
<1>6. /\ Stands(w, at + 0, U16(r.address)) /\ Stands(w, at + 2, b)
      /\ Stands(w, at + 3, U16(n)) /\ Stands(w, at + 5, RegisterCode(r.registers))
  BY <1>2, <1>5, StandsWithin, Zenon
<1> HIDE DEF n
<1>7. /\ at + 0 = at /\ (at + 2) + 1 = at + 3 /\ (at + 3) + 1 = at + 4
      /\ \A j \in 1 .. n : (at + 5) + 2 * j - 1 = at + 4 + 2 * j
  BY <1>4
<1>8. FromU16(w, at + 1) = r.address
  <2>1. FromU16(w, (at + 0) + 1) = r.address
    BY <1>1, <1>6, NumberRead, Zenon
  <2> QED
    BY <1>7, <2>1, Zenon
<1>9. FromU16(w, at + 4) = n
  <2>1. FromU16(w, (at + 3) + 1) = n
    BY <1>1, <1>6, NumberRead, Zenon
  <2> QED
    BY <1>7, <2>1, Zenon
<1>10. w[at + 3] = r.status
  <2>1. \A k \in 1 .. Len(b) : w[(at + 2) + k] = b[k]
    BY <1>6, Zenon DEF Stands
  <2>2. 1 \in 1 .. Len(b)
    BY <1>3
  <2> QED
    BY <1>3, <1>7, <2>1, <2>2, Zenon
<1>11. ASSUME NEW j \in 1 .. n PROVE FromU16(w, at + 4 + 2 * j) = r.registers[j]
  <2>1. FromU16(w, (at + 5) + 2 * j - 1) = r.registers[j]
    BY <1>1, <1>6, RegisterCodeRead, Zenon DEF RegistersRead, n
  <2> QED
    BY <1>7, <2>1, Zenon
<1> QED
  BY <1>8, <1>9, <1>10, <1>11, Zenon DEF ResultGives, n

(* Where each result of a response begins, after the count.                *)
Starts(place, results) ==
    /\ place \in [0 .. Len(results) -> Nat] /\ place[0] = 0
    /\ \A n \in 1 .. Len(results) :
          place[n] = place[n - 1] + 5 + 2 * Len(results[n].registers)

(* Results that their fields and the count of a response can hold.         *)
Answer(results) ==
    /\ \E S : results \in Seq(S)
    /\ Len(results) \in Number /\ DOMAIN results = 1 .. Len(results)
    /\ \A n \in 1 .. Len(results) : Reply(results[n])

(* Every response has the places where its results begin.                  *)
LEMMA StartsExist ==
    ASSUME NEW results, Answer(results)
    PROVE  \E place : Starts(place, results)
<1> DEFINE N == Len(results)
           F == [x \in Nat \X (1 .. N) |-> x[1] + 5 + 2 * Len(results[x[2]].registers)]
<1>0. N \in Nat /\ \A n \in 1 .. N : Len(results[n].registers) \in Nat
  BY DEF Answer, Reply, Results, Number
<1> HIDE DEF N
<1>1. 0 \in Nat /\ F \in [Nat \X (1 .. N) -> Nat]
  BY <1>0
<1>2. PICK f \in [0 .. N -> Nat] : Recurs(f, N, 0, F)
  <2> HIDE DEF F
  <2> QED
    BY <1>0, <1>1, Recursion, Zenon
<1>3. f[0] = 0
  BY <1>0, <1>2 DEF Recurs
<1>4. ASSUME NEW n \in 1 .. N
      PROVE  f[n] = f[n - 1] + 5 + 2 * Len(results[n].registers)
  <2>1. n \in 0 .. N /\ n # 0 /\ n - 1 \in 0 .. N
    BY <1>0
  <2>2. f[n] = F[<<f[n - 1], n>>]
    BY <1>2, <2>1 DEF Recurs
  <2> QED
    BY <2>1, <2>2
<1> QED
  BY <1>2, <1>3, <1>4 DEF Starts, N

(* What BatchResponse::serialize makes of results.                         *)
ResponseHolds(data, results, place) ==
    /\ data \in Bytes /\ Len(data) = 2 + place[Len(results)]
    /\ FromU16(data, 1) = Len(results)
    /\ \A i \in 1 .. Len(results) :
          Stands(data, 2 + place[i - 1], ResultCode(results[i]))

(* BatchResponse::serialize: the number of results, then the bytes of      *)
(* each, in their order.                                                   *)
LEMMA ResponsePlaces ==
    ASSUME NEW results, Answer(results), NEW place, Starts(place, results)
    PROVE  ResponseHolds(SerializeResponse(results), results, place)
<1> DEFINE N == Len(results)
           seqs == [i \in 1 .. N |-> ResultCode(results[i])]
           head == U16(N % 65536)
           all == FlattenSeq(seqs)
           data == SerializeResponse(results)
<1>0. N \in Number /\ DOMAIN results = 1 .. N /\ \A i \in 1 .. N : Reply(results[i])
  BY Zenon DEF Answer
<1>1. N \in Nat
  BY <1>0 DEF Number
<1>2. data = head \o all
  <2>1. data = head \o FlattenSeq([i \in DOMAIN results |-> ResultCode(results[i])])
    BY DEF SerializeResponse, ResultCode, RegisterCode
  <2>2. [i \in DOMAIN results |-> ResultCode(results[i])] = seqs
    BY <1>0
  <2> HIDE DEF N, data, seqs, head
  <2> QED
    BY <2>1, <2>2
<1>3. N % 65536 = N
  <2> HIDE DEF N
  <2> QED
    BY <1>0 DEF Number
<1>4. /\ place \in [0 .. N -> Nat] /\ place[0] = 0
      /\ \A n \in 1 .. N : place[n] = place[n - 1] + 5 + 2 * Len(results[n].registers)
  BY Zenon DEF Starts
<1> HIDE DEF N, data
<1>5. head = U16(N) /\ head \in Bytes /\ Len(head) = 2
  <2> HIDE DEF head
  <2>1. head = U16(N)
    BY <1>3 DEF head
  <2> QED
    BY <1>0, <2>1, NumberRead, Zenon
<1>6. \A i \in 1 .. N : /\ ResultCode(results[i]) \in Bytes
                        /\ Len(ResultCode(results[i])) = 5 + 2 * Len(results[i].registers)
  BY <1>0, ResultStands, Zenon DEF ResultStand
<1>7. seqs \in Seq(Bytes) /\ Len(seqs) = N /\ \A i \in 1 .. N : seqs[i] = ResultCode(results[i])
  BY <1>0, <1>1, <1>6
<1> HIDE DEF seqs, all, head
<1>8. Laid(seqs, place)
  <2>1. ASSUME NEW n \in 1 .. N PROVE place[n] = place[n - 1] + Len(seqs[n])
    <3>1. n \in 0 .. N /\ n - 1 \in 0 .. N
      BY <1>1
    <3>2. place[n - 1] \in Nat /\ Len(results[n].registers) \in Nat
      BY <1>0, <1>4, <3>1, ReplyFields DEF Number
    <3>3. Len(seqs[n]) = 5 + 2 * Len(results[n].registers)
      BY <1>6, <1>7, Zenon
    <3>4. place[n] = place[n - 1] + 5 + 2 * Len(results[n].registers)
      BY <1>4, Zenon
    <3> DEFINE k == Len(results[n].registers)
               l == Len(seqs[n])
    <3>5. k \in Nat /\ l = 5 + 2 * k /\ place[n] = place[n - 1] + 5 + 2 * k
      BY <3>2, <3>3, <3>4
    <3> HIDE DEF k, l
    <3>6. place[n] = place[n - 1] + l
      BY <3>2, <3>5
    <3> QED
      BY <3>6 DEF l
  <2> QED
    BY <1>4, <1>7, <2>1, Zenon DEF Laid
<1>9. LaidUp(all, N, seqs, place)
  BY <1>7, <1>8, FlattenLaid DEF all
<1>10. all \in Bytes /\ Len(all) = place[N]
  BY <1>9, Zenon DEF LaidUp
<1>11. Follows(data, head, all)
  BY <1>2, <1>5, <1>10, Zenon DEF Follows
<1>12. Joins(data, head, all)
  BY <1>11, FollowsFacts, Zenon
<1>13. data \in Bytes /\ Len(data) = 2 + place[N] /\ Stands(data, 0, U16(N)) /\ Stands(data, 2, all)
  BY <1>5, <1>10, <1>12, Zenon DEF Joins
<1>14. FromU16(data, 1) = N
  <2>1. FromU16(data, 0 + 1) = N
    BY <1>0, <1>13, NumberRead, Zenon
  <2> QED
    BY <2>1
<1>15. ASSUME NEW i \in 1 .. N PROVE Stands(data, 2 + place[i - 1], ResultCode(results[i]))
  <2>1. Stands(all, place[i - 1], seqs[i])
    BY <1>9, Zenon DEF LaidUp
  <2>2. Stands(data, 2 + place[i - 1], seqs[i])
    BY <1>13, <2>1, StandsWithin, Zenon
  <2> QED
    BY <1>7, <2>2, Zenon
<1> QED
  BY <1>13, <1>14, <1>15, Zenon DEF ResponseHolds, N, data

(* What the loop of BatchResponse::deserialize holds.                      *)
Parsed == [address : Nat, status : Nat, registers : Seq(Nat)]
Reads == [offset : Nat \ {0}, failed : BOOLEAN, results : Seq(Parsed)]

(* Two bytes are a number.                                                 *)
LEMMA FromU16In ==
    ASSUME NEW data \in Bytes, NEW k \in Nat \ {0}, k + 1 <= Len(data)
    PROVE  FromU16(data, k) \in Nat
<1>1. k \in 1 .. Len(data) /\ k + 1 \in 1 .. Len(data)
  BY DEF Bytes
<1>2. data[k] \in Nat /\ data[k + 1] \in Nat
  <2>1. Octet \subseteq Nat
    BY DEF Octet
  <2>2. data[k] \in Octet /\ data[k + 1] \in Octet
    BY <1>1 DEF Bytes
  <2> QED
    BY <2>1, <2>2, Zenon
<1> QED
  BY <1>2 DEF FromU16

(* A step of the loop, whatever the bytes.                                 *)
LEMMA ReadIn ==
    ASSUME NEW data \in Bytes, NEW r \in Reads, NEW i
    PROVE  ReadResult(data, r, i) \in Reads
<1> DEFINE at == r.offset
           n == FromU16(data, at + 3)
           regs == [j \in 1 .. n |-> FromU16(data, at + 3 + 2 * j)]
           got == [address |-> FromU16(data, at), status |-> data[at + 2], registers |-> regs]
           l == Len(data)
<1>1. at \in Nat \ {0} /\ r.failed \in BOOLEAN /\ r.results \in Seq(Parsed) /\ l \in Nat
  BY DEF Reads, Bytes
<1>2. CASE r.failed \/ at + 4 > l \/ at + 4 + 2 * n > l
  <2>1. ReadResult(data, r, i) = [r EXCEPT !.failed = TRUE]
    BY <1>2 DEF ReadResult
  <2> QED
    BY <2>1 DEF Reads
<1>3. CASE ~(r.failed \/ at + 4 > l \/ at + 4 + 2 * n > l)
  <2>1. ReadResult(data, r, i) = [r EXCEPT !.offset = at + 5 + 2 * n,
                                           !.results = Append(@, got)]
    BY <1>3 DEF ReadResult
  <2> HIDE DEF at, l
  <2>2. n \in Nat /\ FromU16(data, at) \in Nat
    <3>1. at + 3 \in Nat \ {0} /\ (at + 3) + 1 <= l /\ at + 1 <= l
      BY <1>1, <1>3
    <3> QED
      BY <1>1, <3>1, FromU16In DEF l
  <2>3. data[at + 2] \in Nat
    <3>1. at + 2 \in 1 .. l
      BY <1>1, <1>3
    <3>2. Octet \subseteq Nat
      BY DEF Octet
    <3>3. data[at + 2] \in Octet
      BY <3>1 DEF l, Bytes
    <3> QED
      BY <3>2, <3>3, Zenon
  <2> HIDE DEF n
  <2>4. ASSUME NEW j \in 1 .. n PROVE FromU16(data, at + 3 + 2 * j) \in Nat
    <3>1. at + 3 + 2 * j \in Nat \ {0} /\ (at + 3 + 2 * j) + 1 <= l
      BY <1>1, <1>3, <2>2
    <3> QED
      BY <3>1, FromU16In DEF l
  <2>5. regs \in Seq(Nat)
    BY <2>2, <2>4
  <2> HIDE DEF regs
  <2>6. got \in Parsed
    BY <2>2, <2>3, <2>5 DEF Parsed
  <2> HIDE DEF got
  <2>7. Append(r.results, got) \in Seq(Parsed) /\ at + 5 + 2 * n \in Nat \ {0}
    BY <1>1, <2>2, <2>6
  <2> DEFINE off == at + 5 + 2 * n
             list == Append(r.results, got)
  <2>8. ReadResult(data, r, i) = [r EXCEPT !.offset = off, !.results = list]
    BY <2>1 DEF Reads
  <2>9. off \in Nat \ {0} /\ list \in Seq(Parsed)
    BY <2>7
  <2> HIDE DEF off, list
  <2> DEFINE once == [r EXCEPT !.offset = off]
             new == [once EXCEPT !.results = list]
  <2>10. ReadResult(data, r, i) = new
    BY <2>8 DEF Reads
  <2>11. once \in Reads
    BY <2>9 DEF Reads
  <2> HIDE DEF once
  <2>12. new \in Reads
    BY <2>9, <2>11 DEF Reads
  <2> QED
    BY <2>10, <2>12, Zenon
<1> QED
  BY <1>2, <1>3, Zenon

(* Where the loop is when it has read the first n results.                 *)
ReadTo(results, place, n) ==
    [offset |-> 3 + place[n], failed |-> FALSE, results |-> [i \in 1 .. n |-> results[i]]]

(* It reads them one by one.                                               *)
LEMMA ReadOne ==
    ASSUME NEW results, Answer(results), NEW place, Starts(place, results),
           NEW data, ResponseHolds(data, results, place), NEW n \in 1 .. Len(results)
    PROVE  ReadResult(data, ReadTo(results, place, n - 1), n) = ReadTo(results, place, n)
<1> DEFINE r == results[n]
           b == 2 + place[n - 1]
           k == Len(r.registers)
           l == Len(data)
           at == 3 + place[n - 1]
           N == Len(results)
           before == [i \in 1 .. n - 1 |-> results[i]]
           read == ReadTo(results, place, n - 1)
<1>1. N \in Nat /\ Reply(r) /\ n \in 1 .. N
  <2>1. N \in Number /\ Reply(r)
    BY Zenon DEF Answer
  <2> QED
    BY <2>1 DEF Number
<1>2. Stands(data, b, ResultCode(r))
  BY Zenon DEF ResponseHolds
<1>3. ResultGives(data, b, r)
  BY <1>1, <1>2, ResultRead, Zenon
<1>4. k \in Nat /\ r.registers \in Seq(Number) /\ r \in Results
  BY <1>1, ReplyFields DEF Number, Reply
<1>5. place[n - 1] \in Nat /\ place[n] = place[n - 1] + 5 + 2 * k
  <2> HIDE DEF N
  <2>1. n - 1 \in 0 .. N
    BY <1>1
  <2> QED
    BY <2>1 DEF Starts, N
<1>6. b + 5 + 2 * k <= l /\ l \in Nat
  <2>1. Len(ResultCode(r)) = 5 + 2 * k
    BY <1>1, ResultStands, Zenon DEF ResultStand
  <2>2. b + Len(ResultCode(r)) <= l /\ data \in Bytes
    BY <1>2, Zenon DEF Stands
  <2>3. l \in Nat
    BY <2>2 DEF Bytes
  <2> DEFINE m == Len(ResultCode(r))
  <2>4. m = 5 + 2 * k /\ b + m <= l
    BY <2>1, <2>2
  <2> HIDE DEF m, k, l
  <2> QED
    BY <1>4, <1>5, <2>3, <2>4 DEF k
<1>7. /\ read.offset = at /\ read.failed = FALSE /\ read.results = before
      /\ read = [offset |-> at, failed |-> FALSE, results |-> before]
  BY DEF ReadTo
<1>8. FromU16(data, at) = r.address /\ data[at + 2] = r.status /\ FromU16(data, at + 3) = k
      /\ \A j \in 1 .. k : FromU16(data, at + 3 + 2 * j) = r.registers[j]
  <2>1. at = b + 1 /\ at + 2 = b + 3 /\ at + 3 = b + 4 /\ \A j \in 1 .. k : at + 3 + 2 * j = b + 4 + 2 * j
    <3> DEFINE p == place[n - 1]
    <3>1. k \in Nat /\ p \in Nat /\ at = 3 + p /\ b = 2 + p
      BY <1>4, <1>5
    <3> HIDE DEF k, p, at, b
    <3> QED
      BY <3>1
  <2> HIDE DEF at, b
  <2> QED
    BY <1>3, <2>1, Zenon DEF ResultGives
<1>9. ~(at + 4 > l) /\ ~(at + 4 + 2 * k > l) /\ at + 5 + 2 * k = 3 + place[n]
  <2>1. k \in Nat /\ l \in Nat /\ place[n - 1] \in Nat /\ b + 5 + 2 * k <= l
        /\ place[n] = place[n - 1] + 5 + 2 * k
    BY <1>4, <1>5, <1>6
  <2> HIDE DEF k, l
  <2> DEFINE p == place[n - 1]
             q == place[n]
  <2>2. p \in Nat /\ (2 + p) + 5 + 2 * k <= l /\ q = p + 5 + 2 * k /\ at = 3 + p
    BY <2>1
  <2> HIDE DEF p, q, at
  <2>3. ~(at + 4 > l) /\ ~(at + 4 + 2 * k > l) /\ at + 5 + 2 * k = 3 + q
    BY <2>1, <2>2
  <2> QED
    BY <2>3 DEF q
<1> DEFINE got == [address |-> FromU16(data, at), status |-> data[at + 2],
                   registers |-> [j \in 1 .. k |-> FromU16(data, at + 3 + 2 * j)]]
<1>10. got = r
  <2>1. r.registers = [j \in 1 .. k |-> r.registers[j]]
    BY <1>4
  <2>2. r = [address |-> r.address, status |-> r.status, registers |-> r.registers]
    <3> HIDE DEF r
    <3> QED
      BY <1>4 DEF Results
  <2> DEFINE regs == [j \in 1 .. k |-> FromU16(data, at + 3 + 2 * j)]
  <2>3. regs = r.registers
    <3> HIDE DEF k, at, r
    <3> QED
      BY <1>8, <2>1
  <2>4. got = [address |-> FromU16(data, at), status |-> data[at + 2], registers |-> regs]
    OBVIOUS
  <2> HIDE DEF regs, got, at, r
  <2> QED
    BY <1>8, <2>2, <2>3, <2>4
<1>11. ReadResult(data, read, n)
         = [read EXCEPT !.offset = at + 5 + 2 * k, !.results = Append(@, got)]
  <2> HIDE DEF at, k, l, read, before
  <2>1. ReadResult(data, read, n)
          = [read EXCEPT !.offset = at + 5 + 2 * FromU16(data, at + 3),
                !.results = Append(@, [address |-> FromU16(data, at), status |-> data[at + 2],
                    registers |-> [j \in 1 .. FromU16(data, at + 3) |->
                                      FromU16(data, at + 3 + 2 * j)]])]
    BY <1>7, <1>8, <1>9 DEF ReadResult, l
  <2> QED
    BY <1>8, <2>1
<1>12. Append(before, r) = [i \in 1 .. n |-> results[i]]
  <2>1. n \in Nat \ {0} /\ Len(before) = n - 1
    <3> HIDE DEF N
    <3> QED
      BY <1>1
  <2>2. Append(before, r) = [i \in 1 .. (n - 1) + 1 |-> IF i = (n - 1) + 1 THEN r ELSE before[i]]
    BY <2>1 
  <2>3. (n - 1) + 1 = n /\ \A i \in 1 .. n : i = n \/ i \in 1 .. n - 1
    BY <2>1
  <2>4. \A i \in 1 .. n : (IF i = n THEN r ELSE before[i]) = results[i]
    BY <2>3
  <2> QED
    BY <2>2, <2>3, <2>4
<1> DEFINE list == [i \in 1 .. n |-> results[i]]
           off == 3 + place[n]
<1>13. ReadTo(results, place, n) = [offset |-> off, failed |-> FALSE, results |-> list]
  BY DEF ReadTo
<1>14. ReadResult(data, read, n) = [read EXCEPT !.offset = off, !.results = list]
  <2> HIDE DEF got, at, k, r, before, read
  <2>1. ReadResult(data, read, n)
         = [read EXCEPT !.offset = at + 5 + 2 * k, !.results = Append(read.results, got)]
    BY <1>7, <1>11
  <2> QED
    BY <1>7, <1>9, <1>10, <1>12, <2>1
<1>15. [read EXCEPT !.offset = off, !.results = list]
         = [offset |-> off, failed |-> FALSE, results |-> list]
  <2> HIDE DEF off, list, at, before, read
  <2>1. read \in [offset : {at}, failed : {FALSE}, results : {before}]
    BY <1>7
  <2> DEFINE once == [read EXCEPT !.offset = off]
             new == [once EXCEPT !.results = list]
  <2>2. [read EXCEPT !.offset = off, !.results = list] = new
    BY <2>1
  <2>3. once \in [offset : {off}, failed : {FALSE}, results : {before}]
    BY <2>1
  <2> HIDE DEF once
  <2>4. new \in [offset : {off}, failed : {FALSE}, results : {list}]
    BY <2>3
  <2> HIDE DEF new
  <2> QED
    BY <2>2, <2>4
<1> QED
  BY <1>13, <1>14, <1>15, Zenon

(* So the loop ends with the results, and reads them all.                  *)
ReadLoop(data, n) ==
    FoldLeft(LAMBDA r, i : ReadResult(data, r, i),
             [offset |-> 3, failed |-> FALSE, results |-> << >>],
             [i \in 1 .. n |-> i])

LEMMA ReadAll ==
    ASSUME NEW results, Answer(results), NEW place, Starts(place, results),
           NEW data, ResponseHolds(data, results, place)
    PROVE  ReadLoop(data, Len(results)) = ReadTo(results, place, Len(results))
<1> DEFINE N == Len(results)
           seq == [i \in 1 .. N |-> i]
           base == [offset |-> 3, failed |-> FALSE, results |-> << >>]
           F == [x \in Reads \X (1 .. N) |-> ReadResult(data, x[1], x[2])]
           Def(f) == f = [t \in SUBSET (1 .. N) |->
                             IF t = {} THEN base
                             ELSE LET x == Max(t) IN ReadResult(data, f[t \ {x}], seq[x])]
           loop == CHOOSE f : Def(f)
           Read(n) == ReadTo(results, place, n)
<1>0. N \in Nat
  <2>1. N \in Number
    BY Zenon DEF Answer
  <2> QED
    BY <2>1 DEF Number
<1>1. data \in Bytes
  BY Zenon DEF ResponseHolds
<1>2. base \in Reads
  BY DEF Reads
<1>3. ASSUME NEW n \in 1 .. N PROVE ReadResult(data, Read(n - 1), n) = Read(n)
  BY ReadOne, Zenon
<1>4. Read(0) = base
  <2>1. place[0] = 0 /\ 1 .. 0 = {}
    BY DEF Starts
  <2>2. [i \in 1 .. 0 |-> results[i]] = << >>
    BY <2>1
  <2> QED
    BY <2>1, <2>2 DEF ReadTo
<1>5. \A i \in 1 .. N : seq[i] = i
  OBVIOUS
<1>6. ReadLoop(data, N) = loop[1 .. N]
  <2>1. DOMAIN seq = 1 .. N
    OBVIOUS
  <2>2. ReadLoop(data, N) = FoldLeft(LAMBDA r, i : ReadResult(data, r, i), base, seq)
    BY DEF ReadLoop
  <2> HIDE DEF seq, base
  <2> QED
    BY <2>1, <2>2 DEF FoldLeft, MapThenFoldSet
<1> HIDE DEF N, base, seq, Read
<1>7. PICK f \in [SUBSET (1 .. N) -> Reads] : Folds(f, N, base, F)
  <2>1. F \in [Reads \X (1 .. N) -> Reads]
    BY <1>1, ReadIn
  <2> HIDE DEF F
  <2> QED
    BY <1>0, <1>2, <2>1, FoldRecursion, Zenon
<1>8. Def(f)
  <2>1. ASSUME NEW t \in SUBSET (1 .. N), t # {}
        PROVE  F[<<f[t \ {Max(t)}], Max(t)>>] = ReadResult(data, f[t \ {Max(t)}], seq[Max(t)])
    <3>1. Max(t) \in 1 .. N /\ t \ {Max(t)} \in SUBSET (1 .. N)
      BY <1>0, <2>1, MaxIn
    <3> QED
      BY <1>5, <3>1
  <2> HIDE DEF F
  <2> QED
    BY <1>7, <2>1 DEF Folds
<1>9. Def(loop)
  <2> HIDE DEF Def
  <2> QED
    BY <1>8
<1> DEFINE S == {n \in 0 .. N : loop[1 .. n] = Read(n)}
<1> HIDE DEF loop
<1>10. 0 \in S
  <2>1. 1 .. 0 = {} /\ 0 \in 0 .. N
    BY <1>0
  <2> QED
    BY <1>4, <1>9, <2>1
<1>11. ASSUME NEW n \in 0 .. N - 1, n \in S PROVE n + 1 \in S
  <2> DEFINE m == n + 1
  <2>1. m \in Nat \ {0} /\ m - 1 = n /\ m \in 1 .. N /\ m \in 0 .. N
        /\ 1 .. m \in SUBSET (1 .. N)
    BY <1>0
  <2> HIDE DEF m
  <2>2. /\ Max(1 .. m) = m /\ (1 .. m) \ {m} = 1 .. n /\ 1 .. m # {}
    BY <2>1, MaxPrefix
  <2>3. loop[1 .. m] = LET x == Max(1 .. m) IN ReadResult(data, loop[(1 .. m) \ {x}], seq[x])
    BY <1>9, <2>1, <2>2
  <2>4. loop[1 .. m] = ReadResult(data, Read(n), m)
    BY <1>5, <1>11, <2>1, <2>2, <2>3
  <2>5. ReadResult(data, Read(n), m) = Read(m)
    BY <1>3, <2>1
  <2> QED
    BY <2>1, <2>4, <2>5 DEF m
<1>12. 0 .. N \subseteq S
  <2> HIDE DEF S
  <2> QED
    BY <1>0, <1>10, <1>11, UpTo, Zenon
<1>13. loop[1 .. N] = Read(N)
  BY <1>0, <1>12
<1> QED
  BY <1>6, <1>13 DEF N, Read, seq, base

(* BatchResponse::deserialize gives back every result that was serialized, *)
(* with its registers, in order.                                           *)
THEOREM ResponseRoundTrip ==
    ASSUME NEW results, Answer(results)
    PROVE  DeserializeResponse(SerializeResponse(results)) = <<results>>
<1> DEFINE data == SerializeResponse(results)
           N == Len(results)
           all == [i \in 1 .. N |-> results[i]]
<1>1. PICK place : Starts(place, results)
  BY StartsExist
<1>2. ResponseHolds(data, results, place)
  BY <1>1, ResponsePlaces, Zenon
<1>3. N \in Nat /\ all = results
  <2>1. N \in Number /\ DOMAIN results = 1 .. N /\ \E S : results \in Seq(S)
    BY Zenon DEF Answer
  <2>2. N \in Nat
    BY <2>1 DEF Number
  <2>3. results = [i \in 1 .. N |-> results[i]]
    BY <2>1
  <2> QED
    BY <2>2, <2>3
<1> HIDE DEF data
<1>4. FromU16(data, 1) = N /\ Len(data) = 2 + place[N] /\ N \in 0 .. N
  BY <1>2, <1>3 DEF ResponseHolds
<1>5. ~(Len(data) < 2)
  <2>1. place[N] \in Nat
    BY <1>1, <1>4 DEF Starts
  <2> DEFINE p == place[N]
  <2>2. p \in Nat /\ Len(data) = 2 + p
    BY <1>4, <2>1
  <2> HIDE DEF p
  <2> QED
    BY <2>2
<1> DEFINE read == ReadLoop(data, N)
<1>6. read = ReadTo(results, place, N)
  BY <1>1, <1>2, ReadAll, Zenon
<1>7. read.failed = FALSE /\ read.results = all
  <2> HIDE DEF read, N
  <2> QED
    BY <1>6 DEF ReadTo
<1>8. DeserializeResponse(data) = IF read.failed THEN None ELSE <<read.results>>
  <2> HIDE DEF N
  <2> QED
    BY <1>4, <1>5 DEF DeserializeResponse, ReadLoop
<1> HIDE DEF read, all
<1> QED
  BY <1>3, <1>7, <1>8 DEF data

-----------------------------------------------------------------------------
(* The bytes of a PDU                                                      *)

(* What stands in the first part stands in the whole.                      *)
LEMMA StandsFirst ==
    ASSUME NEW w, NEW v, NEW b, NEW k, Stands(w, 0, v), Stands(v, k, b)
    PROVE  Stands(w, k, b)
<1>1. Stands(w, 0 + k, b)
  BY StandsWithin, Zenon
<1>2. 0 + k = k
  BY DEF Stands
<1> QED
  BY <1>1, <1>2, Zenon

(* Bytes that are there with a length, or not at all: a timestamp or a     *)
(* digest.                                                                 *)
Optional(bytes, n) ==
    /\ bytes \in Bytes
    /\ \/ bytes = None /\ Len(bytes) = 0
       \/ bytes # None /\ Len(bytes) = n

(* A payload whose length the header can hold.                             *)
Short(payload) == payload \in Bytes /\ Len(payload) \in Number

FlagsOf(stamp, mac) ==
    (IF stamp # None THEN 1 ELSE 0) + (IF mac # None THEN 2 ELSE 0)

(* The flags say which of the two there are.                               *)
LEMMA FlagsTell ==
    ASSUME NEW stamp, NEW mac
    PROVE  /\ FlagsOf(stamp, mac) \in Number
           /\ HasFlag(FlagsOf(stamp, mac), HasTimestamp) <=> stamp # None
           /\ HasFlag(FlagsOf(stamp, mac), HasHMAC) <=> mac # None
           /\ WithFlag(WithFlag(0, HasTimestamp, stamp # None), HasHMAC, mac # None)
                = FlagsOf(stamp, mac)
<1> DEFINE a == stamp # None
           b == mac # None
           f == FlagsOf(stamp, mac)
<1>1. f = (IF a THEN 1 ELSE 0) + (IF b THEN 2 ELSE 0)
  BY DEF FlagsOf
<1> HIDE DEF a, b, f
<1>2. f \in Number /\ (HasFlag(f, HasTimestamp) <=> a) /\ (HasFlag(f, HasHMAC) <=> b)
  BY <1>1 DEF Number, HasFlag, HasTimestamp, HasHMAC
<1>3. WithFlag(0, HasTimestamp, a) = IF a THEN 1 ELSE 0
  BY DEF WithFlag, HasFlag, HasTimestamp
<1>4. WithFlag(WithFlag(0, HasTimestamp, a), HasHMAC, b) = f
  BY <1>1, <1>3 DEF WithFlag, HasFlag, HasHMAC
<1> QED
  BY <1>2, <1>4 DEF a, b, f

(* PDU::serialize of an extended PDU, with p as its payload_length.        *)
PduBytes(stamp, payload, mac, p) ==
    <<Extended, 1>> \o U16(FlagsOf(stamp, mac)) \o U16(0) \o stamp \o <<1>>
    \o U16(p) \o payload \o mac

LEMMA SerializeParts ==
    ASSUME NEW payload, NEW stamp, NEW mac
    PROVE  Serialize(MakeExtended(Header(1, stamp), payload, mac))
             = PduBytes(stamp, payload, mac, Len(payload) % 65536)
<1> DEFINE pdu == MakeExtended(Header(1, stamp), payload, mac)
           hdr == pdu.header[1]
           flags == FlagsOf(stamp, mac)
           L == Len(payload) % 65536
           h == Header(1, stamp)
           f == WithFlag(WithFlag(h.flags, HasTimestamp, h.timestamp # None),
                         HasHMAC, mac # None)
           once == [h EXCEPT !.flags = f]
           new == [once EXCEPT !.payload_length = L]
<1>1. /\ DOMAIN h = {"version", "flags", "correlation_id", "timestamp",
                    "ext_function_code", "payload_length"}
      /\ h.version = 1 /\ h.flags = 0 /\ h.correlation_id = 0 /\ h.timestamp = stamp
      /\ h.ext_function_code = 1
  BY DEF Header
<1>2. f = flags
  <2>1. f = WithFlag(WithFlag(0, HasTimestamp, stamp # None), HasHMAC, mac # None)
    BY <1>1
  <2> QED
    BY <2>1, FlagsTell
<1>3. pdu = [fc |-> Extended, header |-> <<new>>, payload |-> payload, hmac |-> mac]
  <2> HIDE DEF L, f, h
  <2>1. pdu = [fc |-> Extended,
               header |-> <<[h EXCEPT !.flags = f, !.payload_length = L]>>,
               payload |-> payload, hmac |-> mac]
    BY DEF MakeExtended, f, h, L
  <2>2. [h EXCEPT !.flags = f, !.payload_length = L] = new
    BY <1>1
  <2> HIDE DEF new, once, pdu
  <2> QED
    BY <2>1, <2>2
<1> HIDE DEF L, f, pdu, h, flags
<1>4. /\ once.version = 1 /\ once.correlation_id = 0 /\ once.timestamp = stamp
      /\ once.ext_function_code = 1 /\ once.flags = f /\ DOMAIN once = DOMAIN h
  BY <1>1
<1> HIDE DEF once
<1>5. /\ new.version = 1 /\ new.correlation_id = 0 /\ new.timestamp = stamp
      /\ new.ext_function_code = 1 /\ new.payload_length = L /\ new.flags = f
  BY <1>1, <1>4
<1> HIDE DEF new
<1>6. pdu.header = <<new>> /\ pdu.payload = payload /\ pdu.hmac = mac
  BY <1>3
<1>7. hdr = new /\ pdu.header # None
  BY <1>6 DEF None
<1>8. (HasFlag(flags, HasTimestamp) <=> stamp # None) /\ (HasFlag(flags, HasHMAC) <=> mac # None)
  BY FlagsTell, Zenon DEF flags
<1>9. /\ (IF HasFlag(hdr.flags, HasTimestamp) THEN hdr.timestamp ELSE None) = stamp
      /\ (IF HasFlag(hdr.flags, HasHMAC) THEN pdu.hmac ELSE None) = mac
  BY <1>2, <1>5, <1>6, <1>7, <1>8, Zenon
<1>10. /\ hdr.version = 1 /\ hdr.flags = flags /\ hdr.correlation_id = 0
       /\ hdr.ext_function_code = 1 /\ hdr.payload_length = L
  BY <1>2, <1>5, <1>7, Zenon
<1>11. Serialize(pdu) = PduBytes(stamp, payload, mac, L)
  BY <1>6, <1>7, <1>9, <1>10, Zenon DEF Serialize, PduBytes, flags
<1> QED
  BY <1>11 DEF pdu, L

(* Where the parts of a PDU stand in its bytes.                            *)
PduHolds(raw, stamp, payload, mac, p) ==
    /\ raw \in Bytes /\ Len(raw) = 9 + Len(stamp) + Len(payload) + Len(mac)
    /\ Stands(raw, 0, <<Extended, 1>>) /\ Stands(raw, 2, U16(FlagsOf(stamp, mac)))
    /\ Stands(raw, 7 + Len(stamp), U16(p)) /\ Stands(raw, 9 + Len(stamp), payload)

LEMMA PduPlaces ==
    ASSUME NEW stamp \in Bytes, NEW payload \in Bytes, NEW mac \in Bytes, NEW p \in Number
    PROVE  PduHolds(PduBytes(stamp, payload, mac, p), stamp, payload, mac, p)
<1> DEFINE flags == FlagsOf(stamp, mac)
           c1 == <<Extended, 1>>
           c2 == U16(flags)
           c3 == U16(0)
           c5 == <<1>>
           c6 == U16(p)
           a == c1 \o c2 \o c3
           b == a \o stamp \o c5
           d == b \o c6 \o payload
           raw == PduBytes(stamp, payload, mac, p)
<1>1. c1 \in Bytes /\ Len(c1) = 2 /\ c5 \in Bytes /\ Len(c5) = 1
  BY DEF Bytes, Octet, Extended
<1>2. c2 \in Bytes /\ Len(c2) = 2 /\ c6 \in Bytes /\ Len(c6) = 2
  BY FlagsTell, NumberRead, Zenon
<1>3. c3 \in Bytes /\ Len(c3) = 2
  <2>1. 0 \in Number
    BY DEF Number
  <2> QED
    BY <2>1, NumberRead, Zenon
<1>4. raw = d \o mac
  BY Zenon DEF PduBytes
<1> DEFINE t == Len(stamp)
           n == Len(payload)
           x == Len(mac)
<1>5. t \in Nat /\ n \in Nat /\ x \in Nat
  BY DEF Bytes
<1> HIDE DEF c1, c2, c3, c5, c6, raw
<1>6. ThreeStand(a, c1, c2, c3)
  BY <1>1, <1>2, <1>3, ThreePieces, Zenon DEF Three
<1> HIDE DEF a
<1>7. a \in Bytes /\ Len(a) = 6 /\ Stands(a, 0, c1) /\ Stands(a, 2, c2)
  <2>1. a \in Bytes /\ Len(a) = Len(c1) + Len(c2) + Len(c3) /\ Stands(a, 0, c1) /\ Stands(a, Len(c1), c2)
    BY <1>6, Zenon DEF ThreeStand
  <2>2. 2 + 2 + 2 = 6
    OBVIOUS
  <2> QED
    BY <1>1, <1>2, <1>3, <2>1, <2>2, Zenon
<1>8. ThreeStand(b, a, stamp, c5)
  BY <1>1, <1>7, ThreePieces, Zenon DEF Three
<1> HIDE DEF b
<1>9. b \in Bytes /\ Len(b) = 7 + t /\ Stands(b, 0, c1) /\ Stands(b, 2, c2)
  <2>1. b \in Bytes /\ Len(b) = Len(a) + Len(stamp) + Len(c5) /\ Stands(b, 0, a)
    BY <1>8, Zenon DEF ThreeStand
  <2>2. Stands(b, 0, c1) /\ Stands(b, 2, c2)
    BY <1>7, <2>1, StandsFirst, Zenon
  <2>3. Len(b) = 6 + t + 1
    BY <1>1, <1>7, <2>1, Zenon
  <2>4. 6 + t + 1 = 7 + t
    <3> HIDE DEF t
    <3> QED
      BY <1>5
  <2> QED
    BY <2>1, <2>2, <2>3, <2>4, Zenon
<1>10. ThreeStand(d, b, c6, payload)
  BY <1>2, <1>9, ThreePieces, Zenon DEF Three
<1> HIDE DEF d
<1>11. /\ d \in Bytes /\ Len(d) = 9 + t + n /\ Stands(d, 0, c1) /\ Stands(d, 2, c2)
       /\ Stands(d, 7 + t, c6) /\ Stands(d, 9 + t, payload)
  <2>1. /\ d \in Bytes /\ Len(d) = Len(b) + Len(c6) + Len(payload) /\ Stands(d, 0, b)
        /\ Stands(d, Len(b), c6) /\ Stands(d, Len(b) + Len(c6), payload)
    BY <1>10, Zenon DEF ThreeStand
  <2>2. Stands(d, 0, c1) /\ Stands(d, 2, c2)
    BY <1>9, <2>1, StandsFirst, Zenon
  <2>3. /\ Len(d) = (7 + t) + 2 + n /\ Stands(d, 7 + t, c6) /\ Stands(d, (7 + t) + 2, payload)
    BY <1>2, <1>9, <2>1, Zenon
  <2>4. (7 + t) + 2 = 9 + t
    <3> HIDE DEF t
    <3> QED
      BY <1>5
  <2> QED
    BY <2>1, <2>2, <2>3, <2>4, Zenon
<1>12. Follows(raw, d, mac)
  BY <1>4, <1>11, Zenon DEF Follows
<1>13. Joins(raw, d, mac)
  BY <1>12, FollowsFacts, Zenon
<1>14. raw \in Bytes /\ Len(raw) = Len(d) + Len(mac) /\ Stands(raw, 0, d)
  BY <1>13, Zenon DEF Joins
<1>15. /\ Stands(raw, 0, c1) /\ Stands(raw, 2, c2)
       /\ Stands(raw, 7 + t, c6) /\ Stands(raw, 9 + t, payload)
  BY <1>11, <1>14, StandsFirst, Zenon
<1>16. Len(raw) = 9 + t + n + x
  BY <1>11, <1>14, Zenon
<1> QED
  BY <1>14, <1>15, <1>16, Zenon DEF PduHolds, raw, c1, c2, c6

(* The bytes of an extended PDU whose parts end at code, last and end.     *)
Whole(raw, code, last, end) ==
    /\ raw # << >> /\ raw[1] = Extended /\ raw[2] = 1
    /\ code = IF HasFlag(FromU16(raw, 3), HasTimestamp) THEN 15 ELSE 7
    /\ last = code + 2 + FromU16(raw, code + 1)
    /\ end = IF HasFlag(FromU16(raw, 3), HasHMAC) THEN last + 32 ELSE last
    /\ ~(Len(raw) < 9) /\ ~(Len(raw) < code + 2) /\ ~(Len(raw) < end)

(* PDU::deserialize accepts them.                                          *)
LEMMA DeserializeGives ==
    ASSUME NEW raw, NEW code, NEW last, NEW end, Whole(raw, code, last, end)
    PROVE  /\ Deserialize(raw) # None
           /\ Deserialize(raw)[1].payload = SubSeq(raw, code + 3, last)
  BY DEF Whole, Deserialize, None

(* The bytes raw carry payload.                                            *)
Carried(raw, payload, length) ==
    /\ raw \in Bytes /\ Len(raw) = length
    /\ Deserialize(raw) # None /\ Deserialize(raw)[1].payload = payload

(* PDU::deserialize gives back the payload of every extended PDU that was  *)
(* serialized, with or without a timestamp and a digest.                   *)
THEOREM PduRoundTrip ==
    ASSUME NEW payload, Short(payload), NEW stamp, Optional(stamp, 8),
           NEW mac, Optional(mac, 32)
    PROVE  Carried(Serialize(MakeExtended(Header(1, stamp), payload, mac)), payload,
                   9 + Len(stamp) + Len(payload) + Len(mac))
<1> DEFINE p == Len(payload)
           t == Len(stamp)
           x == Len(mac)
           flags == FlagsOf(stamp, mac)
           raw == PduBytes(stamp, payload, mac, p)
           two == <<Extended, 1>>
           code == 7 + t
           last == 9 + t + p
           end == 9 + t + p + x
<1>1. /\ payload \in Bytes /\ stamp \in Bytes /\ mac \in Bytes /\ p \in Number
      /\ Optional(stamp, 8) /\ Optional(mac, 32)
  BY Zenon DEF Short, Optional
<1>2. p \in Nat /\ t \in Nat /\ x \in Nat /\ p % 65536 = p
  <2>1. t \in Nat /\ x \in Nat
    BY <1>1 DEF Bytes
  <2> HIDE DEF p, t, x
  <2> QED
    BY <1>1, <2>1 DEF Number
<1>3. PduHolds(raw, stamp, payload, mac, p)
  BY <1>1, PduPlaces, Zenon
<1>4. Serialize(MakeExtended(Header(1, stamp), payload, mac)) = raw
  <2>1. Serialize(MakeExtended(Header(1, stamp), payload, mac))
          = PduBytes(stamp, payload, mac, p % 65536)
    BY SerializeParts
  <2> HIDE DEF p
  <2> QED
    BY <1>2, <2>1
<1> HIDE DEF raw
<1>5. t = IF stamp # None THEN 8 ELSE 0
  BY <1>1 DEF Optional
<1>6. x = IF mac # None THEN 32 ELSE 0
  BY <1>1 DEF Optional
<1>7. /\ flags \in Number /\ (HasFlag(flags, HasTimestamp) <=> stamp # None)
      /\ (HasFlag(flags, HasHMAC) <=> mac # None)
  BY FlagsTell, Zenon
<1> HIDE DEF flags, two
<1>8. /\ raw \in Bytes /\ Len(raw) = end /\ Stands(raw, 0, two) /\ Stands(raw, 2, U16(flags))
      /\ Stands(raw, 7 + t, U16(p)) /\ Stands(raw, 9 + t, payload)
  BY <1>3, Zenon DEF PduHolds, flags, two
<1>9. FromU16(raw, 3) = flags
  <2>1. FromU16(raw, 2 + 1) = flags
    BY <1>7, <1>8, NumberRead, Zenon
  <2> QED
    BY <2>1
<1>10. FromU16(raw, code + 1) = p
  BY <1>1, <1>8, NumberRead, Zenon
<1>11. raw[1] = Extended /\ raw[2] = 1
  <2>1. Len(two) = 2 /\ two[1] = Extended /\ two[2] = 1
    BY DEF two
  <2>2. \A n \in 1 .. Len(two) : raw[0 + n] = two[n]
    BY <1>8, Zenon DEF Stands
  <2>3. 0 + 1 = 1 /\ 0 + 2 = 2 /\ 1 \in 1 .. Len(two) /\ 2 \in 1 .. Len(two)
    BY <2>1
  <2>4. raw[0 + 1] = two[1] /\ raw[0 + 2] = two[2]
    BY <2>2, <2>3, Zenon
  <2> QED
    BY <2>1, <2>3, <2>4
<1>12. SubSeq(raw, code + 3, last) = payload
  <2>1. SubSeq(raw, (9 + t) + 1, (9 + t) + p) = payload
    BY <1>8, StandsSlice, Zenon
  <2>2. (9 + t) + 1 = code + 3
    <3> HIDE DEF t
    <3> QED
      BY <1>2
  <2> QED
    BY <2>1, <2>2, Zenon
<1>13. raw # << >>
  <2>1. Len(raw) # 0
    <3> HIDE DEF p, t, x
    <3> QED
      BY <1>2, <1>8
  <2> QED
    BY <2>1
<1> HIDE DEF p, t, x
<1>14. /\ code = IF stamp # None THEN 15 ELSE 7
       /\ last = code + 2 + p
       /\ end = IF mac # None THEN last + 32 ELSE last
  BY <1>2, <1>5, <1>6
<1>15. ~(end < 9) /\ ~(end < code + 2) /\ ~(end < end)
  BY <1>2
<1> HIDE DEF code, last, end
<1>16. Whole(raw, code, last, end)
  <2>1. /\ code = IF HasFlag(FromU16(raw, 3), HasTimestamp) THEN 15 ELSE 7
        /\ end = IF HasFlag(FromU16(raw, 3), HasHMAC) THEN last + 32 ELSE last
    BY <1>7, <1>9, <1>14
  <2>2. last = code + 2 + FromU16(raw, code + 1)
    BY <1>10, <1>14
  <2> QED
    BY <1>8, <1>11, <1>13, <1>15, <2>1, <2>2 DEF Whole
<1>17. Deserialize(raw) # None /\ Deserialize(raw)[1].payload = payload
  BY <1>12, <1>16, DeserializeGives, Zenon
<1> QED
  BY <1>4, <1>8, <1>17, Zenon DEF Carried, end, p, t, x

-----------------------------------------------------------------------------
(* Frames                                                                  *)

(* A PDU and its bytes, few enough for a frame of either kind.             *)
Framed(pdu, bytes) ==
    Serialize(pdu) = bytes /\ bytes \in Bytes /\ Len(bytes) >= 1 /\ Len(bytes) < 65535

(* What FrameCodec::wrap_tcp makes of bytes.                               *)
TcpHolds(w, bytes) ==
    /\ w \in Bytes /\ Len(w) = 7 + Len(bytes) /\ w[3] = 0 /\ w[4] = 0
    /\ FromU16(w, 5) = 1 + Len(bytes) /\ Stands(w, 7, bytes)

LEMMA TcpPlaces ==
    ASSUME NEW pdu, NEW bytes, Framed(pdu, bytes)
    PROVE  TcpHolds(WrapTcp(1, pdu, 7), bytes)
<1> DEFINE n == Len(bytes)
           L == 1 + n
           c1 == U16(7)
           c2 == <<0, 0>>
           c3 == U16(L)
           c4 == <<1>>
           a == c1 \o c2 \o c3
           w == WrapTcp(1, pdu, 7)
<1>1. Serialize(pdu) = bytes /\ bytes \in Bytes
  BY DEF Framed
<1>2. L \in Number
  <2>1. n \in Nat /\ n < 65535
    BY <1>1 DEF Bytes, Framed
  <2> HIDE DEF n
  <2> QED
    BY <2>1 DEF Number
<1>3. w = a \o c4 \o bytes
  <2>1. w = U16(7) \o <<0, 0>> \o U16(L % 65536) \o <<1>> \o bytes
    BY <1>1 DEF WrapTcp
  <2> HIDE DEF L, w
  <2>2. L % 65536 = L
    BY <1>2 DEF Number
  <2> QED
    BY <2>1, <2>2
<1>4. c1 \in Bytes /\ Len(c1) = 2
  <2>1. 7 \in Number
    BY DEF Number
  <2> QED
    BY <2>1, NumberRead, Zenon
<1>5. c2 \in Bytes /\ Len(c2) = 2 /\ c2[1] = 0 /\ c2[2] = 0 /\ c4 \in Bytes /\ Len(c4) = 1
  BY DEF Bytes, Octet
<1> HIDE DEF L, n, w
<1>6. c3 \in Bytes /\ Len(c3) = 2
  BY <1>2, NumberRead, Zenon
<1> HIDE DEF c1, c2, c3, c4
<1>7. ThreeStand(a, c1, c2, c3)
  BY <1>4, <1>5, <1>6, ThreePieces, Zenon DEF Three
<1> HIDE DEF a
<1>8. a \in Bytes /\ Len(a) = 6 /\ Stands(a, 2, c2) /\ Stands(a, 4, c3)
  <2>1. /\ a \in Bytes /\ Len(a) = Len(c1) + Len(c2) + Len(c3)
        /\ Stands(a, Len(c1), c2) /\ Stands(a, Len(c1) + Len(c2), c3)
    BY <1>7, Zenon DEF ThreeStand
  <2>2. 2 + 2 + 2 = 6 /\ 2 + 2 = 4
    OBVIOUS
  <2> QED
    BY <1>4, <1>5, <1>6, <2>1, <2>2, Zenon
<1>9. ThreeStand(w, a, c4, bytes)
  BY <1>1, <1>3, <1>5, <1>8, ThreePieces, Zenon DEF Three
<1>10. /\ w \in Bytes /\ Len(w) = 7 + n /\ Stands(w, 2, c2) /\ Stands(w, 4, c3)
       /\ Stands(w, 7, bytes)
  <2>1. /\ w \in Bytes /\ Len(w) = Len(a) + Len(c4) + Len(bytes)
        /\ Stands(w, 0, a) /\ Stands(w, Len(a) + Len(c4), bytes)
    BY <1>9, Zenon DEF ThreeStand
  <2>2. Stands(w, 2, c2) /\ Stands(w, 4, c3)
    BY <1>8, <2>1, StandsFirst, Zenon
  <2>3. Len(w) = 6 + 1 + n /\ Stands(w, 6 + 1, bytes)
    BY <1>5, <1>8, <2>1, Zenon DEF n
  <2>4. 6 + 1 = 7
    OBVIOUS
  <2> QED
    BY <2>1, <2>2, <2>3, <2>4, Zenon
<1>11. FromU16(w, 5) = L
  <2>1. FromU16(w, 4 + 1) = L
    BY <1>2, <1>10, NumberRead, Zenon DEF c3
  <2>2. 4 + 1 = 5
    OBVIOUS
  <2> QED
    BY <2>1, <2>2, Zenon
<1>12. w[3] = 0 /\ w[4] = 0
  <2>1. \A k \in 1 .. Len(c2) : w[2 + k] = c2[k]
    BY <1>10, Zenon DEF Stands
  <2>2. 2 + 1 = 3 /\ 2 + 2 = 4 /\ 1 \in 1 .. Len(c2) /\ 2 \in 1 .. Len(c2)
    BY <1>5
  <2>3. w[2 + 1] = c2[1] /\ w[2 + 2] = c2[2]
    BY <2>1, <2>2, Zenon
  <2> QED
    BY <1>5, <2>2, <2>3
<1> QED
  BY <1>10, <1>11, <1>12, Zenon DEF TcpHolds, L, n, w

(* A frame whose length field is right.                                    *)
TcpSound(w) ==
    /\ w \in Bytes /\ Len(w) \in Nat /\ Len(w) >= 8 /\ FromU16(w, 5) \in Nat
    /\ Len(w) = 6 + FromU16(w, 5)

(* Its length field counts the bytes that follow it.                       *)
LEMMA TcpFrame ==
    ASSUME NEW pdu, NEW bytes, Framed(pdu, bytes)
    PROVE  TcpSound(WrapTcp(1, pdu, 7))
<1> DEFINE w == WrapTcp(1, pdu, 7)
           n == Len(bytes)
<1>1. w \in Bytes /\ Len(w) = 7 + n /\ FromU16(w, 5) = 1 + n
  BY TcpPlaces, Zenon DEF TcpHolds
<1>2. n \in Nat /\ n >= 1
  BY DEF Framed, Bytes
<1> HIDE DEF w, n
<1>3. Len(w) \in Nat /\ Len(w) >= 8 /\ FromU16(w, 5) \in Nat /\ Len(w) = 6 + FromU16(w, 5)
  BY <1>1, <1>2
<1> QED
  BY <1>1, <1>3, Zenon DEF TcpSound, w

(* A frame without its end is dropped.                                     *)
LEMMA TcpCut ==
    ASSUME NEW w, TcpSound(w), NEW n \in 0 .. Len(w) - 1
    PROVE  UnwrapTcp(SubSeq(w, 1, n)) = None
<1> DEFINE v == SubSeq(w, 1, n)
<1>1. /\ w \in Seq(Octet) /\ Len(w) \in Nat /\ FromU16(w, 5) \in Nat
      /\ Len(w) = 6 + FromU16(w, 5)
  BY DEF TcpSound, Bytes
<1>2. Len(v) = n /\ \A k \in 1 .. n : v[k] = w[k]
  BY <1>1
<1>3. CASE n < 8
  BY <1>2, <1>3 DEF UnwrapTcp
<1>4. CASE ~(n < 8)
  <2>1. v[5] = w[5] /\ v[6] = w[6]
    BY <1>2, <1>4
  <2>2. FromU16(v, 5) = FromU16(w, 5)
    <3>1. 5 + 1 = 6
      OBVIOUS
    <3> HIDE DEF v
    <3> QED
      BY <2>1, <3>1 DEF FromU16
  <2> HIDE DEF v
  <2>3. Len(v) < 6 + FromU16(v, 5)
    BY <1>1, <1>2, <2>2
  <2> QED
    BY <2>3 DEF UnwrapTcp, v
<1> QED
  BY <1>3, <1>4

(* The PDU that an unwrapped frame gives is the one of these bytes.        *)
Holds(got, bytes) == got # None /\ got[1].pdu = Deserialize(bytes)[1]

(* FrameCodec::unwrap_tcp gives back the PDU of the bytes that were        *)
(* wrapped.                                                                *)
THEOREM TcpRoundTrip ==
    ASSUME NEW pdu, NEW bytes, Framed(pdu, bytes), Deserialize(bytes) # None
    PROVE  Holds(UnwrapTcp(WrapTcp(1, pdu, 7)), bytes)
<1> DEFINE w == WrapTcp(1, pdu, 7)
           n == Len(bytes)
<1>1. /\ w \in Bytes /\ Len(w) = 7 + n /\ FromU16(w, 5) = 1 + n /\ w[3] = 0 /\ w[4] = 0
      /\ Stands(w, 7, bytes)
  BY TcpPlaces, Zenon DEF TcpHolds
<1>2. n \in Nat /\ n >= 1
  BY DEF Framed, Bytes
<1>3. SubSeq(w, 7 + 1, 7 + n) = bytes
  BY <1>1, StandsSlice, Zenon
<1> HIDE DEF w, n
<1>4. 7 + 1 = 8 /\ 7 + n = 6 + (1 + n) /\ ~(7 + n < 8) /\ ~(7 + n < 6 + (1 + n))
  BY <1>2
<1>5. SubSeq(w, 8, 6 + FromU16(w, 5)) = bytes
  BY <1>1, <1>3, <1>4
<1>6. ~(Len(w) < 8) /\ ~(Len(w) < 6 + FromU16(w, 5))
  BY <1>1, <1>4
<1>7. UnwrapTcp(w) = <<[unit |-> w[7], pdu |-> Deserialize(bytes)[1], txn |-> FromU16(w, 1)]>>
  BY <1>1, <1>5, <1>6 DEF UnwrapTcp
<1>8. Holds(UnwrapTcp(w), bytes)
  BY <1>7 DEF Holds, None
<1> QED
  BY <1>8 DEF w

(* What FrameCodec::wrap_rtu makes of bytes: the CRC at the end is the CRC *)
(* of what precedes it.                                                    *)
RtuHolds(w, bytes) ==
    /\ w \in Bytes /\ Len(w) = Len(bytes) + 3
    /\ SubSeq(w, 1, Len(bytes) + 1) = <<1>> \o bytes
    /\ CrcMatches(w, Len(bytes) + 1)

LEMMA RtuPlaces ==
    ASSUME NEW pdu, NEW bytes, Framed(pdu, bytes)
    PROVE  RtuHolds(WrapRtu(1, pdu), bytes)
<1> DEFINE data == <<1>> \o bytes
           crc == Crc16(data)
           lo == ByteOf(Low8(crc))
           hi == ByteOf(High8(crc))
           N == Len(data)
           w == data \o <<lo, hi>>
<1>1. Serialize(pdu) = bytes /\ bytes \in Bytes
  BY DEF Framed
<1>2. data \in Bytes /\ N \in Nat /\ N = Len(bytes) + 1 /\ Len(bytes) + 3 = N + 2
  <2> DEFINE one == <<1>>
             k == Len(bytes)
  <2>1. one \in Bytes /\ Len(one) = 1
    BY DEF Bytes, Octet
  <2> HIDE DEF one
  <2>2. data \in Bytes /\ N = Len(one) + k /\ k \in Nat
    BY <1>1, <2>1, Joined DEF one
  <2> HIDE DEF data, N, k
  <2>3. N = k + 1 /\ k + 3 = N + 2 /\ N \in Nat
    BY <2>1, <2>2
  <2> QED
    BY <2>2, <2>3 DEF k
<1>3. WrapRtu(1, pdu) = w
  BY <1>1 DEF WrapRtu
<1> HIDE DEF data, crc
<1>4. crc \in SUBSET (0 .. 15)
  <2>1. PICK c \in [0 .. N -> Crc] : CrcRun(c, N, data)
    BY <1>2, CrcRuns
  <2>2. DOMAIN data = 1 .. N
    BY <1>2 DEF Bytes
  <2>3. crc = c[N]
    <3>1. N <= N
      BY <1>2
    <3> HIDE DEF N
    <3> QED
      BY <1>2, <2>1, <2>2, <3>1, CrcIs DEF crc
  <2> QED
    BY <1>2, <2>1, <2>3 DEF Crc
<1>5. Low8(crc) \in SUBSET (0 .. 7) /\ High8(crc) \in SUBSET (0 .. 7)
  BY <1>4 DEF Low8, High8
<1>6. /\ lo \in Octet /\ Bits(lo) = Low8(crc)
      /\ hi \in Octet /\ Bits(hi) = High8(crc)
  BY <1>5, BitsOfByte DEF Octet
<1> HIDE DEF lo, hi
<1> DEFINE tail == <<lo, hi>>
<1>7. tail \in Bytes /\ Len(tail) = 2 /\ tail[1] = lo /\ tail[2] = hi
  BY <1>6 DEF Bytes
<1> HIDE DEF tail
<1>8. w = data \o tail
  BY DEF tail
<1> HIDE DEF w
<1>9. Follows(w, data, tail)
  BY <1>2, <1>7, <1>8, Zenon DEF Follows
<1>10. Joins(w, data, tail)
  BY <1>9, FollowsFacts, Zenon
<1>11. w \in Bytes /\ Len(w) = N + 2 /\ Stands(w, 0, data) /\ Stands(w, N, tail)
  BY <1>7, <1>10, Zenon DEF Joins
<1>12. SubSeq(w, 1, N) = data
  <2>1. SubSeq(w, 0 + 1, 0 + N) = data
    BY <1>11, StandsSlice, Zenon
  <2>2. 0 + 1 = 1 /\ 0 + N = N
    BY <1>2
  <2> QED
    BY <2>1, <2>2
<1>13. w[N + 1] = lo /\ w[N + 2] = hi
  <2>1. \A k \in 1 .. Len(tail) : w[N + k] = tail[k]
    BY <1>11, Zenon DEF Stands
  <2>2. 1 \in 1 .. Len(tail) /\ 2 \in 1 .. Len(tail)
    BY <1>7
  <2> QED
    BY <1>7, <2>1, <2>2, Zenon
<1>14. CrcMatches(w, N)
  BY <1>6, <1>12, <1>13 DEF CrcMatches, crc
<1> DEFINE k == Len(bytes)
<1>15. N = k + 1 /\ k + 3 = N + 2
  BY <1>2
<1> HIDE DEF N, k
<1>16. Len(w) = k + 3 /\ SubSeq(w, 1, k + 1) = data /\ CrcMatches(w, k + 1)
  BY <1>11, <1>12, <1>14, <1>15, Zenon
<1> QED
  BY <1>3, <1>11, <1>16, Zenon DEF RtuHolds, k, data

(* A frame whose CRC is right.                                             *)
RtuSound(w) ==
    \E N \in Nat : w \in Bytes /\ Len(w) = N + 2 /\ N >= 2 /\ CrcMatches(w, N)

(* Its CRC is right.                                                       *)
LEMMA RtuFrame ==
    ASSUME NEW pdu, NEW bytes, Framed(pdu, bytes)
    PROVE  RtuSound(WrapRtu(1, pdu))
<1> DEFINE w == WrapRtu(1, pdu)
           n == Len(bytes)
<1>1. w \in Bytes /\ Len(w) = n + 3 /\ CrcMatches(w, n + 1)
  BY RtuPlaces, Zenon DEF RtuHolds
<1>2. n \in Nat /\ n >= 1
  BY DEF Framed, Bytes
<1> HIDE DEF w, n
<1>3. n + 1 \in Nat /\ Len(w) = (n + 1) + 2 /\ n + 1 >= 2
  BY <1>1, <1>2
<1>4. RtuSound(w)
  BY <1>1, <1>3, Zenon DEF RtuSound
<1> QED
  BY <1>4 DEF w

(* FrameCodec::unwrap_rtu gives back the PDU of the bytes that were        *)
(* wrapped.                                                                *)
THEOREM RtuRoundTrip ==
    ASSUME NEW pdu, NEW bytes, Framed(pdu, bytes), Deserialize(bytes) # None
    PROVE  Holds(UnwrapRtu(WrapRtu(1, pdu)), bytes)
<1> DEFINE w == WrapRtu(1, pdu)
           n == Len(bytes)
           data == <<1>> \o bytes
<1>1. w \in Bytes /\ Len(w) = n + 3 /\ SubSeq(w, 1, n + 1) = data /\ CrcMatches(w, n + 1)
  BY RtuPlaces, Zenon DEF RtuHolds
<1>2. n \in Nat /\ n >= 1 /\ bytes \in Seq(Octet)
  BY DEF Framed, Bytes
<1>3. Tail(data) = bytes
  <2> DEFINE one == <<1>>
             rest == Tail(data)
  <2>1. one \in Bytes /\ Len(one) = 1
    BY DEF Bytes, Octet
  <2>2. bytes \in Bytes
    BY <1>2 DEF Bytes
  <2> HIDE DEF one
  <2>3. Follows(data, one, bytes)
    BY <2>1, <2>2, Zenon DEF Follows, one
  <2> HIDE DEF data
  <2>4. Joins(data, one, bytes)
    BY <2>3, FollowsFacts, Zenon
  <2>5. data \in Bytes /\ Len(data) = Len(one) + n /\ Stands(data, Len(one), bytes)
    BY <2>4, Zenon DEF Joins
  <2>6. \A i \in 1 .. n : data[1 + i] = bytes[i]
    BY <2>1, <2>5, Zenon DEF Stands
  <2> HIDE DEF n, rest
  <2>7. data \in Seq(Octet) /\ Len(data) = 1 + n /\ data # << >>
    BY <1>2, <2>1, <2>5 DEF Bytes
  <2>8. rest \in Seq(Octet) /\ Len(rest) = n
    BY <1>2, <2>7 DEF rest
  <2>9. \A i \in 1 .. n : rest[i] = data[i + 1]
    BY <1>2, <2>7 DEF rest
  <2>10. \A i \in 1 .. n : rest[i] = bytes[i]
    <3>1. \A i \in 1 .. n : i + 1 = 1 + i
      BY <1>2
    <3> QED
      BY <2>6, <2>9, <3>1
  <2>11. rest = [i \in 1 .. n |-> rest[i]]
    BY <2>8
  <2>12. bytes = [i \in 1 .. n |-> bytes[i]]
    BY <1>2 DEF n
  <2> QED
    BY <2>10, <2>11, <2>12 DEF rest
<1> HIDE DEF w, n, data
<1>4. Len(w) - 2 = n + 1 /\ Len(w) - 1 = (n + 1) + 1 /\ Len(w) = (n + 1) + 2 /\ ~(Len(w) < 4)
  BY <1>1, <1>2
<1>5. SubSeq(w, 1, Len(w) - 2) = data
  BY <1>1, <1>4
<1>6. Low8(Crc16(data)) = Bits(w[Len(w) - 1]) /\ High8(Crc16(data)) = Bits(w[Len(w)])
  BY <1>1, <1>4 DEF CrcMatches
<1>7. UnwrapRtu(w) = <<[unit |-> w[1], pdu |-> Deserialize(bytes)[1]]>>
  BY <1>3, <1>4, <1>5, <1>6 DEF UnwrapRtu
<1>8. Holds(UnwrapRtu(w), bytes)
  BY <1>7 DEF Holds, None
<1> QED
  BY <1>8 DEF w
=============================================================================
