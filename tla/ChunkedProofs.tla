--------------------------- MODULE ChunkedProofs ---------------------------
(***************************************************************************)
(* The slices of packed values and of VarInts, proved for every slice,     *)
(* every size of the buffer and every sink: what is announced is what is   *)
(* sent, a reader finds each value, and a value that is too large is never *)
(* reported as written.                                                    *)
(***************************************************************************)
EXTENDS ChunkedSerializer, RecursionProofs, SequenceTheorems

-----------------------------------------------------------------------------
(* Packed values *)

\* The reader finds what was packed.
LEMMA ReadsWhatIsPacked ==
  ASSUME NEW bits \in 1 .. 8, NEW values \in Seq(Nat), NEW i \in 1 .. Len(values),
         values[i] < 2^bits
  PROVE  ReadPackedBits(Packed(bits, values), bits, i - 1) = values[i]
<1> DEFINE bytes == Packed(bits, values)
           Read(b) == LET p == (i - 1) * bits + b
                      IN  BitOf(bytes[p \div 8 + 1], p % 8)
           Found(b) == IF b < bits THEN Read(b) ELSE 0
           Own(b) == IF b < bits THEN BitOf(values[i], b) ELSE 0
<1>1. PICK n \in Nat : n = Len(values)
  OBVIOUS
<1>2. i \in 1 .. n /\ values[i] \in Nat
  BY <1>1
<1>3. ASSUME NEW b \in 0 .. 7, b < bits
      PROVE  Read(b) = BitOf(values[i], b)
  <2>1. PICK p \in Int : p = (i - 1) * bits + b
    OBVIOUS
  <2>2. p \in Nat /\ p < bits * n /\ p \div bits = i - 1 /\ p % bits = b
    <3>1. i - 1 \in Nat /\ b \in 0 .. bits - 1
      BY <1>2, <1>3
    <3>2. p \div bits = i - 1 /\ p % bits = b
      BY <2>1, <3>1, BitPosition
    <3>3. p \in Nat /\ p < bits * n
      <4>1. CASE bits = 1 BY <1>2, <1>3, <2>1, <4>1
      <4>2. CASE bits = 2 BY <1>2, <1>3, <2>1, <4>2
      <4>3. CASE bits = 3 BY <1>2, <1>3, <2>1, <4>3
      <4>4. CASE bits = 4 BY <1>2, <1>3, <2>1, <4>4
      <4>5. CASE bits = 5 BY <1>2, <1>3, <2>1, <4>5
      <4>6. CASE bits = 6 BY <1>2, <1>3, <2>1, <4>6
      <4>7. CASE bits = 7 BY <1>2, <1>3, <2>1, <4>7
      <4>8. CASE bits = 8 BY <1>2, <1>3, <2>1, <4>8
      <4>. QED BY <4>1, <4>2, <4>3, <4>4, <4>5, <4>6, <4>7, <4>8
    <3>. QED BY <3>2, <3>3
  <2>3. PICK w \in Nat : w = bits * n
    OBVIOUS
  <2>4. /\ p \div 8 + 1 \in 1 .. (w + 7) \div 8
        /\ p % 8 \in 0 .. 7
        /\ 8 * (p \div 8 + 1 - 1) + (p % 8) = p
    BY <2>2, <2>3
  <2>5. /\ Len(bytes) = (w + 7) \div 8
        /\ \A k \in 1 .. Len(bytes) : \A c \in 0 .. 7 :
             BitOf(bytes[k], c) = PackedBit(bits, values, 8 * (k - 1) + c)
    BY <1>1, <2>3, PackedBytesOf
  <2> HIDE DEF bytes
  <2>6. BitOf(bytes[p \div 8 + 1], p % 8) = PackedBit(bits, values, p)
    <3>1. PICK x \in 1 .. (w + 7) \div 8, c \in 0 .. 7 :
            x = p \div 8 + 1 /\ c = p % 8
      BY <2>4
    <3>2. 8 * (x - 1) + c = p
      BY <2>4, <3>1
    <3>. QED BY <2>5, <3>1, <3>2
  <2>7. PackedBit(bits, values, p) = BitOf(values[i], b)
    <3>1. p < bits * Len(values) /\ (i - 1) + 1 = i
      BY <1>1, <1>2, <2>2
    <3>. QED BY <2>2, <3>1 DEF PackedBit
  <2>. QED BY <2>1, <2>6, <2>7
<1>4. [b \in 0 .. 7 |-> Found(b)] = [b \in 0 .. 7 |-> Own(b)]
  <2>1. ASSUME NEW b \in 0 .. 7 PROVE Found(b) = Own(b)
    <3> HIDE DEF Read
    <3>. QED BY <1>3
  <2> HIDE DEF Found, Own
  <2>. QED BY <2>1
<1>5. ReadPackedBits(bytes, bits, i - 1) = FromBits([b \in 0 .. 7 |-> Found(b)])
  BY DEF ReadPackedBits
<1>6. FromBits([b \in 0 .. 7 |-> Own(b)]) = values[i]
  BY <1>2, NumberOfItsBits
<1> HIDE DEF Found, Own
<1>. QED BY <1>4, <1>5, <1>6

\* A chunk that begins between two bytes packs the bytes the whole slice has
\* there: where the chunks end cannot be seen, if a chunk ends between two
\* bytes or with the slice.
LEMMA ChunkIsAPart ==
  ASSUME NEW bits \in 1 .. 8, NEW values \in Seq(Nat),
         NEW i \in 0 .. Len(values), NEW j \in i .. Len(values),
         (bits * i) % 8 = 0,
         (bits * j) % 8 = 0 \/ j = Len(values),
         NEW k \in 1 .. (bits * (j - i) + 7) \div 8
  PROVE  Packed(bits, SubSeq(values, i + 1, j))[k]
           = Packed(bits, values)[(bits * i) \div 8 + k]
<1> DEFINE part == SubSeq(values, i + 1, j)
<1>1. part \in Seq(Nat) /\ Len(part) = j - i
      /\ \A m \in 1 .. j - i : part[m] = values[i + m]
  OBVIOUS
<1>2. PICK n \in Nat, a \in Nat, e \in Nat, d \in Nat :
        /\ n = Len(values) /\ a = bits * i /\ e = bits * j /\ d = bits * (j - i)
  OBVIOUS
<1>3. i \in Nat /\ j \in Nat /\ i <= j /\ j <= n /\ a % 8 = 0 /\ d = e - a
      /\ (e % 8 = 0 \/ j = n) /\ e <= bits * n
  <2>1. CASE bits = 1 BY <1>2, <2>1
  <2>2. CASE bits = 2 BY <1>2, <2>2
  <2>3. CASE bits = 3 BY <1>2, <2>3
  <2>4. CASE bits = 4 BY <1>2, <2>4
  <2>5. CASE bits = 5 BY <1>2, <2>5
  <2>6. CASE bits = 6 BY <1>2, <2>6
  <2>7. CASE bits = 7 BY <1>2, <2>7
  <2>8. CASE bits = 8 BY <1>2, <2>8
  <2>. QED BY <2>1, <2>2, <2>3, <2>4, <2>5, <2>6, <2>7, <2>8
<1> HIDE DEF part
<1>4. k \in 1 .. (d + 7) \div 8
  BY <1>2
<1>5. ASSUME NEW b \in 0 .. 7
      PROVE  PackedBit(bits, part, 8 * (k - 1) + b)
               = PackedBit(bits, values, 8 * (a \div 8 + k - 1) + b)
  <2>1. PICK p \in Nat : p = 8 * (k - 1) + b
    BY <1>4
  <2>2. 8 * (a \div 8 + k - 1) + b = a + p
    BY <1>3, <2>1
  <2>3. bits * Len(part) = d
    BY <1>1, <1>2
  <2>4. CASE p < d
    <3>1. p \div bits \in 0 .. (j - i) - 1 /\ p % bits \in 0 .. 7
      <4>1. j - i \in Nat /\ p < bits * (j - i)
        BY <1>2, <1>3, <2>4
      <4>. QED BY <4>1, ValueOfBit
    <3>2. (a + p) \div bits = i + p \div bits /\ (a + p) % bits = p % bits
      <4>1. CASE bits = 1 BY <1>2, <4>1
      <4>2. CASE bits = 2 BY <1>2, <4>2
      <4>3. CASE bits = 3 BY <1>2, <4>3
      <4>4. CASE bits = 4 BY <1>2, <4>4
      <4>5. CASE bits = 5 BY <1>2, <4>5
      <4>6. CASE bits = 6 BY <1>2, <4>6
      <4>7. CASE bits = 7 BY <1>2, <4>7
      <4>8. CASE bits = 8 BY <1>2, <4>8
      <4>. QED BY <4>1, <4>2, <4>3, <4>4, <4>5, <4>6, <4>7, <4>8
    <3>3. a + p < bits * Len(values)
      BY <1>2, <1>3, <2>4
    <3>4. part[p \div bits + 1] = values[(a + p) \div bits + 1]
      <4>1. PICK m \in 1 .. j - i : m = p \div bits + 1
        BY <1>3, <3>1
      <4>2. PICK q \in Int : q = p \div bits
        OBVIOUS
      <4>3. (a + p) \div bits + 1 = i + m
        BY <1>3, <3>2, <4>1, <4>2
      <4>4. part[m] = values[i + m]
        BY <1>1
      <4>. QED BY <4>1, <4>3, <4>4
    <3>. QED BY <2>1, <2>2, <2>3, <2>4, <3>2, <3>3, <3>4 DEF PackedBit
  <2>5. CASE ~(p < d)
    <3>1. e % 8 # 0
      BY <1>3, <1>4, <2>1, <2>5
    <3>2. j = n
      BY <1>3, <3>1
    <3>3. ~(a + p < bits * Len(values))
      BY <1>2, <1>3, <2>5, <3>2
    <3>. QED BY <2>1, <2>2, <2>3, <2>5, <3>3 DEF PackedBit
  <2>. QED BY <2>4, <2>5
<1>6. [b \in 0 .. 7 |-> PackedBit(bits, part, 8 * (k - 1) + b)]
        = [b \in 0 .. 7 |-> PackedBit(bits, values, 8 * (a \div 8 + k - 1) + b)]
  BY <1>5
<1>7. Packed(bits, part)[k]
        = FromBits([b \in 0 .. 7 |-> PackedBit(bits, part, 8 * (k - 1) + b)])
  <2>1. k \in 1 .. (bits * Len(part) + 7) \div 8
    BY <1>1
  <2>. QED BY <2>1 DEF Packed
<1>8. Packed(bits, values)[a \div 8 + k]
        = FromBits([b \in 0 .. 7 |->
                      PackedBit(bits, values, 8 * (a \div 8 + k - 1) + b)])
  <2>1. a \div 8 + k \in 1 .. (bits * Len(values) + 7) \div 8
    <3>1. PICK w \in Nat : w = bits * Len(values)
      BY <1>2
    <3>2. a + d <= w
      BY <1>2, <1>3, <3>1
    <3>. QED BY <1>3, <1>4, <3>1, <3>2
  <2>. QED BY <2>1 DEF Packed
<1>. QED BY <1>2, <1>6, <1>7, <1>8 DEF part
-----------------------------------------------------------------------------
(* Where values and slices end *)

\* f adds up the numbers of d.
Adds(f, n, d) ==
  /\ f \in [0 .. n -> Nat]
  /\ f[0] = 0
  /\ \A i \in 1 .. n : f[i] = f[i - 1] + d[i]

LEMMA SumsExist ==
  ASSUME NEW n \in Nat, NEW d \in [1 .. n -> Nat]
  PROVE  \E f : Adds(f, n, d)
<1> DEFINE step == [i \in 1 .. n |-> [x \in Nat |-> x + d[i]]]
<1>1. step \in [1 .. n -> [Nat -> Nat]]
  OBVIOUS
<1>2. \A i \in 1 .. n : \A x \in Nat : step[i][x] = x + d[i]
  OBVIOUS
<1> HIDE DEF step
<1>3. PICK f : f \in Recursions(n, Nat, 0, step)
  <2>1. 0 \in Nat
    OBVIOUS
  <2>2. Recursions(n, Nat, 0, step) # {}
    BY <1>1, <2>1, Recursion
  <2>. QED BY <2>2
<1>4. /\ f \in [0 .. n -> Nat] /\ f[0] = 0
      /\ \A i \in 1 .. n : f[i] = step[i][f[i - 1]]
  BY <1>3 DEF Recursions
<1>5. ASSUME NEW i \in 1 .. n
      PROVE  f[i] = f[i - 1] + d[i]
  <2>1. i - 1 \in 0 .. n
    OBVIOUS
  <2>2. f[i - 1] \in Nat
    BY <1>4, <2>1
  <2>. QED BY <1>2, <1>4, <2>2
<1>6. Adds(f, n, d)
  BY <1>4, <1>5 DEF Adds
<1>. QED BY <1>6

\* Two sums of the same numbers agree.
LEMMA SumsAgree ==
  ASSUME NEW n \in Nat, NEW m \in 0 .. n, NEW f, NEW g, NEW d, NEW e,
         Adds(f, n, d), Adds(g, m, e), \A i \in 1 .. m : d[i] = e[i]
  PROVE  \A i \in 0 .. m : f[i] = g[i]
<1> DEFINE S == {i \in 0 .. m : f[i] = g[i]}
<1>1. m \in Nat
  OBVIOUS
<1>2. 0 \in S
  BY DEF Adds
<1>3. ASSUME NEW k \in 0 .. m - 1, k \in S
      PROVE  k + 1 \in S
  <2>1. k + 1 \in 1 .. m /\ k + 1 \in 1 .. n /\ (k + 1) - 1 = k
    OBVIOUS
  <2>2. f[k + 1] = f[k] + d[k + 1] /\ g[k + 1] = g[k] + e[k + 1]
    BY <2>1 DEF Adds
  <2>. QED BY <1>3, <2>1, <2>2
<1> HIDE DEF S
<1>4. \A i \in 0 .. m : i \in S
  BY <1>1, <1>2, <1>3, Induction
<1>. QED BY <1>4 DEF S

LEMMA SumsGrow ==
  ASSUME NEW n \in Nat, NEW f, NEW d \in [1 .. n -> Nat], Adds(f, n, d),
         NEW i \in 0 .. n, NEW j \in i .. n
  PROVE  f[i] <= f[j]
<1> DEFINE S == {k \in 0 .. n - i : f[i] <= f[i + k]}
<1>1. f \in [0 .. n -> Nat]
  BY DEF Adds
<1>2. 0 \in S
  BY <1>1
<1>3. ASSUME NEW k \in 0 .. (n - i) - 1, k \in S
      PROVE  k + 1 \in S
  <2>1. /\ i + k + 1 \in 1 .. n /\ (i + k + 1) - 1 = i + k
        /\ i + (k + 1) = i + k + 1 /\ i + k \in 0 .. n
    OBVIOUS
  <2>2. f[i + k + 1] = f[i + k] + d[i + k + 1]
    BY <2>1 DEF Adds
  <2>3. d[i + k + 1] \in Nat /\ f[i + k] \in Nat /\ f[i] \in Nat
    BY <1>1, <2>1
  <2>. QED BY <1>3, <2>1, <2>2, <2>3
<1>4. \A k \in 0 .. n - i : k \in S
  <2>1. n - i \in Nat
    OBVIOUS
  <2> HIDE DEF S
  <2>. QED BY <1>2, <1>3, <2>1, Induction
<1>5. j - i \in 0 .. n - i /\ i + (j - i) = j
  OBVIOUS
<1>6. j - i \in S
  BY <1>4, <1>5
<1>. QED BY <1>5, <1>6

VarIntLens(slice) == [i \in 1 .. Len(slice) |-> Len(SerializeU64(slice[i]))]

LEMMA VarIntLensAreNumbers ==
  ASSUME NEW slice \in Seq(Nat)
  PROVE  VarIntLens(slice) \in [1 .. Len(slice) -> Nat]
<1>1. ASSUME NEW i \in 1 .. Len(slice)
      PROVE  Len(SerializeU64(slice[i])) \in Nat
  <2>1. slice[i] \in Nat
    OBVIOUS
  <2>2. SerializeU64(slice[i]) \in Seq(Octet)
    BY <2>1, SerializeU64Def
  <2>. QED BY <2>2
<1>. QED BY <1>1 DEF VarIntLens

LEMMA ValueEndsAdd ==
  ASSUME NEW slice \in Seq(Nat)
  PROVE  Adds(ValueEnds(slice), Len(slice), VarIntLens(slice))
<1> DEFINE n == Len(slice)
           d == VarIntLens(slice)
           IsEnd(f) == f = [i \in 0 .. n |->
                              IF i = 0 THEN 0
                              ELSE f[i - 1] + Len(SerializeU64(slice[i]))]
<1>1. ValueEnds(slice) = CHOOSE f : IsEnd(f)
  BY DEF ValueEnds
<1>2. \A i \in 1 .. n : d[i] = Len(SerializeU64(slice[i]))
  BY DEF VarIntLens
<1>3. n \in Nat /\ d \in [1 .. n -> Nat]
  BY VarIntLensAreNumbers
<1> HIDE DEF n, d
<1>4. PICK f : Adds(f, n, d)
  BY <1>3, SumsExist
<1>5. IsEnd(f)
  <2>1. f = [i \in 0 .. n |-> f[i]]
    BY <1>4 DEF Adds
  <2>2. ASSUME NEW i \in 0 .. n
        PROVE  f[i] = IF i = 0 THEN 0
                      ELSE f[i - 1] + Len(SerializeU64(slice[i]))
    BY <1>2, <1>3, <1>4 DEF Adds
  <2>. QED BY <2>1, <2>2
<1>6. IsEnd(ValueEnds(slice))
  <2> HIDE DEF IsEnd
  <2>. QED BY <1>1, <1>5
<1>7. PICK g : g = ValueEnds(slice) /\ IsEnd(g)
  BY <1>6
<1>8. \A i \in 1 .. n : g[i] = g[i - 1] + d[i]
  BY <1>2, <1>3, <1>7
<1>9. g = [i \in 0 .. n |-> g[i]] /\ g[0] = 0
  BY <1>3, <1>7
<1>10. \A i \in 0 .. n : g[i] \in Nat
  <2> DEFINE S == {i \in 0 .. n : g[i] \in Nat}
  <2>1. 0 \in S
    BY <1>3, <1>9
  <2>2. ASSUME NEW k \in 0 .. n - 1, k \in S
        PROVE  k + 1 \in S
    <3>1. k + 1 \in 1 .. n /\ (k + 1) - 1 = k
      BY <1>3
    <3>2. g[k + 1] = g[k] + d[k + 1]
      BY <1>8, <3>1
    <3>. QED BY <1>3, <2>2, <3>1, <3>2
  <2> HIDE DEF S
  <2>3. \A i \in 0 .. n : i \in S
    BY <1>3, <2>1, <2>2, Induction
  <2>. QED BY <2>3 DEF S
<1>11. g \in [0 .. n -> Nat]
  <2> HIDE DEF IsEnd
  <2>. QED BY <1>9, <1>10
<1>12. Adds(g, n, d)
  BY <1>8, <1>9, <1>11 DEF Adds
<1>. QED BY <1>7, <1>12 DEF n, d

\* measure_body
LEMMA BodyLenIsNumber ==
  ASSUME NEW s, s.kind \in {"packed", "varint"}, s.bits \in 1 .. 8,
         NEW slice \in Seq(Nat)
  PROVE  BodyLen(s, slice) \in Nat
<1>1. CASE s.kind = "packed"
  <2>1. PICK w \in Nat : w = s.bits * Len(slice)
    OBVIOUS
  <2>2. (w + 7) \div 8 \in Nat
    OBVIOUS
  <2>. QED BY <1>1, <2>1, <2>2 DEF BodyLen
<1>2. CASE s.kind # "packed"
  <2>1. ValueEnds(slice) \in [0 .. Len(slice) -> Nat]
    BY ValueEndsAdd DEF Adds
  <2>2. Len(slice) \in 0 .. Len(slice)
    OBVIOUS
  <2>3. ValueEnds(slice)[Len(slice)] \in Nat
    BY <2>1, <2>2
  <2>. QED BY <1>2, <2>3 DEF BodyLen
<1>. QED BY <1>1, <1>2

SliceLens(s, slices) == [n \in 1 .. Len(slices) |-> 4 + BodyLen(s, slices[n])]

LEMMA SliceLensAreNumbers ==
  ASSUME NEW s, s.kind \in {"packed", "varint"}, s.bits \in 1 .. 8,
         NEW slices \in Seq(Seq(Nat))
  PROVE  SliceLens(s, slices) \in [1 .. Len(slices) -> Nat]
<1>1. ASSUME NEW n \in 1 .. Len(slices)
      PROVE  4 + BodyLen(s, slices[n]) \in Nat
  <2>1. slices[n] \in Seq(Nat)
    OBVIOUS
  <2>2. BodyLen(s, slices[n]) \in Nat
    BY <2>1, BodyLenIsNumber
  <2>. QED BY <2>2
<1>. QED BY <1>1 DEF SliceLens

LEMMA SliceEndsAdd ==
  ASSUME NEW s, s.kind \in {"packed", "varint"}, s.bits \in 1 .. 8,
         NEW slices \in Seq(Seq(Nat))
  PROVE  Adds(SliceEnds(s, slices), Len(slices), SliceLens(s, slices))
<1> DEFINE n == Len(slices)
           d == SliceLens(s, slices)
           IsEnd(f) == f = [i \in 0 .. n |->
                              IF i = 0 THEN 0
                              ELSE f[i - 1] + 4 + BodyLen(s, slices[i])]
<1>1. SliceEnds(s, slices) = CHOOSE f : IsEnd(f)
  BY DEF SliceEnds
<1>2. \A i \in 1 .. n : d[i] = 4 + BodyLen(s, slices[i])
  BY DEF SliceLens
<1>3. n \in Nat /\ d \in [1 .. n -> Nat]
  BY SliceLensAreNumbers
<1>3a. \A i \in 1 .. n : BodyLen(s, slices[i]) \in Nat
  <2>1. ASSUME NEW i \in 1 .. n PROVE slices[i] \in Seq(Nat)
    OBVIOUS
  <2>. QED BY <2>1, BodyLenIsNumber
<1> HIDE DEF n, d
<1>4. PICK f : Adds(f, n, d)
  BY <1>3, SumsExist
<1>5. IsEnd(f)
  <2>1. f = [i \in 0 .. n |-> f[i]]
    BY <1>4 DEF Adds
  <2>2. ASSUME NEW i \in 0 .. n
        PROVE  f[i] = IF i = 0 THEN 0
                      ELSE f[i - 1] + 4 + BodyLen(s, slices[i])
    <3>1. CASE i = 0
      BY <1>4, <3>1 DEF Adds
    <3>2. CASE i # 0
      <4>1. i \in 1 .. n /\ i - 1 \in 0 .. n
        BY <1>3, <3>2
      <4>2. f[i] = f[i - 1] + d[i] /\ f[i - 1] \in Nat
        BY <1>4, <4>1 DEF Adds
      <4>3. PICK b \in Nat : b = BodyLen(s, slices[i])
        BY <1>3a, <4>1
      <4>4. d[i] = 4 + b
        BY <1>2, <4>1, <4>3
      <4>5. PICK x \in Nat : x = f[i - 1]
        BY <4>2
      <4>6. f[i] = x + (4 + b)
        BY <4>2, <4>4, <4>5
      <4>7. x + (4 + b) = (x + 4) + b
        OBVIOUS
      <4>. QED BY <3>2, <4>3, <4>5, <4>6, <4>7
    <3>. QED BY <3>1, <3>2
  <2>. QED BY <2>1, <2>2
<1>6. IsEnd(SliceEnds(s, slices))
  <2> HIDE DEF IsEnd
  <2>. QED BY <1>1, <1>5
<1>7. PICK g : g = SliceEnds(s, slices) /\ IsEnd(g)
  BY <1>6
<1>8. g = [i \in 0 .. n |-> g[i]] /\ g[0] = 0
      /\ \A i \in 1 .. n : g[i] = g[i - 1] + 4 + BodyLen(s, slices[i])
  BY <1>3, <1>7
<1> HIDE DEF IsEnd
<1>9. \A i \in 0 .. n : g[i] \in Nat
  <2> DEFINE S == {i \in 0 .. n : g[i] \in Nat}
  <2>1. 0 \in S
    BY <1>3, <1>8
  <2>2. ASSUME NEW k \in 0 .. n - 1, k \in S
        PROVE  k + 1 \in S
    <3>1. k + 1 \in 1 .. n /\ (k + 1) - 1 = k
      BY <1>3
    <3>2. g[k + 1] = g[k] + 4 + BodyLen(s, slices[k + 1])
      BY <1>8, <3>1
    <3>. QED BY <1>3, <1>3a, <2>2, <3>1, <3>2, SMTT(60)
  <2> HIDE DEF S
  <2>3. \A i \in 0 .. n : i \in S
    BY <1>3, <2>1, <2>2, Induction
  <2>. QED BY <2>3 DEF S
<1>10. ASSUME NEW i \in 1 .. n
       PROVE  g[i] = g[i - 1] + d[i]
  <2>1. g[i - 1] \in Nat /\ BodyLen(s, slices[i]) \in Nat
    BY <1>3, <1>3a, <1>9
  <2>2. PICK b \in Nat, x \in Nat : b = BodyLen(s, slices[i]) /\ x = g[i - 1]
    BY <2>1
  <2>3. d[i] = 4 + b /\ g[i] = x + 4 + b
    BY <1>2, <1>8, <2>2
  <2>4. x + 4 + b = x + (4 + b)
    OBVIOUS
  <2>. QED BY <2>2, <2>3, <2>4
<1>11. Adds(g, n, d)
  BY <1>8, <1>9, <1>10 DEF Adds
<1>. QED BY <1>7, <1>11 DEF n, d

LEMMA BytesAreNumbers ==
  ASSUME NEW s \in Seq(Octet)
  PROVE  s \in Seq(Nat)
<1>1. ASSUME NEW i \in 1 .. Len(s)
      PROVE  s[i] \in Nat
  <2>1. s[i] \in Octet
    OBVIOUS
  <2>2. \A x \in Octet : x \in Nat
    BY DEF Octet
  <2>. QED BY <2>1, <2>2
<1>2. s = [i \in 1 .. Len(s) |-> s[i]]
  OBVIOUS
<1>. QED BY <1>1, <1>2

LEMMA PowerIsNumber ==
  ASSUME NEW n \in 1 .. 8
  PROVE  2^n \in Nat
<1>1. CASE n = 1 BY <1>1
<1>2. CASE n = 2 BY <1>2
<1>3. CASE n = 3 BY <1>3
<1>4. CASE n = 4 BY <1>4
<1>5. CASE n = 5 BY <1>5
<1>6. CASE n = 6 BY <1>6
<1>7. CASE n = 7 BY <1>7
<1>8. CASE n = 8 BY <1>8
<1>. QED BY <1>1, <1>2, <1>3, <1>4, <1>5, <1>6, <1>7, <1>8

LEMMA SerializerFacts ==
  ASSUME NEW s \in Serializers
  PROVE  /\ s.kind \in {"packed", "varint"}
         /\ s.bits \in 1 .. 8
         /\ s.bufBytes \in Nat \ {0}
         /\ s.slices \subseteq Seq(Nat)
BY ChunkedAssumption

\* SliceEnds as an equation.
LEMMA SliceEndsFacts ==
  ASSUME NEW s \in Serializers, NEW g \in Seq(Seq(Nat))
  PROVE  /\ SliceEnds(s, g) \in [0 .. Len(g) -> Nat]
         /\ SliceEnds(s, g)[0] = 0
         /\ \A n \in 1 .. Len(g) :
              /\ BodyLen(s, g[n]) \in Nat
              /\ SliceEnds(s, g)[n] = SliceEnds(s, g)[n - 1] + 4 + BodyLen(s, g[n])
         /\ \A i \in 0 .. Len(g) : \A j \in i .. Len(g) :
              SliceEnds(s, g)[i] <= SliceEnds(s, g)[j]
<1> DEFINE f == SliceEnds(s, g)
           d == SliceLens(s, g)
<1>1. s.kind \in {"packed", "varint"} /\ s.bits \in 1 .. 8
  BY SerializerFacts
<1>2. Adds(f, Len(g), d) /\ d \in [1 .. Len(g) -> Nat]
  BY <1>1, SliceEndsAdd, SliceLensAreNumbers
<1>3. \A n \in 1 .. Len(g) : BodyLen(s, g[n]) \in Nat /\ d[n] = 4 + BodyLen(s, g[n])
  <2>1. ASSUME NEW n \in 1 .. Len(g) PROVE g[n] \in Seq(Nat)
    OBVIOUS
  <2>. QED BY <1>1, <2>1, BodyLenIsNumber DEF SliceLens
<1>4. Len(g) \in Nat
  OBVIOUS
<1> HIDE DEF f, d
<1>5. ASSUME NEW n \in 1 .. Len(g)
      PROVE  f[n] = f[n - 1] + 4 + BodyLen(s, g[n])
  <2>1. f[n] = f[n - 1] + d[n] /\ n - 1 \in 0 .. Len(g)
    BY <1>2, <1>4 DEF Adds
  <2>2. f[n - 1] \in Nat
    BY <1>2, <2>1 DEF Adds
  <2>3. PICK x \in Nat, b \in Nat : x = f[n - 1] /\ b = BodyLen(s, g[n])
    BY <1>3, <2>2
  <2>4. f[n] = x + (4 + b)
    BY <1>3, <2>1, <2>3
  <2>5. x + (4 + b) = x + 4 + b
    OBVIOUS
  <2>. QED BY <2>3, <2>4, <2>5
<1>6. \A i \in 0 .. Len(g) : \A j \in i .. Len(g) : f[i] <= f[j]
  BY <1>2, <1>4, SumsGrow
<1>7. f \in [0 .. Len(g) -> Nat] /\ f[0] = 0
  BY <1>2 DEF Adds
<1>. QED BY <1>3, <1>5, <1>6, <1>7 DEF f

\* One slice more leaves the ends of the others where they are.
LEMMA SliceEndsOfMore ==
  ASSUME NEW s \in Serializers, NEW g \in Seq(Seq(Nat)), NEW slice \in Seq(Nat)
  PROVE  \A n \in 0 .. Len(g) :
           SliceEnds(s, Append(g, slice))[n] = SliceEnds(s, g)[n]
<1> DEFINE h == Append(g, slice)
<1>1. h \in Seq(Seq(Nat)) /\ Len(h) = Len(g) + 1 /\ Len(g) \in 0 .. Len(h)
      /\ Len(h) \in Nat
      /\ \A n \in 1 .. Len(g) : h[n] = g[n] /\ n \in 1 .. Len(h)
  OBVIOUS
<1> HIDE DEF h
<1>2. s.kind \in {"packed", "varint"} /\ s.bits \in 1 .. 8
  BY SerializerFacts
<1>3. /\ Adds(SliceEnds(s, h), Len(h), SliceLens(s, h))
      /\ Adds(SliceEnds(s, g), Len(g), SliceLens(s, g))
  BY <1>1, <1>2, SliceEndsAdd
<1>4. \A n \in 1 .. Len(g) : SliceLens(s, h)[n] = SliceLens(s, g)[n]
  BY <1>1 DEF SliceLens
<1>5. \A n \in 0 .. Len(g) : SliceEnds(s, h)[n] = SliceEnds(s, g)[n]
  <2>9. PICK m \in Nat : m = Len(h)
    BY <1>1
  <2>0. PICK n \in 0 .. m : n = Len(g)
    BY <1>1, <2>9
  <2>1. PICK f, e, a, b :
          /\ f = SliceEnds(s, h) /\ e = SliceEnds(s, g)
          /\ a = SliceLens(s, h) /\ b = SliceLens(s, g)
    OBVIOUS
  <2>2. Adds(f, m, a) /\ Adds(e, n, b) /\ \A i \in 1 .. n : a[i] = b[i]
    BY <1>3, <1>4, <2>9, <2>0, <2>1
  <2>3. \A i \in 0 .. n : f[i] = e[i]
    BY <2>2, SumsAgree
  <2>. QED BY <2>0, <2>1, <2>3
<1>. QED BY <1>5 DEF h

\* ValueEnds as an equation.
LEMMA ValueEndsFacts ==
  ASSUME NEW slice \in Seq(Nat)
  PROVE  /\ ValueEnds(slice) \in [0 .. Len(slice) -> Nat]
         /\ ValueEnds(slice)[0] = 0
         /\ \A i \in 1 .. Len(slice) :
              /\ SerializeU64(slice[i]) \in Seq(Nat)
              /\ ValueEnds(slice)[i]
                   = ValueEnds(slice)[i - 1] + Len(SerializeU64(slice[i]))
         /\ \A i \in 0 .. Len(slice) : \A j \in i .. Len(slice) :
              ValueEnds(slice)[i] <= ValueEnds(slice)[j]
<1> DEFINE f == ValueEnds(slice)
           d == VarIntLens(slice)
<1>1. Adds(f, Len(slice), d) /\ d \in [1 .. Len(slice) -> Nat] /\ Len(slice) \in Nat
  BY ValueEndsAdd, VarIntLensAreNumbers
<1>2. \A i \in 1 .. Len(slice) : SerializeU64(slice[i]) \in Seq(Nat)
  <2>1. ASSUME NEW i \in 1 .. Len(slice)
        PROVE  SerializeU64(slice[i]) \in Seq(Nat)
    <3>1. slice[i] \in Nat
      OBVIOUS
    <3>2. SerializeU64(slice[i]) \in Seq(Octet)
      BY <3>1, SerializeU64Def
    <3>. QED BY <3>2, BytesAreNumbers
  <2>. QED BY <2>1
<1>3. \A i \in 1 .. Len(slice) : d[i] = Len(SerializeU64(slice[i]))
  BY DEF VarIntLens
<1> HIDE DEF f, d
<1>4. \A i \in 0 .. Len(slice) : \A j \in i .. Len(slice) : f[i] <= f[j]
  BY <1>1, SumsGrow
<1>. QED BY <1>1, <1>2, <1>3, <1>4 DEF f, Adds

-----------------------------------------------------------------------------
(* The invariant *)

\* The bytes that are in the sink or on their way there.
Stream == sent \o prefix \o buf

\* The chunks of a packed slice end between two bytes, as with widths of one,
\* two, four and eight bits, or the slice is a single chunk.  (With three bits
\* the second chunk of 64 bytes begins where no reader looks for it.)
WholeBytes ==
  \A s \in Serializers : s.kind = "packed" =>
    \/ (8 * s.bufBytes) % s.bits = 0
    \/ \A slice \in s.slices : Len(slice) <= (8 * s.bufBytes) \div s.bits

Ends == SliceEnds(serializer, given)

\* The poll stops at the next value for ever.
Stuck == index < Len(data) /\ TooLarge(index + 1)

Shape ==
  /\ serializer \in Serializers
  /\ given \in Seq(Slices)
  /\ index \in 0 .. Len(data)
  /\ sent \in Seq(Nat) /\ prefix \in Seq(Nat) /\ buf \in Seq(Nat)
  /\ room \in Nat
  /\ result \in {"new", "ready", "pending", "error", "none"}
  /\ result = "new" <=> given = << >>
  /\ data = IF given = << >> THEN << >> ELSE given[Len(given)]
  /\ given = << >> => prefix = << >> /\ buf = << >> /\ sent = << >>
  /\ prefix # << >> => index = 0 /\ buf = << >>
  /\ result = "ready" => prefix = << >> /\ buf = << >> /\ index = Len(data)

\* What is written of packed slices fits.
Fitting ==
  Kind = "packed" =>
    /\ \A i \in 1 .. index : data[i] < 2^Bits
    /\ \A n \in 1 .. Len(given) - 1 : \A i \in 1 .. Len(given[n]) : given[n][i] < 2^Bits

Lengths ==
  given # << >> =>
    LET begin == Ends[Len(given) - 1] + 4
    IN  /\ begin <= Len(Stream)
        /\ Len(Stream) <= Ends[Len(given)]
        /\ Kind = "varint" => Len(Stream) = begin + ValueEnds(data)[index]
        /\ Kind = "packed" =>
             \/ Stuck
             \/ /\ (Bits * index) % 8 = 0 \/ index = Len(data)
                /\ Len(Stream) = begin + (Bits * index + 7) \div 8

Prefixes ==
  \A n \in 1 .. Len(given) : \A k \in 1 .. 4 :
    Stream[Ends[n - 1] + k] = LengthPrefix(Len(given[n]))[k]

PackedBytes ==
  Kind = "packed" =>
    \A n \in 1 .. Len(given) : \A k \in 1 .. (Bits * Len(given[n]) + 7) \div 8 :
      Ends[n - 1] + 4 + k <= Len(Stream) =>
        Stream[Ends[n - 1] + 4 + k] = Packed(Bits, given[n])[k]

VarIntBytes ==
  Kind = "varint" =>
    \A n \in 1 .. Len(given) : \A i \in 1 .. Len(given[n]) :
      \A k \in 1 .. Len(SerializeU64(given[n][i])) :
        LET p == Ends[n - 1] + 4 + ValueEnds(given[n])[i - 1] + k
        IN  p <= Len(Stream) => Stream[p] = SerializeU64(given[n][i])[k]

ShapeAndFit == Shape /\ Fitting

-----------------------------------------------------------------------------
(* The shape of a state *)

LEMMA GivenSlices ==
  ASSUME Shape
  PROVE  /\ serializer \in Serializers
         /\ Kind \in {"packed", "varint"} /\ Bits \in 1 .. 8 /\ BufBytes \in Nat \ {0}
         /\ Slices \subseteq Seq(Nat)
         /\ given \in Seq(Seq(Nat)) /\ data \in Seq(Nat)
<1>1. /\ serializer \in Serializers
      /\ Kind \in {"packed", "varint"} /\ Bits \in 1 .. 8 /\ BufBytes \in Nat \ {0}
      /\ Slices \subseteq Seq(Nat)
  BY SerializerFacts DEF Shape, Kind, Bits, BufBytes, Slices
<1>2. given \in Seq(Seq(Nat))
  BY <1>1 DEF Shape
<1>3. data \in Seq(Nat)
  <2>1. CASE given = << >>
    BY <2>1 DEF Shape
  <2>2. CASE given # << >>
    <3>1. Len(given) \in 1 .. Len(given)
      BY <1>2, <2>2
    <3>. QED BY <1>2, <2>2, <3>1 DEF Shape
  <2>. QED BY <2>1, <2>2
<1>. QED BY <1>1, <1>2, <1>3

\* What the sink takes goes from the buffer to it.
LEMMA PutMoves ==
  ASSUME sent \in Seq(Nat), room \in Nat, NEW bytes \in Seq(Nat), Put(bytes)
  PROVE  /\ sent' \in Seq(Nat) /\ room' \in Nat /\ Left(bytes) \in Seq(Nat)
         /\ result' \in {"none", "pending"}
         /\ sent' \o Left(bytes) = sent \o bytes
<1> DEFINE a == Accepts(bytes)
<1>1. a \in 0 .. Len(bytes) /\ a <= room /\ a \in Nat
  BY DEF Accepts
<1>2. /\ sent' = sent \o SubSeq(bytes, 1, a)
      /\ Left(bytes) = SubSeq(bytes, a + 1, Len(bytes))
      /\ room' = room - a
      /\ result' \in {"none", "pending"}
  BY DEF Put, Left
<1> HIDE DEF a
<1>3. SubSeq(bytes, 1, a) \in Seq(Nat) /\ SubSeq(bytes, a + 1, Len(bytes)) \in Seq(Nat)
  BY <1>1
<1>4. SubSeq(bytes, 1, a) \o SubSeq(bytes, a + 1, Len(bytes)) = bytes
  <2>1. PICK n \in Nat : n = Len(bytes)
    OBVIOUS
  <2>2. 1 \in 1 .. Len(bytes) + 1 /\ a \in 1 - 1 .. Len(bytes) /\ n \in a .. Len(bytes)
    BY <1>1, <2>1
  <2>3. SubSeq(bytes, 1, a) \o SubSeq(bytes, a + 1, n) = SubSeq(bytes, 1, n)
    BY <2>2, ConcatAdjacentSubSeq
  <2>. QED BY <2>1, <2>3, SubSeqFull
<1>5. sent' \o Left(bytes) = sent \o bytes
  <2>1. PICK t \in Seq(Nat), u \in Seq(Nat) :
          t = SubSeq(bytes, 1, a) /\ u = SubSeq(bytes, a + 1, Len(bytes))
    BY <1>3
  <2>2. (sent \o t) \o u = sent \o (t \o u)
    BY ConcatAssociative, SMTT(60)
  <2>. QED BY <1>2, <1>4, <2>1, <2>2
<1>6. sent' \in Seq(Nat)
  <2>1. PICK t \in Seq(Nat) : t = SubSeq(bytes, 1, a)
    BY <1>3
  <2>2. sent \o t \in Seq(Nat)
    OBVIOUS
  <2>. QED BY <1>2, <2>1, <2>2
<1>7. room' \in Nat /\ Left(bytes) \in Seq(Nat)
  BY <1>1, <1>2, <1>3
<1>. QED BY <1>2, <1>5, <1>6, <1>7

LEMMA LengthPrefixBytes ==
  ASSUME NEW n \in Nat
  PROVE  LengthPrefix(n) \in Seq(Nat) /\ Len(LengthPrefix(n)) = 4
<1>1. ASSUME NEW i \in 1 .. 4
      PROVE  (n \div 256^(i - 1)) % 256 \in Nat
  <2>1. CASE i = 1 BY <2>1
  <2>2. CASE i = 2 BY <2>2
  <2>3. CASE i = 3 BY <2>3
  <2>4. CASE i = 4 BY <2>4
  <2>. QED BY <2>1, <2>2, <2>3, <2>4
<1>. QED BY <1>1 DEF LengthPrefix

\* The values that fit in the buffer.
LEMMA ChunkIsSome ==
  ASSUME Shape
  PROVE  (8 * BufBytes) \div Bits \in Nat \ {0}
<1>1. Bits \in 1 .. 8 /\ BufBytes \in Nat \ {0}
  BY GivenSlices
<1>2. CASE Bits = 1 BY <1>1, <1>2
<1>3. CASE Bits = 2 BY <1>1, <1>3
<1>4. CASE Bits = 3 BY <1>1, <1>4
<1>5. CASE Bits = 4 BY <1>1, <1>5
<1>6. CASE Bits = 5 BY <1>1, <1>6
<1>7. CASE Bits = 6 BY <1>1, <1>7
<1>8. CASE Bits = 7 BY <1>1, <1>8
<1>9. CASE Bits = 8 BY <1>1, <1>9
<1>. QED BY <1>1, <1>2, <1>3, <1>4, <1>5, <1>6, <1>7, <1>8, <1>9

\* The buffer is filled up to the end of the slice or as far as it goes.
LEMMA ChunkEndFacts ==
  ASSUME Shape
  PROVE  /\ index < Len(data) => ChunkEnd \in index + 1 .. Len(data)
         /\ Kind = "varint" => ChunkEnd = index + 1
         /\ Kind = "packed" =>
              /\ ChunkEnd = index + ((8 * BufBytes) \div Bits) \/ ChunkEnd = Len(data)
              /\ ChunkEnd <= Len(data)
<1>1. Kind \in {"packed", "varint"} /\ index \in Nat /\ Len(data) \in Nat
  BY GivenSlices DEF Shape
<1>2. PICK c \in Nat \ {0} : c = (8 * BufBytes) \div Bits
  BY ChunkIsSome
<1>. QED BY <1>1, <1>2 DEF ChunkEnd

LEMMA ShapeInit == Init => ShapeAndFit
<1> SUFFICES ASSUME Init PROVE ShapeAndFit
  OBVIOUS
<1>1. Shape
  <2>1. room \in Nat
    BY ChunkedAssumption DEF Init
  <2>. QED BY <2>1 DEF Init, Shape
<1>2. Fitting
  BY DEF Init, Fitting
<1>. QED BY <1>1, <1>2 DEF ShapeAndFit

LEMMA ShapeInput ==
  ASSUME ShapeAndFit, Input PROVE ShapeAndFit'
<1>1. Shape /\ Fitting
  BY DEF ShapeAndFit
<1>2. PICK slice \in Slices :
        /\ data' = slice
        /\ prefix' = LengthPrefix(Len(slice))
        /\ index' = 0 /\ buf' = << >>
        /\ given' = Append(given, slice)
  BY DEF Input, Reset
<1>3. slice \in Seq(Nat) /\ Len(slice) \in Nat /\ prefix' \in Seq(Nat)
  BY <1>1, <1>2, GivenSlices, LengthPrefixBytes
<1>4. /\ given' \in Seq(Slices) /\ given' # << >> /\ Len(given') = Len(given) + 1
      /\ given'[Len(given')] = slice
      /\ \A n \in 1 .. Len(given) : given'[n] = given[n]
      /\ Len(given) \in Nat
  BY <1>1, <1>2 DEF Shape
<1>5. UNCHANGED <<serializer, sent, room>> /\ result' = "none"
      /\ result \in {"new", "ready"}
  BY DEF Input
<1>6. Shape'
  BY <1>1, <1>2, <1>3, <1>4, <1>5 DEF Shape, Slices
<1>7. Fitting'
  <2>1. SUFFICES ASSUME Kind = "packed", NEW n \in 1 .. Len(given),
                        NEW i \in 1 .. Len(given[n])
                 PROVE  given[n][i] < 2^Bits
    BY <1>2, <1>4, <1>5 DEF Fitting, Kind, Bits
  <2>2. given # << >>
    BY <1>4
  <2>3. result = "ready" /\ index = Len(data) /\ data = given[Len(given)]
    BY <1>1, <1>5, <2>2 DEF Shape
  <2>4. CASE n = Len(given)
    BY <1>1, <2>1, <2>3, <2>4 DEF Fitting
  <2>5. CASE n # Len(given)
    <3>1. n \in 1 .. Len(given) - 1
      BY <1>4, <2>5
    <3>. QED BY <1>1, <2>1, <3>1 DEF Fitting
  <2>. QED BY <2>4, <2>5
<1>. QED BY <1>6, <1>7 DEF ShapeAndFit

LEMMA ShapeFillBuf ==
  ASSUME ShapeAndFit, FillBuf PROVE ShapeAndFit'
<1>1. Shape /\ Fitting
  BY DEF ShapeAndFit
<1>2. /\ Kind \in {"packed", "varint"} /\ Bits \in 1 .. 8
      /\ data \in Seq(Nat) /\ index \in 0 .. Len(data)
  BY <1>1, GivenSlices DEF Shape
<1>3. ChunkEnd \in index + 1 .. Len(data)
      /\ (Kind = "varint" => ChunkEnd = index + 1)
  BY <1>1, ChunkEndFacts DEF FillBuf
<1>4. /\ index' = ChunkEnd
      /\ UNCHANGED <<serializer, data, prefix, sent, room, result, given>>
      /\ result = "none" /\ prefix = << >>
      /\ \A i \in index + 1 .. ChunkEnd : ~TooLarge(i)
      /\ buf' = IF Kind = "varint" THEN SerializeU64(data[index + 1])
                ELSE Packed(Bits, SubSeq(data, index + 1, ChunkEnd))
  BY DEF FillBuf, BufferEmpty
<1>5. index' \in 0 .. Len(data')
  BY <1>2, <1>3, <1>4
<1>6. buf' \in Seq(Nat)
  <2>1. CASE Kind = "varint"
    <3>1. data[index + 1] \in Nat
      BY <1>2, <1>3
    <3>2. SerializeU64(data[index + 1]) \in Seq(Octet)
      BY <3>1, SerializeU64Def
    <3>3. buf' = SerializeU64(data[index + 1])
      BY <1>4, <2>1
    <3>. QED BY <3>2, <3>3, BytesAreNumbers
  <2>2. CASE Kind # "varint"
    <3>1. SubSeq(data, index + 1, ChunkEnd) \in Seq(Nat)
      BY <1>2, <1>3
    <3>2. Packed(Bits, SubSeq(data, index + 1, ChunkEnd)) \in Seq(Nat)
      BY <1>2, <3>1, PackedBytesOf
    <3>3. buf' = Packed(Bits, SubSeq(data, index + 1, ChunkEnd))
      BY <1>4, <2>2
    <3>. QED BY <3>2, <3>3
  <2>. QED BY <2>1, <2>2
<1>7. given # << >>
  BY <1>1, <1>2, <1>3 DEF Shape
<1>8. Shape'
  BY <1>1, <1>4, <1>5, <1>6, <1>7 DEF Shape, Slices
<1>9. Fitting'
  <2>1. ASSUME Kind = "packed", NEW i \in 1 .. ChunkEnd
        PROVE  data[i] < 2^Bits
    <3>1. CASE i <= index
      BY <1>1, <1>2, <1>3, <2>1, <3>1 DEF Fitting
    <3>2. CASE i > index
      <4>1. ~TooLarge(i) /\ data[i] \in Nat
        BY <1>2, <1>3, <1>4, <3>2
      <4>2. ~(data[i] >= 2^Bits)
        BY <2>1, <4>1 DEF TooLarge
      <4>3. 2^Bits \in Nat
        BY <1>2, PowerIsNumber
      <4>. QED BY <4>1, <4>2, <4>3
    <3>. QED BY <1>2, <1>3, <3>1, <3>2
  <2>. QED BY <1>1, <1>4, <2>1 DEF Fitting, Kind, Bits
<1>. QED BY <1>8, <1>9 DEF ShapeAndFit

LEMMA ShapeFillBufFails ==
  ASSUME ShapeAndFit, FillBufFails PROVE ShapeAndFit' /\ Stuck' /\ index < Len(data)
<1>1. Shape /\ Fitting
  BY DEF ShapeAndFit
<1>2. PICK i \in index + 1 .. ChunkEnd :
        /\ TooLarge(i)
        /\ \A j \in index + 1 .. i - 1 : ~TooLarge(j)
        /\ index' = i - 1
  BY DEF FillBufFails
<1>3. /\ result = "none" /\ prefix = << >> /\ buf = << >>
      /\ result' = "error"
      /\ UNCHANGED <<serializer, data, prefix, buf, sent, room, given>>
  BY DEF FillBufFails, BufferEmpty
<1>4. /\ Kind \in {"packed", "varint"} /\ Bits \in 1 .. 8
      /\ data \in Seq(Nat) /\ index \in 0 .. Len(data)
      /\ BufBytes \in Nat \ {0}
  BY <1>1, GivenSlices DEF Shape
<1>5. Kind = "packed"
  BY <1>2 DEF TooLarge
<1>6. index < Len(data)
  <2>1. ASSUME index = Len(data) PROVE FALSE
    <3>1. ChunkEnd <= Len(data)
      BY <1>1, <1>5, ChunkEndFacts
    <3>2. PICK n \in Nat : n = Len(data)
      BY <1>4
    <3>3. i \in n + 1 .. ChunkEnd /\ ChunkEnd <= n
      BY <1>2, <2>1, <3>1, <3>2
    <3>4. ChunkEnd \in Int
      BY <1>4, <1>5, ChunkIsSome, <1>1 DEF ChunkEnd
    <3>. QED BY <3>2, <3>3, <3>4
  <2>. QED BY <1>4, <2>1
<1>7. ChunkEnd \in index + 1 .. Len(data)
  BY <1>1, <1>6, ChunkEndFacts
<1>8. index' \in 0 .. Len(data) /\ index' < Len(data) /\ index' + 1 = i
  BY <1>2, <1>4, <1>7
<1>9. Stuck'
  BY <1>2, <1>3, <1>8 DEF Stuck, TooLarge, Kind, Bits
<1>10. given # << >>
  BY <1>1, <1>4, <1>6 DEF Shape
<1>11. Shape'
  BY <1>1, <1>3, <1>8, <1>10 DEF Shape, Slices
<1>12. Fitting'
  <2>1. ASSUME NEW j \in 1 .. i - 1
        PROVE  data[j] < 2^Bits
    <3>1. CASE j <= index
      BY <1>1, <1>4, <1>5, <3>1 DEF Fitting
    <3>2. CASE j > index
      <4>1. ~TooLarge(j) /\ data[j] \in Nat
        BY <1>2, <1>4, <1>7, <3>2
      <4>2. ~(data[j] >= 2^Bits)
        BY <1>5, <4>1 DEF TooLarge
      <4>3. 2^Bits \in Nat
        BY <1>4, PowerIsNumber
      <4>. QED BY <4>1, <4>2, <4>3
    <3>. QED BY <1>4, <3>1, <3>2
  <2>. QED BY <1>1, <1>2, <1>3, <2>1 DEF Fitting, Kind, Bits
<1>. QED BY <1>6, <1>9, <1>11, <1>12 DEF ShapeAndFit

\* The other steps keep the slice, the position in it and the stream of bytes.
LEMMA ShapeOther ==
  ASSUME ShapeAndFit, Poll \/ Grant \/ PutPrefix \/ PutBuf \/ ReturnReady
  PROVE  /\ ShapeAndFit'
         /\ UNCHANGED <<serializer, data, index, given>>
         /\ Stream' = Stream
<1>1. Shape /\ Fitting
  BY DEF ShapeAndFit
<1>2. UNCHANGED <<serializer, data, index, given>>
  BY DEF Poll, Grant, PutPrefix, PutBuf, ReturnReady
<1>3. Fitting'
  BY <1>1, <1>2 DEF Fitting, Kind, Bits
<1>4. CASE Poll \/ ReturnReady
  <2>1. UNCHANGED <<prefix, buf, sent, room>>
    BY <1>4 DEF Poll, ReturnReady
  <2>2. /\ result' \in {"none", "ready"}
        /\ result' = "ready" => prefix = << >> /\ buf = << >> /\ index >= Len(data)
        /\ given # << >>
    <3>1. CASE Poll
      BY <1>1, <3>1 DEF Poll, Shape
    <3>2. CASE ReturnReady
      BY <1>1, <3>2 DEF ReturnReady, BufferEmpty, Shape
    <3>. QED BY <1>4, <3>1, <3>2
  <2>3. result' = "ready" => index = Len(data)
    BY <1>1, <2>2, GivenSlices DEF Shape
  <2>4. Shape'
    BY <1>1, <1>2, <2>1, <2>2, <2>3 DEF Shape, Slices
  <2>5. Stream' = Stream
    BY <2>1 DEF Stream
  <2>. QED BY <1>2, <1>3, <2>4, <2>5 DEF ShapeAndFit
<1>5. CASE Grant
  <2>1. UNCHANGED <<prefix, buf, sent, result>> /\ room' \in Nat
    BY <1>1, <1>5, ChunkedAssumption DEF Grant, Shape
  <2>2. Shape'
    BY <1>1, <1>2, <2>1 DEF Shape, Slices
  <2>3. Stream' = Stream
    BY <2>1 DEF Stream
  <2>. QED BY <1>2, <1>3, <2>2, <2>3 DEF ShapeAndFit
<1>6. CASE PutPrefix
  <2>1. result = "none" /\ prefix # << >> /\ Put(prefix) /\ prefix' = Left(prefix) /\ buf' = buf
    BY <1>6 DEF PutPrefix
  <2>2. /\ sent \in Seq(Nat) /\ prefix \in Seq(Nat) /\ room \in Nat
        /\ buf = << >> /\ index = 0 /\ given # << >>
    BY <1>1, <2>1 DEF Shape
  <2>3. /\ sent' \in Seq(Nat) /\ room' \in Nat /\ prefix' \in Seq(Nat)
        /\ result' \in {"none", "pending"}
        /\ sent' \o prefix' = sent \o prefix
    BY <2>1, <2>2, PutMoves
  <2>4. Shape'
    BY <1>1, <1>2, <2>1, <2>2, <2>3 DEF Shape, Slices
  <2>5. Stream' = Stream
    BY <2>1, <2>3 DEF Stream
  <2>. QED BY <1>2, <1>3, <2>4, <2>5 DEF ShapeAndFit
<1>7. CASE PutBuf
  <2>1. result = "none" /\ prefix = << >> /\ prefix' = << >> /\ buf # << >>
        /\ Put(buf) /\ buf' = Left(buf)
    BY <1>7 DEF PutBuf
  <2>2. sent \in Seq(Nat) /\ buf \in Seq(Nat) /\ room \in Nat /\ given # << >>
    BY <1>1, <2>1 DEF Shape
  <2>3. /\ sent' \in Seq(Nat) /\ room' \in Nat /\ buf' \in Seq(Nat)
        /\ result' \in {"none", "pending"}
        /\ sent' \o buf' = sent \o buf
    BY <2>1, <2>2, PutMoves
  <2>4. Shape'
    BY <1>1, <1>2, <2>1, <2>2, <2>3 DEF Shape, Slices
  <2>5. Stream' = Stream
    BY <2>1, <2>2, <2>3, ConcatEmptySeq DEF Stream
  <2>. QED BY <1>2, <1>3, <2>4, <2>5 DEF ShapeAndFit
<1>. QED BY <1>4, <1>5, <1>6, <1>7

LEMMA ShapeStutters ==
  ASSUME ShapeAndFit, UNCHANGED vars
  PROVE  /\ ShapeAndFit'
         /\ UNCHANGED <<serializer, data, index, given>>
         /\ Stream' = Stream
<1>1. Shape'
  BY DEF ShapeAndFit, Shape, vars, Slices
<1>2. Fitting'
  BY DEF ShapeAndFit, Fitting, vars, Kind, Bits
<1>. QED BY <1>1, <1>2 DEF ShapeAndFit, vars, Stream
-----------------------------------------------------------------------------
(* What may be an error *)

LEMMA Shaped == Spec => []ShapeAndFit
<1>1. ASSUME ShapeAndFit, [Next]_vars
      PROVE  ShapeAndFit'
  BY <1>1, ShapeInput, ShapeFillBuf, ShapeFillBufFails, ShapeOther, ShapeStutters
     DEF Next
<1>. QED BY <1>1, ShapeInit, PTL DEF Spec

\* A slice with a value that is too large is never reported as written, however
\* often the caller polls on after the error: the index stays in front of it.
THEOREM ErrorsStay == Spec => ErrorStays
<1> DEFINE Fits == result' = "ready" /\ Kind = "packed"
                     => \A i \in 1 .. Len(data') : data'[i] < 2^Bits
<1>1. ASSUME ShapeAndFit, ShapeAndFit', [Next]_vars, ~UNCHANGED vars
      PROVE  Fits
  <2>1. SUFFICES ASSUME result' = "ready", Kind = "packed"
                 PROVE  \A i \in 1 .. Len(data') : data'[i] < 2^Bits
    OBVIOUS
  <2>2. serializer' = serializer
    BY <1>1 DEF Next, Input, Poll, Grant, PutPrefix, FillBuf, FillBufFails,
                PutBuf, ReturnReady
  <2>3. index' = Len(data')
    BY <1>1, <2>1 DEF ShapeAndFit, Shape
  <2>4. \A i \in 1 .. index' : data'[i] < 2^Bits
    BY <1>1, <2>1, <2>2 DEF ShapeAndFit, Fitting, Kind, Bits
  <2>. QED BY <2>3, <2>4
<1>2. ASSUME ShapeAndFit, ShapeAndFit', [Next]_vars
      PROVE  [Fits]_vars
  BY <1>1, <1>2
<1>. QED BY <1>2, Shaped, PTL DEF ErrorStays, Spec
-----------------------------------------------------------------------------
(* The stream of bytes *)

Bytes == Lengths /\ Prefixes /\ PackedBytes /\ VarIntBytes

\* What belongs to a slice is in front of its end.
LEMMA PositionsInSlice ==
  ASSUME NEW s \in Serializers, NEW g \in Seq(Seq(Nat)), NEW n \in 1 .. Len(g)
  PROVE  LET e == SliceEnds(s, g)
             v == ValueEnds(g[n])
         IN  /\ e[n - 1] \in Nat /\ e[n] \in Nat /\ e[n - 1] + 4 <= e[n]
             /\ s.kind = "packed" =>
                  /\ e[n] = e[n - 1] + 4 + ((s.bits * Len(g[n]) + 7) \div 8)
                  /\ (s.bits * Len(g[n]) + 7) \div 8 \in Nat
             /\ s.kind = "varint" =>
                  /\ e[n] = e[n - 1] + 4 + v[Len(g[n])]
                  /\ \A i \in 1 .. Len(g[n]) :
                       \A k \in 1 .. Len(SerializeU64(g[n][i])) :
                         e[n - 1] + 4 + v[i - 1] + k <= e[n]
<1> DEFINE e == SliceEnds(s, g)
           v == ValueEnds(g[n])
           slice == g[n]
<1>1. /\ s.kind \in {"packed", "varint"} /\ s.bits \in 1 .. 8
      /\ slice \in Seq(Nat) /\ Len(slice) \in Nat
  BY SerializerFacts
<1>2. /\ e \in [0 .. Len(g) -> Nat]
      /\ BodyLen(s, slice) \in Nat
      /\ e[n] = e[n - 1] + 4 + BodyLen(s, slice)
  BY SliceEndsFacts
<1>3. n - 1 \in 0 .. Len(g) /\ n \in 0 .. Len(g)
  OBVIOUS
<1> HIDE DEF e
<1>4. e[n - 1] \in Nat /\ e[n] \in Nat
  BY <1>2, <1>3
<1>5. PICK x \in Nat, y \in Nat, b \in Nat :
        x = e[n - 1] /\ y = e[n] /\ b = BodyLen(s, slice) /\ y = x + 4 + b
  BY <1>2, <1>4
<1>6. e[n - 1] + 4 <= e[n]
  BY <1>5
<1>7. ASSUME s.kind = "packed"
      PROVE  /\ e[n] = e[n - 1] + 4 + ((s.bits * Len(slice) + 7) \div 8)
             /\ (s.bits * Len(slice) + 7) \div 8 \in Nat
  BY <1>2, <1>7 DEF BodyLen
<1>8. ASSUME s.kind = "varint"
      PROVE  /\ e[n] = e[n - 1] + 4 + v[Len(slice)]
             /\ \A i \in 1 .. Len(slice) : \A k \in 1 .. Len(SerializeU64(slice[i])) :
                  e[n - 1] + 4 + v[i - 1] + k <= e[n]
  <2>1. BodyLen(s, slice) = v[Len(slice)]
    BY <1>8 DEF BodyLen
  <2>2. e[n] = e[n - 1] + 4 + v[Len(slice)]
    BY <1>2, <2>1
  <2>3. SUFFICES ASSUME NEW i \in 1 .. Len(slice),
                        NEW k \in 1 .. Len(SerializeU64(slice[i]))
                 PROVE  e[n - 1] + 4 + v[i - 1] + k <= e[n]
    BY <2>2
  <2>4. /\ v \in [0 .. Len(slice) -> Nat]
        /\ SerializeU64(slice[i]) \in Seq(Nat)
        /\ v[i] = v[i - 1] + Len(SerializeU64(slice[i]))
        /\ \A l \in 0 .. Len(slice) : \A j \in l .. Len(slice) : v[l] <= v[j]
    BY <1>1, <2>3, ValueEndsFacts
  <2> HIDE DEF v, slice
  <2>5. i - 1 \in 0 .. Len(slice) /\ i \in 0 .. Len(slice) /\ Len(slice) \in i .. Len(slice)
    BY <1>1
  <2>6. v[i] <= v[Len(slice)] /\ v[i - 1] \in Nat /\ v[i] \in Nat
    BY <2>4, <2>5
  <2>7. PICK l \in Nat : l = Len(SerializeU64(slice[i]))
    BY <2>4
  <2>8. PICK w \in Nat, z \in Nat : w = v[i - 1] /\ z = v[i]
    BY <2>6
  <2>9. k \in 1 .. l /\ z = w + l /\ z <= b
    BY <1>5, <2>1, <2>4, <2>6, <2>7, <2>8
  <2>10. x + 4 + w + k <= y
    <3>1. y = x + 4 + b
      BY <1>5
    <3>2. k \in Nat /\ w + k <= b
      BY <2>9
    <3>. QED BY <3>1, <3>2
  <2>. QED BY <1>5, <2>8, <2>10
<1>. QED BY <1>4, <1>6, <1>7, <1>8 DEF e

LEMMA EndsFacts ==
  ASSUME Shape
  PROVE  /\ Ends \in [0 .. Len(given) -> Nat]
         /\ Ends[0] = 0
         /\ \A i \in 0 .. Len(given) : \A j \in i .. Len(given) : Ends[i] <= Ends[j]
         /\ \A n \in 1 .. Len(given) :
              /\ given[n] \in Seq(Nat) /\ Len(given[n]) \in Nat
              /\ Ends[n - 1] \in Nat /\ Ends[n] \in Nat /\ Ends[n - 1] + 4 <= Ends[n]
              /\ Kind = "packed" =>
                   /\ Ends[n] = Ends[n - 1] + 4 + ((Bits * Len(given[n]) + 7) \div 8)
                   /\ (Bits * Len(given[n]) + 7) \div 8 \in Nat
              /\ Kind = "varint" =>
                   /\ Ends[n] = Ends[n - 1] + 4 + ValueEnds(given[n])[Len(given[n])]
                   /\ \A i \in 1 .. Len(given[n]) :
                        \A k \in 1 .. Len(SerializeU64(given[n][i])) :
                          Ends[n - 1] + 4 + ValueEnds(given[n])[i - 1] + k <= Ends[n]
<1>1. serializer \in Serializers /\ given \in Seq(Seq(Nat))
  BY GivenSlices
<1>2. ASSUME NEW n \in 1 .. Len(given)
      PROVE  given[n] \in Seq(Nat) /\ Len(given[n]) \in Nat
  <2>1. given[n] \in Seq(Nat)
    BY <1>1
  <2>. QED BY <2>1
<1>3. /\ Ends \in [0 .. Len(given) -> Nat]
      /\ Ends[0] = 0
      /\ \A i \in 0 .. Len(given) : \A j \in i .. Len(given) : Ends[i] <= Ends[j]
  BY <1>1, SliceEndsFacts DEF Ends
<1>4. ASSUME NEW n \in 1 .. Len(given)
      PROVE  /\ Ends[n - 1] \in Nat /\ Ends[n] \in Nat /\ Ends[n - 1] + 4 <= Ends[n]
             /\ Kind = "packed" =>
                   /\ Ends[n] = Ends[n - 1] + 4 + ((Bits * Len(given[n]) + 7) \div 8)
                   /\ (Bits * Len(given[n]) + 7) \div 8 \in Nat
             /\ Kind = "varint" =>
                   /\ Ends[n] = Ends[n - 1] + 4 + ValueEnds(given[n])[Len(given[n])]
                   /\ \A i \in 1 .. Len(given[n]) :
                        \A k \in 1 .. Len(SerializeU64(given[n][i])) :
                          Ends[n - 1] + 4 + ValueEnds(given[n])[i - 1] + k <= Ends[n]
  BY <1>1, PositionsInSlice DEF Ends, Kind, Bits
<1>. QED BY <1>2, <1>3, <1>4

LEMMA StreamIsBytes ==
  ASSUME Shape
  PROVE  Stream \in Seq(Nat) /\ Len(Stream) \in Nat
<1>1. PICK a \in Seq(Nat), b \in Seq(Nat), c \in Seq(Nat) :
        a = sent /\ b = prefix /\ c = buf
  BY DEF Shape
<1>2. (a \o b) \o c \in Seq(Nat)
  OBVIOUS
<1>. QED BY <1>1, <1>2 DEF Stream

\* Once the position is behind the last value, all of the slice is in the
\* stream.
LEMMA WholeSlice ==
  ASSUME Shape, Lengths, index = Len(data)
  PROVE  Len(Stream) = Ends[Len(given)]
<1>1. CASE given = << >>
  <2>1. Stream = << >>
    BY <1>1 DEF Stream, Shape
  <2>2. Len(given) = 0 /\ Len(Stream) = 0
    BY <1>1, <2>1
  <2>. QED BY <2>2, EndsFacts
<1>2. CASE given # << >>
  <2>1. given \in Seq(Seq(Nat)) /\ Kind \in {"packed", "varint"} /\ data = given[Len(given)]
    BY <1>2, GivenSlices DEF Shape
  <2>2. Len(given) \in 1 .. Len(given)
    BY <1>2, <2>1
  <2>3. /\ Kind = "packed" =>
             Ends[Len(given)] = Ends[Len(given) - 1] + 4 + ((Bits * Len(data) + 7) \div 8)
        /\ Kind = "varint" =>
             Ends[Len(given)] = Ends[Len(given) - 1] + 4 + ValueEnds(data)[Len(data)]
    BY <2>1, <2>2, EndsFacts
  <2>4. ~Stuck
    BY GivenSlices DEF Stuck
  <2>. QED BY <1>2, <2>1, <2>3, <2>4 DEF Lengths
<1>. QED BY <1>1, <1>2

LEMMA SameStream ==
  ASSUME Bytes, UNCHANGED <<serializer, data, index, given>>, Stream' = Stream
  PROVE  Bytes'
<1>1. Ends' = Ends
  BY DEF Ends
<1>2. Lengths'
  BY <1>1 DEF Bytes, Lengths, Stuck, TooLarge, Kind, Bits
<1>3. Prefixes'
  BY <1>1 DEF Bytes, Prefixes
<1>4. PackedBytes'
  BY <1>1 DEF Bytes, PackedBytes, Kind, Bits
<1>5. VarIntBytes'
  BY <1>1 DEF Bytes, VarIntBytes, Kind
<1>. QED BY <1>2, <1>3, <1>4, <1>5 DEF Bytes

LEMMA BytesInit == Init => Bytes
<1> SUFFICES ASSUME Init PROVE Bytes
  OBVIOUS
<1>1. given = << >> /\ Len(given) = 0
  BY DEF Init
<1>. QED BY <1>1 DEF Bytes, Lengths, Prefixes, PackedBytes, VarIntBytes

LEMMA BytesFillBufFails ==
  ASSUME ShapeAndFit, Bytes, FillBufFails PROVE Bytes'
<1>1. /\ UNCHANGED <<serializer, data, given, prefix, buf, sent>>
      /\ Stuck' /\ Kind = "packed"
  <2>1. Kind = "packed"
    BY DEF FillBufFails, TooLarge
  <2>. QED BY <2>1, ShapeFillBufFails DEF FillBufFails
<1>2. Stream' = Stream /\ Ends' = Ends /\ Kind' = "packed"
  BY <1>1 DEF Stream, Ends, Kind
<1>3. Lengths'
  BY <1>1, <1>2 DEF Bytes, Lengths
<1>4. Prefixes'
  BY <1>1, <1>2 DEF Bytes, Prefixes
<1>5. PackedBytes'
  BY <1>1, <1>2 DEF Bytes, PackedBytes, Kind, Bits
<1>6. VarIntBytes'
  BY <1>2 DEF VarIntBytes
<1>. QED BY <1>3, <1>4, <1>5, <1>6 DEF Bytes

\* In a longer stream the bytes that were there are where they were.
LEMMA Lengthened ==
  ASSUME NEW s \in Seq(Nat), NEW t \in Seq(Nat)
  PROVE  /\ Len(s \o t) = Len(s) + Len(t)
         /\ \A p \in 1 .. Len(s) : (s \o t)[p] = s[p]
         /\ \A p \in 1 .. Len(t) : (s \o t)[Len(s) + p] = t[p]
OBVIOUS

LEMMA Appended ==
  ASSUME NEW S, NEW g \in Seq(S), NEW x \in S
  PROVE  /\ Len(Append(g, x)) = Len(g) + 1
         /\ Append(g, x)[Len(g) + 1] = x
         /\ Append(g, x) # << >>
         /\ \A n \in 1 .. Len(g) : Append(g, x)[n] = g[n]
OBVIOUS

LEMMA BytesInput ==
  ASSUME ShapeAndFit, Bytes, Input PROVE Bytes'
<1>1. Shape /\ Lengths /\ Shape'
  BY ShapeInput DEF ShapeAndFit, Bytes
<1>2. PICK slice \in Slices :
        /\ data' = slice
        /\ prefix' = LengthPrefix(Len(slice))
        /\ index' = 0 /\ buf' = << >>
        /\ given' = Append(given, slice)
  BY DEF Input, Reset
<1>3. UNCHANGED <<serializer, sent>> /\ result \in {"new", "ready"}
  BY DEF Input
<1>4. /\ slice \in Seq(Nat) /\ given \in Seq(Seq(Nat))
      /\ serializer \in Serializers /\ Kind \in {"packed", "varint"} /\ Bits \in 1 .. 8
  BY <1>1, GivenSlices
<1>5. PICK N \in Nat : N = Len(given)
  BY <1>4
<1>6. /\ Len(given') = N + 1 /\ given'[N + 1] = slice
      /\ \A n \in 1 .. N : given'[n] = given[n]
      /\ given' # << >>
  BY <1>2, <1>4, <1>5, Appended
<1>7. /\ prefix = << >> /\ buf = << >> /\ index = Len(data)
  <2>1. CASE result = "new"
    BY <1>1, <2>1 DEF Shape
  <2>2. CASE result = "ready"
    BY <1>1, <2>2 DEF Shape
  <2>. QED BY <1>3, <2>1, <2>2
<1>8. /\ Len(Stream) = Ends[N] /\ Stream \in Seq(Nat) /\ Len(Stream) \in Nat
  BY <1>1, <1>5, <1>7, WholeSlice, StreamIsBytes
<1>9. /\ prefix' \in Seq(Nat) /\ Len(prefix') = 4
  BY <1>2, <1>4, LengthPrefixBytes
<1>10. Stream' = Stream \o prefix'
  <2>1. sent \in Seq(Nat)
    BY <1>1 DEF Shape
  <2>2. Stream = sent
    BY <1>7, <2>1 DEF Stream
  <2>3. sent \o prefix' \in Seq(Nat)
    BY <1>9, <2>1
  <2>4. Stream' = (sent \o prefix') \o << >>
    BY <1>2, <1>3 DEF Stream
  <2>. QED BY <2>2, <2>3, <2>4, ConcatEmptySeq
<1>11. /\ Len(Stream') = Len(Stream) + 4
       /\ \A p \in 1 .. Len(Stream) : Stream'[p] = Stream[p]
       /\ \A p \in 1 .. 4 : Stream'[Len(Stream) + p] = prefix'[p]
  <2>1. PICK s \in Seq(Nat), t \in Seq(Nat) : s = Stream /\ t = prefix'
    BY <1>8, <1>9
  <2>2. /\ Len(s \o t) = Len(s) + Len(t)
        /\ \A p \in 1 .. Len(s) : (s \o t)[p] = s[p]
        /\ \A p \in 1 .. Len(t) : (s \o t)[Len(s) + p] = t[p]
    BY Lengthened
  <2>. QED BY <1>9, <1>10, <2>1, <2>2
<1>12. \A n \in 0 .. N : Ends'[n] = Ends[n]
  BY <1>2, <1>3, <1>4, <1>5, SliceEndsOfMore DEF Ends
<1>13. Kind' = Kind /\ Bits' = Bits
  BY <1>3 DEF Kind, Bits
<1>14. /\ \A n \in 1 .. N :
            /\ Ends[n - 1] \in Nat /\ Ends[n] \in Nat
            /\ Ends[n - 1] + 4 <= Ends[n] /\ Ends[n] <= Len(Stream)
            /\ Kind = "packed" =>
                 Ends[n] = Ends[n - 1] + 4 + ((Bits * Len(given[n]) + 7) \div 8)
            /\ Kind = "varint" =>
                 \A i \in 1 .. Len(given[n]) :
                   \A k \in 1 .. Len(SerializeU64(given[n][i])) :
                     Ends[n - 1] + 4 + ValueEnds(given[n])[i - 1] + k <= Ends[n]
  <2>1. ASSUME NEW n \in 1 .. N
        PROVE  Ends[n] <= Len(Stream)
    <3>1. n \in 0 .. Len(given) /\ Len(given) \in n .. Len(given)
      BY <1>5
    <3>. QED BY <1>1, <1>5, <1>8, <3>1, EndsFacts
  <2>. QED BY <1>1, <1>5, <2>1, EndsFacts
<1>15. Lengths'
  <2>1. /\ Ends'[(N + 1) - 1] = Len(Stream) /\ (N + 1) - 1 = N
        /\ Len(Stream') = Ends'[(N + 1) - 1] + 4
    BY <1>8, <1>11, <1>12
  <2>2. Ends'[(N + 1) - 1] + 4 <= Ends'[N + 1]
    <3>1. /\ given' \in Seq(Seq(Nat)) /\ N + 1 \in 1 .. Len(given')
      BY <1>2, <1>4, <1>6
    <3>2. SliceEnds(serializer, given')[(N + 1) - 1] + 4
            <= SliceEnds(serializer, given')[N + 1]
      BY <1>4, <3>1, PositionsInSlice
    <3>. QED BY <1>3, <3>2 DEF Ends
  <2>3. Kind = "varint" => ValueEnds(slice)[0] = 0
    BY <1>4, ValueEndsFacts
  <2>4. (Bits * 0) % 8 = 0 /\ (Bits * 0 + 7) \div 8 = 0
    BY <1>4
  <2>5. /\ Ends'[Len(given') - 1] + 4 = Len(Stream')
        /\ Len(Stream') <= Ends'[Len(given')]
    BY <1>6, <2>1, <2>2
  <2>6. Len(Stream') \in Nat
    BY <1>8, <1>11
  <2>7. Kind = "varint" => Len(Stream') = Len(Stream') + ValueEnds(data')[index']
    BY <1>2, <2>3, <2>6
  <2>8. Bits * index' = Bits * 0 /\ Len(Stream') = Len(Stream') + (Bits * index' + 7) \div 8
    BY <1>2, <2>4, <2>6
  <2>. QED BY <1>13, <2>4, <2>5, <2>6, <2>7, <2>8 DEF Lengths
<1>16. Prefixes'
  <2>1. SUFFICES ASSUME NEW n \in 1 .. N + 1, NEW k \in 1 .. 4
                 PROVE  Stream'[Ends'[n - 1] + k] = LengthPrefix(Len(given'[n]))[k]
    BY <1>6 DEF Prefixes
  <2>2. CASE n = N + 1
    <3>1. Ends'[n - 1] = Len(Stream) /\ given'[n] = slice
      BY <1>6, <1>8, <1>12, <2>2
    <3>. QED BY <1>2, <1>11, <3>1
  <2>3. CASE n \in 1 .. N
    <3>3. PICK a \in Nat, b \in Nat : a = Ends[n - 1] /\ b = Ends[n]
      BY <1>14, <2>3
    <3>4. a + 4 <= b /\ b <= Len(Stream)
      BY <1>14, <2>3, <3>3
    <3>5. a + k \in 1 .. Len(Stream)
      BY <1>8, <3>4
    <3>6. n - 1 \in 0 .. N
      BY <2>3
    <3>1. /\ Ends'[n - 1] = Ends[n - 1] /\ given'[n] = given[n]
          /\ Ends[n - 1] + k \in 1 .. Len(Stream)
      BY <1>6, <1>12, <2>3, <3>3, <3>5, <3>6
    <3>2. Stream[Ends[n - 1] + k] = LengthPrefix(Len(given[n]))[k]
      BY <1>5, <2>3 DEF Bytes, Prefixes
    <3>. QED BY <1>11, <3>1, <3>2
  <2>. QED BY <2>2, <2>3
<1>17. PackedBytes'
  <2>1. SUFFICES ASSUME Kind = "packed", NEW n \in 1 .. N + 1,
                        NEW k \in 1 .. (Bits * Len(given'[n]) + 7) \div 8,
                        Ends'[n - 1] + 4 + k <= Len(Stream')
                 PROVE  Stream'[Ends'[n - 1] + 4 + k] = Packed(Bits, given'[n])[k]
    BY <1>6, <1>13 DEF PackedBytes
  <2>2. n # N + 1
    <3>1. SUFFICES ASSUME n = N + 1 PROVE FALSE
      OBVIOUS
    <3>2. Ends'[n - 1] = Len(Stream)
      BY <1>8, <1>12, <3>1
    <3>3. k \in Int /\ k >= 1
      OBVIOUS
    <3>. QED BY <1>8, <1>11, <2>1, <3>2, <3>3
  <2>3. /\ n \in 1 .. N /\ Ends'[n - 1] = Ends[n - 1] /\ given'[n] = given[n]
    BY <1>6, <1>12, <2>2
  <2>4. PICK l \in Int : l = (Bits * Len(given[n]) + 7) \div 8
    <3>1. (Bits * Len(given[n]) + 7) \div 8 \in Nat
      BY <1>1, <1>5, <2>1, <2>3, EndsFacts
    <3>. QED BY <3>1
  <2>5. Ends[n - 1] + 4 + k \in 1 .. Len(Stream)
    <3>1. PICK a \in Nat, b \in Nat : a = Ends[n - 1] /\ b = Ends[n]
      BY <1>14, <2>3
    <3>2. b = a + 4 + l /\ b <= Len(Stream)
      BY <1>14, <2>1, <2>3, <2>4, <3>1
    <3>3. k \in 1 .. l
      BY <2>3, <2>4
    <3>4. a + 4 + k \in 1 .. Len(Stream)
      BY <1>8, <3>2, <3>3
    <3>. QED BY <3>1, <3>4
  <2>6. Stream[Ends[n - 1] + 4 + k] = Packed(Bits, given[n])[k]
    <3>1. Ends[n - 1] + 4 + k <= Len(Stream)
      BY <1>8, <2>5
    <3>. QED BY <1>5, <2>1, <2>3, <3>1 DEF Bytes, PackedBytes
  <2>. QED BY <1>11, <2>3, <2>5, <2>6
<1>18. VarIntBytes'
  <2>1. SUFFICES ASSUME Kind = "varint", NEW n \in 1 .. N + 1,
                        NEW i \in 1 .. Len(given'[n]),
                        NEW k \in 1 .. Len(SerializeU64(given'[n][i])),
                        Ends'[n - 1] + 4 + ValueEnds(given'[n])[i - 1] + k <= Len(Stream')
                 PROVE  Stream'[Ends'[n - 1] + 4 + ValueEnds(given'[n])[i - 1] + k]
                          = SerializeU64(given'[n][i])[k]
    BY <1>6, <1>13 DEF VarIntBytes
  <2>2. n # N + 1
    <3>1. SUFFICES ASSUME n = N + 1 PROVE FALSE
      OBVIOUS
    <3>2. Ends'[n - 1] = Len(Stream) /\ given'[n] = slice
      BY <1>6, <1>8, <1>12, <3>1
    <3>3. ValueEnds(slice) \in [0 .. Len(slice) -> Nat]
      BY <1>4, ValueEndsFacts
    <3>6. i - 1 \in 0 .. Len(slice)
      <4>1. i \in 1 .. Len(slice) /\ Len(slice) \in Nat
        BY <1>4, <3>2
      <4>. QED BY <4>1
    <3>4. PICK v \in Nat : v = ValueEnds(given'[n])[i - 1]
      BY <3>2, <3>3, <3>6
    <3>5. PICK j \in Nat : j = k /\ j >= 1
      OBVIOUS
    <3>7. PICK l \in Nat : l = Len(Stream) /\ Len(Stream') = l + 4
      BY <1>8, <1>11
    <3>8. l + 4 + v + j <= l + 4
      BY <2>1, <3>2, <3>4, <3>5, <3>7
    <3>. QED BY <3>5, <3>8
  <2>3. /\ n \in 1 .. N /\ Ends'[n - 1] = Ends[n - 1] /\ given'[n] = given[n]
    BY <1>6, <1>12, <2>2
  <2>4. PICK v \in Nat : v = ValueEnds(given[n])[i - 1]
    <3>1. given[n] \in Seq(Nat) /\ i - 1 \in 0 .. Len(given[n])
      BY <1>4, <1>5, <2>3
    <3>2. ValueEnds(given[n])[i - 1] \in Nat
      BY <3>1, ValueEndsFacts
    <3>. QED BY <3>2
  <2>5. Ends[n - 1] + 4 + v + k \in 1 .. Len(Stream)
    <3>1. Ends[n - 1] + 4 + v + k <= Ends[n]
      BY <1>14, <2>1, <2>3, <2>4
    <3>2. PICK j \in Nat : j = k /\ j >= 1
      OBVIOUS
    <3>3. PICK a \in Nat, b \in Nat :
            a = Ends[n - 1] /\ b = Ends[n] /\ b <= Len(Stream)
      BY <1>14, <2>3
    <3>4. a + 4 + v + j <= b
      BY <3>1, <3>2, <3>3
    <3>6. PICK l \in Nat : l = Len(Stream) /\ b <= l
      BY <1>8, <3>3
    <3>7. j >= 1
      BY <3>2
    <3>8. a + 4 + v + j \in 1 .. l
      BY <3>4, <3>6, <3>7
    <3>5. a + 4 + v + j \in 1 .. Len(Stream)
      BY <3>6, <3>8
    <3>. QED BY <3>2, <3>3, <3>5
  <2>6. Stream[Ends[n - 1] + 4 + v + k] = SerializeU64(given[n][i])[k]
    <3>1. Ends[n - 1] + 4 + ValueEnds(given[n])[i - 1] + k <= Len(Stream)
      BY <1>8, <2>4, <2>5
    <3>. QED BY <1>5, <2>1, <2>3, <2>4, <3>1 DEF Bytes, VarIntBytes
  <2>. QED BY <1>11, <2>3, <2>4, <2>5, <2>6
<1>. QED BY <1>15, <1>16, <1>17, <1>18 DEF Bytes

\* What a call to fill_buf puts behind the stream.
LEMMA FillBufStream ==
  ASSUME ShapeAndFit, Bytes, FillBuf
  PROVE  /\ Stream \in Seq(Nat) /\ buf' \in Seq(Nat)
         /\ Len(Stream) \in Nat /\ Len(buf') \in Nat
         /\ Len(Stream') = Len(Stream) + Len(buf')
         /\ \A p \in 1 .. Len(Stream) : Stream'[p] = Stream[p]
         /\ \A p \in 1 .. Len(buf') : Stream'[Len(Stream) + p] = buf'[p]
<1>1. Shape /\ Shape'
  BY ShapeFillBuf DEF ShapeAndFit
<1>2. prefix = << >> /\ buf = << >> /\ UNCHANGED <<prefix, sent>>
  BY DEF FillBuf, BufferEmpty
<1>3. sent \in Seq(Nat) /\ buf' \in Seq(Nat)
  BY <1>1 DEF Shape
<1>4. Stream = sent /\ Stream' = sent \o buf'
  <2>1. sent \o << >> = sent
    BY <1>3
  <2>. QED BY <1>2, <2>1 DEF Stream
<1>5. PICK s \in Seq(Nat), t \in Seq(Nat) : s = sent /\ t = buf'
  BY <1>3
<1>6. /\ Len(s \o t) = Len(s) + Len(t)
      /\ \A p \in 1 .. Len(s) : (s \o t)[p] = s[p]
      /\ \A p \in 1 .. Len(t) : (s \o t)[Len(s) + p] = t[p]
      /\ Len(s) \in Nat /\ Len(t) \in Nat
  BY Lengthened
<1>. QED BY <1>3, <1>4, <1>5, <1>6

\* The current slice before fill_buf.
LEMMA FillBufStart ==
  ASSUME ShapeAndFit, Bytes, FillBuf
  PROVE  /\ Len(given) \in Nat \ {0} /\ data = given[Len(given)]
         /\ data \in Seq(Nat) /\ Len(data) \in Nat
         /\ index \in Nat /\ index < Len(data)
         /\ index' = ChunkEnd /\ ChunkEnd \in index + 1 .. Len(data)
         /\ ~Stuck
         /\ UNCHANGED <<serializer, data, given>>
         /\ Ends' = Ends /\ Kind' = Kind /\ Bits' = Bits
<1>1. Shape
  BY DEF ShapeAndFit
<1>2. /\ data \in Seq(Nat) /\ given \in Seq(Seq(Nat)) /\ index \in 0 .. Len(data)
  BY <1>1, GivenSlices DEF Shape
<1>3. /\ index < Len(data) /\ index' = ChunkEnd
      /\ UNCHANGED <<serializer, data, given>>
      /\ \A i \in index + 1 .. ChunkEnd : ~TooLarge(i)
  BY DEF FillBuf
<1>4. ChunkEnd \in index + 1 .. Len(data)
  BY <1>1, <1>3, ChunkEndFacts
<1>5. index \in Nat /\ Len(data) \in Nat
  BY <1>2
<1>6. ~Stuck
  <2>1. index + 1 \in index + 1 .. ChunkEnd
    BY <1>4, <1>5
  <2>. QED BY <1>3, <2>1 DEF Stuck
<1>7. given # << >>
  BY <1>1, <1>3, <1>5 DEF Shape
<1>8. Len(given) \in Nat \ {0} /\ data = given[Len(given)]
  BY <1>1, <1>2, <1>7 DEF Shape
<1>. QED BY <1>2, <1>3, <1>4, <1>5, <1>6, <1>8 DEF Ends, Kind, Bits

LEMMA PackedFillBuf ==
  ASSUME ShapeAndFit, Bytes, FillBuf, Kind = "packed", WholeBytes
  PROVE  LET begin == Ends[Len(given) - 1] + 4
             a == Bits * index
             e == Bits * ChunkEnd
         IN  /\ a \in Nat /\ e \in Nat /\ a % 8 = 0
             /\ e % 8 = 0 \/ ChunkEnd = Len(data)
             /\ Len(Stream) = begin + a \div 8
             /\ Len(Stream') = begin + (e + 7) \div 8
             /\ Len(buf') = (e - a + 7) \div 8
             /\ \A k \in 1 .. Len(buf') : buf'[k] = Packed(Bits, data)[a \div 8 + k]
<1> DEFINE begin == Ends[Len(given) - 1] + 4
           a == Bits * index
           e == Bits * ChunkEnd
           N == Len(given)
<1>1. Shape /\ Lengths
  BY DEF ShapeAndFit, Bytes
<1>2. Bits \in 1 .. 8 /\ BufBytes \in Nat \ {0} /\ serializer \in Serializers
  BY <1>1, GivenSlices
<1>3. /\ N \in Nat \ {0} /\ data \in Seq(Nat) /\ Len(data) \in Nat
      /\ index \in Nat /\ index < Len(data)
      /\ ChunkEnd \in index + 1 .. Len(data) /\ ~Stuck
  BY FillBufStart
<1>4. begin \in Nat
  <2>1. N \in 1 .. Len(given)
    BY <1>3
  <2>2. Ends[N - 1] \in Nat
    BY <1>1, <2>1, EndsFacts
  <2>. QED BY <2>2
<1>5. /\ a % 8 = 0 /\ Len(Stream) = begin + (a + 7) \div 8
  BY <1>1, <1>3 DEF Lengths
<1>6. a \in Nat /\ e \in Nat /\ a <= e
  <2>1. CASE Bits = 1 BY <1>3, <2>1
  <2>2. CASE Bits = 2 BY <1>3, <2>2
  <2>3. CASE Bits = 3 BY <1>3, <2>3
  <2>4. CASE Bits = 4 BY <1>3, <2>4
  <2>5. CASE Bits = 5 BY <1>3, <2>5
  <2>6. CASE Bits = 6 BY <1>3, <2>6
  <2>7. CASE Bits = 7 BY <1>3, <2>7
  <2>8. CASE Bits = 8 BY <1>3, <2>8
  <2>. QED BY <1>2, <2>1, <2>2, <2>3, <2>4, <2>5, <2>6, <2>7, <2>8
<1>7. e % 8 = 0 \/ ChunkEnd = Len(data)
  <2>1. \/ (8 * BufBytes) % Bits = 0
        \/ \A slice \in Slices : Len(slice) <= (8 * BufBytes) \div Bits
    BY <1>2 DEF WholeBytes, Kind, Bits, BufBytes, Slices
  <2>2. SUFFICES ASSUME ChunkEnd = index + ((8 * BufBytes) \div Bits)
                 PROVE  e % 8 = 0 \/ ChunkEnd = Len(data)
    BY <1>1, ChunkEndFacts
  <2>3. PICK c \in Nat : c = (8 * BufBytes) \div Bits
    BY <1>1, ChunkIsSome
  <2>4. CASE (8 * BufBytes) % Bits = 0
    <3>1. Bits * c = 8 * BufBytes
      <4>1. CASE Bits = 1 BY <1>2, <2>3, <2>4, <4>1
      <4>2. CASE Bits = 2 BY <1>2, <2>3, <2>4, <4>2
      <4>3. CASE Bits = 3 BY <1>2, <2>3, <2>4, <4>3
      <4>4. CASE Bits = 4 BY <1>2, <2>3, <2>4, <4>4
      <4>5. CASE Bits = 5 BY <1>2, <2>3, <2>4, <4>5
      <4>6. CASE Bits = 6 BY <1>2, <2>3, <2>4, <4>6
      <4>7. CASE Bits = 7 BY <1>2, <2>3, <2>4, <4>7
      <4>8. CASE Bits = 8 BY <1>2, <2>3, <2>4, <4>8
      <4>. QED BY <1>2, <4>1, <4>2, <4>3, <4>4, <4>5, <4>6, <4>7, <4>8
    <3>2. e = a + 8 * BufBytes
      <4>1. e = Bits * (index + c)
        BY <2>2, <2>3
      <4>2. Bits * (index + c) = Bits * index + Bits * c
        BY <1>2, <1>3
      <4>. QED BY <3>1, <4>1, <4>2
    <3>3. PICK w \in Nat : w = 8 * BufBytes /\ w % 8 = 0
      BY <1>2
    <3>4. PICK x \in Nat, y \in Nat : x = a /\ y = e /\ x % 8 = 0 /\ y = x + w
      BY <1>5, <1>6, <3>2, <3>3
    <3>5. y % 8 = 0
      BY <3>3, <3>4
    <3>. QED BY <3>4, <3>5
  <2>5. CASE \A slice \in Slices : Len(slice) <= (8 * BufBytes) \div Bits
    <3>1. data \in Slices
      <4>1. given \in Seq(Slices) /\ N \in 1 .. Len(given) /\ data = given[N]
        BY <1>1, <1>3, FillBufStart DEF Shape
      <4>. QED BY <4>1
    <3>2. Len(data) <= c
      BY <2>3, <2>5, <3>1
    <3>3. ChunkEnd = index + c /\ ChunkEnd \in index + 1 .. Len(data)
      BY <1>3, <2>2, <2>3
    <3>. QED BY <1>3, <3>2, <3>3
  <2>. QED BY <2>1, <2>4, <2>5
<1>8. Bits * (ChunkEnd - index) = e - a
  BY <1>2, <1>3
<1> DEFINE part == SubSeq(data, index + 1, ChunkEnd)
<1>9. part \in Seq(Nat) /\ Len(part) = ChunkEnd - index
  BY <1>3
<1>10. buf' = Packed(Bits, part)
  BY DEF FillBuf
<1>11. Len(buf') = (e - a + 7) \div 8
  <2>1. Len(Packed(Bits, part)) = (Bits * Len(part) + 7) \div 8
    <3> HIDE DEF part
    <3>. QED BY <1>2, <1>9, PackedBytesOf
  <2>. QED BY <1>8, <1>9, <1>10, <2>1
<1>12. ASSUME NEW k \in 1 .. Len(buf')
       PROVE  buf'[k] = Packed(Bits, data)[a \div 8 + k]
  <2>1. /\ index \in 0 .. Len(data) /\ ChunkEnd \in index .. Len(data)
        /\ k \in 1 .. (Bits * (ChunkEnd - index) + 7) \div 8
    BY <1>3, <1>8, <1>11
  <2>2. /\ (Bits * index) % 8 = 0
        /\ (Bits * ChunkEnd) % 8 = 0 \/ ChunkEnd = Len(data)
    BY <1>5, <1>7
  <2>3. Packed(Bits, part)[k] = Packed(Bits, data)[(Bits * index) \div 8 + k]
    BY <1>2, <1>3, <2>1, <2>2, ChunkIsAPart
  <2>. QED BY <1>10, <2>3
<1>13. Len(Stream') = Len(Stream) + Len(buf')
  BY FillBufStream
<1> HIDE DEF a, e, begin
<1>14. /\ Len(Stream) = begin + a \div 8
       /\ Len(Stream') = begin + (e + 7) \div 8
  <2>1. (a + 7) \div 8 = a \div 8 /\ a \div 8 + (e - a + 7) \div 8 = (e + 7) \div 8
        /\ a \div 8 \in Nat /\ (e - a + 7) \div 8 \in Nat
    BY <1>5, <1>6
  <2>2. PICK x \in Nat, y \in Nat : x = a \div 8 /\ y = (e - a + 7) \div 8
    BY <2>1
  <2>. QED BY <1>4, <1>5, <1>11, <1>13, <2>1, <2>2
<1>. QED BY <1>5, <1>6, <1>7, <1>11, <1>12, <1>14 DEF a, e, begin

LEMMA VarIntFillBuf ==
  ASSUME ShapeAndFit, Bytes, FillBuf, Kind = "varint"
  PROVE  LET begin == Ends[Len(given) - 1] + 4
             v == ValueEnds(data)
         IN  /\ ChunkEnd = index + 1
             /\ buf' = SerializeU64(data[index + 1])
             /\ Len(Stream) = begin + v[index]
             /\ Len(Stream') = begin + v[index + 1]
<1>1. Shape /\ Lengths
  BY DEF ShapeAndFit, Bytes
<1>2. /\ Len(given) \in Nat \ {0} /\ data \in Seq(Nat) /\ Len(data) \in Nat
      /\ index \in Nat /\ index < Len(data)
  BY FillBufStart
<1>3. ChunkEnd = index + 1 /\ buf' = SerializeU64(data[index + 1])
  BY <1>1, ChunkEndFacts DEF FillBuf
<1>4. Len(Stream) = Ends[Len(given) - 1] + 4 + ValueEnds(data)[index]
  BY <1>1, <1>2 DEF Lengths
<1>5. Len(Stream') = Len(Stream) + Len(buf') /\ Len(buf') \in Nat
  BY FillBufStream
<1>6. /\ ValueEnds(data) \in [0 .. Len(data) -> Nat]
      /\ ValueEnds(data)[index + 1]
           = ValueEnds(data)[index] + Len(SerializeU64(data[index + 1]))
  <2>1. index + 1 \in 1 .. Len(data) /\ (index + 1) - 1 = index
    BY <1>2
  <2>. QED BY <1>2, <2>1, ValueEndsFacts
<1>7. Ends[Len(given) - 1] \in Nat /\ ValueEnds(data)[index] \in Nat
  <2>1. Len(given) \in 1 .. Len(given) /\ index \in 0 .. Len(data)
    BY <1>2
  <2>. QED BY <1>1, <1>6, <2>1, EndsFacts
<1>8. PICK x \in Nat, y \in Nat, z \in Nat :
        /\ x = Ends[Len(given) - 1] /\ y = ValueEnds(data)[index] /\ z = Len(buf')
  BY <1>5, <1>7
<1>9. x + 4 + y + z = x + 4 + (y + z)
  OBVIOUS
<1>. QED BY <1>3, <1>4, <1>5, <1>6, <1>8, <1>9

\* The positions of a slice before the current one are in the stream already.
LEMMA EarlierSlices ==
  ASSUME Shape, Lengths, NEW n \in 1 .. Len(given) - 1
  PROVE  Ends[n] <= Len(Stream) /\ Ends[n] \in Nat
<1>1. given \in Seq(Seq(Nat))
  BY GivenSlices
<1>2. PICK N \in Nat : N = Len(given)
  BY <1>1
<1>3. /\ n \in 0 .. Len(given) /\ N - 1 \in n .. Len(given) /\ N \in 1 .. Len(given)
      /\ n \in 1 .. Len(given)
  BY <1>2
<1>4. Ends[n] <= Ends[N - 1] /\ Ends[N - 1] \in Nat /\ Ends[n] \in Nat
  BY <1>3, EndsFacts
<1>5. given # << >>
  BY <1>2
<1>6. Ends[N - 1] + 4 <= Len(Stream) /\ Len(Stream) \in Nat
  BY <1>2, <1>5, StreamIsBytes DEF Lengths
<1>. QED BY <1>4, <1>6

LEMMA BytesFillBuf ==
  ASSUME ShapeAndFit, Bytes, FillBuf, WholeBytes PROVE Bytes'
<1>1. Shape /\ Lengths /\ Prefixes /\ PackedBytes /\ VarIntBytes
      /\ Kind \in {"packed", "varint"} /\ Bits \in 1 .. 8
      /\ given \in Seq(Seq(Nat))
  BY GivenSlices DEF ShapeAndFit, Bytes
<1>2. PICK N \in Nat \ {0} : N = Len(given)
  BY FillBufStart
<1>3. /\ N \in 1 .. Len(given) /\ data = given[N] /\ given # << >>
      /\ data \in Seq(Nat) /\ Len(data) \in Nat
      /\ index \in Nat /\ index < Len(data)
      /\ index' = ChunkEnd /\ ChunkEnd \in index + 1 .. Len(data)
      /\ UNCHANGED <<serializer, data, given>>
      /\ Ends' = Ends /\ Kind' = Kind /\ Bits' = Bits
  BY <1>2, FillBufStart
<1>4. /\ Len(Stream) \in Nat /\ Len(buf') \in Nat
      /\ Len(Stream') = Len(Stream) + Len(buf')
      /\ \A p \in 1 .. Len(Stream) : Stream'[p] = Stream[p]
      /\ \A p \in 1 .. Len(buf') : Stream'[Len(Stream) + p] = buf'[p]
  BY FillBufStream
<1>5. PICK begin \in Nat : begin = Ends[N - 1] + 4
  <2>1. Ends[N - 1] \in Nat
    BY <1>1, <1>3, EndsFacts
  <2>. QED BY <2>1
<1>6. begin <= Len(Stream)
  BY <1>1, <1>2, <1>3, <1>5 DEF Lengths
<1>7. /\ \A n \in 1 .. N : Ends[n - 1] \in Nat /\ Ends[n] \in Nat
      /\ \A n \in 1 .. N - 1 : Ends[n] <= Len(Stream)
  <2>1. \A n \in 1 .. N - 1 : Ends[n] <= Len(Stream)
    BY <1>1, <1>2, EarlierSlices
  <2>2. \A n \in 1 .. N : Ends[n - 1] \in Nat /\ Ends[n] \in Nat
    BY <1>1, <1>2, EndsFacts
  <2>. QED BY <2>1, <2>2
<1>8. Prefixes'
  <2>1. SUFFICES ASSUME NEW n \in 1 .. N, NEW k \in 1 .. 4
                 PROVE  Stream'[Ends[n - 1] + k] = LengthPrefix(Len(given[n]))[k]
    BY <1>2, <1>3 DEF Prefixes
  <2>2. Stream[Ends[n - 1] + k] = LengthPrefix(Len(given[n]))[k]
    BY <1>1, <1>2 DEF Prefixes
  <2>3. PICK x \in Nat, l \in Nat : x = Ends[n - 1] /\ l = Len(Stream)
    BY <1>4, <1>7
  <2>4. x + 4 <= l
    <3>1. CASE n = N
      BY <1>5, <1>6, <2>3, <3>1
    <3>2. CASE n # N
      <4>1. n \in 1 .. N - 1 /\ n \in 1 .. Len(given)
        BY <1>2, <3>2
      <4>2. Ends[n - 1] + 4 <= Ends[n] /\ Ends[n] <= Len(Stream) /\ Ends[n] \in Nat
        BY <1>1, <1>7, <4>1, EndsFacts
      <4>. QED BY <2>3, <4>2
    <3>. QED BY <3>1, <3>2
  <2>5. x + k \in 1 .. Len(Stream)
    BY <2>3, <2>4
  <2>. QED BY <1>4, <2>2, <2>3, <2>5
<1>9. CASE Kind = "packed"
  <2> DEFINE full == (Bits * Len(data) + 7) \div 8
             e == Bits * ChunkEnd
             a == Bits * index
  <2>1. /\ a \in Nat /\ e \in Nat /\ a % 8 = 0
        /\ e % 8 = 0 \/ ChunkEnd = Len(data)
        /\ Len(Stream) = begin + a \div 8
        /\ Len(Stream') = begin + (e + 7) \div 8
        /\ Len(buf') = (e - a + 7) \div 8
        /\ \A k \in 1 .. Len(buf') : buf'[k] = Packed(Bits, data)[a \div 8 + k]
    BY <1>2, <1>5, <1>9, PackedFillBuf
  <2>2. Ends[N] = begin + full /\ full \in Nat
    BY <1>1, <1>3, <1>5, <1>9, EndsFacts
  <2>3. e <= Bits * Len(data)
    <3>1. CASE Bits = 1 BY <1>3, <3>1
    <3>2. CASE Bits = 2 BY <1>3, <3>2
    <3>3. CASE Bits = 3 BY <1>3, <3>3
    <3>4. CASE Bits = 4 BY <1>3, <3>4
    <3>5. CASE Bits = 5 BY <1>3, <3>5
    <3>6. CASE Bits = 6 BY <1>3, <3>6
    <3>7. CASE Bits = 7 BY <1>3, <3>7
    <3>8. CASE Bits = 8 BY <1>3, <3>8
    <3>. QED BY <1>1, <3>1, <3>2, <3>3, <3>4, <3>5, <3>6, <3>7, <3>8
  <2>4. Lengths'
    <3>0. PICK w \in Nat : w = Bits * Len(data)
      BY <1>1, <1>3
    <3>6. PICK l \in Nat : l = Len(Stream')
      BY <1>4
    <3>1. PICK x \in Nat : l = Len(Stream') /\ x = e /\ w = Bits * Len(data)
      BY <2>1, <3>0, <3>6
    <3>2. l = begin + (x + 7) \div 8 /\ full = (w + 7) \div 8 /\ x <= w
      BY <2>1, <2>3, <3>1
    <3> HIDE DEF full
    <3>3. begin <= l /\ l <= begin + full
      BY <3>2
    <3>4. /\ Ends[N - 1] + 4 <= Len(Stream') /\ Len(Stream') <= Ends[N]
      BY <1>5, <2>2, <3>1, <3>3
    <3>5. /\ e % 8 = 0 \/ index' = Len(data)
          /\ Len(Stream') = Ends[N - 1] + 4 + (Bits * index' + 7) \div 8
      BY <1>3, <1>5, <2>1
    <3>. QED BY <1>2, <1>3, <1>9, <3>4, <3>5 DEF Lengths
  <2>5. PackedBytes'
    <3>1. SUFFICES ASSUME NEW n \in 1 .. N,
                          NEW k \in 1 .. (Bits * Len(given[n]) + 7) \div 8,
                          Ends[n - 1] + 4 + k <= Len(Stream')
                   PROVE  Stream'[Ends[n - 1] + 4 + k] = Packed(Bits, given[n])[k]
      BY <1>2, <1>3 DEF PackedBytes
    <3>2. PICK j \in Nat : j = k /\ j >= 1
      <4>1. (Bits * Len(given[n]) + 7) \div 8 \in Nat
        BY <1>1, <1>2, <1>9, EndsFacts
      <4>. QED BY <4>1
    <3>3. PICK x \in Nat, l \in Nat : x = Ends[n - 1] /\ l = Len(Stream)
      BY <1>4, <1>7
    <3>4. CASE x + 4 + j <= l
      <4>1. x + 4 + j \in 1 .. Len(Stream)
        BY <3>2, <3>3, <3>4
      <4>2. Stream[Ends[n - 1] + 4 + k] = Packed(Bits, given[n])[k]
        BY <1>1, <1>2, <1>9, <3>2, <3>3, <3>4 DEF PackedBytes
      <4>. QED BY <1>4, <3>2, <3>3, <4>1, <4>2
    <3>5. CASE ~(x + 4 + j <= l)
      <4>1. n = N
        <5>1. SUFFICES ASSUME n # N PROVE FALSE
          OBVIOUS
        <5>2. n \in 1 .. N - 1 /\ n \in 1 .. Len(given)
          BY <1>2, <5>1
        <5>3. Ends[n] = x + 4 + ((Bits * Len(given[n]) + 7) \div 8)
              /\ Ends[n] <= Len(Stream)
          BY <1>1, <1>7, <1>9, <3>3, <5>2, EndsFacts
        <5>4. PICK m \in Nat : m = (Bits * Len(given[n]) + 7) \div 8
          BY <1>1, <1>9, <5>2, EndsFacts
        <5>5. j <= m
          BY <3>2, <5>4
        <5>. QED BY <3>3, <3>5, <5>3, <5>4, <5>5, SMTT(60)
      <4>2. x + 4 = begin
        BY <1>5, <3>3, <4>1
      <4>3. PICK q \in Nat, m \in Nat : q = a \div 8 /\ m = Len(buf')
        <5>1. PICK y \in Nat : y = a
          BY <2>1
        <5>2. y \div 8 \in Nat
          OBVIOUS
        <5>. QED BY <1>4, <5>1, <5>2
      <4>4. l = begin + q
        BY <2>1, <3>3, <4>3
      <4>5. Len(Stream') = l + m
        BY <1>4, <3>3, <4>3
      <4>6. j - q \in 1 .. m
        BY <3>1, <3>2, <3>3, <3>5, <4>2, <4>4, <4>5
      <4>7. Stream'[l + (j - q)] = buf'[j - q] /\ buf'[j - q] = Packed(Bits, data)[q + (j - q)]
        BY <1>4, <2>1, <3>3, <4>3, <4>6
      <4>8. l + (j - q) = x + 4 + j /\ q + (j - q) = j
        BY <4>2, <4>4
      <4>. QED BY <1>3, <3>2, <3>3, <4>1, <4>7, <4>8
    <3>. QED BY <3>4, <3>5
  <2>6. VarIntBytes'
    BY <1>3, <1>9 DEF VarIntBytes
  <2>. QED BY <1>8, <2>4, <2>5, <2>6 DEF Bytes
<1>10. CASE Kind = "varint"
  <2> DEFINE v == ValueEnds(data)
  <2>1. /\ ChunkEnd = index + 1
        /\ buf' = SerializeU64(data[index + 1])
        /\ Len(Stream) = begin + v[index]
        /\ Len(Stream') = begin + v[index + 1]
    BY <1>2, <1>5, <1>10, VarIntFillBuf
  <2>2. /\ v \in [0 .. Len(data) -> Nat]
        /\ \A i \in 0 .. Len(data) : \A j \in i .. Len(data) : v[i] <= v[j]
        /\ \A i \in 1 .. Len(data) :
             /\ SerializeU64(data[i]) \in Seq(Nat)
             /\ v[i] = v[i - 1] + Len(SerializeU64(data[i]))
    BY <1>3, ValueEndsFacts
  <2>3. Ends[N] = begin + v[Len(data)]
    BY <1>1, <1>3, <1>5, <1>10, EndsFacts
  <2> HIDE DEF v
  <2>4. Lengths'
    <3>1. index + 1 \in 0 .. Len(data) /\ Len(data) \in index + 1 .. Len(data)
          /\ Len(data) \in 0 .. Len(data)
      BY <1>3
    <3>2. PICK x \in Nat, y \in Nat : x = v[index + 1] /\ y = v[Len(data)] /\ x <= y
      BY <2>2, <3>1
    <3>3. /\ begin <= begin + x /\ begin + x <= begin + y
      BY <3>2
    <3>4. /\ Ends[N - 1] + 4 <= Len(Stream') /\ Len(Stream') <= Ends[N]
      BY <1>5, <2>1, <2>3, <3>2, <3>3
    <3>5. Len(Stream') = Ends[N - 1] + 4 + ValueEnds(data)[index']
      BY <1>3, <1>5, <2>1 DEF v
    <3>. QED BY <1>2, <1>3, <1>10, <3>4, <3>5 DEF Lengths
  <2>5. PackedBytes'
    BY <1>3, <1>10 DEF PackedBytes
  <2>6. VarIntBytes'
    <3>1. SUFFICES ASSUME NEW n \in 1 .. N, NEW i \in 1 .. Len(given[n]),
                          NEW k \in 1 .. Len(SerializeU64(given[n][i])),
                          Ends[n - 1] + 4 + ValueEnds(given[n])[i - 1] + k <= Len(Stream')
                   PROVE  Stream'[Ends[n - 1] + 4 + ValueEnds(given[n])[i - 1] + k]
                            = SerializeU64(given[n][i])[k]
      <4>1. given' = given /\ Ends' = Ends /\ Len(given) = N
        BY <1>2, <1>3
      <4>. QED BY <4>1 DEF VarIntBytes
    <3>2. given[n] \in Seq(Nat) /\ Len(given[n]) \in Nat /\ n \in 1 .. Len(given)
      BY <1>1, <1>2, EndsFacts
    <3>3. PICK w \in Nat : w = ValueEnds(given[n])[i - 1]
      <4>1. i - 1 \in 0 .. Len(given[n])
        BY <3>2
      <4>2. ValueEnds(given[n])[i - 1] \in Nat
        BY <3>2, <4>1, ValueEndsFacts
      <4>. QED BY <4>2
    <3>4. PICK j \in Nat : j = k /\ j >= 1
      OBVIOUS
    <3>5. PICK x \in Nat, l \in Nat : x = Ends[n - 1] /\ l = Len(Stream)
      BY <1>4, <1>7
    <3>6. CASE x + 4 + w + j <= l
      <4>1. x + 4 + w + j \in 1 .. Len(Stream)
        <5>1. x + 4 + w + j \in 1 .. l
          BY <3>4, <3>6
        <5>. QED BY <3>5, <5>1
      <4>2. Stream[Ends[n - 1] + 4 + ValueEnds(given[n])[i - 1] + k]
              = SerializeU64(given[n][i])[k]
        BY <1>1, <1>2, <1>10, <3>3, <3>4, <3>5, <3>6 DEF VarIntBytes
      <4>. QED BY <1>4, <3>3, <3>4, <3>5, <4>1, <4>2
    <3>7. CASE ~(x + 4 + w + j <= l)
      <4>1. n = N
        <5>1. SUFFICES ASSUME n # N PROVE FALSE
          OBVIOUS
        <5>2. n \in 1 .. N - 1
          BY <5>1
        <5>3. Ends[n - 1] + 4 + ValueEnds(given[n])[i - 1] + k <= Ends[n]
          BY <1>1, <1>10, <3>2, EndsFacts
        <5>4. PICK y \in Nat : y = Ends[n] /\ y <= l
          BY <1>7, <3>5, <5>2
        <5>5. x + 4 + w + j <= y
          BY <3>3, <3>4, <3>5, <5>3, <5>4
        <5>. QED BY <3>7, <5>4, <5>5
      <4>2. x + 4 = begin /\ given[n] = data /\ i \in 1 .. Len(data) /\ w = v[i - 1]
        BY <1>3, <1>5, <3>3, <3>5, <4>1 DEF v
      <4>3. PICK y \in Nat, z \in Nat, u \in Nat, m \in Nat :
              /\ y = v[index] /\ z = v[index + 1] /\ u = v[i]
              /\ m = Len(SerializeU64(data[i]))
              /\ u = w + m
        <5>1. index \in 0 .. Len(data) /\ index + 1 \in 0 .. Len(data)
              /\ i \in 0 .. Len(data)
          BY <1>3, <4>2
        <5>2. Len(SerializeU64(data[i])) \in Nat /\ v[i] = w + Len(SerializeU64(data[i]))
          BY <2>2, <4>2
        <5>. QED BY <2>2, <5>1, <5>2
      <4>4. l = begin + y /\ Len(Stream') = begin + z
        BY <2>1, <3>5, <4>3
      <4>5. w + j <= z /\ y < w + j /\ j <= m
        <5>1. begin + w + j <= begin + z
          BY <3>1, <3>3, <3>4, <3>5, <4>2, <4>4
        <5>2. ~(begin + w + j <= begin + y)
          BY <3>7, <4>2, <4>4
        <5>3. k \in 1 .. m
          BY <3>1, <4>2, <4>3
        <5>. QED BY <3>4, <5>1, <5>2, <5>3
      <4>6. i = index + 1
        <5>1. ASSUME i <= index PROVE FALSE
          <6>1. i \in 0 .. Len(data) /\ index \in i .. Len(data)
            BY <1>3, <4>2, <5>1
          <6>2. u <= y
            BY <2>2, <4>3, <6>1
          <6>. QED BY <4>3, <4>5, <6>2
        <5>2. ASSUME i > index + 1 PROVE FALSE
          <6>1. index + 1 \in 0 .. Len(data) /\ i - 1 \in index + 1 .. Len(data)
            BY <1>3, <4>2, <5>2
          <6>2. z <= w
            BY <2>2, <4>2, <4>3, <6>1
          <6>. QED BY <3>4, <4>5, <6>2
        <5>3. i \in Nat
          BY <4>2
        <5>. QED BY <1>3, <5>1, <5>2, <5>3
      <4>7. w = y
        <5>1. i - 1 = index
          BY <1>3, <4>6
        <5>. QED BY <4>2, <4>3, <5>1
      <4>8. buf' = SerializeU64(data[i]) /\ j \in 1 .. Len(buf')
        BY <2>1, <3>4, <4>3, <4>5, <4>6
      <4>9. Stream'[l + j] = buf'[j]
        BY <1>4, <3>5, <4>8
      <4>10. l + j = x + 4 + w + j
        BY <4>2, <4>4, <4>7
      <4>. QED BY <3>3, <3>4, <3>5, <4>2, <4>8, <4>9, <4>10
    <3>. QED BY <3>6, <3>7
  <2>. QED BY <1>8, <2>4, <2>5, <2>6 DEF Bytes
<1>. QED BY <1>1, <1>9, <1>10

LEMMA BytesStay ==
  ASSUME WholeBytes
  PROVE  Spec => [](ShapeAndFit /\ Bytes)
<1>1. ASSUME ShapeAndFit, Bytes, [Next]_vars
      PROVE  Bytes'
  <2>1. CASE Input
    BY <1>1, <2>1, BytesInput
  <2>2. CASE FillBuf
    BY <1>1, <2>2, BytesFillBuf
  <2>3. CASE FillBufFails
    BY <1>1, <2>3, BytesFillBufFails
  <2>4. CASE Poll \/ Grant \/ PutPrefix \/ PutBuf \/ ReturnReady
    BY <1>1, <2>4, ShapeOther, SameStream
  <2>5. CASE UNCHANGED vars
    BY <1>1, <2>5, ShapeStutters, SameStream
  <2>. QED BY <1>1, <2>1, <2>2, <2>3, <2>4, <2>5 DEF Next
<1>. QED BY <1>1, BytesInit, Shaped, PTL DEF Spec

-----------------------------------------------------------------------------
(* What the sink holds *)

LEMMA SentIsOfTheStream ==
  ASSUME Shape
  PROVE  /\ sent \in Seq(Nat) /\ Len(sent) \in Nat
         /\ Len(sent) <= Len(Stream)
         /\ result = "ready" => sent = Stream
<1>1. PICK a \in Seq(Nat), b \in Seq(Nat), c \in Seq(Nat) :
        a = sent /\ b = prefix /\ c = buf
  BY DEF Shape
<1>2. Len((a \o b) \o c) = Len(a) + Len(b) + Len(c)
      /\ Len(a) \in Nat /\ Len(b) \in Nat /\ Len(c) \in Nat
  OBVIOUS
<1>3. (a \o << >>) \o << >> = a
  OBVIOUS
<1>4. result = "ready" => sent = Stream
  BY <1>1, <1>3 DEF Stream, Shape
<1>. QED BY <1>1, <1>2, <1>4 DEF Stream

LEMMA PartOfBytes ==
  ASSUME NEW s \in Seq(Nat), NEW i \in Nat, NEW j \in Nat, i <= j, j <= Len(s)
  PROVE  /\ SubSeq(s, i + 1, j) \in Seq(Nat)
         /\ Len(SubSeq(s, i + 1, j)) = j - i
         /\ \A k \in 1 .. j - i : SubSeq(s, i + 1, j)[k] = s[i + k]
<1>1. PICK n \in Nat : n = Len(s)
  OBVIOUS
<1>2. i + 1 \in Int /\ j \in Int /\ \A q \in i + 1 .. j : s[q] \in Nat
  BY <1>1
<1>3. /\ SubSeq(s, i + 1, j) \in Seq(Nat)
      /\ Len(SubSeq(s, i + 1, j)) = IF i + 1 <= j THEN j - (i + 1) + 1 ELSE 0
      /\ \A k \in 1 .. j - (i + 1) + 1 : SubSeq(s, i + 1, j)[k] = s[(i + 1) + k - 1]
  BY <1>2, SubSeqProperties
<1>4. /\ (IF i + 1 <= j THEN j - (i + 1) + 1 ELSE 0) = j - i
      /\ \A k \in 1 .. j - i : (i + 1) + k - 1 = i + k
      /\ j - (i + 1) + 1 = j - i
  OBVIOUS
<1>. QED BY <1>3, <1>4

LEMMA SameBytes ==
  ASSUME NEW s \in Seq(Nat), NEW t \in Seq(Nat), Len(s) = Len(t),
         \A k \in 1 .. Len(t) : s[k] = t[k]
  PROVE  s = t
<1>1. s = [k \in 1 .. Len(s) |-> s[k]] /\ t = [k \in 1 .. Len(t) |-> t[k]]
  OBVIOUS
<1>. QED BY <1>1

\* The bytes in the sink are those measure_body announced, no more while the
\* call runs and no less when it is done, for every slice, width, buffer and
\* room, if no byte is shared by two chunks.
THEOREM AnnouncedIsWritten ==
  ASSUME WholeBytes
  PROVE  Spec => []AnnouncedLength
<1>1. ASSUME ShapeAndFit, Bytes
      PROVE  AnnouncedLength
  <2>1. Shape /\ Lengths
    BY <1>1 DEF ShapeAndFit, Bytes
  <2>2. Len(Stream) \in Nat /\ Len(Stream) <= Ends[Len(given)] /\ Ends[Len(given)] \in Nat
    <3>1. given \in Seq(Seq(Nat)) /\ Ends \in [0 .. Len(given) -> Nat] /\ Ends[0] = 0
      BY <2>1, GivenSlices, EndsFacts
    <3>2. Len(given) \in 0 .. Len(given)
      BY <3>1
    <3>3. CASE given = << >>
      <4>1. Stream = << >> /\ Len(given) = 0
        BY <2>1, <3>3 DEF Stream, Shape
      <4>2. Len(Stream) = 0
        BY <4>1
      <4>. QED BY <3>1, <4>1, <4>2
    <3>4. CASE given # << >>
      BY <2>1, <3>1, <3>2, <3>4, StreamIsBytes DEF Lengths
    <3>. QED BY <3>3, <3>4
  <2>3. Len(sent) <= Ends[Len(given)]
    BY <2>1, <2>2, SentIsOfTheStream
  <2>4. result = "ready" => Len(sent) = Ends[Len(given)]
    BY <2>1, WholeSlice, SentIsOfTheStream DEF Shape
  <2>. QED BY <2>3, <2>4 DEF AnnouncedLength, Ends
<1>. QED BY <1>1, BytesStay, PTL

\* Once Ready is answered the sink holds, for every slice, its length and then
\* bytes from which the reader gets each of its values (read_packed_bits),
\* whatever room the calls found and however the slice was cut into chunks.
THEOREM ReadersFind ==
  ASSUME WholeBytes
  PROVE  Spec => []ReadersFindTheValues
<1>1. ASSUME ShapeAndFit, Bytes, result = "ready", NEW n \in 1 .. Len(given)
      PROVE  LET at == Ends[n - 1]
                 end == Ends[n]
                 body == SubSeq(sent, at + 5, end)
             IN  /\ end <= Len(sent)
                 /\ SubSeq(sent, at + 1, at + 4) = LengthPrefix(Len(given[n]))
                 /\ \A i \in 1 .. Len(given[n]) :
                      ReadsAs(serializer, body, given[n], i)
  <2> DEFINE slice == given[n]
             body == SubSeq(sent, Ends[n - 1] + 5, Ends[n])
  <2>1. /\ Shape /\ Lengths /\ Prefixes /\ PackedBytes /\ VarIntBytes /\ Fitting
        /\ Kind \in {"packed", "varint"} /\ Bits \in 1 .. 8
        /\ given \in Seq(Seq(Nat))
    BY <1>1, GivenSlices DEF ShapeAndFit, Bytes
  <2>2. /\ sent \in Seq(Nat) /\ sent = Stream /\ index = Len(data)
        /\ Len(sent) = Ends[Len(given)] /\ Len(sent) \in Nat
    BY <1>1, <2>1, SentIsOfTheStream, WholeSlice DEF Shape
  <2>3. /\ slice \in Seq(Nat) /\ Len(slice) \in Nat
        /\ Ends[n - 1] \in Nat /\ Ends[n] \in Nat /\ Ends[n - 1] + 4 <= Ends[n]
    BY <2>1, EndsFacts
  <2>4. Ends[n] <= Len(sent)
    <3>1. n \in 0 .. Len(given) /\ Len(given) \in n .. Len(given)
      BY <2>1
    <3>. QED BY <2>1, <2>2, <3>1, EndsFacts
  <2>5. PICK at \in Nat, end \in Nat, total \in Nat :
          at = Ends[n - 1] /\ end = Ends[n] /\ total = Len(sent)
    BY <2>2, <2>3
  <2>6. at + 4 <= end /\ end <= total
    BY <2>3, <2>4, <2>5
  <2>7. /\ SubSeq(sent, at + 5, end) \in Seq(Nat)
        /\ Len(SubSeq(sent, at + 5, end)) = end - at - 4
        /\ \A k \in 1 .. end - at - 4 : SubSeq(sent, at + 5, end)[k] = sent[at + 4 + k]
    <3>1. PICK i \in Nat : i = at + 4 /\ i <= end
      BY <2>6
    <3>2. /\ SubSeq(sent, i + 1, end) \in Seq(Nat)
          /\ Len(SubSeq(sent, i + 1, end)) = end - i
          /\ \A k \in 1 .. end - i : SubSeq(sent, i + 1, end)[k] = sent[i + k]
      <4>1. end <= Len(sent) /\ sent \in Seq(Nat)
        BY <2>2, <2>5, <2>6
      <4> HIDE DEF body, slice
      <4>. QED BY <3>1, <4>1, PartOfBytes
    <3>3. i + 1 = at + 5 /\ end - i = end - at - 4
      BY <3>1
    <3>. QED BY <3>1, <3>2, <3>3
  <2>8. SubSeq(sent, at + 1, at + 4) = LengthPrefix(Len(slice))
    <3>1. /\ SubSeq(sent, at + 1, at + 4) \in Seq(Nat)
          /\ Len(SubSeq(sent, at + 1, at + 4)) = 4
          /\ \A k \in 1 .. 4 : SubSeq(sent, at + 1, at + 4)[k] = sent[at + k]
      <4>1. PICK j \in Nat : j = at + 4 /\ at <= j /\ j <= total
        BY <2>6
      <4>2. /\ SubSeq(sent, at + 1, j) \in Seq(Nat)
            /\ Len(SubSeq(sent, at + 1, j)) = j - at
            /\ \A k \in 1 .. j - at : SubSeq(sent, at + 1, j)[k] = sent[at + k]
        <5>1. j <= Len(sent) /\ sent \in Seq(Nat)
          BY <2>2, <2>5, <4>1
        <5> HIDE DEF body, slice
        <5>. QED BY <4>1, <5>1, PartOfBytes
      <4>3. j - at = 4
        BY <4>1
      <4>. QED BY <4>1, <4>2, <4>3
    <3>2. LengthPrefix(Len(slice)) \in Seq(Nat) /\ Len(LengthPrefix(Len(slice))) = 4
      BY <2>3, LengthPrefixBytes
    <3>3. \A k \in 1 .. 4 : sent[at + k] = LengthPrefix(Len(slice))[k]
      BY <2>1, <2>2, <2>5 DEF Prefixes
    <3> HIDE DEF slice
    <3>4. PICK s \in Seq(Nat), t \in Seq(Nat) :
            s = SubSeq(sent, at + 1, at + 4) /\ t = LengthPrefix(Len(slice))
      BY <3>1, <3>2
    <3>5. Len(s) = Len(t) /\ \A k \in 1 .. Len(t) : s[k] = t[k]
      BY <3>1, <3>2, <3>3, <3>4
    <3>6. s = t
      BY <3>5, SameBytes
    <3>. QED BY <3>4, <3>6
  <2>9. ASSUME NEW i \in 1 .. Len(slice)
        PROVE  ReadsAs(serializer, body, slice, i)
    <3>1. CASE Kind = "packed"
      <4>1. body = Packed(Bits, slice)
        <5>1. /\ end = at + 4 + ((Bits * Len(slice) + 7) \div 8)
              /\ (Bits * Len(slice) + 7) \div 8 \in Nat
          BY <2>1, <2>5, <3>1, EndsFacts
        <5>2. PICK m \in Nat : m = (Bits * Len(slice) + 7) \div 8
          BY <5>1
        <5>3. Packed(Bits, slice) \in Seq(Nat) /\ Len(Packed(Bits, slice)) = m
          BY <2>1, <2>3, <5>2, PackedBytesOf
        <5>4. ASSUME NEW k \in 1 .. m
              PROVE  sent[at + 4 + k] = Packed(Bits, slice)[k]
          <6>1. at + 4 + k <= total
            BY <2>6, <5>1, <5>2
          <6>2. Ends[n - 1] + 4 + k <= Len(Stream)
            BY <2>2, <2>5, <6>1
          <6>3. k \in 1 .. (Bits * Len(given[n]) + 7) \div 8
            BY <5>2
          <6>4. Stream[Ends[n - 1] + 4 + k] = Packed(Bits, given[n])[k]
            BY <2>1, <3>1, <6>2, <6>3 DEF PackedBytes
          <6>. QED BY <2>2, <2>5, <6>4
        <5>5. body \in Seq(Nat) /\ Len(body) = m /\ \A k \in 1 .. m : body[k] = sent[at + 4 + k]
          <6>1. end - at - 4 = m
            BY <5>1, <5>2
          <6>. QED BY <2>5, <2>7, <6>1
        <5> HIDE DEF body, slice
        <5>6. PICK s \in Seq(Nat), t \in Seq(Nat) : s = body /\ t = Packed(Bits, slice)
          BY <5>3, <5>5
        <5>7. Len(s) = Len(t) /\ \A k \in 1 .. Len(t) : s[k] = t[k]
          BY <5>3, <5>4, <5>5, <5>6
        <5>8. s = t
          BY <5>7, SameBytes
        <5>. QED BY <5>6, <5>8
      <4>2. slice[i] < 2^Bits
        <5>1. CASE n = Len(given)
          <6>1. data = slice
            BY <2>1, <5>1 DEF Shape
          <6>2. i \in 1 .. index
            BY <2>2, <6>1
          <6>. QED BY <2>1, <3>1, <6>1, <6>2 DEF Fitting
        <5>2. CASE n # Len(given)
          <6>1. n \in 1 .. Len(given) - 1
            BY <2>1, <5>2
          <6>. QED BY <2>1, <3>1, <6>1 DEF Fitting
        <5>. QED BY <5>1, <5>2
      <4>3. ReadPackedBits(Packed(Bits, slice), Bits, i - 1) = slice[i]
        <5> HIDE DEF slice
        <5>. QED BY <2>1, <2>3, <4>2, ReadsWhatIsPacked
      <4>. QED BY <3>1, <4>1, <4>3 DEF ReadsAs, Kind, Bits
    <3>2. CASE Kind = "varint"
      <4> DEFINE own == SerializeU64(slice[i])
                 v == ValueEnds(slice)
      <4>1. /\ own \in Seq(Nat) /\ v \in [0 .. Len(slice) -> Nat]
        BY <2>3, ValueEndsFacts
      <4>2. i - 1 \in 0 .. Len(slice)
        BY <2>3
      <4>3. PICK w \in Nat, m \in Nat : w = v[i - 1] /\ m = Len(own)
        <5> HIDE DEF own, v, slice
        <5>. QED BY <4>1, <4>2
      <4>4. w + m <= end - at - 4
        <5>1. ASSUME NEW k \in 1 .. m PROVE at + 4 + w + k <= end
          BY <2>1, <2>5, <3>2, <4>3, EndsFacts
        <5>2. CASE m = 0
          <6>1. /\ Ends[n] = Ends[n - 1] + 4 + v[Len(slice)]
            BY <2>1, <3>2, EndsFacts
          <6>2. /\ v[i - 1] <= v[Len(slice)] /\ v[Len(slice)] \in Nat
            <7>1. Len(slice) \in i - 1 .. Len(slice) /\ Len(slice) \in 0 .. Len(slice)
              BY <2>3
            <7>. QED BY <2>3, <4>2, <7>1, ValueEndsFacts
          <6>3. PICK y \in Nat : y = v[Len(slice)] /\ w <= y
            BY <4>3, <6>2
          <6>4. end = at + 4 + y
            BY <2>5, <6>1, <6>3
          <6>5. w <= y
            BY <6>3
          <6>. QED BY <5>2, <6>4, <6>5
        <5>3. CASE m # 0
          <6>1. m \in 1 .. m
            BY <5>3
          <6>2. at + 4 + w + m <= end
            BY <5>1, <6>1
          <6>. QED BY <6>2
        <5>. QED BY <5>2, <5>3
      <4>5. ASSUME NEW k \in 1 .. m
            PROVE  sent[at + 4 + w + k] = own[k]
        <5>1. at + 4 + w + k <= total
          BY <2>6, <4>4
        <5>2. Ends[n - 1] + 4 + ValueEnds(given[n])[i - 1] + k <= Len(Stream)
          BY <2>2, <2>5, <4>3, <5>1
        <5>3. k \in 1 .. Len(SerializeU64(given[n][i]))
          BY <4>3
        <5>4. Stream[Ends[n - 1] + 4 + ValueEnds(given[n])[i - 1] + k]
                = SerializeU64(given[n][i])[k]
          BY <2>1, <3>2, <5>2, <5>3 DEF VarIntBytes
        <5>. QED BY <2>2, <2>5, <4>3, <5>4
      <4>6. SubSeq(body, w + 1, w + m) = own
        <5>1. /\ body \in Seq(Nat) /\ Len(body) = end - at - 4
              /\ \A k \in 1 .. end - at - 4 : body[k] = sent[at + 4 + k]
          BY <2>5, <2>7
        <5> HIDE DEF body, own
        <5>2. /\ SubSeq(body, w + 1, w + m) \in Seq(Nat)
              /\ Len(SubSeq(body, w + 1, w + m)) = m
              /\ \A k \in 1 .. m : SubSeq(body, w + 1, w + m)[k] = body[w + k]
          BY <2>6, <4>4, <5>1
        <5>3. ASSUME NEW k \in 1 .. m PROVE body[w + k] = own[k]
          <6>1. w + k \in 1 .. end - at - 4
            BY <2>6, <4>4
          <6>2. at + 4 + (w + k) = at + 4 + w + k
            OBVIOUS
          <6>. QED BY <4>5, <5>1, <6>1, <6>2
        <5>4. PICK s \in Seq(Nat), t \in Seq(Nat) :
                s = SubSeq(body, w + 1, w + m) /\ t = own
          BY <4>1, <5>2
        <5>5. Len(s) = Len(t) /\ \A k \in 1 .. Len(t) : s[k] = t[k]
          BY <4>3, <5>2, <5>3, <5>4
        <5>6. s = t
          BY <5>5, SameBytes
        <5>. QED BY <5>4, <5>6
      <4>. QED BY <3>2, <4>3, <4>6 DEF ReadsAs, Kind
    <3>. QED BY <2>1, <3>1, <3>2
  <2>. QED BY <2>4, <2>5, <2>8, <2>9
<1>2. ASSUME ShapeAndFit, Bytes
      PROVE  ReadersFindTheValues
  BY <1>1, <1>2 DEF ReadersFindTheValues, Ends
<1>. QED BY <1>2, BytesStay, PTL
=============================================================================
