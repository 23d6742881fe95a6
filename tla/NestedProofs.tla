---------------------------- MODULE NestedProofs ----------------------------
(***************************************************************************)
(* Collections and records keep the promise of a serializer if what is     *)
(* inside does; so every regular type keeps it, by induction on the type,  *)
(* and what the caller sees is the stream of one encoding.                 *)
(***************************************************************************)
EXTENDS CompositeProofs

-----------------------------------------------------------------------------
(* Collections *)

LEMMA ZerosAreBytes ==
  ASSUME NEW n \in Nat
  PROVE  Zeros(n) \in Bytes /\ Len(Zeros(n)) = n
BY DEF Zeros, Bytes, Byte

LEMMA PaddingIsNat ==
  ASSUME NEW ty, NEW at \in Nat, Alignment(ty) \in Nat \ {0}
  PROVE  ElementPadding(ty, at) \in Nat
<1> DEFINE a == Alignment(ty)
<1>1. at % a \in 0 .. a - 1
  OBVIOUS
<1>2. IF at % a = 0 THEN 0 \in Nat ELSE a - (at % a) \in Nat
  BY <1>1
<1> HIDE DEF a
<1>. QED BY <1>2 DEF ElementPadding, Padding, a

\* What the elements so far have become, and where they began.
Grown0 == [bytes |-> << >>, starts |-> << >>]
AllGrown == [bytes : Bytes, starts : Seq(Nat)]

\* Where the next element stands, behind its marker and its padding.
Behind1(ty, pos, acc) ==
  LET at == pos + Len(acc.bytes)
  IN  at + 1 + ElementPadding(ty.of, at + 1)

GrownBy(ty, pos, acc, bytes) ==
  [bytes |-> acc.bytes \o <<1>>
                       \o Zeros(ElementPadding(ty.of, pos + Len(acc.bytes) + 1))
                       \o bytes,
   starts |-> Append(acc.starts, Len(acc.bytes))]

Grown(ty, pos, acc, x) ==
  GrownBy(ty, pos, acc, Encoding(ty.of, x, Behind1(ty, pos, acc)))

\* The terminator, and the index behind it.
Closed(ty, v, acc) ==
  acc.bytes \o <<0>>
  \o IF ty.indexed /\ Len(v) > ChunkSize THEN BlockIndex(acc.starts) ELSE << >>

\* A function that grows the sequence element by element.
Grows(f, ty, v, pos) ==
  /\ f \in [0 .. Len(v) -> AllGrown]
  /\ f[0] = Grown0
  /\ \A n \in 1 .. Len(v) : f[n] = Grown(ty, pos, f[n - 1], v[n])

\* One element more.
GrowsBy(ty, pos, acc, x) ==
  LET new == Grown(ty, pos, acc, x)
      at == Behind1(ty, pos, acc)
      pad == ElementPadding(ty.of, pos + Len(acc.bytes) + 1)
      e == Encoding(ty.of, x, at)
  IN  /\ new \in AllGrown
      /\ acc.bytes \in Bytes /\ Len(acc.bytes) \in Nat /\ e \in Bytes
      /\ at \in Nat /\ pad \in Nat /\ at = pos + Len(acc.bytes) + 1 + pad
      /\ Len(new.bytes) = Len(acc.bytes) + 1 + pad + Len(e)
      /\ Len(new.bytes) \in Nat /\ Len(e) \in Nat
      /\ Len(new.starts) = Len(acc.starts) + 1 /\ Len(acc.starts) \in Nat
      /\ \A i \in 1 .. Len(acc.starts) : new.starts[i] = acc.starts[i]
      /\ new.starts[Len(acc.starts) + 1] = Len(acc.bytes)

LEMMA GrowsByOne ==
  ASSUME NEW ty, NEW pos \in Nat, NEW acc \in AllGrown, NEW x,
         Writes(ty.of), IsValue(ty.of, x)
  PROVE  GrowsBy(ty, pos, acc, x)
<1> DEFINE new == Grown(ty, pos, acc, x)
           at == Behind1(ty, pos, acc)
           pad == ElementPadding(ty.of, pos + Len(acc.bytes) + 1)
           e == Encoding(ty.of, x, at)
<1>1. acc.bytes \in Bytes /\ acc.starts \in Seq(Nat) /\ Len(acc.bytes) \in Nat
  BY NoLength DEF AllGrown
<1>2. pos + Len(acc.bytes) + 1 \in Nat
  BY <1>1
<1>3. pad \in Nat
  BY <1>2, PaddingIsNat DEF Writes
<1>4. at \in Nat /\ at = pos + Len(acc.bytes) + 1 + pad
  BY <1>2, <1>3 DEF Behind1
<1>5. e \in Bytes
  BY <1>4 DEF Writes
<1>6. new.bytes = acc.bytes \o <<1>> \o Zeros(pad) \o e
      /\ new.starts = Append(acc.starts, Len(acc.bytes))
      /\ new = [bytes |-> new.bytes, starts |-> new.starts]
  BY DEF Grown, GrownBy
<1> HIDE DEF new, pad, e, at
<1>7. <<1>> \in Bytes /\ Len(<<1>>) = 1
  <2>1. 1 \in Byte
    BY DEF Byte
  <2>. QED BY <2>1, OneByte
<1>8. acc.bytes \o <<1>> \in Bytes /\ Len(acc.bytes \o <<1>>) = Len(acc.bytes) + 1
  BY <1>1, <1>7, Joins
<1>9. Zeros(pad) \in Bytes /\ Len(Zeros(pad)) = pad
  BY <1>3, ZerosAreBytes
<1>10. /\ (acc.bytes \o <<1>>) \o Zeros(pad) \in Bytes
       /\ Len((acc.bytes \o <<1>>) \o Zeros(pad)) = (Len(acc.bytes) + 1) + pad
  <2> DEFINE h == acc.bytes \o <<1>>
             z == Zeros(pad)
  <2>1. h \in Bytes /\ z \in Bytes /\ Len(h) = Len(acc.bytes) + 1 /\ Len(z) = pad
    BY <1>8, <1>9
  <2> HIDE DEF h, z
  <2>2. h \o z \in Bytes /\ Len(h \o z) = Len(acc.bytes) + 1 + pad
    BY <2>1, Joins
  <2>. QED BY <2>2 DEF h, z
<1>11. /\ ((acc.bytes \o <<1>>) \o Zeros(pad)) \o e \in Bytes
       /\ Len(((acc.bytes \o <<1>>) \o Zeros(pad)) \o e)
            = ((Len(acc.bytes) + 1) + pad) + Len(e)
       /\ Len(e) \in Nat
  BY <1>5, <1>10, Joins
<1>12. /\ new.bytes \in Bytes /\ Len(new.bytes) = Len(acc.bytes) + 1 + pad + Len(e)
       /\ Len(new.bytes) \in Nat
  BY <1>1, <1>3, <1>6, <1>11
<1>13. /\ new.starts \in Seq(Nat) /\ Len(new.starts) = Len(acc.starts) + 1
       /\ \A i \in 1 .. Len(acc.starts) : new.starts[i] = acc.starts[i]
       /\ new.starts[Len(acc.starts) + 1] = Len(acc.bytes)
       /\ Len(acc.starts) \in Nat
  BY <1>1, <1>6, AppendProperties, LenProperties
<1>14. new \in AllGrown
  BY <1>6, <1>12, <1>13 DEF AllGrown
<1>. QED BY <1>1, <1>3, <1>4, <1>5, <1>11, <1>12, <1>13, <1>14
         DEF GrowsBy, new, pad, e, at

LEMMA GrowthExists ==
  ASSUME NEW ty, NEW v, NEW pos \in Nat, Writes(ty.of), Values(ty.of, v)
  PROVE  \E f : Grows(f, ty, v, pos)
<1> DEFINE n == Len(v)
           step == [i \in 1 .. n |-> [acc \in AllGrown |-> Grown(ty, pos, acc, v[i])]]
<1>1. n \in Nat /\ \A i \in 1 .. n : IsValue(ty.of, v[i])
  BY DEF Values, AreValues, Alike
<1>2. \A i \in 1 .. n : \A acc \in AllGrown : Grown(ty, pos, acc, v[i]) \in AllGrown
  BY <1>1, GrowsByOne DEF GrowsBy
<1>3. step \in [1 .. n -> [AllGrown -> AllGrown]]
  BY <1>2
<1>4. Grown0 \in AllGrown
  BY NoBytes, EmptySeq DEF Grown0, AllGrown
<1>5. PICK f : f \in Recursions(n, AllGrown, Grown0, step)
  <2> HIDE DEF step, n
  <2>1. Recursions(n, AllGrown, Grown0, step) # {}
    BY <1>1, <1>3, <1>4, Recursion
  <2>. QED BY <2>1
<1>6. /\ f \in [0 .. n -> AllGrown] /\ f[0] = Grown0
      /\ \A i \in 1 .. n : f[i] = step[i][f[i - 1]]
  BY <1>5 DEF Recursions
<1>7. ASSUME NEW i \in 1 .. n PROVE f[i] = Grown(ty, pos, f[i - 1], v[i])
  <2>1. i - 1 \in 0 .. n
    BY <1>1
  <2>2. f[i - 1] \in AllGrown
    BY <1>6, <2>1
  <2>. QED BY <1>6, <2>2
<1>8. Grows(f, ty, v, pos)
  BY <1>6, <1>7 DEF Grows
<1>. QED BY <1>8

\* Whatever grows element by element ends with all of them.
LEMMA EncodingGrows ==
  ASSUME NEW ty, NEW v, NEW pos, NEW f, Len(v) \in Nat, Grows(f, ty, v, pos)
  PROVE  SequenceEncoding(ty, v, pos) = Closed(ty, v, f[Len(v)])
<1> DEFINE n == Len(v)
           Add(acc, x) == Grown(ty, pos, acc, x)
           Is(g) == g = [i \in 0 .. n |-> IF i = 0 THEN Grown0 ELSE Add(g[i - 1], v[i])]
           body == CHOOSE g : Is(g)
<1>1. SequenceEncoding(ty, v, pos) = Closed(ty, v, body[n])
  BY DEF SequenceEncoding, SequenceOf, Closed, Grown, GrownBy, Grown0, Behind1
<1>2. /\ f \in [0 .. n -> AllGrown] /\ f[0] = Grown0
      /\ \A i \in 1 .. n : f[i] = Add(f[i - 1], v[i])
  BY DEF Grows
<1> HIDE DEF Add, n
<1>3. n \in Nat
  BY DEF n
<1>4. Is(f)
  <2>1. ASSUME NEW i \in 0 .. n
        PROVE  f[i] = IF i = 0 THEN Grown0 ELSE Add(f[i - 1], v[i])
    <3>1. i # 0 => i \in 1 .. n
      BY <1>3
    <3>. QED BY <1>2, <3>1
  <2>. QED BY <1>2, <2>1
<1>5. Is(body)
  <2> HIDE DEF Is
  <2>. QED BY <1>4
<1> HIDE DEF body
<1>6. body[0] = Grown0 /\ \A i \in 1 .. n : body[i] = Add(body[i - 1], v[i])
  <2>1. 0 \in 0 .. n /\ \A i \in 1 .. n : i \in 0 .. n /\ i # 0
    BY <1>3
  <2>. QED BY <1>5, <2>1
<1> HIDE DEF Is
<1> DEFINE D == {i \in 0 .. n : body[i] = f[i]}
<1>7. 0 \in D
  BY <1>2, <1>3, <1>6
<1>8. ASSUME NEW i \in 0 .. n - 1, i \in D PROVE i + 1 \in D
  <2>1. i + 1 \in 1 .. n /\ (i + 1) - 1 = i /\ i + 1 \in 0 .. n
    BY <1>3
  <2>. QED BY <1>2, <1>6, <1>8, <2>1
<1>9. \A i \in 0 .. n : i \in D
  <2> HIDE DEF D
  <2>. QED BY <1>3, <1>7, <1>8, Induction
<1>10. body[n] = f[n]
  <2>1. n \in 0 .. n
    BY <1>3
  <2>. QED BY <1>9, <2>1
<1>. QED BY <1>1, <1>10 DEF n

\* So does the sequence whose elements are written by serializers of their own,
\* if each of them writes the encoding of its element.
LEMMA WrittenGrows ==
  ASSUME NEW ty, NEW v, NEW pos, NEW f, Len(v) \in Nat, Grows(f, ty, v, pos),
         \A n \in 1 .. Len(v) :
           ElementBytes(ty.of, v[n], Behind1(ty, pos, f[n - 1]))
             = Encoding(ty.of, v[n], Behind1(ty, pos, f[n - 1]))
  PROVE  SequenceOf(ty, v, pos, LAMBDA x, at : ElementBytes(ty.of, x, at))
           = Closed(ty, v, f[Len(v)])
<1> DEFINE n == Len(v)
           Add(acc, x) == GrownBy(ty, pos, acc, ElementBytes(ty.of, x, Behind1(ty, pos, acc)))
           Is(g) == g = [i \in 0 .. n |-> IF i = 0 THEN Grown0 ELSE Add(g[i - 1], v[i])]
           body == CHOOSE g : Is(g)
<1>1. SequenceOf(ty, v, pos, LAMBDA x, at : ElementBytes(ty.of, x, at))
        = Closed(ty, v, body[n])
  BY DEF SequenceOf, Closed, GrownBy, Grown0, Behind1
<1>2. /\ f \in [0 .. n -> AllGrown] /\ f[0] = Grown0
      /\ \A i \in 1 .. n : f[i] = Add(f[i - 1], v[i])
  BY DEF Grows, Grown
<1> HIDE DEF Add, n
<1>3. n \in Nat
  BY DEF n
<1>4. Is(f)
  <2>1. ASSUME NEW i \in 0 .. n
        PROVE  f[i] = IF i = 0 THEN Grown0 ELSE Add(f[i - 1], v[i])
    <3>1. i # 0 => i \in 1 .. n
      BY <1>3
    <3>. QED BY <1>2, <3>1
  <2>. QED BY <1>2, <2>1
<1>5. Is(body)
  <2> HIDE DEF Is
  <2>. QED BY <1>4
<1> HIDE DEF body
<1>6. body[0] = Grown0 /\ \A i \in 1 .. n : body[i] = Add(body[i - 1], v[i])
  <2>1. 0 \in 0 .. n /\ \A i \in 1 .. n : i \in 0 .. n /\ i # 0
    BY <1>3
  <2>. QED BY <1>5, <2>1
<1> HIDE DEF Is
<1> DEFINE D == {i \in 0 .. n : body[i] = f[i]}
<1>7. 0 \in D
  BY <1>2, <1>3, <1>6
<1>8. ASSUME NEW i \in 0 .. n - 1, i \in D PROVE i + 1 \in D
  <2>1. i + 1 \in 1 .. n /\ (i + 1) - 1 = i /\ i + 1 \in 0 .. n
    BY <1>3
  <2>. QED BY <1>2, <1>6, <1>8, <2>1
<1>9. \A i \in 0 .. n : i \in D
  <2> HIDE DEF D
  <2>. QED BY <1>3, <1>7, <1>8, Induction
<1>10. body[n] = f[n]
  <2>1. n \in 0 .. n
    BY <1>3
  <2>. QED BY <1>9, <2>1
<1>. QED BY <1>1, <1>10 DEF n

LEMMA DivisionFacts ==
  ASSUME NEW a \in Nat, NEW c \in Nat \ {0}
  PROVE  /\ a \div c \in Nat
         /\ c * (a \div c) <= a
         /\ a < c * (a \div c) + c
OBVIOUS

LEMMA ProductsGrow ==
  ASSUME NEW c \in Nat, NEW i \in Nat, NEW j \in Nat, i <= j
  PROVE  c * i <= c * j /\ c * i \in Nat /\ i * c = c * i
OBVIOUS

\* Every block begins with an element.
LEMMA BlockBegins ==
  ASSUME NEW n \in Nat, NEW c \in Nat \ {0}, NEW j \in 1 .. (n + c - 1) \div c
  PROVE  (j - 1) * c + 1 \in 1 .. n
<1> DEFINE b == (n + c - 1) \div c
<1>1. n + c - 1 \in Nat
  OBVIOUS
<1>2. b \in Nat /\ c * b <= n + c - 1
  BY <1>1, DivisionFacts
<1> HIDE DEF b
<1>3. j - 1 \in Nat /\ b - 1 \in Nat /\ j - 1 <= b - 1
  BY <1>2 DEF b
<1>4. c * (j - 1) <= c * (b - 1) /\ c * (j - 1) \in Nat /\ (j - 1) * c = c * (j - 1)
  BY <1>3, ProductsGrow
<1>5. c * (b - 1) = c * b - c /\ c * b \in Nat
  BY <1>2
<1>6. c * (j - 1) <= n - 1
  <2> DEFINE x == c * (j - 1)
             y == c * (b - 1)
             z == c * b
  <2>1. x \in Nat /\ y = z - c /\ z \in Nat /\ x <= y /\ z <= n + c - 1
    BY <1>2, <1>4, <1>5
  <2> HIDE DEF x, y, z
  <2>2. x <= n - 1
    BY <2>1
  <2>. QED BY <2>2 DEF x
<1>. QED BY <1>4, <1>6

\* The starts of the elements, in their order.
Ascends(starts) ==
  /\ starts \in Seq(Nat)
  /\ \A i, j \in 1 .. Len(starts) : i <= j => starts[i] <= starts[j]

LEMMA BlockIndexIsBytes ==
  ASSUME NEW starts, Ascends(starts)
  PROVE  BlockIndex(starts) \in Bytes
<1> DEFINE c == ChunkSize
           n == Len(starts)
           blocks == (n + c - 1) \div c
           Block(j) == starts[(j - 1) * c + 1]
           deltas == [j \in 1 .. blocks |->
                        SerializeU64(Block(j) - IF j = 1 THEN 0 ELSE Block(j - 1))]
<1>1. c \in Nat \ {0} /\ n \in Nat /\ \A i \in 1 .. n : starts[i] \in Nat
  BY BoundsAssumption DEF Ascends
<1>2. n + c - 1 \in Nat
  BY <1>1
<1>3. blocks \in Nat
  BY <1>1, <1>2, DivisionFacts
<1>4. BlockIndex(starts)
        = <<Magic>> \o SerializeU64(c) \o SerializeU64(blocks) \o FlattenSeq(deltas)
  BY DEF BlockIndex
<1>5. ASSUME NEW j \in 1 .. blocks
      PROVE  Block(j) \in Nat /\ (j # 1 => Block(j - 1) \in Nat /\ Block(j - 1) <= Block(j))
  <2>1. (j - 1) * c + 1 \in 1 .. n
    BY <1>1, BlockBegins
  <2>2. CASE j = 1
    BY <1>1, <2>1, <2>2
  <2>3. CASE j # 1
    <3>1. j - 1 \in 1 .. blocks
      BY <1>3, <2>3
    <3>2. ((j - 1) - 1) * c + 1 \in 1 .. n
      BY <1>1, <3>1, BlockBegins
    <3>3. ((j - 1) - 1) * c + 1 <= (j - 1) * c + 1
      <4>1. (j - 1) - 1 \in Nat /\ j - 1 \in Nat /\ (j - 1) - 1 <= j - 1
        BY <1>3, <2>3
      <4>2. /\ c * ((j - 1) - 1) <= c * (j - 1)
            /\ c * ((j - 1) - 1) \in Nat /\ ((j - 1) - 1) * c = c * ((j - 1) - 1)
        BY <1>1, <4>1, ProductsGrow
      <4>3. c * (j - 1) \in Nat /\ (j - 1) * c = c * (j - 1)
        BY <1>1, <4>1, ProductsGrow
      <4>. QED BY <4>2, <4>3
    <3>4. starts[((j - 1) - 1) * c + 1] <= starts[(j - 1) * c + 1]
      <4> DEFINE x == ((j - 1) - 1) * c + 1
                 y == (j - 1) * c + 1
      <4>1. x \in 1 .. n /\ y \in 1 .. n /\ x <= y
        BY <2>1, <3>2, <3>3
      <4> HIDE DEF x, y
      <4>2. starts[x] <= starts[y]
        BY <4>1 DEF Ascends
      <4>. QED BY <4>2 DEF x, y
    <3>. QED BY <1>1, <2>1, <3>2, <3>4
  <2>. QED BY <2>2, <2>3
<1> HIDE DEF Block, blocks, c
<1>6. ASSUME NEW j \in 1 .. blocks PROVE deltas[j] \in Bytes
  <2>1. Block(j) - (IF j = 1 THEN 0 ELSE Block(j - 1)) \in Nat
    BY <1>5
  <2>. QED BY <2>1, SerializeU64IsBytes
<1>7. deltas \in Seq(Bytes)
  <2>1. deltas = [j \in 1 .. blocks |-> deltas[j]]
    OBVIOUS
  <2> HIDE DEF deltas
  <2>. QED BY <1>3, <1>6, <2>1
<1> HIDE DEF deltas
<1>8. FlattenSeq(deltas) \in Bytes
  <2>1. << >> \in Seq(Bytes)
    BY EmptySeq
  <2>. QED BY <1>7, <2>1, FlattenJoin
<1>9. <<Magic>> \in Bytes
  <2>1. Magic \in Byte
    BY DEF Magic, Byte
  <2>. QED BY <2>1, OneByte
<1>10. SerializeU64(c) \in Bytes /\ SerializeU64(blocks) \in Bytes
  BY <1>1, <1>3, SerializeU64IsBytes
<1> DEFINE a == <<Magic>>
           x == SerializeU64(c)
           y == SerializeU64(blocks)
           z == FlattenSeq(deltas)
<1>11. a \in Bytes /\ x \in Bytes /\ y \in Bytes /\ z \in Bytes
  BY <1>8, <1>9, <1>10
<1> HIDE DEF a, x, y, z
<1>12. a \o x \in Bytes
  BY <1>11, Joins
<1>13. (a \o x) \o y \in Bytes
  BY <1>11, <1>12, Joins
<1>14. ((a \o x) \o y) \o z \in Bytes
  BY <1>11, <1>13, Joins
<1>. QED BY <1>4, <1>14 DEF a, x, y, z

\* What has grown of the sequence after n elements.
GrownTo(acc, n) ==
  /\ acc \in AllGrown /\ Ascends(acc.starts) /\ Len(acc.starts) = n
  /\ \A i \in 1 .. n : acc.starts[i] <= Len(acc.bytes)

LEMMA GrowthAscends ==
  ASSUME NEW ty, NEW v, NEW pos \in Nat, NEW f,
         Writes(ty.of), Values(ty.of, v), Grows(f, ty, v, pos)
  PROVE  /\ \A n \in 0 .. Len(v) : GrownTo(f[n], n)
         /\ \A n \in 1 .. Len(v) : GrowsBy(ty, pos, f[n - 1], v[n])
<1> DEFINE N == Len(v)
           D == {n \in 0 .. N : GrownTo(f[n], n)}
<1>1. N \in Nat /\ \A i \in 1 .. N : IsValue(ty.of, v[i])
  BY DEF Values, AreValues, Alike
<1>2. /\ f \in [0 .. N -> AllGrown] /\ f[0] = Grown0
      /\ \A n \in 1 .. N : f[n] = Grown(ty, pos, f[n - 1], v[n])
  BY DEF Grows
<1>3. ASSUME NEW n \in 1 .. N PROVE GrowsBy(ty, pos, f[n - 1], v[n])
  <2>1. n - 1 \in 0 .. N
    BY <1>1
  <2>2. f[n - 1] \in AllGrown
    BY <1>2, <2>1
  <2>. QED BY <1>1, <2>2, GrowsByOne
<1> HIDE DEF N
<1>4. 0 \in D
  <2>1. Grown0 \in AllGrown /\ Grown0.starts = << >> /\ << >> \in Seq(Nat) /\ Len(<< >>) = 0
    BY NoBytes, EmptySeq DEF Grown0, AllGrown
  <2>2. Ascends(<< >>) /\ \A i \in 1 .. 0 : << >>[i] <= Len(Grown0.bytes)
    BY <2>1 DEF Ascends
  <2>3. 0 \in 0 .. N
    BY <1>1
  <2>. QED BY <1>2, <2>1, <2>2, <2>3 DEF GrownTo
<1>5. ASSUME NEW n \in 0 .. N - 1, n \in D PROVE n + 1 \in D
  <2> DEFINE acc == f[n]
             new == f[n + 1]
  <2>1. n + 1 \in 1 .. N /\ (n + 1) - 1 = n /\ n + 1 \in 0 .. N /\ n \in Nat
    BY <1>1
  <2>2. new = Grown(ty, pos, acc, v[n + 1]) /\ GrowsBy(ty, pos, acc, v[n + 1])
    BY <1>2, <1>3, <2>1
  <2>3. /\ Ascends(acc.starts) /\ Len(acc.starts) = n
        /\ \A i \in 1 .. n : acc.starts[i] <= Len(acc.bytes)
    BY <1>5 DEF GrownTo
  <2> HIDE DEF acc, new
  <2>4. /\ new \in AllGrown
        /\ Len(acc.bytes) \in Nat /\ Len(new.bytes) \in Nat
        /\ Len(acc.bytes) <= Len(new.bytes)
        /\ Len(new.starts) = n + 1
        /\ \A i \in 1 .. n : new.starts[i] = acc.starts[i]
        /\ new.starts[n + 1] = Len(acc.bytes)
    BY <2>2, <2>3 DEF GrowsBy
  <2>5. /\ acc.starts \in Seq(Nat) /\ new.starts \in Seq(Nat)
        /\ \A i \in 1 .. n : acc.starts[i] \in Nat
        /\ \A i, j \in 1 .. n : i <= j => acc.starts[i] <= acc.starts[j]
    <3>1. acc.starts \in Seq(Nat)
      BY <2>3 DEF Ascends
    <3>2. new.starts \in Seq(Nat)
      BY <2>4 DEF AllGrown
    <3>3. \A i \in 1 .. n : acc.starts[i] \in Nat
      BY <2>3, <3>1
    <3>4. \A i, j \in 1 .. n : i <= j => acc.starts[i] <= acc.starts[j]
      BY <2>3 DEF Ascends
    <3>. QED BY <3>1, <3>2, <3>3, <3>4
  <2>6. \A i \in 1 .. n + 1 : i \in 1 .. n \/ i = n + 1
    BY <2>1
  <2>7. ASSUME NEW i \in 1 .. n + 1
        PROVE  new.starts[i] <= Len(new.bytes)
    <3>1. CASE i \in 1 .. n
      <4>1. /\ new.starts[i] = acc.starts[i] /\ acc.starts[i] \in Nat
            /\ acc.starts[i] <= Len(acc.bytes)
        BY <2>3, <2>4, <2>5, <3>1
      <4>2. /\ Len(acc.bytes) \in Nat /\ Len(new.bytes) \in Nat
            /\ Len(acc.bytes) <= Len(new.bytes)
        BY <2>4
      <4>. QED BY <4>1, <4>2
    <3>2. CASE i = n + 1
      BY <2>4, <3>2
    <3>. QED BY <2>6, <3>1, <3>2
  <2>8. ASSUME NEW i \in 1 .. n + 1, NEW j \in 1 .. n + 1, i <= j
        PROVE  new.starts[i] <= new.starts[j]
    <3>1. CASE j = n + 1
      BY <2>3, <2>4, <2>5, <2>6, <3>1
    <3>2. CASE j # n + 1
      <4>1. i \in 1 .. n /\ j \in 1 .. n
        BY <2>1, <2>8, <3>2
      <4>. QED BY <2>4, <2>5, <2>8, <4>1
    <3>. QED BY <3>1, <3>2
  <2>9. GrownTo(new, n + 1)
    BY <2>4, <2>5, <2>7, <2>8 DEF GrownTo, Ascends
  <2>. QED BY <2>1, <2>9 DEF new
<1>6. \A n \in 0 .. N : n \in D
  <2> HIDE DEF D
  <2>. QED BY <1>1, <1>4, <1>5, Induction
<1>. QED BY <1>3, <1>6 DEF N

\* The terminator and the index.
Ending(ty, v, acc) ==
  <<0>> \o IF ty.indexed /\ Len(v) > ChunkSize THEN BlockIndex(acc.starts) ELSE << >>

LEMMA ClosedIs ==
  ASSUME NEW ty, NEW v, NEW acc, NEW n, GrownTo(acc, n)
  PROVE  /\ acc.bytes \in Bytes /\ Ending(ty, v, acc) \in Bytes
         /\ Closed(ty, v, acc) = acc.bytes \o Ending(ty, v, acc)
         /\ Len(Closed(ty, v, acc)) = Len(acc.bytes) + Len(Ending(ty, v, acc))
         /\ Closed(ty, v, acc) \in Bytes
         /\ Len(acc.bytes) \in Nat /\ Len(Ending(ty, v, acc)) \in Nat
<1> DEFINE index == IF ty.indexed /\ Len(v) > ChunkSize
                    THEN BlockIndex(acc.starts) ELSE << >>
           b == acc.bytes
           z == <<0>>
<1>1. b \in Bytes
  BY DEF GrownTo, AllGrown
<1>2. index \in Bytes
  BY BlockIndexIsBytes, NoBytes DEF GrownTo
<1>3. z \in Bytes
  <2>1. 0 \in Byte
    BY DEF Byte
  <2>. QED BY <2>1, OneByte
<1>4. Closed(ty, v, acc) = b \o z \o index /\ Ending(ty, v, acc) = z \o index
  BY DEF Closed, Ending
<1> HIDE DEF index, z, b
<1>5. z \o index \in Bytes
  BY <1>2, <1>3, Joins
<1>6. (b \o z) \o index = b \o (z \o index)
  BY <1>1, <1>2, <1>3, Regroup DEF Bytes
<1> DEFINE e == z \o index
<1>7. e \in Bytes /\ b \in Bytes
  BY <1>1, <1>5
<1>8. Closed(ty, v, acc) = b \o e /\ Ending(ty, v, acc) = e
  BY <1>4, <1>6
<1> HIDE DEF e
<1>9. b \o e \in Bytes /\ Len(b \o e) = Len(b) + Len(e) /\ Len(b) \in Nat /\ Len(e) \in Nat
  BY <1>7, Joins
<1>. QED BY <1>7, <1>8, <1>9 DEF b

-----------------------------------------------------------------------------
(* Vectors and maps *)

LEMMA VecLevel ==
  ASSUME NEW ty, AtLevel(ty), ty.k \in {"vec", "map"}
  PROVE  /\ New(ty) = NewVec
         /\ Alignment(ty) = 1
         /\ FieldEncoding(ty) = 0
         /\ \A v, pos : Encoding(ty, v, pos) = SequenceEncoding(ty, v, pos)
         /\ \A v : MeasureBody(ty, v) =
                               IF ty.k = "map" THEN MeasureMap(ty, v)
                               ELSE IF ty.indexed THEN MeasureIndexed(ty, v) ELSE MeasureVec(ty, v)
         /\ \A s, v, k : Input(ty, s, v, k) = InputVec(ty, s, v, k)
         /\ \A s, k : Poll(ty, s, k) = PollVec(s, k)
         /\ \A s, k : Finish(ty, s, k) = FinishVec(s, k)
         /\ \A v : IsValue(ty, v) <=> Values(ty.of, v)
         /\ \A s, at : Rest(ty, s, at) = FlattenSeq(s.pieces)
         /\ \A s : Idle(ty, s) <=> s = NewVec
         /\ \A s : Going(ty, s) <=>
                         IsRecord(s, {"fed", "pieces"}) /\ s.fed /\ s.pieces \in Seq(Bytes)
         /\ \A s : Ended(ty, s) <=> s.fed
         /\ ~Reusable(ty)
         /\ ~Quiet(ty)
         /\ Exact(ty) => Exact(ty.of) /\ ~ty.indexed
         /\ Regular(ty) => Regular(ty.of)
<1>1. New(ty) = NewVec
  BY DEF AtLevel, NewOf, Leaf
<1>2. Alignment(ty) = 1
  BY DEF AtLevel, AlignmentOf, Leaf
<1>3. FieldEncoding(ty) = 0
  BY DEF AtLevel, FieldEncodingOf, Leaf
<1>4. \A v, pos : Encoding(ty, v, pos) = SequenceEncoding(ty, v, pos)
  BY DEF AtLevel, EncodingOf, Leaf
<1>5. \A v : MeasureBody(ty, v) =
                         IF ty.k = "map" THEN MeasureMap(ty, v)
                         ELSE IF ty.indexed THEN MeasureIndexed(ty, v) ELSE MeasureVec(ty, v)
  BY DEF AtLevel, MeasureBodyOf, Leaf
<1>6. \A s, v, k : Input(ty, s, v, k) = InputVec(ty, s, v, k)
  BY DEF AtLevel, InputOf, Leaf
<1>7. \A s, k : Poll(ty, s, k) = PollVec(s, k)
  BY DEF AtLevel, PollOf, Leaf
<1>8. \A s, k : Finish(ty, s, k) = FinishVec(s, k)
  BY DEF AtLevel, FinishOf, Leaf
<1>9. \A v : IsValue(ty, v) <=> Values(ty.of, v)
  BY DEF AtLevel, IsValueOf, Values, Leaf
<1>10. \A s, at : Rest(ty, s, at) = FlattenSeq(s.pieces)
  BY DEF AtLevel, RestOf, Leaf
<1>11. \A s : Idle(ty, s) <=> s = NewVec
  <2>1. ASSUME NEW s PROVE IdleOf(ty, s) <=> s = NewVec
    <3>1. CASE ty.k = "vec"
      BY <3>1 DEF IdleOf, Leaf
    <3>2. CASE ty.k = "map"
      BY <3>2 DEF IdleOf, Leaf
    <3>. QED BY <3>1, <3>2
  <2>. QED BY <2>1 DEF AtLevel
<1>12. \A s : Going(ty, s) <=>
                    IsRecord(s, {"fed", "pieces"}) /\ s.fed /\ s.pieces \in Seq(Bytes)
  BY DEF AtLevel, GoingOf, Bytes, Leaf
<1>13. \A s : Ended(ty, s) <=> s.fed
  BY DEF AtLevel, EndedOf, Leaf
<1>14. ~Reusable(ty)
  BY DEF AtLevel, ReusableOf, Leaf
<1>15. ~Quiet(ty)
  BY DEF AtLevel, QuietOf, Leaf
<1>16. Exact(ty) => Exact(ty.of) /\ ~ty.indexed
  BY DEF AtLevel, ExactOf, Leaf
<1>17. Regular(ty) => Regular(ty.of)
  BY DEF AtLevel, RegularOf, Leaf
<1>. QED BY <1>1, <1>2, <1>3, <1>4, <1>5, <1>6, <1>7, <1>8, <1>9, <1>10,
         <1>11, <1>12, <1>13, <1>14, <1>15, <1>16, <1>17

\* A serializer of its own writes the encoding of an element, if there is room.
LEMMA ElementBytesAre ==
  ASSUME NEW ty, NEW x, NEW at, Keeps(ty), IsValue(ty, x), at \in Nat,
         at + Len(Encoding(ty, x, at)) <= 2 * MaxPos
  PROVE  ElementBytes(ty, x, at) = Encoding(ty, x, at)
<1> DEFINE u == Unlimited(at)
           e == Encoding(ty, x, at)
           i == Input(ty, New(ty), x, u)
<1>1. Idle(ty, New(ty)) /\ Writes(ty) /\ Accepting(ty) /\ Finishing(ty)
  BY DEF Keeps
<1>2. e \in Bytes /\ Len(e) \in Nat
  BY <1>1, NoLength DEF Writes
<1>3. /\ u.base = at /\ u.out = << >> /\ u.limit = 2 * MaxPos /\ u.strict = FALSE
      /\ u \in [base : Nat, out : Bytes, limit : Nat, strict : BOOLEAN]
  BY BoundsAssumption, NoBytes DEF Unlimited
<1> HIDE DEF u, e
<1>4. SinkPos(u) = at
  BY <1>3, NoBytes DEF SinkPos
<1>5. IsSink(u)
  BY <1>2, <1>3, <1>4, BoundsAssumption DEF IsSink, e
<1>6. Fits(u, e) /\ Encoding(ty, x, SinkPos(u)) = e
  BY <1>4 DEF Fits, e
<1>7. Answers(ty, u, e, i)
  BY <1>1, <1>5, <1>6 DEF Accepting
<1> HIDE DEF i
<1>8. PICK rest \in Bytes : /\ Outcome(u, e, i.sink, i.r, rest)
                            /\ i.r = "ready" => Over(ty, i.s)
  BY <1>7 DEF Answers
<1>9. Midway(u, e, i.sink, rest) /\ Stands(i.sink, i.r, rest)
  BY <1>8 DEF Outcome
<1>10. /\ i.sink.limit = 2 * MaxPos /\ i.sink.strict = FALSE
       /\ SinkPos(i.sink) + Len(rest) = at + Len(e) /\ SinkPos(i.sink) \in Nat
  BY <1>3, <1>4, <1>5, <1>9, MidwayFacts
<1>11. Len(rest) \in Nat /\ (Len(rest) = 0 <=> rest = << >>)
  BY NoLength
<1>12. i.r = "ready" /\ rest = << >>
  <2>1. at + Len(e) <= 2 * MaxPos
    BY DEF e
  <2>2. ~(rest # << >> /\ SinkPos(i.sink) = i.sink.limit)
    BY <1>10, <1>11, <2>1, BoundsAssumption
  <2>. QED BY <1>9, <1>10, <2>2 DEF Stands
<1>13. PICK w \in Bytes : e = w \o rest /\ i.sink = After(u, w)
  BY <1>9 DEF Midway
<1>14. e = w
  BY <1>12, <1>13, Joins
<1>15. i.sink.out = e
  <2>1. i.sink.out = u.out \o w
    BY <1>5, <1>13, AfterFacts
  <2>. QED BY <1>3, <1>14, <2>1, Joins
<1>16. Finish(ty, i.s, i.sink).sink = i.sink
  BY <1>1, <1>8, <1>12 DEF Over, AtRest, Finishing
<1>17. ElementBytes(ty, x, at) = Finish(ty, i.s, i.sink).sink.out
  BY DEF ElementBytes, FinishedBytes, i, u
<1>. QED BY <1>15, <1>16, <1>17 DEF e

\* The sequence only grows.
LEMMA GrowthGrows ==
  ASSUME NEW ty, NEW v, NEW pos \in Nat, NEW f,
         Writes(ty.of), Values(ty.of, v), Grows(f, ty, v, pos)
  PROVE  \A n \in 0 .. Len(v) : Len(f[n].bytes) \in Nat
                                /\ Len(f[n].bytes) <= Len(f[Len(v)].bytes)
<1> DEFINE N == Len(v)
           l == [n \in 0 .. N |-> Len(f[n].bytes)]
           D == {m \in 0 .. N : \A n \in 0 .. m : l[n] <= l[m]}
<1>1. N \in Nat
  BY DEF Values
<1>2. \A n \in 1 .. N : GrowsBy(ty, pos, f[n - 1], v[n])
  BY GrowthAscends
<1>3. \A n \in 0 .. N : GrownTo(f[n], n)
  BY GrowthAscends
<1>4. \A n \in 0 .. N : l[n] \in Nat
  <2>1. \A n \in 0 .. N : Len(f[n].bytes) \in Nat
    BY <1>3, NoLength DEF GrownTo, AllGrown
  <2>. QED BY <2>1
<1>5. ASSUME NEW n \in 0 .. N - 1 PROVE l[n] <= l[n + 1]
  <2>1. n + 1 \in 1 .. N /\ (n + 1) - 1 = n /\ n + 1 \in 0 .. N /\ n \in 0 .. N
    BY <1>1
  <2>2. GrowsBy(ty, pos, f[n], v[n + 1])
    BY <1>2, <2>1
  <2>3. f[n + 1] = Grown(ty, pos, f[n], v[n + 1])
    BY <2>1 DEF Grows
  <2>4. Len(f[n].bytes) <= Len(f[n + 1].bytes)
    <3> DEFINE acc == f[n]
               new == f[n + 1]
    <3>1. new = Grown(ty, pos, acc, v[n + 1]) /\ GrowsBy(ty, pos, acc, v[n + 1])
      BY <2>2, <2>3
    <3> HIDE DEF acc, new
    <3>2. Len(acc.bytes) <= Len(new.bytes)
      BY <3>1 DEF GrowsBy
    <3>. QED BY <3>2 DEF acc, new
  <2>. QED BY <2>1, <2>4
<1> HIDE DEF N, l
<1>6. 0 \in D
  <2>1. 0 \in 0 .. N /\ \A n \in 0 .. 0 : n = 0
    BY <1>1
  <2>. QED BY <1>4, <2>1
<1>7. ASSUME NEW m \in 0 .. N - 1, m \in D PROVE m + 1 \in D
  <2>1. m + 1 \in 0 .. N /\ m \in 0 .. N
    BY <1>1
  <2>2. ASSUME NEW n \in 0 .. m + 1 PROVE l[n] <= l[m + 1]
    <3>1. CASE n = m + 1
      BY <1>4, <2>1, <3>1
    <3>2. CASE n # m + 1
      <4>1. n \in 0 .. m /\ n \in 0 .. N
        BY <1>1, <3>2
      <4>. QED BY <1>4, <1>5, <1>7, <2>1, <4>1
    <3>. QED BY <3>1, <3>2
  <2>. QED BY <2>1, <2>2
<1>8. \A m \in 0 .. N : m \in D
  <2> HIDE DEF D
  <2>. QED BY <1>1, <1>6, <1>7, Induction
<1>9. N \in 0 .. N
  BY <1>1
<1>10. \A n \in 0 .. N : l[n] \in Nat /\ l[n] <= l[N]
  BY <1>4, <1>8, <1>9
<1>. QED BY <1>9, <1>10 DEF l, N

\* What `input` writes is the encoding.
LEMMA WrittenIs ==
  ASSUME NEW ty, NEW v, NEW pos, Keeps(ty.of), Values(ty.of, v), pos \in Nat,
         pos + Len(SequenceEncoding(ty, v, pos)) <= 2 * MaxPos
  PROVE  SequenceOf(ty, v, pos, LAMBDA x, at : ElementBytes(ty.of, x, at))
           = SequenceEncoding(ty, v, pos)
<1> DEFINE N == Len(v)
<1>1. Writes(ty.of)
  BY DEF Keeps
<1>2. N \in Nat /\ \A n \in 1 .. N : IsValue(ty.of, v[n])
  BY DEF Values, AreValues, Alike
<1>3. PICK f : Grows(f, ty, v, pos)
  BY <1>1, GrowthExists
<1>4. SequenceEncoding(ty, v, pos) = Closed(ty, v, f[N])
  BY <1>2, <1>3, EncodingGrows
<1>5. /\ \A n \in 0 .. N : GrownTo(f[n], n)
      /\ \A n \in 1 .. N : GrowsBy(ty, pos, f[n - 1], v[n])
  BY <1>1, <1>3, GrowthAscends
<1>6. \A n \in 0 .. N : Len(f[n].bytes) \in Nat /\ Len(f[n].bytes) <= Len(f[N].bytes)
  BY <1>1, <1>3, GrowthGrows
<1>7. \A n \in 1 .. N : f[n] = Grown(ty, pos, f[n - 1], v[n])
  BY <1>3 DEF Grows
<1>8. pos + Len(f[N].bytes) <= 2 * MaxPos
  <2>1. N \in 0 .. N
    BY <1>2
  <2>2. GrownTo(f[N], N)
    BY <1>5, <2>1
  <2> DEFINE b == Len(f[N].bytes)
             e == Len(Ending(ty, v, f[N]))
             c == Len(Closed(ty, v, f[N]))
  <2>3. c = b + e /\ b \in Nat /\ e \in Nat
    BY <2>2, ClosedIs
  <2>4. pos + c <= 2 * MaxPos
    BY <1>4
  <2> HIDE DEF b, e, c
  <2>5. pos + b <= 2 * MaxPos
    BY <2>3, <2>4, BoundsAssumption
  <2>. QED BY <2>5 DEF b
<1> HIDE DEF N
<1>9. ASSUME NEW n \in 1 .. N
      PROVE  ElementBytes(ty.of, v[n], Behind1(ty, pos, f[n - 1]))
               = Encoding(ty.of, v[n], Behind1(ty, pos, f[n - 1]))
  <2> DEFINE acc == f[n - 1]
             new == f[n]
             at == Behind1(ty, pos, acc)
             e == Encoding(ty.of, v[n], at)
             b == Len(new.bytes)
  <2>1. new = Grown(ty, pos, acc, v[n]) /\ GrowsBy(ty, pos, acc, v[n])
    BY <1>5, <1>7
  <2>2. b \in Nat /\ pos + b <= 2 * MaxPos
    <3>1. n \in 0 .. N /\ N \in 0 .. N
      BY <1>2
    <3>. QED BY <1>6, <1>8, <3>1, BoundsAssumption
  <2> HIDE DEF acc, new
  <2>3. at \in Nat /\ e \in Bytes /\ Len(e) \in Nat /\ at + Len(e) = pos + b
    <3> DEFINE pad == ElementPadding(ty.of, pos + Len(acc.bytes) + 1)
               a == Len(acc.bytes)
               l == Len(e)
    <3>1. /\ at \in Nat /\ e \in Bytes /\ l \in Nat /\ a \in Nat /\ pad \in Nat
          /\ at = pos + a + 1 + pad /\ Len(Grown(ty, pos, acc, v[n]).bytes) = a + 1 + pad + l
      BY <2>1 DEF GrowsBy
    <3>2. b = a + 1 + pad + l
      BY <2>1, <3>1
    <3> HIDE DEF at, e, pad, a, b, l
    <3>3. at + l = pos + b
      BY <3>1, <3>2
    <3>. QED BY <3>1, <3>3 DEF l
  <2>4. at + Len(e) <= 2 * MaxPos
    BY <2>2, <2>3
  <2>5. IsValue(ty.of, v[n])
    BY <1>2
  <2> HIDE DEF at
  <2>6. ElementBytes(ty.of, v[n], at) = Encoding(ty.of, v[n], at)
    BY <2>3, <2>4, <2>5, ElementBytesAre
  <2>. QED BY <2>6 DEF at, acc
<1>10. SequenceOf(ty, v, pos, LAMBDA x, at : ElementBytes(ty.of, x, at))
         = Closed(ty, v, f[N])
  BY <1>2, <1>3, <1>9, WrittenGrows DEF N
<1>. QED BY <1>4, <1>10

\* The pieces that are left of the sequence.
LEMMA VecPoll ==
  ASSUME NEW ty, NEW s, NEW k,
         AtLevel(ty), ty.k \in {"vec", "map"}, IsSink(k), Going(ty, s)
  PROVE  Answers(ty, k, Rest(ty, s, SinkPos(k)), Poll(ty, s, k))
<1> DEFINE p == PollLeaf(s.pieces, k)
           u == [s EXCEPT !.pieces = p.s]
           todo == FlattenSeq(s.pieces)
<1>1. IsRecord(s, {"fed", "pieces"}) /\ s.fed /\ s.pieces \in Seq(Bytes)
  BY VecLevel
<1>2. Rest(ty, s, SinkPos(k)) = todo
  <2>1. \A z, at : Rest(ty, z, at) = FlattenSeq(z.pieces)
    BY VecLevel
  <2>. QED BY <2>1
<1>3. Poll(ty, s, k) = Answer(u, p.sink, p.r)
  <2>1. \A z, q : Poll(ty, z, q) = PollVec(z, q)
    BY VecLevel
  <2>2. PollVec(s, k) = Answer(u, p.sink, p.r)
    BY <1>1 DEF PollVec, VecAfter
  <2>. QED BY <2>1, <2>2
<1>4. PiecesLeft(k, todo, p)
  BY <1>1, LeafPoll
<1> HIDE DEF p, todo
<1>5. IsRecord(u, {"fed", "pieces"}) /\ u.fed = s.fed /\ u.pieces = p.s
  BY <1>1 DEF IsRecord
<1> HIDE DEF u
<1>6. /\ p.s \in Seq(Bytes)
      /\ Outcome(k, todo, p.sink, p.r, FlattenSeq(p.s))
      /\ p.r = "ready" => p.s = << >>
  BY <1>4 DEF PiecesLeft
<1>7. Going(ty, u)
  BY <1>1, <1>5, <1>6, VecLevel
<1>8. \A at : Rest(ty, u, at) = FlattenSeq(p.s)
  <2>1. \A z, at : Rest(ty, z, at) = FlattenSeq(z.pieces)
    BY VecLevel
  <2>. QED BY <1>5, <2>1
<1>9. p.r = "ready" => Over(ty, u)
  <2>1. Ended(ty, u) /\ ~Reusable(ty)
    BY <1>1, <1>5, VecLevel
  <2>2. p.r = "ready" => \A at \in Nat : Rest(ty, u, at) = << >>
    BY <1>6, <1>8, FlattenEmpty
  <2>. QED BY <1>7, <2>1, <2>2 DEF Over, AtRest
<1>10. FlattenSeq(p.s) \in Bytes
  BY <1>6 DEF Outcome
<1>11. Answers(ty, k, todo, Answer(u, p.sink, p.r))
  BY <1>6, <1>7, <1>8, <1>9, <1>10 DEF Answers, Answer
<1>. QED BY <1>2, <1>3, <1>11

LEMMA SequenceIsBytes ==
  ASSUME NEW ty, NEW v, NEW pos, Writes(ty.of), Values(ty.of, v), pos \in Nat
  PROVE  SequenceEncoding(ty, v, pos) \in Bytes
<1>1. Len(v) \in Nat /\ Len(v) \in 0 .. Len(v)
  BY DEF Values
<1>2. PICK f : Grows(f, ty, v, pos)
  BY GrowthExists
<1>3. GrownTo(f[Len(v)], Len(v))
  BY <1>1, <1>2, GrowthAscends
<1>4. Closed(ty, v, f[Len(v)]) \in Bytes
  BY <1>3, ClosedIs
<1>. QED BY <1>1, <1>2, <1>4, EncodingGrows

\* The lengths with a marker each, up to every element.
MarkedLengths(l, lens, n) ==
  /\ n \in Nat /\ Len(lens) = n
  /\ l \in [0 .. n -> Nat] /\ l[0] = 0
  /\ \A i \in 1 .. n : lens[i] \in Nat /\ l[i] = l[i - 1] + 1 + lens[i]

\* measure_seq_body, where nothing is padded: a marker for every element and
\* the terminator.
LEMMA SequenceLenIs ==
  ASSUME NEW lens, NEW fixed, NEW align, NEW l, NEW n,
         MarkedLengths(l, lens, n), fixed => align = 1
  PROVE  SequenceLen(lens, fixed, align) = l[n] + 1
<1>. n \in Nat
  BY DEF MarkedLengths
<1>. USE DEF MarkedLengths
<1> DEFINE Next1(pos, len) ==
             pos + 1 + (IF fixed THEN Padding(pos + 1, align) ELSE 0) + len
           Is(g) == g = [i \in 0 .. n |-> IF i = 0 THEN 0 ELSE Next1(g[i - 1], lens[i])]
           end == CHOOSE g : Is(g)
<1>1. SequenceLen(lens, fixed, align) = end[n] + 1
  BY DEF SequenceLen
<1>2. ASSUME NEW pos \in Nat, NEW len \in Nat
      PROVE  Next1(pos, len) = pos + 1 + len
  <2>1. (pos + 1) % 1 = 0
    OBVIOUS
  <2>2. fixed => Padding(pos + 1, align) = 0
    BY <2>1 DEF Padding
  <2>3. CASE fixed
    BY <2>2, <2>3
  <2>4. CASE ~fixed
    BY <2>4
  <2>. QED BY <2>3, <2>4
<1> HIDE DEF Next1
<1>3. Is(l)
  <2>1. ASSUME NEW i \in 0 .. n
        PROVE  l[i] = IF i = 0 THEN 0 ELSE Next1(l[i - 1], lens[i])
    <3>1. CASE i = 0
      BY <3>1
    <3>2. CASE i # 0
      <4>1. i \in 1 .. n /\ i - 1 \in 0 .. n
        BY <3>2
      <4>2. l[i - 1] \in Nat /\ lens[i] \in Nat /\ l[i] = l[i - 1] + 1 + lens[i]
        BY <4>1
      <4>. QED BY <1>2, <3>2, <4>2
    <3>. QED BY <3>1, <3>2
  <2>. QED BY <2>1
<1>4. Is(end)
  <2> HIDE DEF Is
  <2>. QED BY <1>3
<1> HIDE DEF end
<1>5. end[0] = 0 /\ \A i \in 1 .. n : end[i] = Next1(end[i - 1], lens[i])
  <2>1. 0 \in 0 .. n /\ \A i \in 1 .. n : i \in 0 .. n /\ i # 0
    OBVIOUS
  <2>. QED BY <1>4, <2>1
<1> HIDE DEF Is
<1> DEFINE D == {i \in 0 .. n : end[i] = l[i]}
<1>6. 0 \in D
  BY <1>5
<1>7. ASSUME NEW i \in 0 .. n - 1, i \in D PROVE i + 1 \in D
  <2>1. i + 1 \in 1 .. n /\ (i + 1) - 1 = i /\ i + 1 \in 0 .. n /\ i \in 0 .. n
    OBVIOUS
  <2>2. end[i + 1] = Next1(l[i], lens[i + 1]) /\ l[i] \in Nat /\ lens[i + 1] \in Nat
    BY <1>5, <1>7, <2>1
  <2>3. l[i + 1] = l[i] + 1 + lens[i + 1]
    BY <2>1
  <2>. QED BY <1>2, <2>1, <2>2, <2>3
<1>8. \A i \in 0 .. n : i \in D
  <2> HIDE DEF D
  <2>. QED BY <1>6, <1>7, Induction
<1>9. end[n] = l[n]
  BY <1>8
<1>. QED BY <1>1, <1>9

\* The length of a sequence that needs no padding and has no index.
LEMMA SequenceLength ==
  ASSUME NEW ty, NEW v, NEW pos \in Nat, NEW fixed, NEW align,
         Writes(ty.of), Measured(ty.of), Exact(ty.of), Values(ty.of, v),
         ~ty.indexed, HasFixedSize(ty.of) => Alignment(ty.of) = 1,
         fixed => align = 1
  PROVE  SequenceLen(Lens(ty.of, v), fixed, align) = Len(SequenceEncoding(ty, v, pos))
<1> DEFINE N == Len(v)
           lens == Lens(ty.of, v)
<1>1. N \in Nat /\ \A n \in 1 .. N : IsValue(ty.of, v[n])
  BY DEF Values, AreValues, Alike
<1>2. PICK f : Grows(f, ty, v, pos)
  BY GrowthExists
<1>3. SequenceEncoding(ty, v, pos) = Closed(ty, v, f[N])
  BY <1>1, <1>2, EncodingGrows
<1>4. /\ \A n \in 0 .. N : GrownTo(f[n], n)
      /\ \A n \in 1 .. N : GrowsBy(ty, pos, f[n - 1], v[n])
  BY <1>2, GrowthAscends
<1>5. f[0] = Grown0 /\ \A n \in 1 .. N : f[n] = Grown(ty, pos, f[n - 1], v[n])
  BY <1>2 DEF Grows
<1>6. Len(lens) = N /\ \A n \in 1 .. N : lens[n] = MeasureBody(ty.of, v[n])
  BY <1>1 DEF Lens
<1> HIDE DEF N, lens
<1> DEFINE l == [n \in 0 .. N |-> Len(f[n].bytes)]
<1>7. l \in [0 .. N -> Nat]
  <2>1. \A n \in 0 .. N : Len(f[n].bytes) \in Nat
    BY <1>4, NoLength DEF GrownTo, AllGrown
  <2>. QED BY <2>1
<1>8. l[0] = 0
  <2>1. 0 \in 0 .. N
    BY <1>1
  <2>2. Len(Grown0.bytes) = 0
    BY NoBytes DEF Grown0
  <2>. QED BY <1>5, <2>1, <2>2
<1>9. ASSUME NEW n \in 1 .. N
      PROVE  lens[n] \in Nat /\ l[n] = l[n - 1] + 1 + lens[n]
  <2> DEFINE acc == f[n - 1]
             new == f[n]
             at == Behind1(ty, pos, acc)
             e == Encoding(ty.of, v[n], at)
             pad == ElementPadding(ty.of, pos + Len(acc.bytes) + 1)
             a == Len(acc.bytes)
             b == Len(new.bytes)
             m == Len(e)
  <2>1. new = Grown(ty, pos, acc, v[n]) /\ GrowsBy(ty, pos, acc, v[n])
    BY <1>4, <1>5
  <2>2. n - 1 \in 0 .. N /\ n \in 0 .. N
    BY <1>1
  <2>3. l[n] = b /\ l[n - 1] = a
    BY <2>2
  <2> HIDE DEF acc, new
  <2>4. /\ at \in Nat /\ a \in Nat /\ m \in Nat /\ e \in Bytes
        /\ Len(Grown(ty, pos, acc, v[n]).bytes) = a + 1 + pad + m
    BY <2>1 DEF GrowsBy
  <2>5. pad = 0
    <3>1. pos + a + 1 \in Nat
      BY <2>4
    <3>2. (pos + a + 1) % 1 = 0
      <4>1. \A p \in Nat : p % 1 = 0
        OBVIOUS
      <4> HIDE DEF a
      <4>. QED BY <3>1, <4>1
    <3>. QED BY <3>2 DEF ElementPadding, Padding
  <2>6. b = a + 1 + 0 + m
    BY <2>1, <2>4, <2>5
  <2>7. lens[n] = m
    <3>1. MeasureBody(ty.of, v[n]) = Len(Encoding(ty.of, v[n], at))
      <4> HIDE DEF at
      <4>. QED BY <1>1, <2>4 DEF Measured
    <3>. QED BY <1>6, <3>1
  <2> HIDE DEF l, a, b, m
  <2>8. b = a + 1 + m
    BY <2>4, <2>6
  <2>. QED BY <2>3, <2>4, <2>7, <2>8
<1>10. SequenceLen(lens, fixed, align) = l[N] + 1
  <2> HIDE DEF l
  <2>1. MarkedLengths(l, lens, N)
    BY <1>1, <1>6, <1>7, <1>8, <1>9 DEF MarkedLengths
  <2>. QED BY <2>1, SequenceLenIs
<1>11. l[N] = Len(f[N].bytes) /\ GrownTo(f[N], N)
  <2>1. N \in 0 .. N
    BY <1>1
  <2>. QED BY <1>4, <2>1
<1>12. Len(Closed(ty, v, f[N])) = Len(f[N].bytes) + Len(Ending(ty, v, f[N]))
  BY <1>11, ClosedIs
<1>13. Len(Ending(ty, v, f[N])) = 1
  <2>1. Ending(ty, v, f[N]) = <<0>> \o << >>
    BY DEF Ending
  <2>2. 0 \in Byte
    BY DEF Byte
  <2>3. <<0>> \in Bytes /\ Len(<<0>>) = 1
    BY <2>2, OneByte
  <2>4. <<0>> \o << >> = <<0>>
    BY <2>3, Joins, NoBytes
  <2>. QED BY <2>1, <2>3, <2>4
<1>. QED BY <1>3, <1>10, <1>11, <1>12, <1>13 DEF lens

\* Vectors and maps keep the promise if their elements do.  (A map's elements
\* are pairs, which have no fixed size.)
LEMMA VecKeeps ==
  ASSUME NEW ty, AtLevel(ty), ty.k \in {"vec", "map"}, Regular(ty),
         AtLevel(ty.of), Keeps(ty.of)
  PROVE  Keeps(ty)
<1>1. Writes(ty.of) /\ Measured(ty.of)
  BY DEF Keeps
<1>2. \A v, pos : Encoding(ty, v, pos) = SequenceEncoding(ty, v, pos)
  BY VecLevel
<1>3. \A v : IsValue(ty, v) <=> Values(ty.of, v)
  BY VecLevel
<1>4. Idle(ty, New(ty))
  BY VecLevel
<1>5. Writes(ty)
  <2>1. ASSUME NEW v, NEW pos, pos \in Nat, IsValue(ty, v)
        PROVE  Encoding(ty, v, pos) \in Bytes
    <3>1. SequenceEncoding(ty, v, pos) \in Bytes
      BY <1>1, <1>3, <2>1, SequenceIsBytes
    <3>. QED BY <1>2, <3>1
  <2>2. ASSUME NEW s, NEW at, at \in Nat, Going(ty, s) PROVE Rest(ty, s, at) \in Bytes
    <3>1. s.pieces \in Seq(Bytes)
      BY <2>2, VecLevel
    <3>2. << >> \in Seq(Bytes)
      BY EmptySeq
    <3>3. FlattenSeq(s.pieces) \in Bytes
      BY <3>1, <3>2, FlattenJoin
    <3>4. \A z, p : Rest(ty, z, p) = FlattenSeq(z.pieces)
      BY VecLevel
    <3>. QED BY <3>3, <3>4
  <2>3. FieldEncoding(ty) \in Byte /\ Alignment(ty) \in Nat \ {0}
    <3>1. FieldEncoding(ty) = 0 /\ Alignment(ty) = 1
      BY VecLevel
    <3>. QED BY <3>1 DEF Byte
  <2>. QED BY <2>1, <2>2, <2>3 DEF Writes
<1>6. Continuing(ty)
  BY VecPoll DEF Continuing
<1>7. Accepting(ty)
  <2>1. SUFFICES ASSUME NEW s, NEW v, NEW k,
                        IsSink(k), Idle(ty, s), IsValue(ty, v),
                        Fits(k, Encoding(ty, v, SinkPos(k)))
                 PROVE  Answers(ty, k, Encoding(ty, v, SinkPos(k)), Input(ty, s, v, k))
    BY DEF Accepting
  <2> DEFINE pos == SinkPos(k)
             e == SequenceEncoding(ty, v, pos)
             w == SequenceOf(ty, v, pos, LAMBDA x, at : ElementBytes(ty.of, x, at))
             t == [fed |-> TRUE, pieces |-> <<w>>]
  <2>2. pos \in Nat
    BY <2>1, AfterFacts, NoBytes
  <2>3. Encoding(ty, v, pos) = e
    BY <1>2
  <2>4. Values(ty.of, v)
    BY <1>3, <2>1
  <2>5. pos + Len(e) <= 2 * MaxPos
    BY <2>1, <2>3 DEF Fits
  <2> HIDE DEF pos
  <2>6. w = e
    BY <2>2, <2>4, <2>5, WrittenIs
  <2>7. e \in Bytes
    BY <1>1, <2>2, <2>4, SequenceIsBytes
  <2>8. Input(ty, s, v, k) = PollVec(t, k)
    <3>1. \A z, q, r : Input(ty, z, q, r) = InputVec(ty, z, q, r)
      BY VecLevel
    <3>2. s = NewVec
      BY <2>1, VecLevel
    <3>3. s.fed = FALSE
      BY <3>2 DEF NewVec
    <3>4. InputVec(ty, s, v, k) = PollVec(t, k)
      BY <3>3 DEF InputVec, pos
    <3>. QED BY <3>1, <3>4
  <2> HIDE DEF w, e
  <2>9. \A z, q : Poll(ty, z, q) = PollVec(z, q)
    BY VecLevel
  <2>10. /\ IsRecord(t, {"fed", "pieces"}) /\ t.fed = TRUE /\ t.pieces = <<e>>
         /\ <<e>> \in Seq(Bytes)
    BY <2>6, <2>7 DEF IsRecord
  <2> HIDE DEF t
  <2>11. Going(ty, t)
    BY <2>10, VecLevel
  <2>12. Rest(ty, t, pos) = e
    <3>1. \A z, p : Rest(ty, z, p) = FlattenSeq(z.pieces)
      BY VecLevel
    <3>2. FlattenSeq(<<e>>) = e
      BY <2>7, FlattenOne
    <3>. QED BY <2>10, <3>1, <3>2
  <2>13. Rest(ty, t, SinkPos(k)) = Encoding(ty, v, SinkPos(k))
    BY <2>3, <2>12 DEF pos
  <2>14. Input(ty, s, v, k) = Poll(ty, t, k)
    BY <2>8, <2>9
  <2>. QED BY <1>6, <2>1, <2>11, <2>13, <2>14, AcceptsByPolling
<1>8. Finishing(ty)
  <2>1. /\ \A s, k : Finish(ty, s, k) = FinishVec(s, k)
        /\ \A s : Ended(ty, s) => s.fed
        /\ ~Quiet(ty)
    BY VecLevel
  <2>2. ASSUME NEW s, NEW k, s.fed
        PROVE  FinishVec(s, k).r = "ready" /\ FinishVec(s, k).sink = k
    BY <2>2 DEF FinishVec, Answer
  <2>. QED BY <2>1, <2>2 DEF Finishing
<1>9. Measured(ty)
  <2>1. SUFFICES ASSUME Exact(ty), NEW v, NEW pos, pos \in Nat, IsValue(ty, v)
                 PROVE  MeasureBody(ty, v) = Len(Encoding(ty, v, pos))
    BY DEF Measured
  <2>2. Exact(ty.of) /\ ~ty.indexed /\ Values(ty.of, v)
    BY <1>3, <2>1, VecLevel
  <2>3. \A x : MeasureBody(ty, x) =
                 IF ty.k = "map" THEN MeasureMap(ty, x)
                 ELSE IF ty.indexed THEN MeasureIndexed(ty, x) ELSE MeasureVec(ty, x)
    BY VecLevel
  <2>4. CASE ty.k = "vec"
    <3>1. MeasureBody(ty, v)
            = SequenceLen(Lens(ty.of, v), HasFixedSize(ty.of), Alignment(ty.of))
      BY <2>2, <2>3, <2>4 DEF MeasureVec
    <3>2. HasFixedSize(ty.of) => Alignment(ty.of) = 1
      <4>1. ExactOf(ty)
        BY <2>1 DEF AtLevel
      <4>. QED BY <2>4, <4>1 DEF ExactOf, Unpadded, Leaf
    <3>3. SequenceLen(Lens(ty.of, v), HasFixedSize(ty.of), Alignment(ty.of))
            = Len(SequenceEncoding(ty, v, pos))
      BY <1>1, <2>1, <2>2, <3>2, SequenceLength
    <3>. QED BY <1>2, <3>1, <3>3
  <2>5. CASE ty.k = "map"
    <3> DEFINE K == ty.of.left
               V == ty.of.right
               fixed == HasFixedSize(K) /\ HasFixedSize(V)
               align == Max({Alignment(K), Alignment(V)})
    <3>1. MeasureBody(ty, v) = SequenceLen(Lens(ty.of, v), fixed, align)
      BY <2>3, <2>5 DEF MeasureMap
    <3>2. /\ ty.of.k = "tuple"
          /\ ~HasFixedSize(K) \/ ~HasFixedSize(V) \/ (Unpadded(K) /\ Unpadded(V))
      <4>1. ExactOf(ty)
        BY <2>1 DEF AtLevel
      <4>. QED BY <2>5, <4>1 DEF ExactOf, Leaf
    <3>3. ~HasFixedSize(ty.of)
      BY <3>2 DEF AtLevel, HasFixedSizeOf
    <3>4. fixed => align = 1
      <4>1. SUFFICES ASSUME fixed PROVE align = 1
        OBVIOUS
      <4>2. Alignment(K) = 1 /\ Alignment(V) = 1
        BY <3>2, <4>1 DEF Unpadded
      <4>3. Max({1, 1}) = 1
        BY DEF Max
      <4>. QED BY <4>2, <4>3
    <3> HIDE DEF fixed, align
    <3>5. SequenceLen(Lens(ty.of, v), fixed, align) = Len(SequenceEncoding(ty, v, pos))
      BY <1>1, <2>1, <2>2, <3>3, <3>4, SequenceLength
    <3>. QED BY <1>2, <3>1, <3>5
  <2>. QED BY <2>4, <2>5
<1>. QED BY <1>4, <1>5, <1>6, <1>7, <1>8, <1>9 DEF Keeps

-----------------------------------------------------------------------------
(* Records: the order of the fields *)

\* Every field has one place.
Permutes(order, n) ==
  /\ order \in [1 .. n -> 1 .. n] /\ Len(order) = n
  /\ \A i \in 1 .. n : \E j \in 1 .. n : order[j] = i
  /\ \A i, j \in 1 .. n : order[i] = order[j] => i = j

LEMMA OrderPermutes ==
  ASSUME NEW ty, Len(ty.fields) \in Nat,
         \A i \in 1 .. Len(ty.fields) : ty.fields[i].id \in Nat
  PROVE  Permutes(FieldOrder(ty), Len(ty.fields))
<1> DEFINE n == Len(ty.fields)
           Pred(i) == {j \in 1 .. n : Precedes(ty, j, i)}
           rank == [i \in 1 .. n |-> Cardinality(Pred(i))]
           order == FieldOrder(ty)
<1>1. n \in Nat
  OBVIOUS
<1>2. order = [p \in 1 .. n |-> CHOOSE i \in 1 .. n : Cardinality(Pred(i)) = p - 1]
  BY DEF FieldOrder
<1>3. \A i, j, l \in 1 .. n :
        /\ ~Precedes(ty, i, i)
        /\ Precedes(ty, i, j) /\ Precedes(ty, j, l) => Precedes(ty, i, l)
        /\ i = j \/ Precedes(ty, i, j) \/ Precedes(ty, j, i)
  BY DEF Precedes
<1> HIDE DEF n, order
<1>4. IsFiniteSet(1 .. n) /\ Cardinality(1 .. n) = n
      /\ IsFiniteSet(0 .. n - 1) /\ Cardinality(0 .. n - 1) = n
  <2>1. /\ IsFiniteSet(1 .. n)
        /\ Cardinality(1 .. n) = IF 1 > n THEN 0 ELSE n - 1 + 1
    BY <1>1, FS_Interval
  <2>2. /\ IsFiniteSet(0 .. n - 1)
        /\ Cardinality(0 .. n - 1) = IF 0 > n - 1 THEN 0 ELSE (n - 1) - 0 + 1
    <3>1. 0 \in Int /\ n - 1 \in Int
      BY <1>1
    <3>. QED BY <3>1, FS_Interval
  <2>. QED BY <1>1, <2>1, <2>2
<1>5. ASSUME NEW i \in 1 .. n
      PROVE  IsFiniteSet(Pred(i)) /\ Cardinality(Pred(i)) \in 0 .. n - 1
  <2>1. Pred(i) \in SUBSET (1 .. n) /\ Pred(i) # 1 .. n
    BY <1>3
  <2>2. IsFiniteSet(Pred(i)) /\ Cardinality(Pred(i)) <= n /\ Cardinality(Pred(i)) # n
    <3> HIDE DEF Pred
    <3>. QED BY <1>4, <2>1, FS_Subset
  <2>3. Cardinality(Pred(i)) \in Nat
    BY <2>2, FS_CardinalityType
  <2>. QED BY <1>1, <2>2, <2>3
<1>6. ASSUME NEW i \in 1 .. n, NEW j \in 1 .. n, Precedes(ty, i, j)
      PROVE  rank[i] # rank[j]
  <2>1. Pred(i) \in SUBSET Pred(j) /\ Pred(i) # Pred(j)
    BY <1>3, <1>6
  <2>2. Cardinality(Pred(i)) # Cardinality(Pred(j))
    <3>1. IsFiniteSet(Pred(j))
      BY <1>5
    <3> HIDE DEF Pred
    <3>. QED BY <2>1, <3>1, FS_Subset
  <2>. QED BY <2>2
<1>7. rank \in [1 .. n -> 0 .. n - 1]
  BY <1>5
<1>8. \A i, j \in 1 .. n : rank[i] = rank[j] => i = j
  BY <1>3, <1>6
<1>9. \A p \in 1 .. n : order[p] = CHOOSE i \in 1 .. n : rank[i] = p - 1
  BY <1>2
<1>10. DOMAIN order = 1 .. n /\ order = [p \in 1 .. n |-> order[p]]
  <2> DEFINE At(p) == CHOOSE i \in 1 .. n : Cardinality(Pred(i)) = p - 1
  <2>1. order = [p \in 1 .. n |-> At(p)]
    BY <1>2
  <2> HIDE DEF At
  <2>. QED BY <2>1
<1> HIDE DEF rank
<1>11. \A q \in 0 .. n - 1 : \E i \in 1 .. n : rank[i] = q
  <2>1. rank \in Injection(1 .. n, 0 .. n - 1)
    BY <1>7, <1>8 DEF Injection, IsInjective
  <2>2. rank \in Surjection(1 .. n, 0 .. n - 1)
    BY <1>4, <2>1, FS_Injection
  <2>. QED BY <2>2 DEF Surjection
<1>12. ASSUME NEW p \in 1 .. n PROVE order[p] \in 1 .. n /\ rank[order[p]] = p - 1
  <2>1. p - 1 \in 0 .. n - 1
    BY <1>1
  <2>2. \E i \in 1 .. n : rank[i] = p - 1
    BY <1>11, <2>1
  <2>. QED BY <1>9, <2>2
<1>13. order \in [1 .. n -> 1 .. n] /\ Len(order) = n
  <2>1. order \in [1 .. n -> 1 .. n]
    BY <1>10, <1>12
  <2>2. Len(order) = n
    BY <1>1, <2>1
  <2>. QED BY <2>1, <2>2
<1>14. ASSUME NEW i \in 1 .. n PROVE \E j \in 1 .. n : order[j] = i
  <2> DEFINE j == rank[i] + 1
  <2>1. rank[i] \in 0 .. n - 1
    BY <1>7
  <2>2. j \in 1 .. n /\ j - 1 = rank[i]
    BY <1>1, <2>1
  <2>3. order[j] \in 1 .. n /\ rank[order[j]] = rank[i]
    BY <1>12, <2>2
  <2>4. order[j] = i
    BY <1>8, <2>3
  <2>. QED BY <2>2, <2>4
<1>15. ASSUME NEW i \in 1 .. n, NEW j \in 1 .. n, order[i] = order[j] PROVE i = j
  <2>1. i - 1 = j - 1
    BY <1>12, <1>15
  <2>. QED BY <1>1, <2>1
<1>. QED BY <1>13, <1>14, <1>15 DEF Permutes, n, order

\* A sum that has grown at one place.
LEMMA SumOneMore ==
  ASSUME NEW a, NEW b, NEW q, NEW d, a \in Seq(Nat), b \in Seq(Nat),
         Len(a) = Len(b), q \in 1 .. Len(a), d \in Nat, b[q] = a[q] + d,
         \A i \in 1 .. Len(a) : i # q => b[i] = a[i]
  PROVE  SumOf(b) = SumOf(a) + d
<1> DEFINE n == Len(a)
<1>1. n \in Nat /\ \A i \in 1 .. n : a[i] \in Nat /\ b[i] \in Nat
  OBVIOUS
<1>2. PICK f : /\ f \in [0 .. n -> Nat] /\ f[0] = 0
               /\ \A i \in 1 .. n : f[i] = f[i - 1] + a[i]
               /\ f[n] = SumOf(a)
  BY SumExists
<1>3. PICK g : /\ g \in [0 .. n -> Nat] /\ g[0] = 0
               /\ \A i \in 1 .. n : g[i] = g[i - 1] + b[i]
               /\ g[n] = SumOf(b)
  BY SumExists
<1> HIDE DEF n
<1> DEFINE D == {i \in 0 .. n : g[i] = IF i < q THEN f[i] ELSE f[i] + d}
<1>4. q \in 1 .. n
  BY DEF n
<1>5. 0 \in D
  BY <1>1, <1>2, <1>3, <1>4
<1>6. ASSUME NEW i \in 0 .. n - 1, i \in D PROVE i + 1 \in D
  <2>1. i + 1 \in 1 .. n /\ (i + 1) - 1 = i /\ i + 1 \in 0 .. n /\ i \in 0 .. n
    BY <1>1
  <2>2. f[i + 1] = f[i] + a[i + 1] /\ g[i + 1] = g[i] + b[i + 1]
    BY <1>2, <1>3, <2>1
  <2>3. f[i] \in Nat /\ a[i + 1] \in Nat /\ g[i] \in Nat
    BY <1>1, <1>2, <1>3, <2>1
  <2>4. g[i] = IF i < q THEN f[i] ELSE f[i] + d
    BY <1>6
  <2>5. CASE i + 1 = q
    <3>1. b[i + 1] = a[i + 1] + d /\ i < q /\ ~(i + 1 < q)
      BY <1>4, <2>1, <2>5
    <3>2. g[i] = f[i]
      BY <2>4, <3>1
    <3>3. g[i + 1] = f[i] + (a[i + 1] + d)
      BY <2>2, <3>1, <3>2
    <3>4. g[i + 1] = f[i + 1] + d
      <4> DEFINE x == f[i]
                 y == a[i + 1]
                 x2 == f[i + 1]
                 z2 == g[i + 1]
      <4>1. x \in Nat /\ y \in Nat /\ x2 = x + y /\ z2 = x + (y + d)
        BY <2>2, <2>3, <3>3
      <4> HIDE DEF x, y, x2, z2
      <4>2. z2 = x2 + d
        BY <4>1
      <4>. QED BY <4>2 DEF z2, x2
    <3>. QED BY <2>1, <3>1, <3>4
  <2>6. CASE i + 1 # q
    <3>1. b[i + 1] = a[i + 1]
      BY <2>1, <2>6 DEF n
    <3>2. i < q <=> i + 1 < q
      BY <1>4, <2>1, <2>6
    <3>3. g[i + 1] = IF i + 1 < q THEN f[i + 1] ELSE f[i + 1] + d
      <4> DEFINE x == f[i]
                 y == a[i + 1]
                 x2 == f[i + 1]
                 z == g[i]
                 z2 == g[i + 1]
      <4>1. x \in Nat /\ y \in Nat /\ x2 = x + y /\ z2 = z + y
        BY <2>2, <2>3, <3>1
      <4>2. z = IF i + 1 < q THEN x ELSE x + d
        BY <2>4, <3>2
      <4> HIDE DEF x, y, x2, z, z2
      <4>3. ASSUME i + 1 < q PROVE z2 = x2
        BY <4>1, <4>2, <4>3
      <4>4. ASSUME ~(i + 1 < q) PROVE z2 = x2 + d
        <5>1. z = x + d
          BY <4>2, <4>4
        <5>. QED BY <4>1, <5>1
      <4>5. z2 = IF i + 1 < q THEN x2 ELSE x2 + d
        BY <4>1, <4>2, <4>3, <4>4
      <4>. QED BY <4>5 DEF z2, x2
    <3>. QED BY <2>1, <3>3
  <2>. QED BY <2>5, <2>6
<1>7. \A i \in 0 .. n : i \in D
  <2> HIDE DEF D
  <2>. QED BY <1>1, <1>5, <1>6, Induction
<1>8. g[n] = f[n] + d
  <2>1. n \in 0 .. n /\ ~(n < q)
    BY <1>1, <1>4
  <2>. QED BY <1>7, <2>1
<1>. QED BY <1>2, <1>3, <1>8

LEMMA SumOfNothing ==
  ASSUME NEW a \in Seq(Nat), \A i \in 1 .. Len(a) : a[i] = 0
  PROVE  SumOf(a) = 0
<1> DEFINE n == Len(a)
<1>1. n \in Nat
  OBVIOUS
<1>2. PICK f : /\ f \in [0 .. n -> Nat] /\ f[0] = 0
               /\ \A i \in 1 .. n : f[i] = f[i - 1] + a[i]
               /\ f[n] = SumOf(a)
  BY SumExists
<1>3. \A i \in 1 .. n : f[i] = f[i - 1] + 0
  BY <1>2
<1> HIDE DEF n
<1> DEFINE D == {i \in 0 .. n : f[i] = 0}
<1>4. 0 \in D
  BY <1>1, <1>2
<1>5. ASSUME NEW i \in 0 .. n - 1, i \in D PROVE i + 1 \in D
  <2>1. i + 1 \in 1 .. n /\ (i + 1) - 1 = i /\ i + 1 \in 0 .. n
    BY <1>1
  <2>. QED BY <1>3, <1>5, <2>1
<1>6. \A i \in 0 .. n : i \in D
  <2> HIDE DEF D
  <2>. QED BY <1>1, <1>4, <1>5, Induction
<1>7. n \in 0 .. n
  BY <1>1
<1>. QED BY <1>2, <1>6, <1>7

\* A sum does not depend on the order.
LEMMA SumPermuted ==
  ASSUME NEW lens \in Seq(Nat), NEW order, Permutes(order, Len(lens))
  PROVE  SumOf([j \in 1 .. Len(lens) |-> lens[order[j]]]) = SumOf(lens)
<1> DEFINE n == Len(lens)
           perm == [j \in 1 .. n |-> lens[order[j]]]
<1>1. n \in Nat /\ \A i \in 1 .. n : lens[i] \in Nat
  OBVIOUS
<1>2. /\ order \in [1 .. n -> 1 .. n]
      /\ \A i \in 1 .. n : \E j \in 1 .. n : order[j] = i
      /\ \A i, j \in 1 .. n : order[i] = order[j] => i = j
  BY DEF Permutes
<1>3. lens = [i \in 1 .. n |-> lens[i]]
  OBVIOUS
<1> HIDE DEF n
<1>4. perm \in Seq(Nat) /\ Len(perm) = n
  <2>1. \A j \in 1 .. n : lens[order[j]] \in Nat
    BY <1>1, <1>2
  <2>. QED BY <1>1, <2>1
<1>5. PICK f : /\ f \in [0 .. n -> Nat] /\ f[0] = 0
               /\ \A i \in 1 .. n : f[i] = f[i - 1] + perm[i]
               /\ f[n] = SumOf(perm)
  <2> HIDE DEF perm
  <2>. QED BY <1>4, SumExists
\* The lengths of the things at the first m places, 0 for the others.
<1> DEFINE Masked(m) == [i \in 1 .. n |-> IF \E j \in 1 .. m : order[j] = i
                                          THEN lens[i] ELSE 0]
           D == {m \in 0 .. n : SumOf(Masked(m)) = f[m]}
<1>6. ASSUME NEW m \in 0 .. n PROVE Masked(m) \in Seq(Nat) /\ Len(Masked(m)) = n
  BY <1>1
<1>7. 0 \in D
  <2>1. 0 \in 0 .. n
    BY <1>1
  <2>2. \A i \in 1 .. n : Masked(0)[i] = 0
    OBVIOUS
  <2>3. SumOf(Masked(0)) = 0
    <3>1. Masked(0) \in Seq(Nat) /\ Len(Masked(0)) = n
      BY <1>6, <2>1
    <3> HIDE DEF Masked
    <3>. QED BY <2>2, <3>1, SumOfNothing
  <2>. QED BY <1>5, <2>1, <2>3
<1>8. ASSUME NEW m \in 0 .. n - 1, m \in D PROVE m + 1 \in D
  <2> DEFINE a == Masked(m)
             b == Masked(m + 1)
             q == order[m + 1]
  <2>1. m + 1 \in 1 .. n /\ (m + 1) - 1 = m /\ m + 1 \in 0 .. n /\ m \in 0 .. n
    BY <1>1
  <2>2. q \in 1 .. n
    BY <1>2, <2>1
  <2>3. \A j \in 1 .. m : j \in 1 .. n /\ j # m + 1 /\ j \in 1 .. m + 1
    <3>1. m \in 0 .. n - 1 /\ n \in Nat
      BY <1>1
    <3> HIDE DEF D
    <3>2. TAKE j \in 1 .. m
    <3>. QED BY <3>1
  <2>4. a[q] = 0
    <3>1. ~\E j \in 1 .. m : order[j] = q
      BY <1>2, <2>1, <2>3
    <3>. QED BY <2>2, <3>1
  <2>5. b[q] = lens[q]
    <3>1. m + 1 \in 1 .. m + 1
      BY <2>1
    <3>. QED BY <2>2, <3>1
  <2>6. ASSUME NEW i \in 1 .. n, i # q PROVE b[i] = a[i]
    <3>1. (\E j \in 1 .. m : order[j] = i) <=> (\E j \in 1 .. m + 1 : order[j] = i)
      <4>1. \A j \in 1 .. m + 1 : j \in 1 .. m \/ j = m + 1
        BY <2>1
      <4>. QED BY <2>3, <2>6, <4>1
    <3>. QED BY <3>1
  <2>7. perm[m + 1] = lens[q] /\ lens[q] \in Nat
    BY <1>1, <2>1, <2>2
  <2>8. a \in Seq(Nat) /\ b \in Seq(Nat) /\ Len(a) = n /\ Len(b) = n
    BY <1>6, <2>1
  <2>9. SumOf(a) = f[m] /\ f[m + 1] = f[m] + perm[m + 1]
    BY <1>5, <1>8, <2>1
  <2> DEFINE d == lens[q]
  <2>10. d \in Nat /\ b[q] = a[q] + d
    BY <2>4, <2>5, <2>7
  <2>11. SumOf(b) = SumOf(a) + d
    <3>1. q \in 1 .. Len(a) /\ Len(a) = Len(b)
      BY <2>2, <2>8
    <3>2. \A i \in 1 .. Len(a) : i # q => b[i] = a[i]
      BY <2>6, <2>8
    <3>3. a \in Seq(Nat) /\ b \in Seq(Nat) /\ d \in Nat /\ b[q] = a[q] + d
      BY <2>8, <2>10
    <3> HIDE DEF a, b, d, q, Masked
    <3>. QED BY <3>1, <3>2, <3>3, SumOneMore, Zenon
  <2> HIDE DEF a, b, d, Masked, q, perm
  <2>12. SumOf(b) = f[m + 1]
    BY <2>7, <2>9, <2>11 DEF d
  <2>. QED BY <2>1, <2>12 DEF b
<1>9. \A m \in 0 .. n : m \in D
  <2> HIDE DEF D
  <2>. QED BY <1>1, <1>7, <1>8, Induction
<1>10. SumOf(Masked(n)) = f[n]
  <2>1. n \in 0 .. n
    BY <1>1
  <2>. QED BY <1>9, <2>1
<1>11. Masked(n) = lens
  <2>1. \A i \in 1 .. n : Masked(n)[i] = lens[i]
    BY <1>2
  <2>. QED BY <1>3, <2>1
<1>. QED BY <1>5, <1>10, <1>11 DEF n

-----------------------------------------------------------------------------
(* Records: what is left *)

LEMMA RecordLevel ==
  ASSUME NEW ty, AtLevel(ty), ty.k = "record"
  PROVE  /\ New(ty) = NewRecord(ty)
         /\ Alignment(ty) = 1
         /\ FieldEncoding(ty) \in 0 .. 4
         /\ \A v, pos : Encoding(ty, v, pos) = RecordEncoding(ty, v, pos)
         /\ \A v : MeasureBody(ty, v) = MeasureRecord(ty, v)
         /\ \A s, v, k : Input(ty, s, v, k) = InputRecord(ty, s, v, k)
         /\ \A s, k : Poll(ty, s, k) = PollRecord(ty, s, k)
         /\ \A s, k : Finish(ty, s, k) = FinishRecord(ty, s, k)
         /\ \A v : IsValue(ty, v) <=> AreValues(TypesOf(ty.fields), v, Len(ty.fields))
         /\ \A s, at : Rest(ty, s, at) = RecordRest(ty, s, at)
         /\ \A s : Idle(ty, s) <=>
                        /\ IsRecordState(ty, s)
                        /\ \A i \in 1 .. Len(ty.fields) : Idle(ty.fields[i].ty, s.fields[i].ser)
                        /\ ty.key # 0 => /\ s.headerCursor = 0
                                         /\ \A i \in 1 .. Len(ty.fields) :
                                              s.fields[i].entryCursor = 0
         /\ \A s : Going(ty, s) <=> RecordGoing(ty, s)
         /\ \A s : Ended(ty, s) <=>
                         \A i \in 1 .. Len(ty.fields) : Ended(ty.fields[i].ty, s.fields[i].ser)
         /\ Reusable(ty) => /\ ty.key = 0
                                          /\ \A i \in 1 .. Len(ty.fields) : Reusable(ty.fields[i].ty)
         /\ Quiet(ty) => \A i \in 1 .. Len(ty.fields) : Quiet(ty.fields[i].ty)
         /\ Exact(ty) => \A i \in 1 .. Len(ty.fields) : Exact(ty.fields[i].ty)
         /\ Regular(ty) =>
                           /\ ty.key \in Nat
                           /\ \A i \in 1 .. Len(ty.fields) : ty.fields[i].id \in Nat
                           /\ ty.key # 0 => \A i \in 1 .. Len(ty.fields) : Exact(ty.fields[i].ty)
<1>1. New(ty) = NewRecord(ty)
  BY DEF AtLevel, NewOf, Leaf
<1>2. Alignment(ty) = 1
  BY DEF AtLevel, AlignmentOf, Leaf
<1>3. FieldEncoding(ty) \in 0 .. 4
  BY DEF AtLevel, FieldEncodingOf, Leaf
<1>4. \A v, pos : Encoding(ty, v, pos) = RecordEncoding(ty, v, pos)
  BY DEF AtLevel, EncodingOf, Leaf
<1>5. \A v : MeasureBody(ty, v) = MeasureRecord(ty, v)
  BY DEF AtLevel, MeasureBodyOf, Leaf
<1>6. \A s, v, k : Input(ty, s, v, k) = InputRecord(ty, s, v, k)
  BY DEF AtLevel, InputOf, Leaf
<1>7. \A s, k : Poll(ty, s, k) = PollRecord(ty, s, k)
  BY DEF AtLevel, PollOf, Leaf
<1>8. \A s, k : Finish(ty, s, k) = FinishRecord(ty, s, k)
  BY DEF AtLevel, FinishOf, Leaf
<1>9. \A v : IsValue(ty, v) <=> AreValues(TypesOf(ty.fields), v, Len(ty.fields))
  BY DEF AtLevel, IsValueOf, Leaf
<1>10. \A s, at : Rest(ty, s, at) = RecordRest(ty, s, at)
  BY DEF AtLevel, RestOf, Leaf
<1>11. \A s : Idle(ty, s) <=>
                   /\ IsRecordState(ty, s)
                   /\ \A i \in 1 .. Len(ty.fields) : Idle(ty.fields[i].ty, s.fields[i].ser)
                   /\ ty.key # 0 => /\ s.headerCursor = 0
                                    /\ \A i \in 1 .. Len(ty.fields) :
                                         s.fields[i].entryCursor = 0
  BY DEF AtLevel, IdleOf, Leaf
<1>12. \A s : Going(ty, s) <=> RecordGoing(ty, s)
  BY DEF AtLevel, GoingOf, Leaf
<1>13. \A s : Ended(ty, s) <=>
                    \A i \in 1 .. Len(ty.fields) : Ended(ty.fields[i].ty, s.fields[i].ser)
  BY DEF AtLevel, EndedOf, Leaf
<1>14. Reusable(ty) => /\ ty.key = 0
                                     /\ \A i \in 1 .. Len(ty.fields) : Reusable(ty.fields[i].ty)
  BY DEF AtLevel, ReusableOf, Leaf
<1>15. Quiet(ty) => \A i \in 1 .. Len(ty.fields) : Quiet(ty.fields[i].ty)
  BY DEF AtLevel, QuietOf, Leaf
<1>16. Exact(ty) => \A i \in 1 .. Len(ty.fields) : Exact(ty.fields[i].ty)
  BY DEF AtLevel, ExactOf, Leaf
<1>17. Regular(ty) =>
                      /\ ty.key \in Nat
                      /\ \A i \in 1 .. Len(ty.fields) : ty.fields[i].id \in Nat
                      /\ ty.key # 0 => \A i \in 1 .. Len(ty.fields) : Exact(ty.fields[i].ty)
  BY DEF AtLevel, RegularOf, Leaf
<1>. QED BY <1>1, <1>2, <1>3, <1>4, <1>5, <1>6, <1>7, <1>8, <1>9, <1>10,
         <1>11, <1>12, <1>13, <1>14, <1>15, <1>16, <1>17

\* The fields of a record keep the promise.
FieldsKeep(ty) ==
  /\ Len(ty.fields) \in Nat
  /\ \A i \in 1 .. Len(ty.fields) : Keeps(ty.fields[i].ty)

StepsOf(ty) == RecordSteps(ty, FieldOrder(ty))

AStep(what, i) == [what |-> what, i |-> i]

IsStep(ty, step) ==
  \/ ty.key # 0 /\ step = AStep("header", 0)
  \/ \E i \in 1 .. Len(ty.fields) : \/ ty.key # 0 /\ step = AStep("entry", i)
                                    \/ step = AStep("field", i)

LEMMA ConcatIs ==
  ASSUME NEW S, NEW a \in Seq(S), NEW b \in Seq(S)
  PROVE  /\ a \o b \in Seq(S) /\ Len(a \o b) = Len(a) + Len(b)
         /\ \A j \in 1 .. Len(a) + Len(b) :
              (a \o b)[j] = IF j <= Len(a) THEN a[j] ELSE b[j - Len(a)]
BY ConcatProperties

\* A step is what it is for and the field it is for.
LEMMA StepIs ==
  \A what, i : AStep(what, i).what = what /\ AStep(what, i).i = i
BY DEF AStep

\* The steps are these, each of them taken once.
LEMMA StepsAre ==
  ASSUME NEW ty, Len(ty.fields) \in Nat, Permutes(FieldOrder(ty), Len(ty.fields))
  PROVE  /\ Len(StepsOf(ty)) = IF ty.key = 0 THEN Len(ty.fields)
                               ELSE 1 + 2 * Len(ty.fields)
         /\ \A j \in 1 .. Len(StepsOf(ty)) :
              StepsOf(ty)[j] =
                IF ty.key = 0 THEN AStep("field", FieldOrder(ty)[j])
                ELSE IF j = 1 THEN AStep("header", 0)
                ELSE IF j <= 1 + Len(ty.fields) THEN AStep("entry", FieldOrder(ty)[j - 1])
                ELSE AStep("field", FieldOrder(ty)[j - 1 - Len(ty.fields)])
<1> DEFINE n == Len(ty.fields)
           order == FieldOrder(ty)
           h == Steps("header", <<0>>)
           e == Steps("entry", order)
           f == Steps("field", order)
           All == {AStep(what, i) : what \in {"header", "entry", "field"}, i \in 0 .. n}
<1>1. n \in Nat /\ order \in [1 .. n -> 1 .. n] /\ Len(order) = n
  BY DEF Permutes
<1> HIDE DEF order, n
<1>2. /\ h \in Seq(All) /\ Len(h) = 1 /\ h[1] = AStep("header", 0)
      /\ e \in Seq(All) /\ Len(e) = n /\ \A j \in 1 .. n : e[j] = AStep("entry", order[j])
      /\ f \in Seq(All) /\ Len(f) = n /\ \A j \in 1 .. n : f[j] = AStep("field", order[j])
  <2>1. \A j \in 1 .. n : order[j] \in 0 .. n
    BY <1>1
  <2>2. 0 \in 0 .. n /\ Len(<<0>>) = 1 /\ <<0>>[1] = 0
    BY <1>1
  <2>3. h = [j \in 1 .. 1 |-> AStep("header", 0)]
    BY DEF Steps, AStep
  <2>4. e = [j \in 1 .. n |-> AStep("entry", order[j])]
        /\ f = [j \in 1 .. n |-> AStep("field", order[j])]
    BY <1>1 DEF Steps, AStep
  <2>5. AStep("header", 0) \in All
    BY <2>2
  <2>6. \A j \in 1 .. n : AStep("entry", order[j]) \in All /\ AStep("field", order[j]) \in All
    BY <2>1
  <2> HIDE DEF h, e, f, All
  <2>. QED BY <1>1, <2>3, <2>4, <2>5, <2>6
<1>3. StepsOf(ty) = IF ty.key = 0 THEN f ELSE h \o e \o f
  BY DEF StepsOf, RecordSteps, order
<1> HIDE DEF h, e, f, All
<1>4. /\ h \o e \in Seq(All) /\ Len(h \o e) = 1 + n
      /\ \A j \in 1 .. 1 + n : (h \o e)[j] = IF j <= 1 THEN h[j] ELSE e[j - 1]
  <2>1. h \in Seq(All) /\ e \in Seq(All) /\ Len(h) = 1 /\ Len(e) = n
    BY <1>2
  <2>2. /\ h \o e \in Seq(All) /\ Len(h \o e) = Len(h) + Len(e)
        /\ \A j \in 1 .. Len(h) + Len(e) :
             (h \o e)[j] = IF j <= Len(h) THEN h[j] ELSE e[j - Len(h)]
    BY <2>1, ConcatIs
  <2>. QED BY <2>1, <2>2
<1>5. /\ Len((h \o e) \o f) = (1 + n) + n
      /\ \A j \in 1 .. (1 + n) + n :
           ((h \o e) \o f)[j] = IF j <= 1 + n THEN (h \o e)[j] ELSE f[j - (1 + n)]
  <2> DEFINE a == h \o e
  <2>1. a \in Seq(All) /\ Len(a) = 1 + n
    BY <1>4
  <2> HIDE DEF a
  <2>2. /\ Len(a \o f) = (1 + n) + n
        /\ \A j \in 1 .. (1 + n) + n :
             (a \o f)[j] = IF j <= 1 + n THEN a[j] ELSE f[j - (1 + n)]
    <3>1. f \in Seq(All) /\ Len(f) = n
      BY <1>2
    <3>2. /\ Len(a \o f) = Len(a) + Len(f)
          /\ \A j \in 1 .. Len(a) + Len(f) :
               (a \o f)[j] = IF j <= Len(a) THEN a[j] ELSE f[j - Len(a)]
      BY <2>1, <3>1, ConcatIs
    <3>. QED BY <2>1, <3>1, <3>2
  <2>. QED BY <2>2 DEF a
<1>6. CASE ty.key = 0
  BY <1>2, <1>3, <1>6 DEF n, order
<1>7. CASE ty.key # 0
  <2>1. Len(StepsOf(ty)) = 1 + 2 * n /\ (1 + n) + n = 1 + 2 * n
    BY <1>1, <1>3, <1>5, <1>7
  <2>2. ASSUME NEW j \in 1 .. 1 + 2 * n
        PROVE  StepsOf(ty)[j] = IF j = 1 THEN AStep("header", 0)
                                ELSE IF j <= 1 + n THEN AStep("entry", order[j - 1])
                                ELSE AStep("field", order[j - 1 - n])
    <3>1. CASE j = 1
      <4>1. 1 \in 1 .. 1 + n /\ 1 \in 1 .. (1 + n) + n /\ 1 <= 1 + n
        BY <1>1
      <4>. QED BY <1>2, <1>3, <1>4, <1>5, <1>7, <3>1, <4>1
    <3>2. CASE j # 1 /\ j <= 1 + n
      <4>1. j \in 1 .. 1 + n /\ j \in 1 .. (1 + n) + n /\ ~(j <= 1) /\ j - 1 \in 1 .. n
        BY <1>1, <3>2
      <4>. QED BY <1>2, <1>3, <1>4, <1>5, <1>7, <3>2, <4>1
    <3>3. CASE ~(j <= 1 + n)
      <4>1. j \in 1 .. (1 + n) + n /\ j # 1 /\ j - (1 + n) \in 1 .. n
            /\ j - (1 + n) = j - 1 - n
        BY <1>1, <3>3
      <4>. QED BY <1>2, <1>3, <1>5, <1>7, <3>3, <4>1
    <3>. QED BY <3>1, <3>2, <3>3
  <2>. QED BY <1>7, <2>1, <2>2 DEF n, order
<1>. QED BY <1>6, <1>7

\* Every part of the record has its step, and only one.
StepsCover(ty) ==
  /\ Len(StepsOf(ty)) \in Nat
  /\ \A j \in 1 .. Len(StepsOf(ty)) : IsStep(ty, StepsOf(ty)[j])
  /\ \A i, j \in 1 .. Len(StepsOf(ty)) : StepsOf(ty)[i] = StepsOf(ty)[j] => i = j
  /\ \A i \in 1 .. Len(ty.fields) :
       \E j \in 1 .. Len(StepsOf(ty)) : StepsOf(ty)[j] = AStep("field", i)

LEMMA RecordStepsCover ==
  ASSUME NEW ty, Len(ty.fields) \in Nat,
         Permutes(FieldOrder(ty), Len(ty.fields))
  PROVE  StepsCover(ty)
<1> DEFINE n == Len(ty.fields)
           order == FieldOrder(ty)
           steps == StepsOf(ty)
           m == Len(steps)
<1>1. /\ n \in Nat /\ order \in [1 .. n -> 1 .. n]
      /\ \A i \in 1 .. n : \E j \in 1 .. n : order[j] = i
      /\ \A i, j \in 1 .. n : order[i] = order[j] => i = j
  BY DEF Permutes
<1>2. m = IF ty.key = 0 THEN n ELSE 1 + 2 * n
  BY StepsAre
<1>3. \A j \in 1 .. m :
        steps[j] = IF ty.key = 0 THEN AStep("field", order[j])
                   ELSE IF j = 1 THEN AStep("header", 0)
                   ELSE IF j <= 1 + n THEN AStep("entry", order[j - 1])
                   ELSE AStep("field", order[j - 1 - n])
  BY StepsAre
<1> HIDE DEF order, steps, m, n
<1>4. m \in Nat
  BY <1>1, <1>2
<1>6. CASE ty.key = 0
  <2>1. \A j \in 1 .. n : steps[j] = AStep("field", order[j])
    BY <1>2, <1>3, <1>6
  <2>2. \A j \in 1 .. n : IsStep(ty, steps[j])
    BY <1>1, <2>1 DEF IsStep, n
  <2>3. ASSUME NEW i \in 1 .. n, NEW j \in 1 .. n, steps[i] = steps[j] PROVE i = j
    <3>1. steps[i].i = order[i] /\ steps[j].i = order[j]
      BY <2>1, StepIs
    <3>2. order[i] = order[j]
      BY <2>3, <3>1
    <3>. QED BY <1>1, <3>2
  <2>4. \A i \in 1 .. n : \E j \in 1 .. n : steps[j] = AStep("field", i)
    BY <1>1, <2>1
  <2>. QED BY <1>1, <1>2, <1>6, <2>2, <2>3, <2>4 DEF StepsCover, m, n, steps
<1>7. CASE ty.key # 0
  <2>1. m = 1 + 2 * n
    BY <1>2, <1>7
  <2>2. \A j \in 1 .. m : \/ j = 1 /\ steps[j] = AStep("header", 0)
                          \/ /\ j # 1 /\ j - 1 \in 1 .. n
                             /\ steps[j] = AStep("entry", order[j - 1])
                          \/ /\ j # 1 /\ j - 1 \notin 1 .. n /\ j - 1 - n \in 1 .. n
                             /\ steps[j] = AStep("field", order[j - 1 - n])
    <3>1. TAKE j \in 1 .. m
    <3>2. CASE j = 1
      BY <1>3, <1>7, <3>2
    <3>3. CASE j # 1 /\ j <= 1 + n
      <4>1. j - 1 \in 1 .. n
        BY <1>1, <2>1, <3>3
      <4>. QED BY <1>3, <1>7, <3>3, <4>1
    <3>4. CASE ~(j <= 1 + n)
      <4>1. j # 1 /\ j - 1 \notin 1 .. n /\ j - 1 - n \in 1 .. n
        BY <1>1, <2>1, <3>4
      <4>. QED BY <1>3, <1>7, <3>4, <4>1
    <3>. QED BY <3>2, <3>3, <3>4
  <2>3. \A j \in 1 .. n : order[j] \in 1 .. n
    BY <1>1
  <2>4. \A j \in 1 .. m : IsStep(ty, steps[j])
    BY <1>7, <2>2, <2>3 DEF IsStep, n
  <2>5. ASSUME NEW i \in 1 .. m, NEW j \in 1 .. m, steps[i] = steps[j] PROVE i = j
    <3>1. i - 1 = j - 1 => i = j
      BY <1>4
    <3>2. i - 1 - n = j - 1 - n => i = j
      BY <1>1, <1>4
    <3>4. CASE i = 1
      <4>1. steps[i] = AStep("header", 0)
        BY <2>2, <3>4
      <4>. QED BY <2>2, <2>5, <3>4, <4>1, StepIs
    <3>5. CASE i # 1 /\ i - 1 \in 1 .. n
      <4>1. steps[i].what = "entry" /\ steps[i].i = order[i - 1]
        BY <2>2, <3>5, StepIs
      <4>2. steps[j].what = "entry"
        BY <2>5, <4>1
      <4>3. j - 1 \in 1 .. n /\ steps[j].i = order[j - 1]
        BY <2>2, <4>2, StepIs
      <4>4. order[i - 1] = order[j - 1]
        BY <2>5, <4>1, <4>3
      <4>. QED BY <1>1, <3>1, <3>5, <4>3, <4>4
    <3>6. CASE i # 1 /\ i - 1 \notin 1 .. n
      <4>1. steps[i].what = "field" /\ steps[i].i = order[i - 1 - n]
            /\ i - 1 - n \in 1 .. n
        BY <2>2, <3>6, StepIs
      <4>2. steps[j].what = "field"
        BY <2>5, <4>1
      <4>3. j - 1 - n \in 1 .. n /\ steps[j].i = order[j - 1 - n]
        BY <2>2, <4>2, StepIs
      <4>4. order[i - 1 - n] = order[j - 1 - n]
        BY <2>5, <4>1, <4>3
      <4>. QED BY <1>1, <3>2, <4>1, <4>3, <4>4
    <3>. QED BY <3>4, <3>5, <3>6
  <2>6. ASSUME NEW i \in 1 .. n PROVE \E j \in 1 .. m : steps[j] = AStep("field", i)
    <3>1. PICK q \in 1 .. n : order[q] = i
      BY <1>1
    <3>2. q + 1 + n \in 1 .. m /\ q + 1 + n # 1 /\ ~(q + 1 + n <= 1 + n)
          /\ q + 1 + n - 1 - n = q
      BY <1>1, <2>1
    <3> DEFINE j == q + 1 + n
    <3>3. j \in 1 .. m /\ j # 1 /\ ~(j <= 1 + n) /\ j - 1 - n = q
      BY <1>1, <2>1, <3>2
    <3> HIDE DEF j
    <3>4. steps[j] = AStep("field", order[j - 1 - n])
      BY <1>3, <1>7, <3>3
    <3>. QED BY <3>1, <3>3, <3>4
  <2>. QED BY <1>4, <2>4, <2>5, <2>6 DEF StepsCover, m, n, steps
<1>. QED BY <1>6, <1>7

\* What the last bytes of a table entry leave when some of them are written.
IsRestOf(h, n, rest) ==
  /\ n - Len(rest) \in 0 .. n
  /\ SubSeq(h, (n - Len(rest)) + 1, n) = rest
  /\ rest = << >> => n - Len(rest) = n

LEMMA RestOfRest ==
  ASSUME NEW h, NEW n, NEW c, NEW w, NEW rest,
         h \in Bytes, n \in Nat, Len(h) = n, c \in 0 .. n, w \in Bytes, rest \in Bytes,
         SubSeq(h, c + 1, n) = w \o rest
  PROVE  IsRestOf(h, n, rest)
<1> DEFINE d == n - Len(rest)
           t == SubSeq(h, d + 1, n)
<1>1. /\ Len(w \o rest) = Len(w) + Len(rest) /\ Len(w) \in Nat /\ Len(rest) \in Nat
      /\ \A i \in 1 .. Len(rest) : (w \o rest)[Len(w) + i] = rest[i]
  BY ConcatProperties, LenProperties DEF Bytes
<1>2. /\ Len(SubSeq(h, c + 1, n)) = n - c
      /\ \A i \in 1 .. n - c : SubSeq(h, c + 1, n)[i] = h[c + i]
  <2>1. c + 1 \in 1 .. n + 1 /\ n \in c + 1 - 1 .. n
    OBVIOUS
  <2>. QED BY <2>1, SubSeqProperties DEF Bytes
<1>3. n - c = Len(w) + Len(rest)
  BY <1>1, <1>2
<1>4. d \in 0 .. n /\ d = c + Len(w)
  BY <1>1, <1>3
<1> HIDE DEF d
<1>5. /\ t \in Bytes /\ Len(t) = n - d
      /\ \A i \in 1 .. n - d : t[i] = h[d + i]
  <2>1. d + 1 \in 1 .. n + 1 /\ n \in d + 1 - 1 .. n
    BY <1>4
  <2>. QED BY <1>4, <2>1, SubSeqProperties DEF Bytes
<1>6. n - d = Len(rest)
  BY <1>1, <1>4 DEF d
<1> HIDE DEF t
<1>7. ASSUME NEW i \in 1 .. Len(rest) PROVE t[i] = rest[i]
  <2>1. Len(w) + i \in 1 .. n - c /\ c + (Len(w) + i) = d + i
    BY <1>1, <1>3, <1>4
  <2>2. SubSeq(h, c + 1, n)[Len(w) + i] = h[c + (Len(w) + i)]
    BY <1>2, <2>1
  <2>3. rest[i] = h[d + i]
    BY <1>1, <2>1, <2>2
  <2>. QED BY <1>5, <1>6, <2>3
<1>8. t = rest
  <2>1. t = [i \in 1 .. Len(t) |-> t[i]] /\ rest = [i \in 1 .. Len(rest) |-> rest[i]]
    BY <1>5 DEF Bytes
  <2>. QED BY <1>5, <1>6, <1>7, <2>1
<1>9. rest = << >> => d = n
  BY <1>4, <1>6, NoBytes
<1>. QED BY <1>4, <1>8, <1>9 DEF d, t, IsRestOf

LEMMA LastOf ==
  ASSUME NEW h, NEW n, NEW c, h \in Bytes, n \in Nat, Len(h) = n, c \in 0 .. n
  PROVE  /\ SubSeq(h, c + 1, n) \in Bytes
         /\ c = n => SubSeq(h, c + 1, n) = << >>
         /\ c = 0 => SubSeq(h, c + 1, n) = h
<1>1. c + 1 \in 1 .. n + 1 /\ n \in c + 1 - 1 .. n
  OBVIOUS
<1>2. SubSeq(h, c + 1, n) \in Bytes
  BY <1>1, SubSeqProperties DEF Bytes
<1>3. c = n => SubSeq(h, c + 1, n) = << >>
  BY SubSeqEmpty DEF Bytes
<1>4. c = 0 => SubSeq(h, c + 1, n) = h
  <2>1. SubSeq(h, 1, Len(h)) = h
    BY SubSeqFull DEF Bytes
  <2>2. c = 0 => c + 1 = 1
    OBVIOUS
  <2>. QED BY <2>1, <2>2
<1>. QED BY <1>2, <1>3, <1>4

LEMMA HeaderIsBytes ==
  ASSUME NEW ty, ty.key \in Nat, Len(ty.fields) \in Nat
  PROVE  HeaderBytes(ty) \in Bytes /\ Len(HeaderBytes(ty)) = 12
<1> DEFINE a == LE(4, ty.key)
           b == LE(4, 0)
           c == LE(2, Len(ty.fields))
           d == LE(2, 0)
<1>1. /\ a \in Bytes /\ Len(a) = 4 /\ b \in Bytes /\ Len(b) = 4
      /\ c \in Bytes /\ Len(c) = 2 /\ d \in Bytes /\ Len(d) = 2
  <2>1. 4 \in 0 .. 4 /\ 2 \in 0 .. 4 /\ 0 \in Nat
    OBVIOUS
  <2>. QED BY <2>1, LEIsBytes
<1>2. HeaderBytes(ty) = a \o b \o c \o d
  BY DEF HeaderBytes
<1> HIDE DEF a, b, c, d
<1>3. a \o b \in Bytes /\ Len(a \o b) = 8
  <2>1. a \o b \in Bytes /\ Len(a \o b) = Len(a) + Len(b)
    BY <1>1, Joins
  <2>. QED BY <1>1, <2>1
<1>4. (a \o b) \o c \in Bytes /\ Len((a \o b) \o c) = 10
  <2>1. (a \o b) \o c \in Bytes /\ Len((a \o b) \o c) = Len(a \o b) + Len(c)
    BY <1>1, <1>3, Joins
  <2>. QED BY <1>1, <1>3, <2>1
<1>5. ((a \o b) \o c) \o d \in Bytes /\ Len(((a \o b) \o c) \o d) = 12
  <2>1. /\ ((a \o b) \o c) \o d \in Bytes
        /\ Len(((a \o b) \o c) \o d) = Len((a \o b) \o c) + Len(d)
    BY <1>1, <1>4, Joins
  <2>. QED BY <1>1, <1>4, <2>1
<1>. QED BY <1>2, <1>5

LEMMA EntryIsBytes ==
  ASSUME NEW field, NEW len, field.id \in Nat, len \in Nat,
         FieldEncoding(field.ty) \in Byte
  PROVE  EntryBytes(field, len) \in Bytes /\ Len(EntryBytes(field, len)) = 8
<1> DEFINE a == LE(2, field.id)
           b == <<FieldEncoding(field.ty), 0>>
           c == LE(4, len)
<1>1. a \in Bytes /\ Len(a) = 2 /\ c \in Bytes /\ Len(c) = 4
  <2>1. 4 \in 0 .. 4 /\ 2 \in 0 .. 4
    OBVIOUS
  <2>. QED BY <2>1, LEIsBytes
<1>2. b \in Bytes /\ Len(b) = 2
  BY DEF Bytes, Byte
<1>3. EntryBytes(field, len) = a \o b \o c
  BY DEF EntryBytes
<1> HIDE DEF a, b, c
<1>4. a \o b \in Bytes /\ Len(a \o b) = 4
  <2>1. a \o b \in Bytes /\ Len(a \o b) = Len(a) + Len(b)
    BY <1>1, <1>2, Joins
  <2>. QED BY <1>1, <1>2, <2>1
<1>5. (a \o b) \o c \in Bytes /\ Len((a \o b) \o c) = 8
  <2>1. (a \o b) \o c \in Bytes /\ Len((a \o b) \o c) = Len(a \o b) + Len(c)
    BY <1>1, <1>4, Joins
  <2>. QED BY <1>1, <1>4, <2>1
<1>. QED BY <1>3, <1>5

\* A record whose fields keep the promise.
IsSound(ty) ==
  /\ AtLevel(ty) /\ ty.k = "record"
  /\ FieldsKeep(ty)
  /\ ty.key \in Nat
  /\ \A i \in 1 .. Len(ty.fields) : ty.fields[i].id \in Nat

LEMMA SoundRecord ==
  ASSUME NEW ty, IsSound(ty)
  PROVE  /\ Len(ty.fields) \in Nat
         /\ HeaderBytes(ty) \in Bytes /\ Len(HeaderBytes(ty)) = 12
         /\ \A i \in 1 .. Len(ty.fields) :
              /\ Keeps(ty.fields[i].ty) /\ Writes(ty.fields[i].ty)
              /\ \A len \in Nat : /\ EntryBytes(ty.fields[i], len) \in Bytes
                                  /\ Len(EntryBytes(ty.fields[i], len)) = 8
         /\ StepsCover(ty)
         /\ Permutes(FieldOrder(ty), Len(ty.fields))
<1>1. Len(ty.fields) \in Nat /\ ty.key \in Nat
  BY DEF IsSound, FieldsKeep
<1>2. \A i \in 1 .. Len(ty.fields) :
        /\ Keeps(ty.fields[i].ty) /\ Writes(ty.fields[i].ty)
        /\ ty.fields[i].id \in Nat /\ FieldEncoding(ty.fields[i].ty) \in Byte
  BY DEF IsSound, FieldsKeep, Keeps, Writes
<1>3. \A i \in 1 .. Len(ty.fields) : \A len \in Nat :
         EntryBytes(ty.fields[i], len) \in Bytes /\ Len(EntryBytes(ty.fields[i], len)) = 8
  BY <1>2, EntryIsBytes
<1>4. Permutes(FieldOrder(ty), Len(ty.fields))
  BY <1>1, <1>2, OrderPermutes
<1>5. StepsCover(ty)
  BY <1>1, <1>4, RecordStepsCover
<1>6. HeaderBytes(ty) \in Bytes /\ Len(HeaderBytes(ty)) = 12
  BY <1>1, HeaderIsBytes
<1>. QED BY <1>1, <1>2, <1>3, <1>4, <1>5, <1>6

\* What the steps have left, by what they are for.
LEMMA HeaderStepRest ==
  ASSUME NEW ty, NEW s, NEW at
  PROVE  StepRest(ty, s, AStep("header", 0), at)
           = SubSeq(HeaderBytes(ty), s.headerCursor + 1, 12)
BY DEF StepRest, AStep

LEMMA EntryStepRest ==
  ASSUME NEW ty, NEW s, NEW at, NEW i
  PROVE  StepRest(ty, s, AStep("entry", i), at)
           = SubSeq(EntryBytes(ty.fields[i], s.fields[i].len),
                    s.fields[i].entryCursor + 1, 8)
BY DEF StepRest, AStep

LEMMA FieldStepRest ==
  ASSUME NEW ty, NEW s, NEW at, NEW i
  PROVE  StepRest(ty, s, AStep("field", i), at)
           = Left(ty.fields[i].ty, s.fields[i].started, s.fields[i].ser,
                  s.fields[i].slot, at)
BY DEF StepRest, AStep

\* The step has nothing left to do.
StepDone(ty, s, step) ==
  CASE step.what = "header" -> s.headerCursor = 12
    [] step.what = "entry" -> s.fields[step.i].entryCursor = 8
    [] step.what = "field" -> /\ s.fields[step.i].started
                              /\ Over(ty.fields[step.i].ty, s.fields[step.i].ser)

LEMMA HeaderStepDone ==
  ASSUME NEW ty, NEW s
  PROVE  StepDone(ty, s, AStep("header", 0)) <=> s.headerCursor = 12
BY DEF StepDone, AStep

LEMMA EntryStepDone ==
  ASSUME NEW ty, NEW s, NEW i
  PROVE  StepDone(ty, s, AStep("entry", i)) <=> s.fields[i].entryCursor = 8
BY DEF StepDone, AStep

LEMMA FieldStepDone ==
  ASSUME NEW ty, NEW s, NEW i
  PROVE  StepDone(ty, s, AStep("field", i))
           <=> s.fields[i].started /\ Over(ty.fields[i].ty, s.fields[i].ser)
BY DEF StepDone, AStep

\* A step is for the header, for the entry of a field or for a field.
LEMMA StepRestIsBytes ==
  ASSUME NEW ty, NEW s, NEW step, NEW at,
         IsSound(ty), RecordGoing(ty, s), IsStep(ty, step), at \in Nat
  PROVE  /\ StepRest(ty, s, step, at) \in Bytes
         /\ StepDone(ty, s, step) => StepRest(ty, s, step, at) = << >>
<1>1. /\ HeaderBytes(ty) \in Bytes /\ Len(HeaderBytes(ty)) = 12
      /\ \A i \in 1 .. Len(ty.fields) :
           /\ Writes(ty.fields[i].ty) /\ Keeps(ty.fields[i].ty)
           /\ \A len \in Nat : /\ EntryBytes(ty.fields[i], len) \in Bytes
                               /\ Len(EntryBytes(ty.fields[i], len)) = 8
  BY SoundRecord
<1>2. /\ ty.key # 0 => s.headerCursor \in 0 .. 12
      /\ \A i \in 1 .. Len(ty.fields) :
           /\ ty.key # 0 => s.fields[i].entryCursor \in 0 .. 8 /\ s.fields[i].len \in Nat
           /\ s.fields[i].started \in BOOLEAN
           /\ Underway(ty.fields[i].ty, s.fields[i].started, s.fields[i].ser,
                       s.fields[i].slot)
  BY DEF RecordGoing
<1>3. CASE ty.key # 0 /\ step = AStep("header", 0)
  <2>1. StepRest(ty, s, step, at) = SubSeq(HeaderBytes(ty), s.headerCursor + 1, 12)
    BY <1>3, HeaderStepRest
  <2>2. 12 \in Nat
    OBVIOUS
  <2>3. /\ SubSeq(HeaderBytes(ty), s.headerCursor + 1, 12) \in Bytes
        /\ s.headerCursor = 12 => SubSeq(HeaderBytes(ty), s.headerCursor + 1, 12) = << >>
    BY <1>1, <1>2, <1>3, <2>2, LastOf
  <2>4. StepDone(ty, s, step) <=> s.headerCursor = 12
    BY <1>3, HeaderStepDone
  <2>. QED BY <2>1, <2>3, <2>4
<1>4. ASSUME NEW i \in 1 .. Len(ty.fields), ty.key # 0, step = AStep("entry", i)
      PROVE  /\ StepRest(ty, s, step, at) \in Bytes
             /\ StepDone(ty, s, step) => StepRest(ty, s, step, at) = << >>
  <2> DEFINE h == EntryBytes(ty.fields[i], s.fields[i].len)
             c == s.fields[i].entryCursor
  <2>1. StepRest(ty, s, step, at) = SubSeq(h, c + 1, 8)
    <3>1. StepRest(ty, s, AStep("entry", i), at) = SubSeq(h, c + 1, 8)
      BY EntryStepRest
    <3>. QED BY <1>4, <3>1
  <2>2. 8 \in Nat /\ h \in Bytes /\ Len(h) = 8 /\ c \in 0 .. 8
    BY <1>1, <1>2, <1>4
  <2>3. StepDone(ty, s, step) <=> c = 8
    BY <1>4, EntryStepDone
  <2> HIDE DEF h, c
  <2>4. SubSeq(h, c + 1, 8) \in Bytes /\ c = 8 => SubSeq(h, c + 1, 8) = << >>
    BY <2>2, LastOf
  <2>5. SubSeq(h, c + 1, 8) \in Bytes
    BY <2>2, LastOf
  <2>. QED BY <2>1, <2>2, <2>3, <2>4, <2>5
<1>5. ASSUME NEW i \in 1 .. Len(ty.fields), step = AStep("field", i)
      PROVE  /\ StepRest(ty, s, step, at) \in Bytes
             /\ StepDone(ty, s, step) => StepRest(ty, s, step, at) = << >>
  <2> DEFINE f == s.fields[i]
             fty == ty.fields[i].ty
  <2>1. StepRest(ty, s, step, at) = Left(fty, f.started, f.ser, f.slot, at)
    <3>1. StepRest(ty, s, AStep("field", i), at)
            = Left(fty, f.started, f.ser, f.slot, at)
      BY FieldStepRest
    <3>. QED BY <1>5, <3>1
  <2>2. StepDone(ty, s, step) <=> f.started /\ Over(fty, f.ser)
    BY <1>5, FieldStepDone
  <2>3. Keeps(fty) /\ f.started \in BOOLEAN /\ Underway(fty, f.started, f.ser, f.slot)
    BY <1>1, <1>2, <1>5
  <2> HIDE DEF f, fty
  <2>4. Left(fty, f.started, f.ser, f.slot, at) \in Bytes
    BY <2>3, LeftIsBytes
  <2>5. f.started /\ Over(fty, f.ser) => Left(fty, f.started, f.ser, f.slot, at) = << >>
    BY DEF Left, Over
  <2>. QED BY <2>1, <2>2, <2>4, <2>5
<1>. QED BY <1>3, <1>4, <1>5 DEF IsStep

\* What every step has left, as things that are written one behind the other.
RecordItems(ty, s) ==
  [j \in 1 .. Len(StepsOf(ty)) |->
     [p \in Nat |-> StepRest(ty, s, StepsOf(ty)[j], p)]]

LEMMA RecordItemsPlaced ==
  ASSUME NEW ty, NEW s, IsSound(ty), RecordGoing(ty, s)
  PROVE  /\ RecordItems(ty, s) \in Seq(Placed)
         /\ Len(RecordItems(ty, s)) = Len(StepsOf(ty))
         /\ Len(StepsOf(ty)) \in Nat
<1> DEFINE m == Len(StepsOf(ty))
           Item(j) == [p \in Nat |-> StepRest(ty, s, StepsOf(ty)[j], p)]
<1>1. m \in Nat /\ \A j \in 1 .. m : IsStep(ty, StepsOf(ty)[j])
  BY SoundRecord DEF StepsCover
<1>2. \A j \in 1 .. m : \A p \in Nat : StepRest(ty, s, StepsOf(ty)[j], p) \in Bytes
  BY <1>1, StepRestIsBytes
<1>3. \A j \in 1 .. m : Item(j) \in Placed
  BY <1>2 DEF Placed
<1>4. RecordItems(ty, s) = [j \in 1 .. m |-> Item(j)]
  BY DEF RecordItems
<1> HIDE DEF m, Item
<1>. QED BY <1>1, <1>3, <1>4 DEF m

LEMMA RecordRestIs ==
  ASSUME NEW ty, NEW s, NEW at, IsSound(ty), Going(ty, s), at \in Nat
  PROVE  /\ RecordGoing(ty, s)
         /\ Rest(ty, s, at) = Laid(RecordItems(ty, s), at)
         /\ Rest(ty, s, at) \in Bytes
<1> DEFINE steps == StepsOf(ty)
           m == Len(steps)
           items == RecordItems(ty, s)
           Add(bytes, j) == bytes \o StepRest(ty, s, steps[j], at + Len(bytes))
           Is(g) == g = [j \in 0 .. m |-> IF j = 0 THEN << >> ELSE Add(g[j - 1], j)]
           upto == CHOOSE g : Is(g)
<1>0. AtLevel(ty) /\ ty.k = "record"
  BY DEF IsSound
<1>1. RecordGoing(ty, s)
  <2>1. \A z : Going(ty, z) <=> RecordGoing(ty, z)
    BY <1>0, RecordLevel
  <2>. QED BY <2>1
<1>2. items \in Seq(Placed) /\ Len(items) = m /\ m \in Nat
  BY <1>1, RecordItemsPlaced
<1>3. Rest(ty, s, at) = upto[m]
  <2>1. \A z, p : Rest(ty, z, p) = RecordRest(ty, z, p)
    BY <1>0, RecordLevel
  <2>2. Rest(ty, s, at) = RecordRest(ty, s, at)
    BY <2>1
  <2>3. RecordRest(ty, s, at) = upto[m]
    BY DEF RecordRest, StepsOf
  <2>. QED BY <2>2, <2>3
<1>4. PICK f : LaysOut(f, m, items, at)
  BY <1>2, SomeLaysOut
<1>5. /\ f[0] = << >> /\ f \in [0 .. m -> Bytes]
      /\ \A j \in 1 .. m : f[j] = f[j - 1] \o items[j][at + Len(f[j - 1])]
  BY <1>4 DEF LaysOut
<1>6. ASSUME NEW j \in 1 .. m, NEW x \in Bytes
      PROVE  items[j][at + Len(x)] = StepRest(ty, s, steps[j], at + Len(x))
  <2>1. at + Len(x) \in Nat
    BY NoLength
  <2>. QED BY <2>1 DEF RecordItems
<1> HIDE DEF items, steps, m
<1>7. Is([j \in 0 .. m |-> f[j]])
  <2> DEFINE h == [j \in 0 .. m |-> f[j]]
  <2>1. ASSUME NEW j \in 0 .. m
        PROVE  h[j] = IF j = 0 THEN << >> ELSE Add(h[j - 1], j)
    <3>1. CASE j = 0
      BY <1>2, <1>5, <3>1
    <3>2. CASE j # 0
      <4>1. j \in 1 .. m /\ j - 1 \in 0 .. m
        BY <1>2, <3>2
      <4>2. f[j - 1] \in Bytes
        BY <1>5, <4>1
      <4>3. f[j] = f[j - 1] \o items[j][at + Len(f[j - 1])]
        BY <1>5, <4>1
      <4>4. items[j][at + Len(f[j - 1])] = StepRest(ty, s, steps[j], at + Len(f[j - 1]))
        BY <1>6, <4>1, <4>2
      <4>5. h[j] = f[j] /\ h[j - 1] = f[j - 1]
        BY <4>1
      <4>. QED BY <3>2, <4>3, <4>4, <4>5
    <3>. QED BY <3>1, <3>2
  <2> HIDE DEF Add
  <2>. QED BY <2>1
<1>8. Is(upto)
  <2> HIDE DEF Is
  <2>. QED BY <1>7
<1> HIDE DEF upto
<1>9. upto[0] = << >> /\ \A j \in 1 .. m : upto[j] = Add(upto[j - 1], j)
  <2> HIDE DEF Add
  <2>1. \A j \in 0 .. m : upto[j] = IF j = 0 THEN << >> ELSE Add(upto[j - 1], j)
    BY <1>8
  <2>. QED BY <1>2, <2>1
<1> DEFINE D == {j \in 0 .. m : upto[j] = f[j]}
<1>10. 0 \in D
  BY <1>2, <1>5, <1>9
<1>11. ASSUME NEW j \in 0 .. m - 1, j \in D PROVE j + 1 \in D
  <2>1. j + 1 \in 1 .. m /\ j \in 0 .. m /\ j + 1 \in 0 .. m /\ (j + 1) - 1 = j
    BY <1>2
  <2>2. upto[j] = f[j] /\ f[j] \in Bytes
    BY <1>5, <1>11, <2>1
  <2>3. upto[j + 1] = Add(upto[j], j + 1)
    <3> HIDE DEF Add
    <3>. QED BY <1>9, <2>1
  <2>4. f[j + 1] = f[j] \o items[j + 1][at + Len(f[j])]
    BY <1>5, <2>1
  <2>5. items[j + 1][at + Len(f[j])] = StepRest(ty, s, steps[j + 1], at + Len(f[j]))
    BY <1>6, <2>1, <2>2
  <2>6. upto[j + 1] = f[j + 1]
    BY <2>2, <2>3, <2>4, <2>5
  <2>. QED BY <2>1, <2>6
<1>12. \A j \in 0 .. m : j \in D
  <2> HIDE DEF D
  <2>. QED BY <1>2, <1>10, <1>11, Induction
<1>13. upto[m] = f[m]
  BY <1>2, <1>12
<1>14. f[m] = Laid(items, at) /\ f[m] \in Bytes
  BY <1>2, <1>4, <1>5 DEF LaysOut
<1>. QED BY <1>1, <1>3, <1>13, <1>14 DEF items

LaidFrom(items, j, pos) ==
  /\ items[j][pos] \in Bytes
  /\ pos + Len(items[j][pos]) \in Nat
  /\ SubSeq(items, j + 1, Len(items)) \in Seq(Placed)
  /\ Laid(items, pos) = items[j][pos]
       \o Laid(SubSeq(items, j + 1, Len(items)), pos + Len(items[j][pos]))

\* Where everything before a thing has vanished, it is the first.
LEMMA LaidAtStep ==
  ASSUME NEW items, NEW j, NEW pos,
         items \in Seq(Placed), j \in 1 .. Len(items), pos \in Nat,
         \A i \in 1 .. j - 1 : \A p \in Nat : items[i][p] = << >>
  PROVE  LaidFrom(items, j, pos)
<1> DEFINE n == Len(items)
           a == SubSeq(items, 1, j - 1)
           b == SubSeq(items, j + 1, n)
           x == items[j]
<1>1. n \in Nat /\ x \in Placed /\ j \in 1 .. n
  OBVIOUS
<1>2. /\ a \in Seq(Placed) /\ Len(a) = j - 1
      /\ \A i \in 1 .. j - 1 : a[i] = items[i]
  <2>1. /\ a \in Seq(Placed) /\ Len(a) = IF 1 <= j - 1 THEN (j - 1) - 1 + 1 ELSE 0
        /\ \A i \in 1 .. (j - 1) - 1 + 1 : a[i] = items[1 + i - 1]
    <3>1. 1 \in Int /\ j - 1 \in Int /\ \A i \in 1 .. j - 1 : items[i] \in Placed
      OBVIOUS
    <3>. QED BY <3>1, SubSeqProperties
  <2>2. (j - 1) - 1 + 1 = j - 1 /\ \A i \in 1 .. j - 1 : 1 + i - 1 = i
    BY <1>1
  <2>3. Len(a) = j - 1
    BY <1>1, <2>1
  <2> HIDE DEF a, n
  <2>. QED BY <2>1, <2>2, <2>3
<1>3. b \in Seq(Placed)
  <2>1. j + 1 \in Int /\ n \in Int /\ \A i \in j + 1 .. n : items[i] \in Placed
    BY <1>1
  <2>. QED BY <2>1, SubSeqProperties
<1>4. items = a \o (<<x>> \o b)
  <2>1. SubSeq(items, j, n) = <<items[j]>> \o SubSeq(items, j + 1, n)
    <3>1. n \in j .. n
      BY <1>1
    <3>. QED BY <1>1, <3>1, SubSeqRecursiveFirst
  <2>2. SubSeq(items, 1, j - 1) \o SubSeq(items, (j - 1) + 1, n) = SubSeq(items, 1, n)
    <3>1. 1 \in 1 .. n + 1 /\ j - 1 \in 1 - 1 .. n /\ n \in j - 1 .. n
      BY <1>1
    <3>. QED BY <3>1, ConcatAdjacentSubSeq
  <2>3. SubSeq(items, 1, n) = items
    BY SubSeqFull
  <2>4. (j - 1) + 1 = j
    OBVIOUS
  <2>. QED BY <2>1, <2>2, <2>3, <2>4
<1> HIDE DEF a, b, n, x
<1>5. Laid(a, pos) = << >>
  <2>1. \A i \in 1 .. Len(a) : \A p \in Nat : a[i][p] = << >>
    BY <1>2
  <2>. QED BY <1>2, <2>1, LaidNothing
<1>6. /\ Laid(<<x>> \o b, pos) = x[pos] \o Laid(b, pos + Len(x[pos]))
      /\ x[pos] \in Bytes /\ pos + Len(x[pos]) \in Nat
  BY <1>1, <1>3, LaidFirst
<1>7. <<x>> \o b \in Seq(Placed)
  <2>1. <<x>> \in Seq(Placed)
    BY <1>1, LaidOne
  <2>. QED BY <1>3, <2>1, ConcatProperties
<1>8. Laid(a \o (<<x>> \o b), pos) = Laid(a, pos) \o Laid(<<x>> \o b, pos + Len(Laid(a, pos)))
  BY <1>2, <1>7, LaidSplit
<1>9. pos + Len(<< >>) = pos
  BY NoBytes
<1>10. Laid(items, pos) = Laid(<<x>> \o b, pos)
  <2>1. Laid(<<x>> \o b, pos) \in Bytes
    BY <1>7, LaidIsBytes
  <2>2. << >> \o Laid(<<x>> \o b, pos) = Laid(<<x>> \o b, pos)
    BY <2>1, NoBytes, Joins
  <2>. QED BY <1>4, <1>5, <1>8, <1>9, <2>2
<1>. QED BY <1>3, <1>6, <1>10 DEF b, x, n, LaidFrom

\* One field gets another state.
HasReplaced(ty, s, i, f, t) ==
  /\ IsRecordState(ty, t)
  /\ t.headerCursor = s.headerCursor
  /\ t.fields[i] = f
  /\ \A j \in 1 .. Len(ty.fields) : j # i => t.fields[j] = s.fields[j]

LEMMA FieldReplaced ==
  ASSUME NEW ty, NEW s, NEW i, NEW f,
         IsRecordState(ty, s), i \in 1 .. Len(ty.fields), IsRecord(f, FieldNames)
  PROVE  HasReplaced(ty, s, i, f, [s EXCEPT !.fields[i] = f])
<1> DEFINE n == Len(ty.fields)
           t == [s EXCEPT !.fields[i] = f]
           g == [s.fields EXCEPT ![i] = f]
<1>1. /\ s = [name \in {"headerCursor", "fields"} |-> s[name]]
      /\ s.fields = [j \in 1 .. n |-> s.fields[j]]
      /\ \A j \in 1 .. n : IsRecord(s.fields[j], FieldNames)
  BY DEF IsRecordState, IsRecord
<1>2. /\ t = [name \in {"headerCursor", "fields"} |-> t[name]]
      /\ t.headerCursor = s.headerCursor /\ t.fields = g
  BY <1>1
<1>3. g = [j \in 1 .. n |-> g[j]] /\ g[i] = f /\ \A j \in 1 .. n : j # i => g[j] = s.fields[j]
  BY <1>1
<1> HIDE DEF t, g
<1>4. \A j \in 1 .. n : IsRecord(g[j], FieldNames)
  BY <1>1, <1>3
<1>5. IsRecordState(ty, t)
  BY <1>2, <1>3, <1>4 DEF IsRecordState, IsRecord
<1>. QED BY <1>2, <1>3, <1>5 DEF t, HasReplaced

-----------------------------------------------------------------------------
(* Records: one step *)

\* The steps for other parts have left what they had.
LeavesStep(ty, s, t, step) ==
  /\ StepDone(ty, t, step) <=> StepDone(ty, s, step)
  /\ \A at \in Nat : StepRest(ty, t, step, at) = StepRest(ty, s, step, at)

LeavesOthers(ty, s, t, step) ==
  \A other : IsStep(ty, other) /\ other # step => LeavesStep(ty, s, t, other)

\* The answer a of a step that found x to write.
StepAnswers(ty, k, s, step, x, a) ==
  \E rest \in Bytes :
    /\ Outcome(k, x, a.sink, a.r, rest)
    /\ a.r # "error" => /\ RecordGoing(ty, a.s)
                        /\ StepRest(ty, a.s, step, SinkPos(a.sink)) = rest
                        /\ LeavesOthers(ty, s, a.s, step)
    /\ a.r = "ready" => StepDone(ty, a.s, step)

LEMMA EntryUntouched ==
  ASSUME NEW ty, NEW s, NEW t, NEW i,
         t.fields[i].entryCursor = s.fields[i].entryCursor,
         t.fields[i].len = s.fields[i].len
  PROVE  LeavesStep(ty, s, t, AStep("entry", i))
<1>1. StepDone(ty, t, AStep("entry", i)) <=> StepDone(ty, s, AStep("entry", i))
  BY EntryStepDone
<1>2. ASSUME NEW at
      PROVE  StepRest(ty, t, AStep("entry", i), at) = StepRest(ty, s, AStep("entry", i), at)
  <2>1. StepRest(ty, t, AStep("entry", i), at)
          = SubSeq(EntryBytes(ty.fields[i], t.fields[i].len),
                   t.fields[i].entryCursor + 1, 8)
    BY EntryStepRest
  <2>2. StepRest(ty, s, AStep("entry", i), at)
          = SubSeq(EntryBytes(ty.fields[i], s.fields[i].len),
                   s.fields[i].entryCursor + 1, 8)
    BY EntryStepRest
  <2>. QED BY <2>1, <2>2
<1>. QED BY <1>1, <1>2 DEF LeavesStep

LEMMA FieldUntouched ==
  ASSUME NEW ty, NEW s, NEW t, NEW i,
         t.fields[i].started = s.fields[i].started,
         t.fields[i].ser = s.fields[i].ser,
         t.fields[i].slot = s.fields[i].slot
  PROVE  LeavesStep(ty, s, t, AStep("field", i))
<1>1. StepDone(ty, t, AStep("field", i)) <=> StepDone(ty, s, AStep("field", i))
  BY FieldStepDone
<1>2. ASSUME NEW at
      PROVE  StepRest(ty, t, AStep("field", i), at) = StepRest(ty, s, AStep("field", i), at)
  <2>1. StepRest(ty, t, AStep("field", i), at)
          = Left(ty.fields[i].ty, t.fields[i].started, t.fields[i].ser,
                 t.fields[i].slot, at)
    BY FieldStepRest
  <2>2. StepRest(ty, s, AStep("field", i), at)
          = Left(ty.fields[i].ty, s.fields[i].started, s.fields[i].ser,
                 s.fields[i].slot, at)
    BY FieldStepRest
  <2>. QED BY <2>1, <2>2
<1>. QED BY <1>1, <1>2 DEF LeavesStep

LEMMA HeaderUntouched ==
  ASSUME NEW ty, NEW s, NEW t, t.headerCursor = s.headerCursor
  PROVE  LeavesStep(ty, s, t, AStep("header", 0))
<1>1. StepDone(ty, t, AStep("header", 0)) <=> StepDone(ty, s, AStep("header", 0))
  BY HeaderStepDone
<1>2. ASSUME NEW at
      PROVE  StepRest(ty, t, AStep("header", 0), at) = StepRest(ty, s, AStep("header", 0), at)
  <2>1. StepRest(ty, t, AStep("header", 0), at)
          = SubSeq(HeaderBytes(ty), t.headerCursor + 1, 12)
    BY HeaderStepRest
  <2>2. StepRest(ty, s, AStep("header", 0), at)
          = SubSeq(HeaderBytes(ty), s.headerCursor + 1, 12)
    BY HeaderStepRest
  <2>. QED BY <2>1, <2>2
<1>. QED BY <1>1, <1>2 DEF LeavesStep

LEMMA HeaderStep ==
  ASSUME NEW ty, NEW s, NEW k,
         IsSound(ty), ty.key # 0, RecordGoing(ty, s), IsSink(k)
  PROVE  LET step == AStep("header", 0)
         IN  StepAnswers(ty, k, s, step, StepRest(ty, s, step, SinkPos(k)),
                         Step(ty, step, s, k))
<1> DEFINE step == AStep("header", 0)
           h == HeaderBytes(ty)
           x == SubSeq(h, s.headerCursor + 1, 12)
           w == Write(x, k)
           c == 12 - Len(w.s)
           t == [s EXCEPT !.headerCursor = c]
           a == Step(ty, step, s, k)
<1>1. h \in Bytes /\ Len(h) = 12 /\ s.headerCursor \in 0 .. 12 /\ 12 \in Nat
      /\ IsRecordState(ty, s)
  BY SoundRecord DEF RecordGoing
<1>2. StepRest(ty, s, step, SinkPos(k)) = x
  BY HeaderStepRest
<1>3. a.s = t /\ a.sink = w.sink /\ a.r = w.r
  <2>1. a = PollHeader(ty, s, k)
    <3>1. step.what = "header"
      BY DEF AStep
    <3> HIDE DEF step
    <3>. QED BY <3>1 DEF Step
  <2>2. PollHeader(ty, s, k) = Answer(t, w.sink, w.r)
    BY DEF PollHeader, HeaderAfter
  <2> HIDE DEF a, w, t
  <2>. QED BY <2>1, <2>2 DEF Answer
<1> HIDE DEF a, h
<1>4. x \in Bytes
  BY <1>1, LastOf
<1>5. Outcome(k, x, w.sink, w.r, w.s)
  <2> HIDE DEF x
  <2>. QED BY <1>4, WriteOutcome
<1> HIDE DEF w
<1>6. w.s \in Bytes /\ \E v \in Bytes : x = v \o w.s
  BY <1>5 DEF Outcome, Midway
<1>7. c \in 0 .. 12 /\ SubSeq(h, c + 1, 12) = w.s /\ (w.s = << >> => c = 12)
  <2>1. PICK v \in Bytes : x = v \o w.s
    BY <1>6
  <2>2. IsRestOf(h, 12, w.s)
    BY <1>1, <1>6, <2>1, RestOfRest
  <2>. QED BY <2>2 DEF IsRestOf
<1> HIDE DEF c
<1>8. t.headerCursor = c /\ t.fields = s.fields /\ IsRecordState(ty, t)
  BY <1>1 DEF IsRecordState, IsRecord
<1> HIDE DEF t, x
<1>9. RecordGoing(ty, t)
  BY <1>7, <1>8 DEF RecordGoing
<1>10. \A at : StepRest(ty, t, step, at) = w.s
  <2>1. TAKE at
  <2>2. StepRest(ty, t, step, at) = SubSeq(HeaderBytes(ty), t.headerCursor + 1, 12)
    BY HeaderStepRest
  <2>. QED BY <1>7, <1>8, <2>2 DEF h
<1>11. w.r = "ready" => StepDone(ty, t, step)
  <2>1. w.r = "ready" => w.s = << >>
    BY <1>5 DEF Outcome, Stands
  <2>. QED BY <1>7, <1>8, <2>1, HeaderStepDone
<1>12. LeavesOthers(ty, s, t, step)
  <2>1. ASSUME NEW i
        PROVE  /\ LeavesStep(ty, s, t, AStep("entry", i))
               /\ LeavesStep(ty, s, t, AStep("field", i))
    <3>1. t.fields[i] = s.fields[i]
      BY <1>8
    <3>2. LeavesStep(ty, s, t, AStep("entry", i))
      BY <3>1, EntryUntouched
    <3>3. LeavesStep(ty, s, t, AStep("field", i))
      BY <3>1, FieldUntouched
    <3>. QED BY <3>2, <3>3
  <2> HIDE DEF step
  <2>2. SUFFICES ASSUME NEW other, IsStep(ty, other), other # step
                 PROVE  LeavesStep(ty, s, t, other)
    BY DEF LeavesOthers
  <2>3. PICK i : other = AStep("entry", i) \/ other = AStep("field", i)
    BY <2>2 DEF IsStep, step
  <2>. QED BY <2>1, <2>3
<1> HIDE DEF step
<1>13. StepAnswers(ty, k, s, step, x, a)
  BY <1>3, <1>5, <1>6, <1>9, <1>10, <1>11, <1>12 DEF StepAnswers
<1>. QED BY <1>2, <1>13 DEF a, step

\* A step for a part of one field.
LEMMA OtherFieldsLeft ==
  ASSUME NEW ty, NEW s, NEW i, NEW f, NEW what,
         IsRecordState(ty, s), i \in 1 .. Len(ty.fields), IsRecord(f, FieldNames),
         what \in {"entry", "field"},
         what = "entry" => /\ f.started = s.fields[i].started
                           /\ f.ser = s.fields[i].ser /\ f.slot = s.fields[i].slot,
         what = "field" => /\ f.entryCursor = s.fields[i].entryCursor
                           /\ f.len = s.fields[i].len
  PROVE  LeavesOthers(ty, s, [s EXCEPT !.fields[i] = f], AStep(what, i))
<1> DEFINE t == [s EXCEPT !.fields[i] = f]
<1>1. /\ t.headerCursor = s.headerCursor /\ t.fields[i] = f
      /\ \A j \in 1 .. Len(ty.fields) : j # i => t.fields[j] = s.fields[j]
  <2>1. HasReplaced(ty, s, i, f, t)
    BY FieldReplaced
  <2> HIDE DEF t
  <2>. QED BY <2>1 DEF HasReplaced
<1> HIDE DEF t
<1>2. SUFFICES ASSUME NEW other, IsStep(ty, other), other # AStep(what, i)
               PROVE  LeavesStep(ty, s, t, other)
  BY DEF LeavesOthers, t
<1>3. CASE other = AStep("header", 0)
  BY <1>1, <1>3, HeaderUntouched
<1>4. ASSUME NEW j \in 1 .. Len(ty.fields), j # i
      PROVE  /\ LeavesStep(ty, s, t, AStep("entry", j))
             /\ LeavesStep(ty, s, t, AStep("field", j))
  <2>1. t.fields[j] = s.fields[j]
    BY <1>1, <1>4
  <2>2. LeavesStep(ty, s, t, AStep("entry", j))
    BY <2>1, EntryUntouched
  <2>3. LeavesStep(ty, s, t, AStep("field", j))
    BY <2>1, FieldUntouched
  <2>. QED BY <2>2, <2>3
<1>5. CASE other = AStep("entry", i)
  <2>1. what = "field"
    BY <1>2, <1>5
  <2>2. f.entryCursor = s.fields[i].entryCursor /\ f.len = s.fields[i].len
    BY <2>1
  <2>. QED BY <1>1, <1>5, <2>2, EntryUntouched
<1>6. CASE other = AStep("field", i)
  <2>1. what = "entry"
    BY <1>2, <1>6
  <2>2. /\ f.started = s.fields[i].started /\ f.ser = s.fields[i].ser
        /\ f.slot = s.fields[i].slot
    BY <2>1
  <2>. QED BY <1>1, <1>6, <2>2, FieldUntouched
<1>. QED BY <1>2, <1>3, <1>4, <1>5, <1>6 DEF IsStep

LEMMA EntryStep ==
  ASSUME NEW ty, NEW s, NEW k, NEW i,
         IsSound(ty), ty.key # 0, RecordGoing(ty, s), IsSink(k),
         i \in 1 .. Len(ty.fields)
  PROVE  LET step == AStep("entry", i)
         IN  StepAnswers(ty, k, s, step, StepRest(ty, s, step, SinkPos(k)),
                         Step(ty, step, s, k))
<1> DEFINE step == AStep("entry", i)
           f == s.fields[i]
           h == EntryBytes(ty.fields[i], f.len)
           x == SubSeq(h, f.entryCursor + 1, 8)
           w == Write(x, k)
           c == 8 - Len(w.s)
           g == [f EXCEPT !.entryCursor = c]
           t == [s EXCEPT !.fields[i] = g]
           a == Step(ty, step, s, k)
<1>1. /\ f.entryCursor \in 0 .. 8 /\ f.len \in Nat
      /\ h \in Bytes /\ Len(h) = 8 /\ 8 \in Nat
      /\ IsRecordState(ty, s) /\ IsRecord(f, FieldNames)
  <2>1. IsRecordState(ty, s) /\ f.entryCursor \in 0 .. 8 /\ f.len \in Nat
    BY DEF RecordGoing
  <2>2. IsRecord(f, FieldNames)
    BY <2>1 DEF IsRecordState
  <2>3. h \in Bytes /\ Len(h) = 8
    <3>1. \A len \in Nat : /\ EntryBytes(ty.fields[i], len) \in Bytes
                           /\ Len(EntryBytes(ty.fields[i], len)) = 8
      BY SoundRecord
    <3>. QED BY <2>1, <3>1
  <2>. QED BY <2>1, <2>2, <2>3
<1>2. StepRest(ty, s, step, SinkPos(k)) = x
  BY EntryStepRest
<1>3. a.s = t /\ a.sink = w.sink /\ a.r = w.r
  <2>1. a = FieldStep(s, i, PollEntry(ty.fields[i], f, k))
    <3>1. step.what = "entry" /\ step.i = i
      BY DEF AStep
    <3> HIDE DEF step
    <3>. QED BY <3>1 DEF Step
  <2>2. PollEntry(ty.fields[i], f, k) = Answer(g, w.sink, w.r)
    BY DEF PollEntry, EntryAfter
  <2> HIDE DEF a, w, g
  <2>3. FieldStep(s, i, Answer(g, w.sink, w.r)) = Answer(t, w.sink, w.r)
    BY DEF FieldStep, Answer
  <2> HIDE DEF t
  <2>. QED BY <2>1, <2>2, <2>3 DEF Answer
<1> HIDE DEF a, h
<1>4. x \in Bytes
  BY <1>1, LastOf
<1>5. Outcome(k, x, w.sink, w.r, w.s)
  <2> HIDE DEF x
  <2>. QED BY <1>4, WriteOutcome
<1> HIDE DEF w
<1>6. w.s \in Bytes /\ \E v \in Bytes : x = v \o w.s
  BY <1>5 DEF Outcome, Midway
<1>7. c \in 0 .. 8 /\ SubSeq(h, c + 1, 8) = w.s /\ (w.s = << >> => c = 8)
  <2>1. PICK v \in Bytes : x = v \o w.s
    BY <1>6
  <2>2. IsRestOf(h, 8, w.s)
    BY <1>1, <1>6, <2>1, RestOfRest
  <2>. QED BY <2>2 DEF IsRestOf
<1> HIDE DEF c, f
<1>8. /\ IsRecord(g, FieldNames) /\ g.entryCursor = c /\ g.len = f.len
      /\ g.started = f.started /\ g.ser = f.ser /\ g.slot = f.slot
  BY <1>1 DEF IsRecord, FieldNames
<1> HIDE DEF g
<1>9. /\ IsRecordState(ty, t) /\ t.headerCursor = s.headerCursor /\ t.fields[i] = g
      /\ \A j \in 1 .. Len(ty.fields) : j # i => t.fields[j] = s.fields[j]
  <2>1. HasReplaced(ty, s, i, g, t)
    BY <1>1, <1>8, FieldReplaced
  <2> HIDE DEF t
  <2>. QED BY <2>1 DEF HasReplaced
<1>10. LeavesOthers(ty, s, t, step)
  <2>1. "entry" \in {"entry", "field"} /\ "entry" # "field"
    OBVIOUS
  <2>. QED BY <1>1, <1>8, <2>1, OtherFieldsLeft DEF f
<1> HIDE DEF t, x
<1>11. RecordGoing(ty, t)
  <2>1. /\ ty.key # 0 => s.headerCursor \in 0 .. 12
        /\ \A j \in 1 .. Len(ty.fields) :
             /\ ty.key # 0 => s.fields[j].entryCursor \in 0 .. 8 /\ s.fields[j].len \in Nat
             /\ s.fields[j].started \in BOOLEAN
             /\ Underway(ty.fields[j].ty, s.fields[j].started, s.fields[j].ser,
                         s.fields[j].slot)
    BY DEF RecordGoing
  <2>2. ASSUME NEW j \in 1 .. Len(ty.fields)
        PROVE  /\ ty.key # 0 => t.fields[j].entryCursor \in 0 .. 8 /\ t.fields[j].len \in Nat
               /\ t.fields[j].started \in BOOLEAN
               /\ Underway(ty.fields[j].ty, t.fields[j].started, t.fields[j].ser,
                           t.fields[j].slot)
    <3>1. CASE j = i
      BY <1>1, <1>7, <1>8, <1>9, <2>1, <3>1 DEF f
    <3>2. CASE j # i
      BY <1>9, <2>1, <3>2
    <3>. QED BY <3>1, <3>2
  <2>. QED BY <1>9, <2>1, <2>2 DEF RecordGoing
<1>12. \A at : StepRest(ty, t, step, at) = w.s
  <2>1. TAKE at
  <2>2. StepRest(ty, t, step, at)
          = SubSeq(EntryBytes(ty.fields[i], t.fields[i].len), t.fields[i].entryCursor + 1, 8)
    BY EntryStepRest
  <2>. QED BY <1>7, <1>8, <1>9, <2>2 DEF h
<1>13. w.r = "ready" => StepDone(ty, t, step)
  <2>1. w.r = "ready" => w.s = << >>
    BY <1>5 DEF Outcome, Stands
  <2>. QED BY <1>7, <1>8, <1>9, <2>1, EntryStepDone
<1> HIDE DEF step
<1>14. StepAnswers(ty, k, s, step, x, a)
  BY <1>3, <1>5, <1>6, <1>10, <1>11, <1>12, <1>13 DEF StepAnswers
<1>. QED BY <1>2, <1>14 DEF a, step

LEMMA FieldStepAnswers ==
  ASSUME NEW ty, NEW s, NEW k, NEW i,
         IsSound(ty), RecordGoing(ty, s), IsSink(k), i \in 1 .. Len(ty.fields),
         Fits(k, StepRest(ty, s, AStep("field", i), SinkPos(k)))
  PROVE  LET step == AStep("field", i)
         IN  StepAnswers(ty, k, s, step, StepRest(ty, s, step, SinkPos(k)),
                         Step(ty, step, s, k))
<1> DEFINE step == AStep("field", i)
           f == s.fields[i]
           fty == ty.fields[i].ty
           x == Left(fty, f.started, f.ser, f.slot, SinkPos(k))
           b == IF f.started THEN Poll(fty, f.ser, k) ELSE Input(fty, f.ser, f.slot[1], k)
           g == [f EXCEPT !.ser = b.s, !.slot = << >>, !.started = @ \/ StartedBy(b.r)]
           t == [s EXCEPT !.fields[i] = g]
           a == Step(ty, step, s, k)
<1>1. /\ IsRecordState(ty, s) /\ IsRecord(f, FieldNames)
      /\ f.started \in BOOLEAN /\ Underway(fty, f.started, f.ser, f.slot)
      /\ Keeps(fty)
  <2>1. /\ IsRecordState(ty, s) /\ f.started \in BOOLEAN
        /\ Underway(fty, f.started, f.ser, f.slot)
    BY DEF RecordGoing
  <2>2. IsRecord(f, FieldNames)
    BY <2>1 DEF IsRecordState
  <2>3. Keeps(fty)
    BY SoundRecord
  <2>. QED BY <2>1, <2>2, <2>3
<1>2. StepRest(ty, s, step, SinkPos(k)) = x
  BY FieldStepRest
<1>3. a.s = t /\ a.sink = b.sink /\ a.r = b.r
  <2>1. a = FieldStep(s, i, PollField(fty, f, k))
    <3>1. step.what = "field" /\ step.i = i
      BY DEF AStep
    <3> HIDE DEF step
    <3>. QED BY <3>1 DEF Step
  <2>2. PollField(fty, f, k) = Answer(g, b.sink, b.r)
    <3>1. f.started \/ f.slot # << >>
      BY <1>1 DEF Underway
    <3>2. PollField(fty, f, k) = FieldAfter(f, b)
      BY <3>1 DEF PollField
    <3> HIDE DEF b, f
    <3>. QED BY <3>2 DEF FieldAfter
  <2> HIDE DEF a, b, g
  <2>3. FieldStep(s, i, Answer(g, b.sink, b.r)) = Answer(t, b.sink, b.r)
    BY DEF FieldStep, Answer
  <2> HIDE DEF t
  <2>. QED BY <2>1, <2>2, <2>3 DEF Answer
<1> HIDE DEF a
<1>4. Fits(k, x)
  BY <1>2
<1>5. Answers(fty, k, x, b)
  <2> HIDE DEF f, fty
  <2>. QED BY <1>1, <1>4, Resumes
<1> HIDE DEF b, x
<1>6. PICK rest \in Bytes :
        /\ Outcome(k, x, b.sink, b.r, rest)
        /\ b.r = "ready" => Over(fty, b.s)
        /\ b.r = "pending" => /\ Going(fty, b.s)
                              /\ Rest(fty, b.s, SinkPos(b.sink)) = rest
  BY <1>5 DEF Answers
<1>7. b.r \in {"ready", "pending", "error"} /\ (b.r = "ready" => rest = << >>)
  BY <1>6 DEF Outcome, Stands
<1>8. SinkPos(b.sink) \in Nat
  BY <1>6, MidwaySink DEF Outcome
<1> HIDE DEF f
<1>9. /\ IsRecord(g, FieldNames) /\ g.ser = b.s
      /\ g.started = (f.started \/ StartedBy(b.r))
      /\ g.entryCursor = f.entryCursor /\ g.len = f.len
  BY <1>1 DEF IsRecord, FieldNames
<1> HIDE DEF g
<1>10. /\ IsRecordState(ty, t) /\ t.headerCursor = s.headerCursor /\ t.fields[i] = g
       /\ \A j \in 1 .. Len(ty.fields) : j # i => t.fields[j] = s.fields[j]
  <2>1. HasReplaced(ty, s, i, g, t)
    BY <1>1, <1>9, FieldReplaced
  <2> HIDE DEF t
  <2>. QED BY <2>1 DEF HasReplaced
<1>11. LeavesOthers(ty, s, t, step)
  <2>1. "field" \in {"entry", "field"} /\ "entry" # "field"
    OBVIOUS
  <2>. QED BY <1>1, <1>9, <2>1, OtherFieldsLeft DEF f
<1> HIDE DEF t
<1>12. b.r # "error" => /\ g.started = TRUE /\ Going(fty, b.s)
                        /\ Rest(fty, b.s, SinkPos(b.sink)) = rest
  <2>1. b.r # "error" => b.r = "ready" \/ b.r = "pending"
    BY <1>7
  <2>2. b.r = "ready" => Going(fty, b.s) /\ Rest(fty, b.s, SinkPos(b.sink)) = << >>
    BY <1>6, <1>8 DEF Over
  <2>. QED BY <1>1, <1>6, <1>7, <1>9, <2>1, <2>2 DEF StartedBy
<1>13. b.r # "error" => RecordGoing(ty, t)
  <2>1. SUFFICES ASSUME b.r # "error" PROVE RecordGoing(ty, t)
    OBVIOUS
  <2>2. /\ ty.key # 0 => s.headerCursor \in 0 .. 12
        /\ \A j \in 1 .. Len(ty.fields) :
             /\ ty.key # 0 => s.fields[j].entryCursor \in 0 .. 8 /\ s.fields[j].len \in Nat
             /\ s.fields[j].started \in BOOLEAN
             /\ Underway(ty.fields[j].ty, s.fields[j].started, s.fields[j].ser,
                         s.fields[j].slot)
    BY DEF RecordGoing
  <2>3. ASSUME NEW j \in 1 .. Len(ty.fields)
        PROVE  /\ ty.key # 0 => t.fields[j].entryCursor \in 0 .. 8 /\ t.fields[j].len \in Nat
               /\ t.fields[j].started \in BOOLEAN
               /\ Underway(ty.fields[j].ty, t.fields[j].started, t.fields[j].ser,
                           t.fields[j].slot)
    <3>1. CASE j = i
      <4>1. g.started = TRUE /\ Going(fty, g.ser)
        BY <1>9, <1>12, <2>1
      <4>2. Underway(fty, g.started, g.ser, g.slot)
        BY <4>1 DEF Underway
      <4>3. ty.key # 0 => g.entryCursor \in 0 .. 8 /\ g.len \in Nat
        BY <1>9, <2>2 DEF f
      <4>. QED BY <1>10, <3>1, <4>1, <4>2, <4>3 DEF fty
    <3>2. CASE j # i
      BY <1>10, <2>2, <3>2
    <3>. QED BY <3>1, <3>2
  <2>. QED BY <1>10, <2>2, <2>3 DEF RecordGoing
<1>14. b.r # "error" => StepRest(ty, t, step, SinkPos(b.sink)) = rest
  <2>1. StepRest(ty, t, step, SinkPos(b.sink))
          = Left(fty, t.fields[i].started, t.fields[i].ser, t.fields[i].slot,
                 SinkPos(b.sink))
    BY FieldStepRest
  <2>. QED BY <1>9, <1>10, <1>12, <2>1 DEF Left
<1>15. b.r = "ready" => StepDone(ty, t, step)
  <2>1. b.r = "ready" => Over(fty, b.s) /\ g.started = TRUE
    BY <1>6, <1>12
  <2>2. StepDone(ty, t, step) <=> t.fields[i].started /\ Over(fty, t.fields[i].ser)
    BY FieldStepDone
  <2>. QED BY <1>9, <1>10, <2>1, <2>2
<1> HIDE DEF step
<1>16. StepAnswers(ty, k, s, step, x, a)
  BY <1>3, <1>6, <1>11, <1>13, <1>14, <1>15 DEF StepAnswers
<1>. QED BY <1>2, <1>16 DEF a, step

LEMMA StepOfRecord ==
  ASSUME NEW ty, NEW s, NEW k, NEW step,
         IsSound(ty), RecordGoing(ty, s), IsSink(k), IsStep(ty, step),
         Fits(k, StepRest(ty, s, step, SinkPos(k)))
  PROVE  StepAnswers(ty, k, s, step, StepRest(ty, s, step, SinkPos(k)),
                     Step(ty, step, s, k))
<1>1. CASE ty.key # 0 /\ step = AStep("header", 0)
  BY <1>1, HeaderStep
<1>2. ASSUME NEW i \in 1 .. Len(ty.fields), ty.key # 0, step = AStep("entry", i)
      PROVE  StepAnswers(ty, k, s, step, StepRest(ty, s, step, SinkPos(k)),
                         Step(ty, step, s, k))
  BY <1>2, EntryStep
<1>3. ASSUME NEW i \in 1 .. Len(ty.fields), step = AStep("field", i)
      PROVE  StepAnswers(ty, k, s, step, StepRest(ty, s, step, SinkPos(k)),
                         Step(ty, step, s, k))
  <2>1. Fits(k, StepRest(ty, s, AStep("field", i), SinkPos(k)))
    BY <1>3
  <2>. QED BY <1>3, <2>1, FieldStepAnswers
<1>. QED BY <1>1, <1>2, <1>3 DEF IsStep

-----------------------------------------------------------------------------
(* Records: the walk over the steps *)

\* After the first j steps: they have nothing left, and of what the poll found to
\* write is left what the record has left.
RecordAt(ty, k, todo, a, j) ==
  /\ a.r = "ready" => /\ Going(ty, a.s)
                      /\ \A i \in 1 .. j : StepDone(ty, a.s, StepsOf(ty)[i])
                      /\ Midway(k, todo, a.sink, Rest(ty, a.s, SinkPos(a.sink)))
  /\ a.r # "ready" => Answers(ty, k, todo, a)

\* What is left is what the next step has left, then what the later ones have.
LEMMA RecordAhead ==
  ASSUME NEW ty, NEW s, NEW j, NEW at,
         IsSound(ty), Going(ty, s), at \in Nat, j \in 1 .. Len(StepsOf(ty)),
         \A i \in 1 .. j - 1 : StepDone(ty, s, StepsOf(ty)[i])
  PROVE  LET x == StepRest(ty, s, StepsOf(ty)[j], at)
             m == Len(StepsOf(ty))
             later == SubSeq(RecordItems(ty, s), j + 1, m)
         IN  /\ x \in Bytes /\ at + Len(x) \in Nat
             /\ later \in Seq(Placed)
             /\ Rest(ty, s, at) = x \o Laid(later, at + Len(x))
<1> DEFINE items == RecordItems(ty, s)
           m == Len(StepsOf(ty))
           x == StepRest(ty, s, StepsOf(ty)[j], at)
<1>1. RecordGoing(ty, s) /\ Rest(ty, s, at) = Laid(items, at)
  BY RecordRestIs
<1>2. items \in Seq(Placed) /\ Len(items) = m /\ m \in Nat
  BY <1>1, RecordItemsPlaced
<1>3. \A i \in 1 .. m : IsStep(ty, StepsOf(ty)[i])
  BY SoundRecord DEF StepsCover
<1>4. \A i \in 1 .. m : \A p \in Nat : items[i][p] = StepRest(ty, s, StepsOf(ty)[i], p)
  BY DEF RecordItems
<1> HIDE DEF items, m
<1>5. ASSUME NEW i \in 1 .. j - 1, NEW p \in Nat PROVE items[i][p] = << >>
  <2>1. i \in 1 .. m /\ j \in 1 .. m
    BY <1>2 DEF m
  <2>2. StepDone(ty, s, StepsOf(ty)[i]) /\ IsStep(ty, StepsOf(ty)[i])
    BY <1>3, <2>1
  <2>3. StepRest(ty, s, StepsOf(ty)[i], p) = << >>
    BY <1>1, <2>2, StepRestIsBytes
  <2>. QED BY <1>4, <2>1, <2>3
<1>6. items[j][at] = x
  BY <1>4 DEF m
<1>7. /\ items[j][at] \in Bytes /\ at + Len(items[j][at]) \in Nat
      /\ SubSeq(items, j + 1, Len(items)) \in Seq(Placed)
      /\ Laid(items, at) = items[j][at]
           \o Laid(SubSeq(items, j + 1, Len(items)), at + Len(items[j][at]))
  <2>1. j \in 1 .. Len(items)
    BY <1>2 DEF m
  <2>2. \A i \in 1 .. j - 1 : \A q \in Nat : items[i][q] = << >>
    BY <1>5
  <2> HIDE DEF x
  <2>3. LaidFrom(items, j, at)
    BY <1>2, <2>1, <2>2, LaidAtStep
  <2>. QED BY <2>3 DEF LaidFrom
<1>. QED BY <1>1, <1>2, <1>6, <1>7 DEF items, m

\* The steps behind the one that is taken have left what they had.
LEMMA LaterStay ==
  ASSUME NEW ty, NEW s, NEW t, NEW j,
         IsSound(ty), RecordGoing(ty, s), RecordGoing(ty, t),
         j \in 1 .. Len(StepsOf(ty)), LeavesOthers(ty, s, t, StepsOf(ty)[j])
  PROVE  /\ SubSeq(RecordItems(ty, t), j + 1, Len(StepsOf(ty)))
              = SubSeq(RecordItems(ty, s), j + 1, Len(StepsOf(ty)))
         /\ \A i \in 1 .. j - 1 :
              StepDone(ty, s, StepsOf(ty)[i]) => StepDone(ty, t, StepsOf(ty)[i])
<1> DEFINE steps == StepsOf(ty)
           m == Len(steps)
           a == RecordItems(ty, s)
           b == RecordItems(ty, t)
<1>1. /\ m \in Nat /\ \A i \in 1 .. m : IsStep(ty, steps[i])
      /\ \A h, i \in 1 .. m : steps[h] = steps[i] => h = i
  BY SoundRecord DEF StepsCover
<1>2. \A i \in 1 .. m : i # j => LeavesStep(ty, s, t, steps[i])
  <2>1. TAKE i \in 1 .. m
  <2>2. i # j => steps[i] # steps[j]
    BY <1>1
  <2>. QED BY <1>1, <2>2 DEF LeavesOthers
<1>3. a \in Seq(Placed) /\ Len(a) = m /\ b \in Seq(Placed) /\ Len(b) = m
  BY RecordItemsPlaced
<1>4. ASSUME NEW i \in 1 .. m, i # j PROVE a[i] = b[i]
  <2>1. \A p \in Nat : StepRest(ty, t, steps[i], p) = StepRest(ty, s, steps[i], p)
    BY <1>2, <1>4 DEF LeavesStep
  <2>2. /\ a[i] = [p \in Nat |-> StepRest(ty, s, steps[i], p)]
        /\ b[i] = [p \in Nat |-> StepRest(ty, t, steps[i], p)]
    BY DEF RecordItems
  <2> HIDE DEF a, b, steps
  <2>. QED BY <2>1, <2>2
<1>5. j \in 1 .. m
  OBVIOUS
<1> HIDE DEF a, b, m, steps
<1> DEFINE c == SubSeq(a, j + 1, m)
           d == SubSeq(b, j + 1, m)
<1>6. /\ c \in Seq(Placed) /\ Len(c) = IF j + 1 <= m THEN m - (j + 1) + 1 ELSE 0
      /\ \A i \in 1 .. m - (j + 1) + 1 : c[i] = a[(j + 1) + i - 1]
  <2>1. j + 1 \in Int /\ m \in Int /\ \A i \in j + 1 .. m : a[i] \in Placed
    BY <1>1, <1>3, <1>5
  <2>. QED BY <2>1, SubSeqProperties
<1>7. /\ d \in Seq(Placed) /\ Len(d) = IF j + 1 <= m THEN m - (j + 1) + 1 ELSE 0
      /\ \A i \in 1 .. m - (j + 1) + 1 : d[i] = b[(j + 1) + i - 1]
  <2>1. j + 1 \in Int /\ m \in Int /\ \A i \in j + 1 .. m : b[i] \in Placed
    BY <1>1, <1>3, <1>5
  <2>. QED BY <2>1, SubSeqProperties
<1> HIDE DEF c, d
<1>8. c = d
  <2>1. Len(c) = Len(d)
    BY <1>6, <1>7
  <2>2. ASSUME NEW i \in 1 .. Len(c) PROVE c[i] = d[i]
    <3>1. i \in 1 .. m - (j + 1) + 1 /\ (j + 1) + i - 1 \in 1 .. m /\ (j + 1) + i - 1 # j
      BY <1>1, <1>5, <1>6
    <3>. QED BY <1>4, <1>6, <1>7, <3>1
  <2>. QED BY <1>6, <1>7, <2>1, <2>2, SeqEqual
<1>9. \A i \in 1 .. j - 1 : StepDone(ty, s, steps[i]) => StepDone(ty, t, steps[i])
  <2>1. TAKE i \in 1 .. j - 1
  <2>2. i \in 1 .. m /\ i # j
    BY <1>1, <1>5
  <2>. QED BY <1>2, <2>2 DEF LeavesStep
<1>. QED BY <1>8, <1>9 DEF a, b, c, d, m, steps

LEMMA RecordGoesOn ==
  ASSUME NEW ty, NEW k, NEW todo, NEW a, NEW j,
         IsSound(ty), IsSink(k), Fits(k, todo), a.r = "ready",
         j \in 1 .. Len(StepsOf(ty)), RecordAt(ty, k, todo, a, j - 1)
  PROVE  RecordAt(ty, k, todo, Step(ty, StepsOf(ty)[j], a.s, a.sink), j)
<1> DEFINE s == a.s
           k1 == a.sink
           p == SinkPos(k1)
           m == Len(StepsOf(ty))
           step == StepsOf(ty)[j]
           x == StepRest(ty, s, step, p)
           later == SubSeq(RecordItems(ty, s), j + 1, m)
           y == Laid(later, p + Len(x))
           b == Step(ty, step, s, k1)
           t == b.s
           k2 == b.sink
<1>0. \A z : Going(ty, z) <=> RecordGoing(ty, z)
  <2>1. AtLevel(ty) /\ ty.k = "record"
    BY DEF IsSound
  <2>. QED BY <2>1, RecordLevel
<1>1. /\ Going(ty, s) /\ RecordGoing(ty, s) /\ Midway(k, todo, k1, Rest(ty, s, p))
      /\ \A i \in 1 .. j - 1 : StepDone(ty, s, StepsOf(ty)[i])
  BY <1>0 DEF RecordAt
<1> HIDE DEF s, k1
<1>2. IsSink(k1) /\ p \in Nat
  BY <1>1, MidwaySink
<1>3. m \in Nat /\ IsStep(ty, step) /\ j \in 1 .. m
  BY SoundRecord DEF StepsCover
<1>4. /\ x \in Bytes /\ p + Len(x) \in Nat /\ later \in Seq(Placed)
      /\ Rest(ty, s, p) = x \o y
  BY <1>1, <1>2, RecordAhead
<1>5. y \in Bytes
  <2> HIDE DEF later, x
  <2>. QED BY <1>4, LaidIsBytes
<1>6. Midway(k, todo, k1, x \o y) /\ x \o y \in Bytes
  BY <1>1, <1>4, <1>5, Joins
<1>7. Fits(k1, x)
  <2>1. Fits(k1, x \o y)
    BY <1>6, FitsMidway
  <2> HIDE DEF x, y
  <2>. QED BY <1>2, <1>4, <1>5, <2>1, FitsPart
<1>8. StepAnswers(ty, k1, s, step, x, b)
  <2> HIDE DEF step
  <2>. QED BY <1>1, <1>2, <1>3, <1>7, StepOfRecord
<1> HIDE DEF b
<1>9. PICK rest \in Bytes :
        /\ Outcome(k1, x, b.sink, b.r, rest)
        /\ b.r # "error" => /\ RecordGoing(ty, b.s)
                            /\ StepRest(ty, b.s, step, SinkPos(b.sink)) = rest
                            /\ LeavesOthers(ty, s, b.s, step)
        /\ b.r = "ready" => StepDone(ty, b.s, step)
  BY <1>8 DEF StepAnswers
<1>10. /\ Outcome(k1, x, k2, b.r, rest)
       /\ b.r # "error" => /\ RecordGoing(ty, t) /\ Going(ty, t)
                           /\ StepRest(ty, t, step, SinkPos(k2)) = rest
                           /\ LeavesOthers(ty, s, t, step)
       /\ b.r = "ready" => StepDone(ty, t, step)
  BY <1>0, <1>9
<1> HIDE DEF t, k2
<1>11. /\ rest \o y \in Bytes
       /\ Midway(k, todo, k2, rest \o y)
       /\ IsSink(k2)
       /\ b.r # "ready" => Stands(k2, b.r, rest \o y)
       /\ b.r = "ready" => rest = << >> /\ rest \o y = y
       /\ SinkPos(k2) \in Nat
       /\ SinkPos(k2) + Len(rest) = p + Len(x)
  <2> HIDE DEF y, x
  <2>1. Continued(k, todo, k1, x, y, k2, b.r, rest)
    BY <1>4, <1>5, <1>6, <1>10, Further
  <2>. QED BY <2>1 DEF Continued, p
<1>12. ASSUME b.r # "error"
       PROVE  /\ SubSeq(RecordItems(ty, t), j + 1, m) = later
              /\ \A i \in 1 .. j - 1 : StepDone(ty, t, StepsOf(ty)[i])
  <2>1. LeavesOthers(ty, s, t, StepsOf(ty)[j])
    BY <1>10, <1>12
  <2>2. /\ SubSeq(RecordItems(ty, t), j + 1, m) = later
        /\ \A i \in 1 .. j - 1 :
             StepDone(ty, s, StepsOf(ty)[i]) => StepDone(ty, t, StepsOf(ty)[i])
    BY <1>1, <1>3, <1>10, <1>12, <2>1, LaterStay
  <2>. QED BY <1>1, <2>2
<1>13. ASSUME b.r # "error" PROVE Rest(ty, t, SinkPos(k2)) = rest \o y
  <2>1. /\ Going(ty, t) /\ StepRest(ty, t, StepsOf(ty)[j], SinkPos(k2)) = rest
    BY <1>10, <1>13
  <2>2. \A i \in 1 .. j - 1 : StepDone(ty, t, StepsOf(ty)[i])
    BY <1>12, <1>13
  <2>3. Rest(ty, t, SinkPos(k2))
          = rest \o Laid(SubSeq(RecordItems(ty, t), j + 1, m), SinkPos(k2) + Len(rest))
    BY <1>3, <1>11, <2>1, <2>2, RecordAhead
  <2>4. SubSeq(RecordItems(ty, t), j + 1, m) = later
    BY <1>12, <1>13
  <2> HIDE DEF later, x
  <2>. QED BY <1>11, <2>3, <2>4
<1>14. b.r = "ready" => /\ Going(ty, t)
                        /\ \A i \in 1 .. j : StepDone(ty, t, StepsOf(ty)[i])
                        /\ Midway(k, todo, k2, Rest(ty, t, SinkPos(k2)))
  <2>1. SUFFICES ASSUME b.r = "ready"
                 PROVE  /\ Going(ty, t)
                        /\ \A i \in 1 .. j : StepDone(ty, t, StepsOf(ty)[i])
                        /\ Midway(k, todo, k2, Rest(ty, t, SinkPos(k2)))
    OBVIOUS
  <2>2. b.r # "error"
    BY <2>1
  <2>3. \A i \in 1 .. j : i \in 1 .. j - 1 \/ i = j
    BY <1>3
  <2>4. \A i \in 1 .. j : StepDone(ty, t, StepsOf(ty)[i])
    BY <1>10, <1>12, <2>1, <2>2, <2>3
  <2>. QED BY <1>10, <1>11, <1>13, <2>1, <2>2, <2>4
<1>15. b.r # "ready" => Answers(ty, k, todo, b)
  <2>1. b.r # "ready" => Outcome(k, todo, k2, b.r, rest \o y)
    BY <1>11 DEF Outcome
  <2>2. b.r = "pending" => Going(ty, t) /\ Rest(ty, t, SinkPos(k2)) = rest \o y
    BY <1>10, <1>13
  <2> HIDE DEF y
  <2>. QED BY <1>11, <2>1, <2>2 DEF Answers, t, k2
<1>16. RecordAt(ty, k, todo, b, j)
  BY <1>14, <1>15 DEF RecordAt, t, k2
<1>. QED BY <1>16 DEF b, s, k1

\* Where all the steps are done, the record is over.
LEMMA RecordOver ==
  ASSUME NEW ty, NEW s, IsSound(ty), Going(ty, s),
         \A i \in 1 .. Len(StepsOf(ty)) : StepDone(ty, s, StepsOf(ty)[i])
  PROVE  Over(ty, s)
<1> DEFINE m == Len(StepsOf(ty))
           n == Len(ty.fields)
           items == RecordItems(ty, s)
<1>0. AtLevel(ty) /\ ty.k = "record"
  BY DEF IsSound
<1>1. RecordGoing(ty, s) /\ \A at \in Nat : Rest(ty, s, at) = Laid(items, at)
  <2>1. 0 \in Nat
    OBVIOUS
  <2>. QED BY <2>1, RecordRestIs
<1>2. /\ m \in Nat /\ \A i \in 1 .. m : IsStep(ty, StepsOf(ty)[i])
      /\ \A i \in 1 .. n : \E j \in 1 .. m : StepsOf(ty)[j] = AStep("field", i)
  BY SoundRecord DEF StepsCover
<1>3. items \in Seq(Placed) /\ Len(items) = m
  BY <1>1, RecordItemsPlaced
<1>4. \A i \in 1 .. m : \A p \in Nat : items[i][p] = << >>
  <2>1. TAKE i \in 1 .. m
  <2>2. TAKE p \in Nat
  <2>3. StepRest(ty, s, StepsOf(ty)[i], p) = << >>
    BY <1>1, <1>2, StepRestIsBytes
  <2>. QED BY <2>3 DEF RecordItems
<1> HIDE DEF items
<1>5. \A at \in Nat : Rest(ty, s, at) = << >>
  BY <1>1, <1>3, <1>4, LaidNothing
<1>6. ASSUME NEW i \in 1 .. n PROVE Over(ty.fields[i].ty, s.fields[i].ser)
  <2>1. PICK j \in 1 .. m : StepsOf(ty)[j] = AStep("field", i)
    BY <1>2
  <2>2. StepDone(ty, s, AStep("field", i))
    BY <2>1
  <2>. QED BY <2>2, FieldStepDone
<1>7. \A i \in 1 .. n : AtRest(ty.fields[i].ty, s.fields[i].ser)
  BY <1>6 DEF Over
<1>8. Ended(ty, s)
  <2>1. \A i \in 1 .. n : Ended(ty.fields[i].ty, s.fields[i].ser)
    BY <1>7 DEF AtRest
  <2>2. \A z : Ended(ty, z) <=>
          \A i \in 1 .. Len(ty.fields) : Ended(ty.fields[i].ty, z.fields[i].ser)
    BY <1>0, RecordLevel
  <2>. QED BY <2>1, <2>2
<1>9. Reusable(ty) => Idle(ty, s)
  <2>1. SUFFICES ASSUME Reusable(ty) PROVE Idle(ty, s)
    OBVIOUS
  <2>2. ty.key = 0 /\ \A i \in 1 .. n : Reusable(ty.fields[i].ty)
    BY <1>0, <2>1, RecordLevel
  <2>3. \A i \in 1 .. n : Idle(ty.fields[i].ty, s.fields[i].ser)
    BY <1>7, <2>2 DEF AtRest
  <2>4. IsRecordState(ty, s)
    BY <1>1 DEF RecordGoing
  <2>5. \A z : Idle(ty, z) <=>
          /\ IsRecordState(ty, z)
          /\ \A i \in 1 .. Len(ty.fields) : Idle(ty.fields[i].ty, z.fields[i].ser)
          /\ ty.key # 0 => /\ z.headerCursor = 0
                           /\ \A i \in 1 .. Len(ty.fields) : z.fields[i].entryCursor = 0
    BY <1>0, RecordLevel
  <2>. QED BY <2>2, <2>3, <2>4, <2>5
<1>. QED BY <1>5, <1>8, <1>9 DEF Over, AtRest

\* All the steps are taken again at every poll; those that are done write nothing.
LEMMA RecordPolled ==
  ASSUME NEW ty, NEW s, NEW k,
         IsSound(ty), IsSink(k), Going(ty, s), Fits(k, Rest(ty, s, SinkPos(k)))
  PROVE  Answers(ty, k, Rest(ty, s, SinkPos(k)), Poll(ty, s, k))
<1> DEFINE steps == StepsOf(ty)
           m == Len(steps)
           todo == Rest(ty, s, SinkPos(k))
<1>0. AtLevel(ty) /\ ty.k = "record"
  BY DEF IsSound
<1>1. m \in Nat
  BY SoundRecord DEF StepsCover
<1>2. SinkPos(k) \in Nat
  BY AfterFacts, NoBytes
<1>3. todo \in Bytes
  BY <1>2, RecordRestIs
<1>4. Poll(ty, s, k) = Walk(ty, steps, s, k)
  <2>1. \A z, q : Poll(ty, z, q) = PollRecord(ty, z, q)
    BY <1>0, RecordLevel
  <2>2. PollRecord(ty, s, k) = Walk(ty, steps, s, k)
    BY DEF PollRecord, StepsOf
  <2>. QED BY <2>1, <2>2
<1>5. Fits(k, todo) /\ Midway(k, todo, k, todo)
  BY <1>3, MidwayStart
<1>6. PICK f : IsWalk(f, m, ty, steps, s, k) /\ f[m] = Walk(ty, steps, s, k)
  <2> HIDE DEF steps
  <2>. QED BY <1>1, WalkExists
<1> HIDE DEF steps
<1> DEFINE D == {j \in 0 .. m : RecordAt(ty, k, todo, f[j], j)}
<1>7. 0 \in D
  <2>1. f[0].s = s /\ f[0].sink = k /\ f[0].r = "ready"
    BY <1>6 DEF IsWalk, Answer
  <2>2. \A i \in 1 .. 0 : FALSE
    OBVIOUS
  <2>3. RecordAt(ty, k, todo, f[0], 0)
    BY <1>5, <2>1, <2>2 DEF RecordAt
  <2> HIDE DEF m
  <2>. QED BY <1>1, <2>3
<1> HIDE DEF m, todo
<1>8. ASSUME NEW j \in 0 .. m - 1, j \in D PROVE j + 1 \in D
  <2>1. j + 1 \in 1 .. m /\ (j + 1) - 1 = j /\ j + 1 \in 0 .. m
    BY <1>1
  <2>2. f[j + 1] = StepAfter(ty, steps[j + 1], f[j])
    BY <1>6, <2>1 DEF IsWalk
  <2>3. RecordAt(ty, k, todo, f[j], j)
    BY <1>8
  <2>4. CASE f[j].r # "ready"
    <3>1. f[j + 1] = f[j]
      BY <2>2, <2>4 DEF StepAfter
    <3>2. RecordAt(ty, k, todo, f[j + 1], j + 1)
      BY <2>3, <2>4, <3>1 DEF RecordAt
    <3>. QED BY <2>1, <3>2
  <2>5. CASE f[j].r = "ready"
    <3>1. f[j + 1] = Step(ty, steps[j + 1], f[j].s, f[j].sink)
      BY <2>2, <2>5 DEF StepAfter
    <3>2. RecordAt(ty, k, todo, Step(ty, StepsOf(ty)[j + 1], f[j].s, f[j].sink), j + 1)
      <4>1. j + 1 \in 1 .. Len(StepsOf(ty))
        BY <2>1 DEF m, steps
      <4>2. RecordAt(ty, k, todo, f[j], (j + 1) - 1)
        BY <2>1, <2>3
      <4>. QED BY <1>5, <2>5, <4>1, <4>2, RecordGoesOn
    <3>3. RecordAt(ty, k, todo, f[j + 1], j + 1)
      BY <3>1, <3>2 DEF steps
    <3>. QED BY <2>1, <3>3
  <2>. QED BY <2>4, <2>5
<1>9. \A j \in 0 .. m : j \in D
  <2> HIDE DEF D
  <2>. QED BY <1>1, <1>7, <1>8, Induction
<1>10. RecordAt(ty, k, todo, f[m], m)
  BY <1>1, <1>9
<1>11. CASE f[m].r = "ready"
  <2> DEFINE u == f[m].s
             k2 == f[m].sink
  <2>1. /\ Going(ty, u) /\ \A i \in 1 .. m : StepDone(ty, u, StepsOf(ty)[i])
        /\ Midway(k, todo, k2, Rest(ty, u, SinkPos(k2)))
    BY <1>10, <1>11 DEF RecordAt
  <2> HIDE DEF u, k2
  <2>2. Over(ty, u)
    BY <2>1, RecordOver DEF m, steps
  <2>3. SinkPos(k2) \in Nat /\ << >> \in Bytes
    BY <2>1, MidwaySink, NoBytes
  <2>4. Rest(ty, u, SinkPos(k2)) = << >>
    BY <2>2, <2>3 DEF Over
  <2>5. Outcome(k, todo, k2, "ready", << >>)
    BY <2>1, <2>3, <2>4 DEF Outcome, Stands
  <2>6. Answers(ty, k, todo, f[m])
    BY <1>11, <2>2, <2>3, <2>5 DEF Answers, u, k2
  <2>. QED BY <1>4, <1>6, <2>6 DEF todo
<1>12. CASE f[m].r # "ready"
  BY <1>4, <1>6, <1>10, <1>12 DEF RecordAt, todo
<1>. QED BY <1>11, <1>12

\* finish reaches every field and finds nothing to add.
LEMMA RecordFinishes ==
  ASSUME NEW ty, NEW s, NEW k, IsSound(ty), Ended(ty, s)
  PROVE  Finish(ty, s, k).r = "ready" /\ Finish(ty, s, k).sink = k
<1> DEFINE n == Len(ty.fields)
           steps == Steps("finish", OneTo(n))
           ready == Answer(s, k, "ready")
<1>0. AtLevel(ty) /\ ty.k = "record"
  BY DEF IsSound
<1>1. n \in Nat
  BY SoundRecord
<1>2. Finish(ty, s, k) = Walk(ty, steps, s, k)
  <2>1. \A z, q : Finish(ty, z, q) = FinishRecord(ty, z, q)
    BY <1>0, RecordLevel
  <2>. QED BY <2>1 DEF FinishRecord
<1>3. Len(steps) = n /\ \A j \in 1 .. n : steps[j].what = "finish" /\ steps[j].i = j
  <2> HIDE DEF n
  <2>. QED BY <1>1 DEF Steps, OneTo
<1>4. \A i \in 1 .. n : /\ Ended(ty.fields[i].ty, s.fields[i].ser)
                        /\ Finishing(ty.fields[i].ty)
  <2>1. \A z : Ended(ty, z) <=>
          \A i \in 1 .. Len(ty.fields) : Ended(ty.fields[i].ty, z.fields[i].ser)
    BY <1>0, RecordLevel
  <2>2. \A i \in 1 .. n : Keeps(ty.fields[i].ty)
    BY SoundRecord
  <2>. QED BY <2>1, <2>2 DEF Keeps
<1> HIDE DEF steps, n
<1>5. PICK f : IsWalk(f, n, ty, steps, s, k) /\ f[n] = Walk(ty, steps, s, k)
  BY <1>1, <1>3, WalkExists
<1> DEFINE D == {j \in 0 .. n : f[j] = ready}
<1>6. 0 \in D
  BY <1>1, <1>5 DEF IsWalk
<1>7. ready.r = "ready" /\ ready.s = s /\ ready.sink = k
  BY DEF Answer
<1>8. ASSUME NEW j \in 0 .. n - 1, j \in D PROVE j + 1 \in D
  <2> DEFINE g == Finish(ty.fields[j + 1].ty, s.fields[j + 1].ser, k)
  <2>1. j + 1 \in 1 .. n /\ (j + 1) - 1 = j /\ j + 1 \in 0 .. n
    BY <1>1
  <2>2. f[j + 1] = StepAfter(ty, steps[j + 1], f[j])
    BY <1>5, <2>1 DEF IsWalk
  <2>3. f[j] = ready
    BY <1>8
  <2>4. f[j + 1] = Step(ty, steps[j + 1], s, k)
    <3> HIDE DEF ready
    <3>. QED BY <1>7, <2>2, <2>3 DEF StepAfter
  <2>5. Step(ty, steps[j + 1], s, k) = FieldFinished(s, g)
    <3>1. steps[j + 1].what = "finish" /\ steps[j + 1].i = j + 1
      BY <1>3, <2>1
    <3>. QED BY <3>1 DEF Step
  <2>6. g.r = "ready" /\ g.sink = k
    BY <1>4, <2>1 DEF Finishing
  <2> HIDE DEF g
  <2>7. FieldFinished(s, g) = ready
    BY <2>6 DEF FieldFinished
  <2>. QED BY <2>1, <2>4, <2>5, <2>7
<1>9. \A j \in 0 .. n : j \in D
  <2> HIDE DEF D
  <2>. QED BY <1>1, <1>6, <1>8, Induction
<1>10. f[n] = ready
  BY <1>1, <1>9
<1>. QED BY <1>2, <1>5, <1>7, <1>10

-----------------------------------------------------------------------------
(* Records: the encoding *)

FieldItems(ty, v) == Items(FieldTypes(ty), FieldValues(ty, v), Len(ty.fields))

\* The values of the fields are values of their types, in any order.
HasFields(ty, v) ==
  /\ v = [i \in 1 .. Len(ty.fields) |-> v[i]] /\ Len(v) = Len(ty.fields)
  /\ \A i \in 1 .. Len(ty.fields) : IsValue(ty.fields[i].ty, v[i])
  /\ \A j \in 1 .. Len(ty.fields) :
       /\ FieldOrder(ty)[j] \in 1 .. Len(ty.fields)
       /\ FieldTypes(ty)[j] = ty.fields[FieldOrder(ty)[j]].ty
       /\ FieldValues(ty, v)[j] = v[FieldOrder(ty)[j]]
       /\ IsValue(FieldTypes(ty)[j], FieldValues(ty, v)[j])
       /\ Keeps(FieldTypes(ty)[j])
       /\ \A p \in Nat : Encoding(FieldTypes(ty)[j], FieldValues(ty, v)[j], p) \in Bytes

LEMMA RecordValue ==
  ASSUME NEW ty, NEW v, IsSound(ty), IsValue(ty, v)
  PROVE  HasFields(ty, v)
<1> DEFINE n == Len(ty.fields)
           order == FieldOrder(ty)
<1>1. AreValues(TypesOf(ty.fields), v, n)
  <2>1. AtLevel(ty) /\ ty.k = "record"
    BY DEF IsSound
  <2>2. \A z : IsValue(ty, z) <=> AreValues(TypesOf(ty.fields), z, Len(ty.fields))
    BY <2>1, RecordLevel
  <2>. QED BY <2>2
<1>2. /\ n \in Nat /\ order \in [1 .. n -> 1 .. n]
      /\ \A i \in 1 .. n : Keeps(ty.fields[i].ty) /\ Writes(ty.fields[i].ty)
  BY SoundRecord DEF Permutes
<1>3. /\ v = [i \in 1 .. n |-> v[i]]
      /\ \A i \in 1 .. n : IsValue(TypesOf(ty.fields)[i], v[i])
  BY <1>1 DEF AreValues
<1>4. \A i \in 1 .. n : IsValue(ty.fields[i].ty, v[i])
  BY <1>3 DEF TypesOf
<1>5. Len(v) = n
  <2>1. Len([i \in 1 .. n |-> v[i]]) = n
    <3> HIDE DEF n
    <3>. QED BY <1>2
  <2>. QED BY <1>3, <2>1
<1>6. ASSUME NEW j \in 1 .. n
      PROVE  /\ order[j] \in 1 .. n
             /\ FieldTypes(ty)[j] = ty.fields[order[j]].ty
             /\ FieldValues(ty, v)[j] = v[order[j]]
             /\ IsValue(FieldTypes(ty)[j], FieldValues(ty, v)[j])
             /\ Keeps(FieldTypes(ty)[j])
             /\ \A p \in Nat :
                  Encoding(FieldTypes(ty)[j], FieldValues(ty, v)[j], p) \in Bytes
  <2>1. order[j] \in 1 .. n
    BY <1>2
  <2>2. FieldTypes(ty)[j] = ty.fields[order[j]].ty /\ FieldValues(ty, v)[j] = v[order[j]]
    BY DEF FieldTypes, FieldValues
  <2>3. /\ IsValue(ty.fields[order[j]].ty, v[order[j]])
        /\ Keeps(ty.fields[order[j]].ty) /\ Writes(ty.fields[order[j]].ty)
    BY <1>2, <1>4, <2>1
  <2>4. \A p \in Nat : Encoding(ty.fields[order[j]].ty, v[order[j]], p) \in Bytes
    BY <2>3 DEF Writes
  <2>. QED BY <2>1, <2>2, <2>3, <2>4
<1>. QED BY <1>3, <1>4, <1>5, <1>6 DEF HasFields

\* What FieldParts holds.
ArePayloads(ty, v, pos) ==
  /\ FieldParts(ty, v, pos) \in Seq(Bytes)
  /\ Len(FieldParts(ty, v, pos)) = Len(ty.fields)
  /\ FieldItems(ty, v) \in Seq(Placed) /\ Len(FieldItems(ty, v)) = Len(ty.fields)
  /\ FlattenSeq(FieldParts(ty, v, pos)) = Laid(FieldItems(ty, v), pos)
  /\ FlattenSeq(FieldParts(ty, v, pos)) \in Bytes
  /\ \A j \in 1 .. Len(ty.fields) : \E p \in Nat :
       FieldParts(ty, v, pos)[j] = Encoding(FieldTypes(ty)[j], FieldValues(ty, v)[j], p)

LEMMA PayloadsAre ==
  ASSUME NEW ty, NEW v, NEW pos, IsSound(ty), IsValue(ty, v), pos \in Nat
  PROVE  ArePayloads(ty, v, pos)
<1> DEFINE types == FieldTypes(ty)
           values == FieldValues(ty, v)
           n == Len(ty.fields)
           parts == Parts(types, values, pos, n)
<1>1. n \in Nat
  BY SoundRecord
<1>2. \A j \in 1 .. n : \A p \in Nat : Encoding(types[j], values[j], p) \in Bytes
  BY RecordValue DEF HasFields
<1> HIDE DEF types, values, n
<1>3. Items(types, values, n) \in Seq(Placed) /\ Len(Items(types, values, n)) = n
  BY <1>1, <1>2, ItemsArePlaced
<1>4. /\ parts \in Seq(Bytes) /\ Len(parts) = n
      /\ FlattenSeq(parts) = Laid(Items(types, values, n), pos)
      /\ \A j \in 1 .. n : \E p \in Nat : parts[j] = Encoding(types[j], values[j], p)
  BY <1>1, <1>2, PartsAreLaid
<1>5. FlattenSeq(parts) \in Bytes
  <2> HIDE DEF parts
  <2>. QED BY <1>3, <1>4, LaidIsBytes
<1>. QED BY <1>3, <1>4, <1>5 DEF ArePayloads, FieldParts, FieldItems, parts, types, values, n

\* A sum of n numbers that are all the same.
LEMMA SumOfSame ==
  ASSUME NEW a \in Seq(Nat), NEW d \in Nat, \A i \in 1 .. Len(a) : a[i] = d
  PROVE  SumOf(a) = d * Len(a)
<1> DEFINE n == Len(a)
<1>1. n \in Nat
  OBVIOUS
<1> HIDE DEF n
<1>2. PICK f : /\ f \in [0 .. n -> Nat] /\ f[0] = 0
               /\ \A i \in 1 .. n : f[i] = f[i - 1] + a[i]
               /\ f[n] = SumOf(a)
  BY SumExists DEF n
<1> DEFINE D == {i \in 0 .. n : f[i] = d * i}
<1>3. 0 \in D
  BY <1>1, <1>2
<1>4. ASSUME NEW i \in 0 .. n - 1, i \in D PROVE i + 1 \in D
  <2>1. i + 1 \in 1 .. n /\ (i + 1) - 1 = i /\ i + 1 \in 0 .. n /\ i \in Nat
    BY <1>1
  <2>2. f[i + 1] = f[i] + a[i + 1]
    BY <1>2, <2>1
  <2>3. a[i + 1] = d /\ f[i] = d * i
    BY <1>4, <2>1 DEF n
  <2>4. d * i + d = d * (i + 1)
    BY <2>1
  <2>. QED BY <2>1, <2>2, <2>3, <2>4
<1> HIDE DEF D
<1>5. \A i \in 0 .. n : i \in D
  BY <1>1, <1>3, <1>4, Induction
<1>6. n \in D
  BY <1>1, <1>5
<1>. QED BY <1>2, <1>6 DEF D, n

\* The table behind the header.
IsFieldTable(ty, lens) ==
  /\ TableEntries(ty, lens) \in Seq(Bytes)
  /\ Len(TableEntries(ty, lens)) = Len(ty.fields)
  /\ FlattenSeq(TableEntries(ty, lens)) \in Bytes
  /\ Len(FlattenSeq(TableEntries(ty, lens))) = 8 * Len(ty.fields)

LEMMA FieldTableIs ==
  ASSUME NEW ty, NEW lens, IsSound(ty),
         \A j \in 1 .. Len(ty.fields) : lens[j] \in Nat
  PROVE  IsFieldTable(ty, lens)
<1> DEFINE n == Len(ty.fields)
           order == FieldOrder(ty)
           Entry(j) == EntryBytes(ty.fields[order[j]], lens[j])
           table == TableEntries(ty, lens)
           eights == [j \in 1 .. n |-> 8]
<1>1. /\ n \in Nat /\ order \in [1 .. n -> 1 .. n]
      /\ \A i \in 1 .. n : \A len \in Nat : /\ EntryBytes(ty.fields[i], len) \in Bytes
                                            /\ Len(EntryBytes(ty.fields[i], len)) = 8
  BY SoundRecord DEF Permutes
<1>2. \A j \in 1 .. n : Entry(j) \in Bytes /\ Len(Entry(j)) = 8
  <2>1. TAKE j \in 1 .. n
  <2>2. order[j] \in 1 .. n /\ lens[j] \in Nat
    BY <1>1
  <2>. QED BY <1>1, <2>2
<1>3. table = [j \in 1 .. n |-> Entry(j)]
  BY DEF TableEntries
<1> HIDE DEF table, Entry, n
<1>4. table \in Seq(Bytes) /\ Len(table) = n /\ \A j \in 1 .. n : Len(table[j]) = 8
  BY <1>1, <1>2, <1>3
<1>5. eights \in Seq(Nat) /\ Len(eights) = n /\ \A j \in 1 .. n : eights[j] = 8
  BY <1>1
<1> HIDE DEF eights
<1>6. Len(FlattenSeq(table)) = SumOf(eights)
  BY <1>4, <1>5, FlattenLength
<1>7. SumOf(eights) = 8 * n
  <2>1. 8 \in Nat
    OBVIOUS
  <2>2. SumOf(eights) = 8 * Len(eights)
    BY <1>5, <2>1, SumOfSame
  <2>. QED BY <1>5, <2>2
<1>8. FlattenSeq(table) \in Bytes
  <2>1. << >> \in Seq(Bytes)
    BY EmptySeq
  <2>. QED BY <1>4, <2>1, FlattenJoin
<1>. QED BY <1>4, <1>6, <1>7, <1>8 DEF IsFieldTable, table, n

\* The three parts of a record with a schema.
PayloadsAt(ty, pos) == pos + 12 + 8 * Len(ty.fields)
PayloadLens(ty, v, pos) ==
  [j \in 1 .. Len(ty.fields) |-> Len(FieldParts(ty, v, PayloadsAt(ty, pos))[j])]
TableOf(ty, v, pos) == FlattenSeq(TableEntries(ty, PayloadLens(ty, v, pos)))
PayloadsOf(ty, v, pos) == FlattenSeq(FieldParts(ty, v, PayloadsAt(ty, pos)))

IsSchema(ty, v, pos) ==
  /\ PayloadsAt(ty, pos) \in Nat
  /\ ArePayloads(ty, v, PayloadsAt(ty, pos))
  /\ IsFieldTable(ty, PayloadLens(ty, v, pos))
  /\ TableOf(ty, v, pos) \in Bytes /\ Len(TableOf(ty, v, pos)) = 8 * Len(ty.fields)
  /\ PayloadsOf(ty, v, pos) \in Bytes
  /\ Encoding(ty, v, pos)
       = (HeaderBytes(ty) \o TableOf(ty, v, pos)) \o PayloadsOf(ty, v, pos)

LEMMA SchemaIs ==
  ASSUME NEW ty, NEW v, NEW pos, IsSound(ty), IsValue(ty, v), pos \in Nat, ty.key # 0
  PROVE  IsSchema(ty, v, pos)
<1> DEFINE n == Len(ty.fields)
           at == PayloadsAt(ty, pos)
           parts == FieldParts(ty, v, at)
           lens == PayloadLens(ty, v, pos)
<1>1. n \in Nat
  BY SoundRecord
<1>2. at \in Nat
  <2>1. \A m \in Nat : pos + 12 + 8 * m \in Nat
    OBVIOUS
  <2>2. at = pos + 12 + 8 * n
    BY DEF PayloadsAt
  <2> HIDE DEF at, n
  <2>. QED BY <1>1, <2>1, <2>2
<1>3. ArePayloads(ty, v, at)
  <2> HIDE DEF at
  <2>. QED BY <1>2, PayloadsAre
<1>4. \A j \in 1 .. n : lens[j] \in Nat
  <2>1. parts \in Seq(Bytes) /\ Len(parts) = n
    BY <1>3 DEF ArePayloads
  <2> HIDE DEF parts
  <2>2. \A j \in 1 .. n : Len(parts[j]) \in Nat
    BY <2>1, NoLength
  <2>. QED BY <2>2 DEF PayloadLens, parts
<1>5. IsFieldTable(ty, lens)
  <2> HIDE DEF lens
  <2>. QED BY <1>4, FieldTableIs
<1>6. Encoding(ty, v, pos)
        = (HeaderBytes(ty) \o TableOf(ty, v, pos)) \o PayloadsOf(ty, v, pos)
  <2>1. AtLevel(ty) /\ ty.k = "record"
    BY DEF IsSound
  <2>2. \A z, p : Encoding(ty, z, p) = RecordEncoding(ty, z, p)
    BY <2>1, RecordLevel
  <2>3. RecordEncoding(ty, v, pos) = SchemaEncoding(ty, parts)
    BY DEF RecordEncoding, PayloadsAt
  <2>4. SchemaEncoding(ty, parts)
          = HeaderBytes(ty) \o TableOf(ty, v, pos) \o PayloadsOf(ty, v, pos)
    BY DEF SchemaEncoding, TableOf, PayloadsOf, PayloadLens
  <2>. QED BY <2>2, <2>3, <2>4
<1>. QED BY <1>2, <1>3, <1>5, <1>6 DEF IsSchema, IsFieldTable, ArePayloads, TableOf, PayloadsOf

-----------------------------------------------------------------------------
(* Records: a value is given *)

\* The state that input fills.
Filled(ty, s, v) ==
  [s EXCEPT !.fields = [i \in 1 .. Len(v) |->
     FillField(s.fields[i], ty.fields[i].ty, v[i], ty.key # 0)]]

IsFilled(ty, t, v) ==
  /\ IsRecordState(ty, t)
  /\ ty.key # 0 => t.headerCursor = 0
  /\ \A i \in 1 .. Len(ty.fields) :
       /\ t.fields[i].started = FALSE /\ t.fields[i].slot = <<v[i]>>
       /\ Idle(ty.fields[i].ty, t.fields[i].ser)
       /\ ty.key # 0 => /\ t.fields[i].entryCursor = 0
                        /\ t.fields[i].len = MeasureBody(ty.fields[i].ty, v[i])

LEMMA FilledIs ==
  ASSUME NEW ty, NEW s, NEW v, IsSound(ty), Idle(ty, s), IsValue(ty, v)
  PROVE  IsFilled(ty, Filled(ty, s, v), v)
<1> DEFINE n == Len(ty.fields)
           Fill(i) == FillField(s.fields[i], ty.fields[i].ty, v[i], ty.key # 0)
           g == [i \in 1 .. n |-> Fill(i)]
           t == Filled(ty, s, v)
<1>1. /\ IsRecordState(ty, s)
      /\ \A i \in 1 .. n : Idle(ty.fields[i].ty, s.fields[i].ser)
      /\ ty.key # 0 => /\ s.headerCursor = 0
                       /\ \A i \in 1 .. n : s.fields[i].entryCursor = 0
  <2>1. AtLevel(ty) /\ ty.k = "record"
    BY DEF IsSound
  <2>2. \A z : Idle(ty, z) <=>
          /\ IsRecordState(ty, z)
          /\ \A i \in 1 .. Len(ty.fields) : Idle(ty.fields[i].ty, z.fields[i].ser)
          /\ ty.key # 0 => /\ z.headerCursor = 0
                           /\ \A i \in 1 .. Len(ty.fields) : z.fields[i].entryCursor = 0
    BY <2>1, RecordLevel
  <2>. QED BY <2>2
<1>2. Len(v) = n
  BY RecordValue DEF HasFields
<1>3. \A i \in 1 .. n : IsRecord(s.fields[i], FieldNames)
  BY <1>1 DEF IsRecordState
<1>4. ASSUME NEW i \in 1 .. n
      PROVE  /\ IsRecord(Fill(i), FieldNames)
             /\ Fill(i).started = FALSE /\ Fill(i).slot = <<v[i]>>
             /\ Fill(i).ser = s.fields[i].ser
             /\ Fill(i).entryCursor = s.fields[i].entryCursor
             /\ ty.key # 0 => Fill(i).len = MeasureBody(ty.fields[i].ty, v[i])
  BY <1>3 DEF FillField, IsRecord, FieldNames
<1>5. s = [name \in {"headerCursor", "fields"} |-> s[name]]
  BY <1>1 DEF IsRecordState, IsRecord
<1>6. t = [s EXCEPT !.fields = g]
  BY <1>2 DEF Filled
<1> HIDE DEF t, g
<1>7. IsRecord(t, {"headerCursor", "fields"}) /\ t.headerCursor = s.headerCursor
      /\ t.fields = g
  BY <1>5, <1>6 DEF IsRecord
<1>8. g = [i \in 1 .. n |-> g[i]] /\ \A i \in 1 .. n : g[i] = Fill(i)
  BY DEF g
<1> HIDE DEF Fill
<1>9. IsRecordState(ty, t)
  BY <1>4, <1>7, <1>8 DEF IsRecordState
<1>10. ASSUME NEW i \in 1 .. n
       PROVE  /\ t.fields[i].started = FALSE /\ t.fields[i].slot = <<v[i]>>
              /\ Idle(ty.fields[i].ty, t.fields[i].ser)
              /\ ty.key # 0 => /\ t.fields[i].entryCursor = 0
                               /\ t.fields[i].len = MeasureBody(ty.fields[i].ty, v[i])
  <2>1. t.fields[i] = Fill(i)
    BY <1>7, <1>8
  <2>. QED BY <1>1, <1>4, <2>1
<1>. QED BY <1>1, <1>7, <1>9, <1>10 DEF IsFilled, t

\* A schema announces for every field what it writes.
Announces(ty) ==
  ty.key # 0 => \A i \in 1 .. Len(ty.fields) : Exact(ty.fields[i].ty)

IsMeasured(ty, v) ==
  /\ MeasureBody(ty, v) \in Nat
  /\ \A p \in Nat : MeasureBody(ty, v) = Len(Encoding(ty, v, p))

LEMMA FieldMeasured ==
  ASSUME NEW ty, NEW v, NEW i, IsSound(ty), IsValue(ty, v),
         i \in 1 .. Len(ty.fields), Exact(ty.fields[i].ty)
  PROVE  IsMeasured(ty.fields[i].ty, v[i])
<1>1. Keeps(ty.fields[i].ty) /\ IsValue(ty.fields[i].ty, v[i])
  BY SoundRecord, RecordValue DEF HasFields
<1>2. ASSUME NEW p \in Nat
      PROVE  /\ Len(Encoding(ty.fields[i].ty, v[i], p)) \in Nat
             /\ MeasureBody(ty.fields[i].ty, v[i]) = Len(Encoding(ty.fields[i].ty, v[i], p))
  <2>1. Encoding(ty.fields[i].ty, v[i], p) \in Bytes
    BY <1>1 DEF Keeps, Writes
  <2>2. MeasureBody(ty.fields[i].ty, v[i]) = Len(Encoding(ty.fields[i].ty, v[i], p))
    BY <1>1 DEF Keeps, Measured
  <2>. QED BY <2>1, <2>2, NoLength
<1>3. 0 \in Nat
  OBVIOUS
<1>4. MeasureBody(ty.fields[i].ty, v[i]) \in Nat
  BY <1>2, <1>3
<1>. QED BY <1>2, <1>4 DEF IsMeasured

LEMMA FilledGoing ==
  ASSUME NEW ty, NEW t, NEW v,
         IsSound(ty), Announces(ty), IsValue(ty, v), IsFilled(ty, t, v)
  PROVE  Going(ty, t) /\ RecordGoing(ty, t)
<1>1. \A z : Going(ty, z) <=> RecordGoing(ty, z)
  <2>1. AtLevel(ty) /\ ty.k = "record"
    BY DEF IsSound
  <2>. QED BY <2>1, RecordLevel
<1>2. ASSUME NEW i \in 1 .. Len(ty.fields)
      PROVE  /\ ty.key # 0 => t.fields[i].entryCursor \in 0 .. 8 /\ t.fields[i].len \in Nat
             /\ t.fields[i].started \in BOOLEAN
             /\ Underway(ty.fields[i].ty, t.fields[i].started, t.fields[i].ser,
                         t.fields[i].slot)
  <2>1. /\ t.fields[i].started = FALSE /\ t.fields[i].slot = <<v[i]>>
        /\ Idle(ty.fields[i].ty, t.fields[i].ser)
        /\ ty.key # 0 => /\ t.fields[i].entryCursor = 0
                         /\ t.fields[i].len = MeasureBody(ty.fields[i].ty, v[i])
    BY DEF IsFilled
  <2>2. IsValue(ty.fields[i].ty, v[i])
    BY RecordValue DEF HasFields
  <2>3. ty.key # 0 => MeasureBody(ty.fields[i].ty, v[i]) \in Nat
    BY FieldMeasured DEF Announces, IsMeasured
  <2>4. Underway(ty.fields[i].ty, t.fields[i].started, t.fields[i].ser, t.fields[i].slot)
    BY <2>1, <2>2 DEF Underway
  <2>5. t.fields[i].started \in BOOLEAN
    BY <2>1
  <2>6. ty.key # 0 => t.fields[i].entryCursor \in 0 .. 8 /\ t.fields[i].len \in Nat
    <3>1. 0 \in 0 .. 8
      OBVIOUS
    <3>. QED BY <2>1, <2>3, <3>1
  <2>. QED BY <2>4, <2>5, <2>6
<1>3. IsRecordState(ty, t) /\ (ty.key # 0 => t.headerCursor \in 0 .. 12)
  BY DEF IsFilled
<1>4. RecordGoing(ty, t)
  BY <1>2, <1>3 DEF RecordGoing
<1>. QED BY <1>1, <1>4

\* What the steps of a filled record have left.
HasItsField(ty, t, v, j) ==
  \A p \in Nat :
    StepRest(ty, t, AStep("field", FieldOrder(ty)[j]), p)
      = Encoding(FieldTypes(ty)[j], FieldValues(ty, v)[j], p)

LEMMA FilledField ==
  ASSUME NEW ty, NEW t, NEW v, NEW j,
         IsSound(ty), IsValue(ty, v), IsFilled(ty, t, v), j \in 1 .. Len(ty.fields)
  PROVE  HasItsField(ty, t, v, j)
<1> DEFINE i == FieldOrder(ty)[j]
<1>1. /\ i \in 1 .. Len(ty.fields)
      /\ FieldTypes(ty)[j] = ty.fields[i].ty /\ FieldValues(ty, v)[j] = v[i]
  BY RecordValue DEF HasFields
<1> HIDE DEF i
<1>2. t.fields[i].started = FALSE /\ t.fields[i].slot = <<v[i]>>
  BY <1>1 DEF IsFilled
<1>3. ASSUME NEW p \in Nat
      PROVE  StepRest(ty, t, AStep("field", i), p) = Encoding(ty.fields[i].ty, v[i], p)
  <2>1. StepRest(ty, t, AStep("field", i), p)
          = Left(ty.fields[i].ty, t.fields[i].started, t.fields[i].ser,
                 t.fields[i].slot, p)
    BY FieldStepRest
  <2>. QED BY <1>2, <2>1 DEF Left
<1>. QED BY <1>1, <1>3 DEF HasItsField, i

LEMMA FilledEntry ==
  ASSUME NEW ty, NEW t, NEW v, NEW i, NEW p,
         IsSound(ty), IsFilled(ty, t, v), ty.key # 0, i \in 1 .. Len(ty.fields)
  PROVE  StepRest(ty, t, AStep("entry", i), p)
           = SubSeq(EntryBytes(ty.fields[i], MeasureBody(ty.fields[i].ty, v[i])), 1, 8)
<1>1. /\ t.fields[i].entryCursor = 0
      /\ t.fields[i].len = MeasureBody(ty.fields[i].ty, v[i])
  BY DEF IsFilled
<1>2. StepRest(ty, t, AStep("entry", i), p)
        = SubSeq(EntryBytes(ty.fields[i], t.fields[i].len),
                 t.fields[i].entryCursor + 1, 8)
  BY EntryStepRest
<1>3. 0 + 1 = 1
  OBVIOUS
<1>. QED BY <1>1, <1>2, <1>3

\* The things a filled record writes: those of its fields, and with a schema
\* the header and the table before them.
LEMMA PlainItems ==
  ASSUME NEW ty, NEW t, NEW v,
         IsSound(ty), IsValue(ty, v), IsFilled(ty, t, v), ty.key = 0
  PROVE  RecordItems(ty, t) = FieldItems(ty, v)
<1> DEFINE n == Len(ty.fields)
           m == Len(StepsOf(ty))
           order == FieldOrder(ty)
<1>1. n \in Nat /\ m = n
  BY SoundRecord, StepsAre
<1>2. ASSUME NEW j \in 1 .. n
      PROVE  [p \in Nat |-> StepRest(ty, t, StepsOf(ty)[j], p)]
               = [p \in Nat |-> Encoding(FieldTypes(ty)[j], FieldValues(ty, v)[j], p)]
  <2>1. StepsOf(ty)[j] = AStep("field", order[j])
    <3>1. j \in 1 .. m
      BY <1>1
    <3>. QED BY <3>1, SoundRecord, StepsAre
  <2>2. \A p \in Nat : StepRest(ty, t, AStep("field", order[j]), p)
                         = Encoding(FieldTypes(ty)[j], FieldValues(ty, v)[j], p)
    <3>1. HasItsField(ty, t, v, j)
      BY FilledField
    <3>. QED BY <3>1 DEF HasItsField
  <2> HIDE DEF order
  <2>. QED BY <2>1, <2>2
<1>3. RecordItems(ty, t)
        = [j \in 1 .. n |-> [p \in Nat |-> StepRest(ty, t, StepsOf(ty)[j], p)]]
  BY <1>1 DEF RecordItems
<1>4. FieldItems(ty, v)
        = [j \in 1 .. n |-> [p \in Nat |-> Encoding(FieldTypes(ty)[j], FieldValues(ty, v)[j], p)]]
  BY DEF FieldItems, Items
<1> HIDE DEF n, m
<1>. QED BY <1>2, <1>3, <1>4

\* An entry of the table is what its step has left.
HasItsEntry(ty, t, v, pos, j) ==
  \A p : StepRest(ty, t, AStep("entry", FieldOrder(ty)[j]), p)
           = TableEntries(ty, PayloadLens(ty, v, pos))[j]

LEMMA EntryFilled ==
  ASSUME NEW ty, NEW t, NEW v, NEW pos, NEW j,
         IsSound(ty), Announces(ty), IsValue(ty, v), IsFilled(ty, t, v), ty.key # 0,
         pos \in Nat, j \in 1 .. Len(ty.fields)
  PROVE  HasItsEntry(ty, t, v, pos, j)
<1> DEFINE i == FieldOrder(ty)[j]
           len == MeasureBody(ty.fields[i].ty, v[i])
           payloads == FieldParts(ty, v, PayloadsAt(ty, pos))
           h == EntryBytes(ty.fields[i], len)
<1>1. /\ i \in 1 .. Len(ty.fields)
      /\ FieldTypes(ty)[j] = ty.fields[i].ty /\ FieldValues(ty, v)[j] = v[i]
  BY RecordValue DEF HasFields
<1>2. PICK q \in Nat :
        payloads[j] = Encoding(FieldTypes(ty)[j], FieldValues(ty, v)[j], q)
  BY SchemaIs DEF IsSchema, ArePayloads
<1> HIDE DEF i
<1>3. len = Len(payloads[j]) /\ len \in Nat
  <2>1. i \in 1 .. Len(ty.fields) /\ Exact(ty.fields[i].ty)
    BY <1>1 DEF Announces
  <2>2. len = Len(Encoding(ty.fields[i].ty, v[i], q)) /\ len \in Nat
    <3>1. IsMeasured(ty.fields[i].ty, v[i])
      BY <2>1, FieldMeasured
    <3>. QED BY <3>1 DEF IsMeasured
  <2>3. payloads[j] = Encoding(ty.fields[i].ty, v[i], q)
    BY <1>1, <1>2
  <2> HIDE DEF len, payloads
  <2>. QED BY <2>2, <2>3
<1>4. \A p : StepRest(ty, t, AStep("entry", i), p) = SubSeq(h, 1, 8)
  BY <1>1, FilledEntry
<1>5. TableEntries(ty, PayloadLens(ty, v, pos))[j] = h
  <2>1. PayloadLens(ty, v, pos)[j] = len
    BY <1>3 DEF PayloadLens
  <2>. QED BY <2>1 DEF TableEntries, i
<1>6. h \in Bytes /\ Len(h) = 8
  <2> HIDE DEF len
  <2>. QED BY <1>1, <1>3, SoundRecord
<1>7. SubSeq(h, 1, 8) = h
  <2> HIDE DEF h
  <2>1. SubSeq(h, 1, Len(h)) = h
    BY <1>6, SubSeqFull DEF Bytes
  <2>. QED BY <1>6, <2>1
<1> HIDE DEF h
<1>. QED BY <1>4, <1>5, <1>7 DEF HasItsEntry, i

HeaderItem(ty) == [p \in Nat |-> HeaderBytes(ty)]
TableItems(ty, v, pos) == Anywhere(TableEntries(ty, PayloadLens(ty, v, pos)))

LEMMA SchemaItems ==
  ASSUME NEW ty, NEW t, NEW v, NEW pos,
         IsSound(ty), Announces(ty), IsValue(ty, v), IsFilled(ty, t, v), ty.key # 0,
         pos \in Nat
  PROVE  /\ TableItems(ty, v, pos) \in Seq(Placed)
         /\ HeaderItem(ty) \in Placed
         /\ FieldItems(ty, v) \in Seq(Placed)
         /\ RecordItems(ty, t)
              = (<<HeaderItem(ty)>> \o TableItems(ty, v, pos)) \o FieldItems(ty, v)
<1> DEFINE n == Len(ty.fields)
           m == Len(StepsOf(ty))
           order == FieldOrder(ty)
           hd == HeaderItem(ty)
           e == TableItems(ty, v, pos)
           f == FieldItems(ty, v)
           r == RecordItems(ty, t)
           table == TableEntries(ty, PayloadLens(ty, v, pos))
<1>1. n \in Nat /\ m = 1 + 2 * n
  BY SoundRecord, StepsAre
<1>2. hd \in Placed
  BY SoundRecord DEF HeaderItem, Placed
<1>3. /\ e \in Seq(Placed) /\ Len(e) = n
      /\ \A j \in 1 .. n : e[j] = [p \in Nat |-> table[j]]
  <2>1. table \in Seq(Bytes) /\ Len(table) = n
    BY SchemaIs DEF IsSchema, IsFieldTable
  <2> HIDE DEF table
  <2>2. Anywhere(table) \in Seq(Placed) /\ Len(Anywhere(table)) = Len(table)
    BY <2>1, AnywhereIsPlaced
  <2>3. \A j \in 1 .. n : Anywhere(table)[j] = [p \in Nat |-> table[j]]
    BY <2>1 DEF Anywhere
  <2>. QED BY <2>1, <2>2, <2>3 DEF TableItems, table
<1>4. f \in Seq(Placed) /\ Len(f) = n
  BY SchemaIs DEF IsSchema, ArePayloads
<1>5. \A j \in 1 .. n :
        f[j] = [p \in Nat |-> Encoding(FieldTypes(ty)[j], FieldValues(ty, v)[j], p)]
  BY DEF FieldItems, Items
<1>6. r = [j \in 1 .. m |-> [p \in Nat |-> StepRest(ty, t, StepsOf(ty)[j], p)]]
  BY DEF RecordItems
<1>7. r[1] = hd
  <2>1. 1 \in 1 .. m
    BY <1>1
  <2>2. StepsOf(ty)[1] = AStep("header", 0)
    BY <2>1, SoundRecord, StepsAre
  <2>3. \A p \in Nat : StepRest(ty, t, AStep("header", 0), p) = HeaderBytes(ty)
    <3>1. t.headerCursor = 0
      BY DEF IsFilled
    <3>2. HeaderBytes(ty) \in Bytes /\ Len(HeaderBytes(ty)) = 12
      BY SoundRecord
    <3>3. SubSeq(HeaderBytes(ty), 0 + 1, 12) = HeaderBytes(ty)
      <4>1. 12 \in Nat /\ 0 \in 0 .. 12
        OBVIOUS
      <4>. QED BY <3>2, <4>1, LastOf
    <3>4. TAKE p \in Nat
    <3>5. StepRest(ty, t, AStep("header", 0), p)
            = SubSeq(HeaderBytes(ty), t.headerCursor + 1, 12)
      BY HeaderStepRest
    <3>. QED BY <3>1, <3>3, <3>5
  <2>4. r[1] = [p \in Nat |-> StepRest(ty, t, AStep("header", 0), p)]
    <3> HIDE DEF m, r
    <3>. QED BY <1>6, <2>1, <2>2
  <2>. QED BY <2>3, <2>4 DEF HeaderItem
<1>8. ASSUME NEW j \in 1 .. n PROVE r[1 + j] = e[j]
  <2>1. 1 + j \in 1 .. m /\ 1 + j # 1 /\ 1 + j <= 1 + n /\ (1 + j) - 1 = j
    BY <1>1
  <2>2. StepsOf(ty)[1 + j] = AStep("entry", order[j])
    BY <2>1, SoundRecord, StepsAre
  <2>3. \A p \in Nat : StepRest(ty, t, AStep("entry", order[j]), p) = table[j]
    <3>1. HasItsEntry(ty, t, v, pos, j)
      BY EntryFilled
    <3>. QED BY <3>1 DEF HasItsEntry
  <2>4. r[1 + j] = [p \in Nat |-> StepRest(ty, t, AStep("entry", order[j]), p)]
    <3> HIDE DEF m, r
    <3>. QED BY <1>6, <2>1, <2>2
  <2> HIDE DEF table, order
  <2>. QED BY <1>3, <2>3, <2>4
<1>9. ASSUME NEW j \in 1 .. n PROVE r[(1 + n) + j] = f[j]
  <2>1. /\ (1 + n) + j \in 1 .. m /\ (1 + n) + j # 1 /\ ~((1 + n) + j <= 1 + n)
        /\ (1 + n) + j - 1 - n = j
    BY <1>1
  <2>2. StepsOf(ty)[(1 + n) + j] = AStep("field", order[j])
    <3> DEFINE q == (1 + n) + j
    <3>1. q \in 1 .. m /\ q # 1 /\ ~(q <= 1 + n) /\ q - 1 - n = j
      BY <2>1
    <3> HIDE DEF q
    <3>2. StepsOf(ty)[q] = AStep("field", order[q - 1 - n])
      BY <3>1, SoundRecord, StepsAre
    <3>. QED BY <3>1, <3>2 DEF q
  <2>3. \A p \in Nat : StepRest(ty, t, AStep("field", order[j]), p)
                         = Encoding(FieldTypes(ty)[j], FieldValues(ty, v)[j], p)
    <3>1. HasItsField(ty, t, v, j)
      BY FilledField
    <3>. QED BY <3>1 DEF HasItsField
  <2>4. r[(1 + n) + j] = [p \in Nat |-> StepRest(ty, t, AStep("field", order[j]), p)]
    <3> HIDE DEF m, r, n
    <3>. QED BY <1>6, <2>1, <2>2
  <2> HIDE DEF order
  <2>. QED BY <1>5, <2>3, <2>4
<1> HIDE DEF n, m, order, hd, e, f, r, table
<1> DEFINE a == <<hd>>
<1>10. a \in Seq(Placed) /\ Len(a) = 1 /\ a[1] = hd
  BY <1>2
<1> HIDE DEF a
<1>11. /\ a \o e \in Seq(Placed) /\ Len(a \o e) = 1 + n
       /\ \A j \in 1 .. 1 + n : (a \o e)[j] = IF j <= 1 THEN a[j] ELSE e[j - 1]
  <2>0. a \in Seq(Placed) /\ e \in Seq(Placed)
    BY <1>3, <1>10
  <2>1. /\ a \o e \in Seq(Placed) /\ Len(a \o e) = Len(a) + Len(e)
        /\ \A j \in 1 .. Len(a) + Len(e) :
             (a \o e)[j] = IF j <= Len(a) THEN a[j] ELSE e[j - Len(a)]
    BY ONLY <2>0, ConcatIs
  <2>. QED BY <1>3, <1>10, <2>1
<1> DEFINE b == a \o e
           w == b \o f
<1>12. /\ b \in Seq(Placed) /\ Len(b) = 1 + n
       /\ \A j \in 1 .. 1 + n : b[j] = IF j <= 1 THEN a[j] ELSE e[j - 1]
  BY <1>11
<1> HIDE DEF b
<1>13. /\ w \in Seq(Placed) /\ Len(w) = (1 + n) + n
       /\ \A j \in 1 .. (1 + n) + n : w[j] = IF j <= 1 + n THEN b[j] ELSE f[j - (1 + n)]
  <2>1. /\ w \in Seq(Placed) /\ Len(w) = Len(b) + Len(f)
        /\ \A j \in 1 .. Len(b) + Len(f) :
             w[j] = IF j <= Len(b) THEN b[j] ELSE f[j - Len(b)]
    BY <1>4, <1>12, ConcatIs
  <2>. QED BY <1>4, <1>12, <2>1
<1> HIDE DEF w
<1>14. (1 + n) + n = m
  BY <1>1
<1>15. ASSUME NEW j \in 1 .. m PROVE w[j] = r[j]
  <2>1. CASE j = 1
    <3>1. 1 \in 1 .. 1 + n /\ 1 \in 1 .. (1 + n) + n /\ 1 <= 1 + n /\ 1 <= 1
      BY <1>1
    <3>2. w[1] = b[1]
      BY <1>13, <3>1
    <3>3. b[1] = a[1]
      BY <1>12, <3>1
    <3>. QED BY <1>7, <1>10, <2>1, <3>2, <3>3
  <2>2. CASE j # 1 /\ j <= 1 + n
    <3>1. /\ j \in 1 .. 1 + n /\ j \in 1 .. (1 + n) + n /\ ~(j <= 1)
          /\ j - 1 \in 1 .. n /\ 1 + (j - 1) = j
      BY <1>1, <2>2
    <3>2. w[j] = b[j]
      BY <1>13, <2>2, <3>1
    <3>3. b[j] = e[j - 1]
      BY <1>12, <3>1
    <3>4. r[1 + (j - 1)] = e[j - 1]
      BY <1>8, <3>1
    <3>. QED BY <3>1, <3>2, <3>3, <3>4
  <2>3. CASE ~(j <= 1 + n)
    <3>1. /\ j \in 1 .. (1 + n) + n /\ j - (1 + n) \in 1 .. n
          /\ (1 + n) + (j - (1 + n)) = j
      BY <1>1, <2>3
    <3>2. w[j] = f[j - (1 + n)]
      BY <1>13, <2>3, <3>1
    <3>3. r[(1 + n) + (j - (1 + n))] = f[j - (1 + n)]
      BY <1>9, <3>1
    <3>. QED BY <3>1, <3>2, <3>3
  <2>. QED BY <2>1, <2>2, <2>3
<1>16. w = r
  <2>1. w = [j \in 1 .. m |-> w[j]]
    BY <1>13, <1>14
  <2>2. r = [j \in 1 .. m |-> r[j]]
    BY <1>6
  <2>. QED BY <1>15, <2>1, <2>2
<1>. QED BY <1>2, <1>3, <1>4, <1>16 DEF a, b, w, hd, e, f, r

LEMMA PlainRest ==
  ASSUME NEW ty, NEW t, NEW v, NEW pos,
         IsSound(ty), Announces(ty), IsValue(ty, v), IsFilled(ty, t, v), ty.key = 0,
         pos \in Nat
  PROVE  Rest(ty, t, pos) = Encoding(ty, v, pos)
<1>1. Going(ty, t)
  BY FilledGoing
<1>2. Rest(ty, t, pos) = Laid(RecordItems(ty, t), pos)
  BY <1>1, RecordRestIs
<1>3. RecordItems(ty, t) = FieldItems(ty, v)
  BY PlainItems
<1>4. Laid(FieldItems(ty, v), pos) = FlattenSeq(FieldParts(ty, v, pos))
  BY PayloadsAre DEF ArePayloads
<1>5. Encoding(ty, v, pos) = FlattenSeq(FieldParts(ty, v, pos))
  <2>1. AtLevel(ty) /\ ty.k = "record"
    BY DEF IsSound
  <2>2. \A z, p : Encoding(ty, z, p) = RecordEncoding(ty, z, p)
    BY <2>1, RecordLevel
  <2>3. RecordEncoding(ty, v, pos) = FlattenSeq(FieldParts(ty, v, pos))
    BY DEF RecordEncoding
  <2>. QED BY <2>2, <2>3
<1>. QED BY <1>2, <1>3, <1>4, <1>5

LEMMA SchemaRest ==
  ASSUME NEW ty, NEW t, NEW v, NEW pos,
         IsSound(ty), Announces(ty), IsValue(ty, v), IsFilled(ty, t, v), ty.key # 0,
         pos \in Nat
  PROVE  Rest(ty, t, pos) = Encoding(ty, v, pos)
<1> DEFINE n == Len(ty.fields)
           hd == HeaderItem(ty)
           e == TableItems(ty, v, pos)
           f == FieldItems(ty, v)
           a == <<hd>> \o e
           H == HeaderBytes(ty)
           T == TableOf(ty, v, pos)
           P == PayloadsOf(ty, v, pos)
           at == PayloadsAt(ty, pos)
<1>1. n \in Nat /\ H \in Bytes /\ Len(H) = 12
  BY SoundRecord
<1>2. /\ T \in Bytes /\ Len(T) = 8 * n
      /\ at \in Nat /\ P = Laid(f, at)
      /\ Encoding(ty, v, pos) = (H \o T) \o P
  BY SchemaIs DEF IsSchema, ArePayloads, PayloadsOf
<1>3. Rest(ty, t, pos) = Laid(RecordItems(ty, t), pos)
  <2>1. Going(ty, t)
    BY FilledGoing
  <2>. QED BY <2>1, RecordRestIs
<1>4. /\ e \in Seq(Placed) /\ hd \in Placed /\ f \in Seq(Placed)
      /\ RecordItems(ty, t) = a \o f
  BY SchemaItems
<1>5. \A p \in Nat : Laid(e, p) = T
  <2> DEFINE table == TableEntries(ty, PayloadLens(ty, v, pos))
  <2>1. table \in Seq(Bytes)
    BY SchemaIs DEF IsSchema, IsFieldTable
  <2>2. e = Anywhere(table) /\ T = FlattenSeq(table)
    BY DEF TableItems, TableOf
  <2> HIDE DEF table, e, T
  <2>. QED BY <2>1, <2>2, FlattenIsLaid
<1>6. hd[pos] = H
  BY DEF HeaderItem
<1>7. at = pos + (12 + 8 * n)
  <2>1. \A m \in Nat : pos + 12 + 8 * m = pos + (12 + 8 * m)
    OBVIOUS
  <2>. QED BY <1>1, <2>1 DEF PayloadsAt
<1> HIDE DEF hd, e, f, H, T, P, at, n
<1>8. a \in Seq(Placed)
  <2>1. <<hd>> \in Seq(Placed)
    BY <1>4
  <2> DEFINE one == <<hd>>
  <2>2. one \in Seq(Placed)
    BY <2>1
  <2> HIDE DEF one
  <2>3. one \o e \in Seq(Placed)
    BY <1>4, <2>2, ConcatIs
  <2>. QED BY <2>3 DEF one
<1>9. Laid(a, pos) = H \o T
  <2>1. /\ Laid(<<hd>> \o e, pos) = hd[pos] \o Laid(e, pos + Len(hd[pos]))
        /\ pos + Len(hd[pos]) \in Nat
    BY <1>4, LaidFirst
  <2>2. pos + Len(H) \in Nat /\ Laid(a, pos) = H \o Laid(e, pos + Len(H))
    BY <1>6, <2>1
  <2>3. Laid(e, pos + Len(H)) = T
    BY <1>5, <2>2
  <2> HIDE DEF a
  <2>. QED BY <2>2, <2>3
<1>10. Len(H \o T) = 12 + 8 * n
  <2>1. Len(H \o T) = Len(H) + Len(T)
    BY <1>1, <1>2, Joins
  <2>. QED BY <1>1, <1>2, <2>1
<1> HIDE DEF a
<1>11. Laid(a \o f, pos) = Laid(a, pos) \o Laid(f, pos + Len(Laid(a, pos)))
  BY <1>4, <1>8, LaidSplit
<1>12. Laid(f, pos + Len(Laid(a, pos))) = P
  BY <1>2, <1>7, <1>9, <1>10
<1>. QED BY <1>2, <1>3, <1>4, <1>9, <1>11, <1>12

\* A record that was given a value has the whole encoding left.
LEMMA FilledRest ==
  ASSUME NEW ty, NEW t, NEW v, NEW pos,
         IsSound(ty), Announces(ty), IsValue(ty, v), IsFilled(ty, t, v), pos \in Nat
  PROVE  Rest(ty, t, pos) = Encoding(ty, v, pos)
BY PlainRest, SchemaRest

LEMMA RecordEncodes ==
  ASSUME NEW ty, NEW v, NEW pos, IsSound(ty), IsValue(ty, v), pos \in Nat
  PROVE  Encoding(ty, v, pos) \in Bytes
<1>1. CASE ty.key = 0
  <2>1. FlattenSeq(FieldParts(ty, v, pos)) \in Bytes
    BY PayloadsAre DEF ArePayloads
  <2>2. AtLevel(ty) /\ ty.k = "record"
    BY DEF IsSound
  <2>3. \A z, p : Encoding(ty, z, p) = RecordEncoding(ty, z, p)
    BY <2>2, RecordLevel
  <2>4. RecordEncoding(ty, v, pos) = FlattenSeq(FieldParts(ty, v, pos))
    BY <1>1 DEF RecordEncoding
  <2>. QED BY <2>1, <2>3, <2>4
<1>2. CASE ty.key # 0
  <2> DEFINE H == HeaderBytes(ty)
             T == TableOf(ty, v, pos)
             P == PayloadsOf(ty, v, pos)
  <2>1. /\ T \in Bytes /\ P \in Bytes
        /\ Encoding(ty, v, pos) = (H \o T) \o P
    BY <1>2, SchemaIs DEF IsSchema
  <2>2. H \in Bytes
    BY SoundRecord
  <2> HIDE DEF H, T, P
  <2>3. H \o T \in Bytes
    BY <2>1, <2>2, Joins
  <2>4. (H \o T) \o P \in Bytes
    BY <2>1, <2>3, Joins
  <2>. QED BY <2>1, <2>4
<1>. QED BY <1>1, <1>2

\* The fields in their order are as long as measured in any order.
LEMMA FieldsLength ==
  ASSUME NEW ty, NEW v, NEW pos, IsSound(ty), IsValue(ty, v), pos \in Nat,
         \A i \in 1 .. Len(ty.fields) : Exact(ty.fields[i].ty)
  PROVE  /\ Len(Laid(FieldItems(ty, v), pos)) = MeasureFields(ty, v)
         /\ MeasureFields(ty, v) \in Nat
<1> DEFINE n == Len(ty.fields)
           order == FieldOrder(ty)
           lens == [i \in 1 .. n |-> MeasureBody(ty.fields[i].ty, v[i])]
           ordered == [j \in 1 .. n |-> lens[order[j]]]
           items == FieldItems(ty, v)
<1>1. n \in Nat /\ Permutes(order, n)
  BY SoundRecord
<1>2. \A i \in 1 .. n : IsMeasured(ty.fields[i].ty, v[i])
  BY FieldMeasured
<1>3. lens \in Seq(Nat) /\ Len(lens) = n
  <2>1. \A i \in 1 .. n : MeasureBody(ty.fields[i].ty, v[i]) \in Nat
    BY <1>2 DEF IsMeasured
  <2> HIDE DEF n
  <2>. QED BY <1>1, <2>1
<1>4. MeasureFields(ty, v) = SumOf(lens)
  <2>1. Len(v) = n
    BY RecordValue DEF HasFields
  <2>. QED BY <2>1 DEF MeasureFields
<1>5. items \in Seq(Placed) /\ Len(items) = n
  BY PayloadsAre DEF ArePayloads
<1>6. ASSUME NEW j \in 1 .. n, NEW p \in Nat PROVE Len(items[j][p]) = lens[order[j]]
  <2> DEFINE i == order[j]
  <2>1. /\ i \in 1 .. n
        /\ FieldTypes(ty)[j] = ty.fields[i].ty /\ FieldValues(ty, v)[j] = v[i]
    BY RecordValue DEF HasFields
  <2>2. items[j][p] = Encoding(FieldTypes(ty)[j], FieldValues(ty, v)[j], p)
    BY DEF FieldItems, Items
  <2> HIDE DEF i, items
  <2>3. MeasureBody(ty.fields[i].ty, v[i]) = Len(Encoding(ty.fields[i].ty, v[i], p))
    BY <1>2, <2>1 DEF IsMeasured
  <2>4. lens[i] = MeasureBody(ty.fields[i].ty, v[i])
    BY <2>1
  <2> HIDE DEF lens
  <2>. QED BY <2>1, <2>2, <2>3, <2>4 DEF i
<1>7. \A j \in 1 .. n : order[j] \in 1 .. n
  BY <1>1 DEF Permutes
<1> HIDE DEF n, order, lens, items
<1>8. SumOf([j \in 1 .. Len(lens) |-> lens[order[j]]]) = SumOf(lens)
  BY <1>1, <1>3, SumPermuted
<1>9. SumOf(ordered) = SumOf(lens)
  BY <1>3, <1>8
<1>10. /\ ordered \in Seq(Nat) /\ Len(ordered) = n
       /\ \A j \in 1 .. n : ordered[j] = lens[order[j]]
  <2>1. \A j \in 1 .. n : lens[order[j]] \in Nat
    BY <1>3, <1>7
  <2>. QED BY <1>1, <2>1
<1> HIDE DEF ordered
<1>11. \A j \in 1 .. Len(ordered) : \A p \in Nat : Len(items[j][p]) = ordered[j]
  BY <1>6, <1>10
<1>12. Len(Laid(items, pos)) = SumOf(ordered)
  <2>1. /\ items \in Seq(Placed) /\ ordered \in Seq(Nat) /\ pos \in Nat
        /\ Len(items) = Len(ordered)
    BY <1>5, <1>10
  <2>. QED BY ONLY <2>1, <1>11, LaidLength
<1>13. SumOf(lens) \in Nat
  <2>1. Laid(items, pos) \in Bytes
    BY <1>5, LaidIsBytes
  <2>2. Len(Laid(items, pos)) \in Nat
    BY <2>1, NoLength
  <2>. QED BY <1>9, <1>12, <2>2
<1>. QED BY <1>4, <1>9, <1>12, <1>13 DEF items

LEMMA RecordMeasured ==
  ASSUME NEW ty, NEW v, NEW pos, IsSound(ty), IsValue(ty, v), pos \in Nat, Exact(ty)
  PROVE  MeasureBody(ty, v) = Len(Encoding(ty, v, pos))
<1> DEFINE n == Len(ty.fields)
           f == FieldItems(ty, v)
           fields == MeasureFields(ty, v)
<1>1. AtLevel(ty) /\ ty.k = "record"
  BY DEF IsSound
<1>2. \A i \in 1 .. n : Exact(ty.fields[i].ty)
  BY <1>1, RecordLevel
<1>3. MeasureBody(ty, v)
        = (IF ty.key # 0 THEN SchemaOverhead(Len(ty.fields)) ELSE 0) + fields
  <2>1. \A z : MeasureBody(ty, z) = MeasureRecord(ty, z)
    BY <1>1, RecordLevel
  <2>2. MeasureBody(ty, v) = MeasureRecord(ty, v)
    BY <2>1
  <2>. QED BY <2>2 DEF MeasureRecord
<1>4. \A z, p : Encoding(ty, z, p) = RecordEncoding(ty, z, p)
  BY <1>1, RecordLevel
<1>5. \A p \in Nat : Len(Laid(f, p)) = fields /\ fields \in Nat
  BY <1>2, FieldsLength
<1>6. CASE ty.key = 0
  <2>1. FlattenSeq(FieldParts(ty, v, pos)) = Laid(f, pos)
    BY PayloadsAre DEF ArePayloads
  <2>2. RecordEncoding(ty, v, pos) = FlattenSeq(FieldParts(ty, v, pos))
    BY <1>6 DEF RecordEncoding
  <2>3. MeasureBody(ty, v) = 0 + fields
    BY <1>3, <1>6
  <2> HIDE DEF f, fields
  <2>. QED BY <1>4, <1>5, <2>1, <2>2, <2>3
<1>7. CASE ty.key # 0
  <2> DEFINE H == HeaderBytes(ty)
             T == TableOf(ty, v, pos)
             P == PayloadsOf(ty, v, pos)
             at == PayloadsAt(ty, pos)
  <2>1. /\ T \in Bytes /\ Len(T) = 8 * n /\ P \in Bytes
        /\ at \in Nat /\ P = Laid(f, at)
        /\ Encoding(ty, v, pos) = (H \o T) \o P
    BY <1>7, SchemaIs DEF IsSchema, ArePayloads, PayloadsOf
  <2>2. n \in Nat /\ H \in Bytes /\ Len(H) = 12
    BY SoundRecord
  <2>3. MeasureBody(ty, v) = (12 + 8 * n) + fields
    BY <1>3, <1>7 DEF SchemaOverhead
  <2> HIDE DEF H, T, P, at, f, fields, n
  <2>4. Len(P) = fields
    BY <1>5, <2>1
  <2>5. H \o T \in Bytes /\ Len(H \o T) = Len(H) + Len(T)
    BY <2>1, <2>2, Joins
  <2>6. Len((H \o T) \o P) = Len(H \o T) + Len(P)
    BY <2>1, <2>5, Joins
  <2>. QED BY <2>1, <2>2, <2>3, <2>4, <2>5, <2>6
<1>. QED BY <1>6, <1>7

LEMMA RecordIdle ==
  ASSUME NEW ty, IsSound(ty)
  PROVE  Idle(ty, New(ty))
<1> DEFINE n == Len(ty.fields)
           new == NewRecord(ty)
<1>1. AtLevel(ty) /\ ty.k = "record"
  BY DEF IsSound
<1>2. New(ty) = new
  BY <1>1, RecordLevel
<1>3. \A i \in 1 .. n : Idle(ty.fields[i].ty, New(ty.fields[i].ty))
  BY SoundRecord DEF Keeps
<1>4. /\ IsRecord(new, {"headerCursor", "fields"}) /\ new.headerCursor = 0
      /\ new.fields = [i \in 1 .. n |-> NewField(ty.fields[i].ty)]
  BY DEF NewRecord, IsRecord
<1>5. \A i \in 1 .. n : /\ IsRecord(NewField(ty.fields[i].ty), FieldNames)
                        /\ NewField(ty.fields[i].ty).ser = New(ty.fields[i].ty)
                        /\ NewField(ty.fields[i].ty).entryCursor = 0
  BY DEF NewField, IsRecord, FieldNames
<1> HIDE DEF new
<1>6. \A i \in 1 .. n : new.fields[i] = NewField(ty.fields[i].ty)
  BY <1>4
<1>7. IsRecordState(ty, new)
  <2>1. new.fields = [i \in 1 .. n |-> new.fields[i]]
    BY <1>4
  <2>. QED BY <1>4, <1>5, <1>6, <2>1 DEF IsRecordState
<1>8. \A s : /\ IsRecordState(ty, s)
             /\ \A i \in 1 .. n : Idle(ty.fields[i].ty, s.fields[i].ser)
             /\ ty.key # 0 => /\ s.headerCursor = 0
                              /\ \A i \in 1 .. n : s.fields[i].entryCursor = 0
             => Idle(ty, s)
  BY <1>1, RecordLevel
<1>9. \A i \in 1 .. n : Idle(ty.fields[i].ty, new.fields[i].ser)
                        /\ new.fields[i].entryCursor = 0
  BY <1>3, <1>5, <1>6
<1>. QED BY <1>2, <1>4, <1>7, <1>8, <1>9

\* A record keeps the promise if its fields do.
LEMMA RecordKeeps ==
  ASSUME NEW ty, AtLevel(ty), ty.k = "record", Regular(ty), FieldsKeep(ty)
  PROVE  Keeps(ty)
<1>1. IsSound(ty)
  BY RecordLevel DEF IsSound
<1>2. Announces(ty)
  BY RecordLevel DEF Announces
<1>3. Writes(ty)
  <2>1. \A s, at : at \in Nat /\ Going(ty, s) => Rest(ty, s, at) \in Bytes
    BY <1>1, RecordRestIs
  <2>2. \A v, pos : pos \in Nat /\ IsValue(ty, v) => Encoding(ty, v, pos) \in Bytes
    BY <1>1, RecordEncodes
  <2>3. FieldEncoding(ty) \in Byte /\ Alignment(ty) \in Nat \ {0}
    <3>1. FieldEncoding(ty) \in 0 .. 4 /\ Alignment(ty) = 1
      BY RecordLevel
    <3>. QED BY <3>1 DEF Byte
  <2>. QED BY <2>1, <2>2, <2>3 DEF Writes
<1>4. Continuing(ty)
  BY <1>1, RecordPolled DEF Continuing
<1>5. Accepting(ty)
  <2>1. SUFFICES ASSUME NEW s, NEW v, NEW k,
                        IsSink(k), Idle(ty, s), IsValue(ty, v),
                        Fits(k, Encoding(ty, v, SinkPos(k)))
                 PROVE  Answers(ty, k, Encoding(ty, v, SinkPos(k)), Input(ty, s, v, k))
    BY DEF Accepting
  <2> DEFINE t == Filled(ty, s, v)
  <2>2. IsFilled(ty, t, v)
    BY <1>1, <2>1, FilledIs
  <2>3. Input(ty, s, v, k) = Poll(ty, t, k)
    <3>1. \A z : Input(ty, z, v, k) = InputRecord(ty, z, v, k)
      BY RecordLevel
    <3>2. \A z : Poll(ty, z, k) = PollRecord(ty, z, k)
      BY RecordLevel
    <3>3. InputRecord(ty, s, v, k) = PollRecord(ty, t, k)
      BY DEF InputRecord, Filled
    <3> HIDE DEF t
    <3>. QED BY <3>1, <3>2, <3>3
  <2> HIDE DEF t
  <2>4. Going(ty, t)
    BY <1>1, <1>2, <2>1, <2>2, FilledGoing
  <2>5. SinkPos(k) \in Nat
    BY <2>1, MidwayStart, MidwayFacts, NoBytes
  <2>6. Rest(ty, t, SinkPos(k)) = Encoding(ty, v, SinkPos(k))
    BY <1>1, <1>2, <2>1, <2>2, <2>5, FilledRest
  <2>. QED BY <1>4, <2>1, <2>3, <2>4, <2>6, AcceptsByPolling
<1>6. Finishing(ty)
  <2>1. \A s, k : Ended(ty, s) => /\ Finish(ty, s, k).r = "ready"
                                  /\ Finish(ty, s, k).sink = k
    BY <1>1, RecordFinishes
  <2>2. ASSUME Quiet(ty), NEW s, Idle(ty, s) PROVE Ended(ty, s)
    <3>1. \A i \in 1 .. Len(ty.fields) : Quiet(ty.fields[i].ty)
      BY <2>2, RecordLevel
    <3>2. \A i \in 1 .. Len(ty.fields) : Idle(ty.fields[i].ty, s.fields[i].ser)
      <4>1. \A z : Idle(ty, z) => \A i \in 1 .. Len(ty.fields) :
                                    Idle(ty.fields[i].ty, z.fields[i].ser)
        BY RecordLevel
      <4>. QED BY <2>2, <4>1
    <3>3. \A i \in 1 .. Len(ty.fields) : Ended(ty.fields[i].ty, s.fields[i].ser)
      BY <1>1, <3>1, <3>2, SoundRecord DEF Keeps, Finishing
    <3>4. \A z : (\A i \in 1 .. Len(ty.fields) : Ended(ty.fields[i].ty, z.fields[i].ser))
                 => Ended(ty, z)
      BY RecordLevel
    <3>. QED BY <3>3, <3>4
  <2>. QED BY <2>1, <2>2 DEF Finishing
<1>7. Measured(ty)
  BY <1>1, RecordMeasured DEF Measured
<1>8. Idle(ty, New(ty))
  BY <1>1, RecordIdle
<1>. QED BY <1>3, <1>4, <1>5, <1>6, <1>7, <1>8 DEF Keeps

-----------------------------------------------------------------------------
(* All types *)

Kinds == Leaf \cup {"option", "shared", "array", "vec", "map", "result", "tuple",
                    "record", "enum"}

\* The types inside a type.
Inner(ty) ==
  CASE ty.k \in Leaf -> {}
    [] ty.k \in {"option", "shared", "array", "vec", "map"} -> {ty.of}
    [] ty.k \in {"result", "tuple"} -> {ty.left, ty.right}
    [] ty.k = "record" -> {ty.fields[i].ty : i \in 1 .. Len(ty.fields)}
    [] ty.k = "enum" -> {ty.variants[i] : i \in 1 .. Len(ty.variants)}

\* The types are trees: what is inside a type is a type of a smaller rank.  Every
\* method is the one of the type's kind.
AreTypes(Types, rank) ==
  \A ty \in Types :
    /\ ty.k \in Kinds /\ AtLevel(ty)
    /\ ty.k = "record" => Len(ty.fields) \in Nat
    /\ ty.k = "enum" => Len(ty.variants) \in Nat
    /\ rank[ty] \in Nat
    /\ \A inner \in Inner(ty) : inner \in Types /\ rank[inner] < rank[ty]

InnerKeep(ty) == \A inner \in Inner(ty) : AtLevel(inner) /\ (Regular(inner) => Keeps(inner))

\* If the serializers inside keep the promise, the one around them does.
LEMMA KeepsByLevel ==
  ASSUME NEW ty, ty.k \in Kinds, AtLevel(ty), Regular(ty),
         ty.k = "record" => Len(ty.fields) \in Nat,
         ty.k = "enum" => Len(ty.variants) \in Nat,
         InnerKeep(ty)
  PROVE  Keeps(ty)
<1>0. RegularOf(ty)
  BY DEF AtLevel
<1>1. CASE ty.k \in Leaf
  BY <1>1, LeafKeeps
<1>2. CASE ty.k \in {"option", "shared", "array", "vec", "map"}
  <2>1. Regular(ty.of)
    BY <1>0, <1>2 DEF RegularOf, Leaf
  <2>2. ty.of \in Inner(ty)
    BY <1>2 DEF Inner, Leaf
  <2>3. AtLevel(ty.of) /\ Keeps(ty.of)
    BY <2>1, <2>2 DEF InnerKeep
  <2>4. CASE ty.k = "option"
    BY <2>3, <2>4, OptionKeeps
  <2>5. CASE ty.k = "shared"
    BY <2>3, <2>5, SharedKeeps
  <2>6. CASE ty.k = "array"
    BY <2>3, <2>6, ArrayKeeps
  <2>7. CASE ty.k \in {"vec", "map"}
    BY <2>3, <2>7, VecKeeps
  <2>. QED BY <1>2, <2>4, <2>5, <2>6, <2>7
<1>3. CASE ty.k \in {"result", "tuple"}
  <2>1. Regular(ty.left) /\ Regular(ty.right)
    BY <1>0, <1>3 DEF RegularOf, Leaf
  <2>2. ty.left \in Inner(ty) /\ ty.right \in Inner(ty)
    BY <1>3 DEF Inner, Leaf
  <2>3. BothKeep(ty)
    BY <2>1, <2>2 DEF InnerKeep, BothKeep
  <2>4. CASE ty.k = "result"
    BY <2>3, <2>4, ResultKeeps
  <2>5. CASE ty.k = "tuple"
    BY <2>3, <2>5, TupleKeeps
  <2>. QED BY <1>3, <2>4, <2>5
<1>4. CASE ty.k = "record"
  <2>1. \A i \in 1 .. Len(ty.fields) : Regular(ty.fields[i].ty)
    BY <1>0, <1>4 DEF RegularOf, Leaf
  <2>2. Inner(ty) = {ty.fields[i].ty : i \in 1 .. Len(ty.fields)}
    BY <1>4 DEF Inner, Leaf
  <2>3. \A i \in 1 .. Len(ty.fields) : ty.fields[i].ty \in Inner(ty)
    BY <2>2
  <2>4. FieldsKeep(ty)
    BY <1>4, <2>1, <2>3 DEF InnerKeep, FieldsKeep
  <2>. QED BY <1>4, <2>4, RecordKeeps
<1>5. CASE ty.k = "enum"
  <2>1. \A i \in 1 .. Len(ty.variants) : Regular(ty.variants[i])
    BY <1>0, <1>5 DEF RegularOf, Leaf
  <2>2. Inner(ty) = {ty.variants[i] : i \in 1 .. Len(ty.variants)}
    BY <1>5 DEF Inner, Leaf
  <2>3. \A i \in 1 .. Len(ty.variants) : ty.variants[i] \in Inner(ty)
    BY <2>2
  <2>4. VariantsKeep(ty)
    BY <1>5, <2>1, <2>3 DEF InnerKeep, VariantsKeep
  <2>. QED BY <1>5, <2>4, EnumKeeps
<1>. QED BY <1>1, <1>2, <1>3, <1>4, <1>5 DEF Kinds

\* However types are nested, the serializer of each that is regular keeps the
\* promise of the trait.
THEOREM EveryTypeKeeps ==
  ASSUME NEW Types, NEW rank, AreTypes(Types, rank)
  PROVE  \A ty \in Types : Regular(ty) => Keeps(ty)
<1>1. TAKE top \in Types
<1> DEFINE n == rank[top]
           D == {m \in 0 .. n : \A u \in Types : rank[u] <= m /\ Regular(u) => Keeps(u)}
<1>2. \A u \in Types :
        /\ rank[u] \in Nat
        /\ \A inner \in Inner(u) : /\ inner \in Types /\ AtLevel(inner)
                                   /\ rank[inner] \in Nat /\ rank[inner] < rank[u]
  BY DEF AreTypes
<1>3. n \in Nat
  BY <1>2
<1>4. ASSUME NEW u \in Types, Regular(u),
             \A inner \in Inner(u) : Regular(inner) => Keeps(inner)
      PROVE  Keeps(u)
  <2>1. /\ u.k \in Kinds /\ AtLevel(u)
        /\ u.k = "record" => Len(u.fields) \in Nat
        /\ u.k = "enum" => Len(u.variants) \in Nat
    BY DEF AreTypes
  <2>2. InnerKeep(u)
    BY <1>2, <1>4 DEF InnerKeep
  <2>. QED BY <1>4, <2>1, <2>2, KeepsByLevel
<1> HIDE DEF n
<1>5. 0 \in D
  <2>1. ASSUME NEW u \in Types, rank[u] <= 0, Regular(u) PROVE Keeps(u)
    <3>1. \A inner \in Inner(u) : FALSE
      <4>1. TAKE inner \in Inner(u)
      <4>2. rank[u] \in Nat /\ rank[inner] \in Nat /\ rank[inner] < rank[u]
        BY <1>2
      <4>. QED BY <2>1, <4>2
    <3>. QED BY <1>4, <2>1, <3>1
  <2>2. 0 \in 0 .. n
    BY <1>3
  <2>. QED BY <2>1, <2>2
<1>6. ASSUME NEW m \in 0 .. n - 1, m \in D PROVE m + 1 \in D
  <2>0. \A u \in Types : rank[u] <= m /\ Regular(u) => Keeps(u)
    BY <1>6
  <2>1. ASSUME NEW u \in Types, rank[u] <= m + 1, Regular(u) PROVE Keeps(u)
    <3>1. ASSUME NEW inner \in Inner(u), Regular(inner) PROVE Keeps(inner)
      <4>1. /\ rank[u] \in Nat /\ rank[inner] \in Nat /\ rank[inner] < rank[u]
            /\ inner \in Types
        BY <1>2
      <4>2. rank[inner] <= m
        BY <1>3, <2>1, <4>1
      <4>. QED BY <2>0, <3>1, <4>1, <4>2
    <3>. QED BY <1>4, <2>1, <3>1
  <2>2. m + 1 \in 0 .. n
    BY <1>3
  <2>. QED BY <2>1, <2>2
<1>7. n \in D
  <2>1. \A m \in 0 .. n : m \in D
    <3> HIDE DEF D
    <3>. QED BY <1>3, <1>5, <1>6, Induction
  <2>2. n \in 0 .. n
    BY <1>3
  <2>. QED BY <2>1, <2>2
<1>8. \A u \in Types : rank[u] <= n /\ Regular(u) => Keeps(u)
  BY <1>7
<1>9. rank[top] <= n
  BY <1>3 DEF n
<1>. QED BY <1>8, <1>9

-----------------------------------------------------------------------------
(* The caller *)

\* What is serialized are values whose serializers keep the promise.
Serializable(c) ==
  /\ Keeps(c.ty)
  /\ IsValue(c.ty, c.val)
  /\ c.base \in 0 .. MaxPos
  /\ c.enc = Encoding(c.ty, c.val, c.base)
  /\ c.base + Len(c.enc) <= 2 * MaxPos

\* A call with sink k has answered a; out \o todo was the encoding before.
Advanced(ty, k, enc, a) ==
  /\ IsSink(a.sink)
  /\ a.sink.base = k.base /\ a.sink.limit = k.limit /\ a.sink.strict = k.strict
  /\ \E w \in Bytes : a.sink.out = k.out \o w
  /\ \E rest \in Bytes :
       /\ a.sink.out \o rest = enc
       /\ Stands(a.sink, a.r, rest)
       /\ a.r = "ready" => Over(ty, a.s)
       /\ a.r = "pending" => /\ Going(ty, a.s)
                             /\ Rest(ty, a.s, SinkPos(a.sink)) = rest

LEMMA CallsAdvance ==
  ASSUME NEW ty, NEW k, NEW enc, NEW todo, NEW a,
         IsSink(k), todo \in Bytes, k.out \o todo = enc, Answers(ty, k, todo, a)
  PROVE  Advanced(ty, k, enc, a)
<1>1. PICK rest \in Bytes :
        /\ Outcome(k, todo, a.sink, a.r, rest)
        /\ a.r = "ready" => Over(ty, a.s)
        /\ a.r = "pending" => /\ Going(ty, a.s)
                              /\ Rest(ty, a.s, SinkPos(a.sink)) = rest
  BY DEF Answers
<1>2. Midway(k, todo, a.sink, rest) /\ Stands(a.sink, a.r, rest)
  BY <1>1 DEF Outcome
<1>3. PICK w \in Bytes : todo = w \o rest /\ a.sink = After(k, w) /\ SinkPos(a.sink) <= k.limit
  BY <1>2 DEF Midway
<1>4. /\ IsSink(a.sink)
      /\ a.sink.base = k.base /\ a.sink.limit = k.limit /\ a.sink.strict = k.strict
  BY <1>2, MidwayFacts
<1>5. a.sink.out = k.out \o w
  BY <1>3, AfterFacts
<1>6. a.sink.out \o rest = enc
  <2>1. k.out \in Bytes
    BY DEF IsSink
  <2>2. (k.out \o w) \o rest = k.out \o (w \o rest)
    BY <2>1, Regroup
  <2>. QED BY <1>3, <1>5, <2>2
<1>. QED BY <1>1, <1>2, <1>4, <1>5, <1>6 DEF Advanced

\* The bytes in the sink and those left to write are the encoding.
Streaming == IInv /\ IsSink(sink)

LEMMA CasesOf ==
  ASSUME \A c \in Cases : Serializable(c), case \in Cases
  PROVE  /\ Keeps(case.ty) /\ IsValue(case.ty, case.val)
         /\ case.base \in Nat /\ case.base <= MaxPos
         /\ case.enc = Encoding(case.ty, case.val, case.base)
         /\ case.enc \in Bytes /\ Len(case.enc) \in Nat
         /\ case.base + Len(case.enc) <= 2 * MaxPos
<1>1. Serializable(case)
  OBVIOUS
<1>2. case.base \in Nat /\ case.base <= MaxPos
  BY <1>1, BoundsAssumption DEF Serializable
<1>3. case.enc \in Bytes
  BY <1>1, <1>2 DEF Serializable, Keeps, Writes
<1>. QED BY <1>1, <1>2, <1>3, NoLength DEF Serializable

LEMMA StreamingInit ==
  ASSUME \A c \in Cases : Serializable(c), Init
  PROVE  Streaming
<1>1. case \in Cases /\ ser = New(case.ty) /\ result = "new"
  BY DEF Init
<1>2. Keeps(case.ty) /\ case.base \in Nat /\ case.base <= MaxPos
  BY <1>1, CasesOf
<1>3. PICK l \in case.base .. MaxPos, strict \in BOOLEAN :
        sink = [base |-> case.base, out |-> << >>, limit |-> l, strict |-> strict]
  BY DEF Init
<1>4. l \in Nat /\ case.base <= l /\ l <= MaxPos
  BY <1>2, <1>3, BoundsAssumption
<1>5. /\ sink.base = case.base /\ sink.out = << >> /\ sink.limit = l
      /\ sink.strict \in BOOLEAN
      /\ sink \in [base : Nat, out : Bytes, limit : Nat, strict : BOOLEAN]
  BY <1>2, <1>3, <1>4, NoBytes
<1>6. SinkPos(sink) = case.base
  BY <1>2, <1>5, NoBytes DEF SinkPos
<1>7. IsSink(sink)
  BY <1>4, <1>5, <1>6 DEF IsSink
<1>8. Idle(case.ty, ser)
  BY <1>1, <1>2 DEF Keeps
<1>9. TypeOK
  BY <1>1, <1>4, <1>5, <1>6, NoBytes DEF TypeOK, Bytes, Byte
<1>. QED BY <1>1, <1>5, <1>7, <1>8, <1>9 DEF Streaming, IInv

\* What Streaming says, one fact at a time.
LEMMA StreamingFacts ==
  ASSUME \A c \in Cases : Serializable(c), Streaming
  PROVE  /\ case \in Cases /\ IsSink(sink) /\ sink.base = case.base
         /\ sink.limit \in Nat /\ sink.limit <= MaxPos /\ sink.strict \in BOOLEAN
         /\ sink.out \in Bytes /\ SinkPos(sink) \in Nat
         /\ SinkPos(sink) = case.base + Len(sink.out)
         /\ case.enc \in Bytes
<1>1. /\ case \in Cases /\ IsSink(sink) /\ sink.base = case.base /\ sink.limit <= MaxPos
  BY DEF Streaming, IInv, TypeOK
<1>2. SinkPos(sink) \in Nat /\ SinkPos(sink) = case.base + Len(sink.out)
  BY <1>1, AfterFacts, NoBytes DEF SinkPos
<1>3. sink.limit \in Nat /\ sink.strict \in BOOLEAN /\ sink.out \in Bytes
  BY <1>1 DEF IsSink
<1>. QED BY <1>1, <1>2, <1>3, CasesOf

\* A call that answers keeps it.
LEMMA StreamingCalls ==
  ASSUME NEW a, \A c \in Cases : Serializable(c), Streaming,
         Advanced(case.ty, sink, case.enc, a), Returned(a)
  PROVE  Streaming'
<1>1. /\ case' = case /\ ser' = a.s /\ sink' = a.sink /\ result' = a.r
  BY DEF Returned
<1>2. PICK rest \in Bytes :
       /\ a.sink.out \o rest = case.enc
       /\ Stands(a.sink, a.r, rest)
       /\ a.r = "ready" => Over(case.ty, a.s)
       /\ a.r = "pending" => /\ Going(case.ty, a.s)
                             /\ Rest(case.ty, a.s, SinkPos(a.sink)) = rest
  BY DEF Advanced
<1>3. /\ IsSink(a.sink)
      /\ a.sink.base = sink.base /\ a.sink.limit = sink.limit /\ a.sink.strict = sink.strict
  BY DEF Advanced
<1>4. /\ a.r \in {"ready", "pending", "error"}
      /\ a.r = "pending" => ~a.sink.strict /\ rest # << >>
      /\ a.r = "error" => a.sink.strict
      /\ a.r = "ready" => rest = << >>
  BY <1>2 DEF Stands
<1>5. /\ a.sink.out \in Bytes /\ SinkPos(a.sink) \in Nat /\ SinkPos(a.sink) <= a.sink.limit
      /\ a.sink.strict \in BOOLEAN
  BY <1>3, AfterFacts, NoBytes DEF IsSink
<1>6. TypeOK'
  BY <1>1, <1>3, <1>4, <1>5, StreamingFacts DEF TypeOK, Bytes, Byte, SinkPos
<1>7. a.r = "ready" => /\ Going(case.ty, a.s) /\ Ended(case.ty, a.s)
                       /\ Rest(case.ty, a.s, SinkPos(a.sink)) = << >>
  BY <1>2, <1>5 DEF Over, AtRest
<1>8. a.r = "error" => IsPrefix(a.sink.out, case.enc)
  <2>1. Len(a.sink.out) <= Len(case.enc)
        /\ SubSeq(a.sink.out, 1, Len(a.sink.out)) = SubSeq(case.enc, 1, Len(a.sink.out))
    BY <1>2, <1>5 DEF Bytes
  <2>. QED BY <2>1 DEF IsPrefix
<1> DEFINE c1 == case
           r1 == Rest(case.ty, a.s, SinkPos(a.sink))
<1>9. /\ a.r \in {"ready", "pending"} =>
           /\ Going(case.ty, a.s)
           /\ a.sink.out \o r1 = case.enc
           /\ a.r = "ready" <=> r1 = << >>
  BY <1>2, <1>4, <1>7
<1>10. (Rest(case.ty, ser, SinkPos(sink)))' = r1
  BY <1>1 DEF SinkPos
<1> HIDE DEF r1
<1>11. IInv'
  BY <1>1, <1>3, <1>4, <1>6, <1>7, <1>8, <1>9, <1>10 DEF IInv
<1>12. IsSink(sink)'
  BY <1>1, <1>3 DEF IsSink, SinkPos
<1>. QED BY <1>11, <1>12 DEF Streaming

LEMMA InputAdvances ==
  ASSUME \A c \in Cases : Serializable(c), Streaming, CallInput
  PROVE  Advanced(case.ty, sink, case.enc, Input(case.ty, ser, case.val, sink))
<1>1. /\ case \in Cases /\ IsSink(sink) /\ sink.base = case.base
      /\ Idle(case.ty, ser) /\ sink.out = << >>
      /\ SinkPos(sink) = case.base + Len(sink.out)
  BY StreamingFacts DEF Streaming, IInv, CallInput
<1>2. /\ Accepting(case.ty) /\ IsValue(case.ty, case.val)
      /\ case.enc = Encoding(case.ty, case.val, case.base)
      /\ case.enc \in Bytes /\ case.base + Len(case.enc) <= 2 * MaxPos
      /\ case.base \in Nat
  BY <1>1, CasesOf DEF Keeps
<1>3. SinkPos(sink) = case.base
  BY <1>1, <1>2, NoBytes
<1>4. Fits(sink, case.enc) /\ sink.out \o case.enc = case.enc
  BY <1>1, <1>2, <1>3, Joins DEF Fits
<1>5. Answers(case.ty, sink, case.enc, Input(case.ty, ser, case.val, sink))
  BY <1>1, <1>2, <1>3, <1>4 DEF Accepting
<1>. QED BY <1>1, <1>2, <1>4, <1>5, CallsAdvance

LEMMA PollAdvances ==
  ASSUME \A c \in Cases : Serializable(c), Streaming, result \in {"ready", "pending"}
  PROVE  /\ Advanced(case.ty, sink, case.enc, Poll(case.ty, ser, sink))
         /\ result = "ready" =>
              /\ Poll(case.ty, ser, sink).r = "ready"
              /\ Poll(case.ty, ser, sink).sink.out = sink.out
<1> DEFINE todo == Rest(case.ty, ser, SinkPos(sink))
           a == Poll(case.ty, ser, sink)
<1>1. /\ case \in Cases /\ IsSink(sink) /\ sink.base = case.base
      /\ Going(case.ty, ser) /\ sink.out \o todo = case.enc
      /\ SinkPos(sink) = case.base + Len(sink.out)
      /\ SinkPos(sink) \in Nat /\ sink.out \in Bytes
      /\ result = "ready" => todo = << >>
  BY StreamingFacts DEF Streaming, IInv
<1>2. /\ Continuing(case.ty) /\ Writes(case.ty)
      /\ case.base + Len(case.enc) <= 2 * MaxPos /\ case.base \in Nat
  BY <1>1, CasesOf DEF Keeps
<1>3. todo \in Bytes
  BY <1>1, <1>2 DEF Writes
<1>4. Fits(sink, todo)
  <2> HIDE DEF todo
  <2>1. Len(case.enc) = Len(sink.out) + Len(todo) /\ Len(sink.out) \in Nat /\ Len(todo) \in Nat
    BY <1>1, <1>3, Joins
  <2>2. SinkPos(sink) + Len(todo) = case.base + Len(case.enc)
    BY <1>1, <1>2, <2>1
  <2>. QED BY <1>2, <2>2 DEF Fits
<1>5. Answers(case.ty, sink, todo, a)
  BY <1>1, <1>2, <1>4 DEF Continuing
<1>6. Advanced(case.ty, sink, case.enc, a)
  <2> HIDE DEF todo, a
  <2>. QED BY <1>1, <1>3, <1>5, CallsAdvance
<1>7. result = "ready" => a.r = "ready" /\ a.sink.out = sink.out
  <2>1. SUFFICES ASSUME result = "ready"
                 PROVE  a.r = "ready" /\ a.sink.out = sink.out
    OBVIOUS
  <2>2. sink.out = case.enc
    BY <1>1, <2>1, Joins, NoBytes
  <2> HIDE DEF todo, a
  <2>3. PICK rest \in Bytes : a.sink.out \o rest = case.enc /\ Stands(a.sink, a.r, rest)
    BY <1>6 DEF Advanced
  <2>4. PICK w \in Bytes : a.sink.out = sink.out \o w
    BY <1>6 DEF Advanced
  <2>5. Len(sink.out) + Len(w) + Len(rest) = Len(sink.out) /\ Len(sink.out) \in Nat
        /\ Len(w) \in Nat /\ Len(rest) \in Nat
    <3>1. /\ sink.out \o w \in Bytes /\ Len(sink.out \o w) = Len(sink.out) + Len(w)
          /\ Len(sink.out) \in Nat /\ Len(w) \in Nat
      BY <1>1, <2>4, Joins
    <3>2. /\ Len((sink.out \o w) \o rest) = Len(sink.out \o w) + Len(rest)
          /\ Len(rest) \in Nat
      BY <2>3, <3>1, Joins
    <3>3. (sink.out \o w) \o rest = sink.out
      BY <2>2, <2>3, <2>4
    <3>. QED BY <3>1, <3>2, <3>3
  <2>6. Len(w) = 0 /\ Len(rest) = 0
    BY <2>5
  <2>7. w = << >> /\ rest = << >>
    BY <2>6, NoLength
  <2>. QED BY <1>1, <2>3, <2>4, <2>7, Joins DEF Stands
<1>. QED BY <1>6, <1>7

LEMMA StreamingFinish ==
  ASSUME \A c \in Cases : Serializable(c), Streaming, CallFinish
  PROVE  Streaming' /\ sink' = sink /\ sink.out = case.enc
<1>1. /\ case \in Cases /\ result = "ready" /\ Ended(case.ty, ser)
      /\ sink.out \o Rest(case.ty, ser, SinkPos(sink)) = case.enc
      /\ Rest(case.ty, ser, SinkPos(sink)) = << >>
  BY DEF Streaming, IInv, TypeOK, CallFinish
<1>2. Finishing(case.ty)
  BY <1>1, CasesOf DEF Keeps
<1>3. sink' = sink /\ case' = case /\ result' = "finished"
  BY <1>1, <1>2 DEF CallFinish, Finishing
<1>4. sink.out = case.enc
  BY <1>1, StreamingFacts, Joins
<1>5. TypeOK'
  BY <1>3 DEF TypeOK, Streaming, IInv, SinkPos
<1>6. IInv'
  BY <1>3, <1>4, <1>5 DEF IInv
<1>. QED BY <1>3, <1>4, <1>6 DEF Streaming, IsSink, SinkPos

LEMMA StreamingGrant ==
  ASSUME \A c \in Cases : Serializable(c), Streaming, Grant
  PROVE  Streaming' /\ sink'.out = sink.out /\ sink'.limit # sink.limit
<1>1. /\ case' = case /\ ser' = ser /\ result' = "pending" /\ result = "pending"
  BY DEF Grant
<1>2. /\ case \in Cases /\ IsSink(sink) /\ sink.base = case.base /\ sink.limit \in Nat
      /\ sink.limit <= MaxPos /\ sink.strict \in BOOLEAN /\ sink.out \in Bytes
      /\ SinkPos(sink) \in Nat
  BY StreamingFacts
<1>3. PICK l \in sink.limit + 1 .. MaxPos : sink' = [sink EXCEPT !.limit = l]
  BY DEF Grant
<1>4. l \in Nat /\ l > sink.limit /\ l <= MaxPos
  BY <1>2, <1>3, BoundsAssumption
<1>5. /\ sink'.base = sink.base /\ sink'.out = sink.out /\ sink'.limit = l
      /\ sink'.strict = sink.strict
      /\ sink' \in [base : Nat, out : Bytes, limit : Nat, strict : BOOLEAN]
  BY <1>2, <1>3, <1>4 DEF IsSink
<1>6. SinkPos(sink') = SinkPos(sink) /\ SinkPos(sink) <= sink.limit
  BY <1>2, <1>5 DEF SinkPos, IsSink
<1>7. IsSink(sink')
  BY <1>2, <1>4, <1>5, <1>6 DEF IsSink
<1>8. TypeOK'
  BY <1>1, <1>2, <1>4, <1>5, <1>6 DEF TypeOK, Bytes, Byte
<1>9. (Rest(case.ty, ser, SinkPos(sink)))' = Rest(case.ty, ser, SinkPos(sink))
  BY <1>1, <1>6
<1>10. /\ Going(case.ty, ser)
       /\ sink.out \o Rest(case.ty, ser, SinkPos(sink)) = case.enc
       /\ Rest(case.ty, ser, SinkPos(sink)) # << >>
       /\ ~sink.strict
  BY <1>1 DEF Streaming, IInv
<1>11. IInv'
  BY <1>1, <1>5, <1>8, <1>9, <1>10 DEF IInv
<1>. QED BY <1>2, <1>4, <1>5, <1>7, <1>11 DEF Streaming

LEMMA StreamingNext ==
  ASSUME \A c \in Cases : Serializable(c), Streaming, [Next]_vars
  PROVE  Streaming'
<1>1. CASE CallInput
  BY <1>1, InputAdvances, StreamingCalls DEF CallInput
<1>2. CASE CallPoll
  BY <1>2, PollAdvances, StreamingCalls DEF CallPoll
<1>3. CASE PollAgain
  BY <1>3, PollAdvances, StreamingCalls DEF PollAgain
<1>4. CASE CallFinish
  BY <1>4, StreamingFinish
<1>5. CASE Grant
  BY <1>5, StreamingGrant
<1>6. CASE UNCHANGED vars
  <2>1. case' = case /\ ser' = ser /\ sink' = sink /\ result' = result
    BY <1>6 DEF vars
  <2>2. (Rest(case.ty, ser, SinkPos(sink)))' = Rest(case.ty, ser, SinkPos(sink))
    BY <2>1
  <2>3. TypeOK'
    BY <2>1 DEF Streaming, IInv, TypeOK
  <2>4. IInv'
    BY <2>1, <2>2, <2>3 DEF Streaming, IInv
  <2>. QED BY <2>1, <2>4 DEF Streaming
<1>. QED BY <1>1, <1>2, <1>3, <1>4, <1>5, <1>6 DEF Next

LEMMA AlwaysStreaming ==
  ASSUME \A c \in Cases : Serializable(c)
  PROVE  Spec => []Streaming
<1>1. Init => Streaming
  BY StreamingInit
<1>2. Streaming /\ [Next]_vars => Streaming'
  BY StreamingNext
<1>. QED BY <1>1, <1>2, PTL DEF Spec

\* Every call appends to the sink, and what it has written by then begins the
\* encoding.
LEMMA CallsStream ==
  ASSUME \A c \in Cases : Serializable(c), Streaming, Streaming',
         CallInput \/ CallPoll
  PROVE  Stream!Call
<1>1. case' = case /\ result \in {"new", "pending"} /\ result' # "new"
  <2>1. CASE CallInput
    BY <2>1, InputAdvances DEF CallInput, Returned, Advanced, Stands
  <2>2. CASE CallPoll
    BY <2>2, PollAdvances DEF CallPoll, Returned, Advanced, Stands
  <2>. QED BY <2>1, <2>2
<1>2. PICK a : Advanced(case.ty, sink, case.enc, a) /\ sink' = a.sink /\ result' = a.r
  <2>1. CASE CallInput
    BY <2>1, InputAdvances DEF CallInput, Returned
  <2>2. CASE CallPoll
    BY <2>2, PollAdvances DEF CallPoll, Returned
  <2>. QED BY <2>1, <2>2
<1>3. PICK w \in Bytes : sink'.out = sink.out \o w
  BY <1>2 DEF Advanced
<1>4. PICK rest \in Bytes : /\ sink'.out \o rest = case.enc
                            /\ Stands(sink', result', rest)
  BY <1>2 DEF Advanced
<1>5. sink.out \in Bytes
  BY StreamingFacts
<1>6. sink'.out \in Bytes
  BY <1>3, <1>5, Joins
<1>7. Stream!IsPrefix(sink.out, sink'.out)
  BY <1>3, <1>5 DEF Stream!IsPrefix, Bytes
<1>8. Stream!IsPrefix(sink'.out, case.enc)
  BY <1>4, <1>6 DEF Stream!IsPrefix, Bytes
<1>9. result' \in {"ready", "finished"} => sink'.out = case.enc
  <2>1. sink'.out \o << >> = sink'.out
    BY <1>6, Joins
  <2>. QED BY <1>4, <2>1 DEF Stands
<1>. QED BY <1>1, <1>7, <1>8, <1>9 DEF Stream!Call

LEMMA StepsStream ==
  ASSUME \A c \in Cases : Serializable(c), Streaming, Streaming', [Next]_vars
  PROVE  [Stream!Call]_<<IF result = "new" THEN << >> ELSE case.enc, sink.out,
                         result \in {"ready", "finished"}>>
<1>1. CASE CallInput \/ CallPoll
  BY <1>1, CallsStream
<1>2. CASE PollAgain
  <2>1. result = "ready" /\ result' = "ready" /\ case' = case /\ sink'.out = sink.out
    BY <1>2, PollAdvances DEF PollAgain, Returned
  <2>. QED BY <2>1
<1>3. CASE CallFinish
  <2>1. result = "ready" /\ result' = "finished" /\ case' = case /\ sink' = sink
    BY <1>3, StreamingFinish DEF CallFinish
  <2>. QED BY <2>1
<1>4. CASE Grant
  <2>1. result' = result /\ case' = case /\ sink'.out = sink.out
    BY <1>4, StreamingGrant DEF Grant
  <2>. QED BY <2>1
<1>5. CASE UNCHANGED vars
  BY <1>5 DEF vars
<1>. QED BY <1>1, <1>2, <1>3, <1>4, <1>5 DEF Next

LEMMA StepsPend ==
  ASSUME \A c \in Cases : Serializable(c), Streaming, Streaming', [Next]_vars
  PROVE  [result' = "pending" /\ sink'.limit = sink.limit
            => /\ SinkPos(sink') = sink'.limit
               /\ Len(sink'.out) < Len(case.enc)]_vars
<1>1. CASE CallInput \/ CallPoll
  <2>1. PICK a : Advanced(case.ty, sink, case.enc, a) /\ sink' = a.sink /\ result' = a.r
    <3>1. CASE CallInput
      BY <3>1, InputAdvances DEF CallInput, Returned
    <3>2. CASE CallPoll
      BY <3>2, PollAdvances DEF CallPoll, Returned
    <3>. QED BY <1>1, <3>1, <3>2
  <2>2. PICK rest \in Bytes : /\ sink'.out \o rest = case.enc
                              /\ Stands(sink', result', rest)
    BY <2>1 DEF Advanced
  <2>3. sink'.out \in Bytes
    BY <2>1 DEF Advanced, IsSink
  <2>4. Len(case.enc) = Len(sink'.out) + Len(rest) /\ Len(sink'.out) \in Nat
        /\ Len(rest) \in Nat /\ (Len(rest) = 0 <=> rest = << >>)
    BY <2>2, <2>3, Joins, NoLength
  <2>5. rest # << >> => Len(sink'.out) < Len(case.enc)
    BY <2>4
  <2>. QED BY <2>2, <2>5 DEF Stands
<1>2. CASE PollAgain
  BY <1>2, PollAdvances DEF PollAgain, Returned
<1>3. CASE CallFinish
  BY <1>3 DEF CallFinish
<1>4. CASE Grant
  BY <1>4, StreamingGrant
<1>5. CASE UNCHANGED vars
  BY <1>5
<1>. QED BY <1>1, <1>2, <1>3, <1>4, <1>5 DEF Next

LEMMA StreamingAnnounces ==
  ASSUME \A c \in Cases : Serializable(c) /\ Exact(c.ty), Streaming
  PROVE  AnnouncedLength
<1>1. case \in Cases /\ (result = "finished" => sink.out = case.enc)
  BY DEF Streaming, IInv, TypeOK
<1>2. /\ Measured(case.ty) /\ Exact(case.ty) /\ IsValue(case.ty, case.val)
      /\ case.base \in Nat /\ case.enc = Encoding(case.ty, case.val, case.base)
  BY <1>1, CasesOf DEF Keeps
<1>. QED BY <1>1, <1>2 DEF AnnouncedLength, Measured

LEMMA Streams ==
  ASSUME \A c \in Cases : Serializable(c)
  PROVE  Spec => StreamsTheEncoding
<1>1. Init => Stream!Init
  <2>1. SUFFICES ASSUME Init PROVE Stream!Init
    OBVIOUS
  <2>2. PICK l \in case.base .. MaxPos, strict \in BOOLEAN :
          sink = [base |-> case.base, out |-> << >>, limit |-> l, strict |-> strict]
    BY <2>1 DEF Init
  <2>3. result = "new" /\ sink.out = << >>
    BY <2>1, <2>2 DEF Init
  <2>. QED BY <2>3 DEF Stream!Init
<1>2. Init => Streaming
  BY StreamingInit
<1>3. Streaming /\ [Next]_vars => Streaming'
  BY StreamingNext
<1>4. Streaming /\ Streaming' /\ [Next]_vars
        => [Stream!Call]_<<IF result = "new" THEN << >> ELSE case.enc, sink.out,
                           result \in {"ready", "finished"}>>
  BY StepsStream
<1>. QED BY <1>1, <1>2, <1>3, <1>4, PTL DEF Spec, StreamsTheEncoding, Stream!Spec

LEMMA Pends ==
  ASSUME \A c \in Cases : Serializable(c)
  PROVE  Spec => PendingMeansFull
<1>2. Init => Streaming
  BY StreamingInit
<1>3. Streaming /\ [Next]_vars => Streaming'
  BY StreamingNext
<1>4. Streaming /\ Streaming' /\ [Next]_vars
        => [result' = "pending" /\ sink'.limit = sink.limit
              => /\ SinkPos(sink') = sink'.limit
                 /\ Len(sink'.out) < Len(case.enc)]_vars
  BY StepsPend
<1>. QED BY <1>2, <1>3, <1>4, PTL DEF Spec, PendingMeansFull

\* What is serialized are values of types that are trees and regular, at
\* positions a sink may reach.
CasesAre(Types, rank) ==
  /\ AreTypes(Types, rank)
  /\ \A c \in Cases :
       /\ c.ty \in Types /\ Regular(c.ty) /\ IsValue(c.ty, c.val)
       /\ c.base \in 0 .. MaxPos
       /\ c.enc = Encoding(c.ty, c.val, c.base)
       /\ c.base + Len(c.enc) <= 2 * MaxPos

LEMMA CasesAreSerializable ==
  ASSUME NEW Types, NEW rank, CasesAre(Types, rank)
  PROVE  \A c \in Cases : Serializable(c)
BY EveryTypeKeeps DEF CasesAre, Serializable

\* IInv, the inductive invariant: at any time the bytes in the sink and those the
\* state has left are the encoding, and a serializer that is ready has none left.
THEOREM NestedInvariant ==
  ASSUME NEW Types, NEW rank, CasesAre(Types, rank)
  PROVE  Spec => []IInv
<1>1. \A c \in Cases : Serializable(c)
  BY CasesAreSerializable
<1>2. Spec => []Streaming
  BY <1>1, AlwaysStreaming
<1>3. Streaming => IInv
  BY DEF Streaming
<1>. QED BY <1>2, <1>3, PTL

\* TypeOK: no call writes past the room of the sink, and none panics because a
\* record looks for the value of a field that is gone (macro_helpers.rs:113).
THEOREM NestedTypeOK ==
  ASSUME NEW Types, NEW rank, CasesAre(Types, rank)
  PROVE  Spec => []TypeOK
<1>1. Spec => []IInv
  BY NestedInvariant
<1>2. IInv => TypeOK
  BY DEF IInv
<1>. QED BY <1>1, <1>2, PTL

\* StreamsTheEncoding: the serializer of a value of any nesting implements a
\* stream of its one encoding; Ready means that all of it is written, and neither
\* another poll nor finish adds to it (traits.rs:296).
THEOREM NestedStreams ==
  ASSUME NEW Types, NEW rank, CasesAre(Types, rank)
  PROVE  Spec => StreamsTheEncoding
BY CasesAreSerializable, Streams

\* PendingMeansFull: a call that answers Pending has filled the sink and has bytes
\* left, at whatever depth it stopped.
THEOREM NestedPends ==
  ASSUME NEW Types, NEW rank, CasesAre(Types, rank)
  PROVE  Spec => PendingMeansFull
BY CasesAreSerializable, Pends

\* AnnouncedLength: for types without indices or padding, measure_body is the
\* number of bytes that are written (traits.rs:422).
THEOREM NestedAnnounces ==
  ASSUME NEW Types, NEW rank, CasesAre(Types, rank), \A c \in Cases : Exact(c.ty)
  PROVE  Spec => []AnnouncedLength
<1>1. \A c \in Cases : Serializable(c) /\ Exact(c.ty)
  BY CasesAreSerializable
<1>2. Spec => []Streaming
  BY <1>1, AlwaysStreaming
<1>3. Streaming => AnnouncedLength
  BY <1>1, StreamingAnnounces
<1>. QED BY <1>2, <1>3, PTL
=============================================================================
