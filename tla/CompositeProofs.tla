-------------------------- MODULE CompositeProofs --------------------------
(***************************************************************************)
(* Leaves keep the promise of a serializer, to stream the one encoding of  *)
(* its value, and if those inside an option, a result, a pointer, a pair,  *)
(* an array or an enum do, so does the one around them.  NestedProofs has  *)
(* the other types, and all of them.                                       *)
(***************************************************************************)
EXTENDS CompositeCaller, RecursionProofs, SequenceTheorems, FiniteSetTheorems

-----------------------------------------------------------------------------
(* Sequences of bytes, one behind the other *)

Bytes == Seq(Byte)

LEMMA NoBytes == << >> \in Bytes /\ Len(<< >>) = 0
BY EmptySeq DEF Bytes

LEMMA Joins ==
  ASSUME NEW s \in Bytes, NEW t \in Bytes
  PROVE  /\ s \o t \in Bytes
         /\ Len(s \o t) = Len(s) + Len(t)
         /\ Len(s) \in Nat /\ Len(t) \in Nat
         /\ s \o << >> = s /\ << >> \o s = s
         /\ s \o t = << >> <=> s = << >> /\ t = << >>
  BY ConcatProperties, ConcatEmptySeq, ConcatEqualIffEmpty, LenProperties DEF Bytes

LEMMA Regroup ==
  ASSUME NEW s \in Bytes, NEW t \in Bytes, NEW u \in Bytes
  PROVE  (s \o t) \o u = s \o (t \o u)
BY ConcatAssociative DEF Bytes

LEMMA NoLength ==
  ASSUME NEW s \in Bytes
  PROVE  Len(s) \in Nat /\ (Len(s) = 0 <=> s = << >>)
BY EmptySeq, LenProperties DEF Bytes

\* Something that is written at a position: what it is there.
Placed == [Nat -> Bytes]

\* Things that are written one behind the other.
Behind(items, pos) ==
  [i \in 1 .. Len(items) |-> [x \in Bytes |-> x \o items[i][pos + Len(x)]]]

LayingOut(items, pos) ==
  Recursions(Len(items), Bytes, << >>, Behind(items, pos))

Laid(items, pos) == (CHOOSE f : f \in LayingOut(items, pos))[Len(items)]

LEMMA LayingOutExists ==
  ASSUME NEW items \in Seq(Placed), NEW pos \in Nat
  PROVE  \E f : f \in LayingOut(items, pos)
<1>1. Len(items) \in Nat
  BY LenProperties
<1>2. \A i \in 1 .. Len(items) : \A x \in Bytes :
        pos + Len(x) \in Nat /\ x \o items[i][pos + Len(x)] \in Bytes
  <2>1. TAKE i \in 1 .. Len(items)
  <2>2. TAKE x \in Bytes
  <2>3. items[i] \in [Nat -> Bytes]
    BY ElementOfSeq DEF Placed
  <2>4. pos + Len(x) \in Nat
    BY Joins
  <2>5. items[i][pos + Len(x)] \in Bytes
    BY <2>3, <2>4
  <2>. QED BY <2>4, <2>5, Joins
<1>3. Behind(items, pos) \in [1 .. Len(items) -> [Bytes -> Bytes]]
  BY <1>2 DEF Behind
<1>. QED BY <1>1, <1>3, NoBytes, Recursion DEF LayingOut

\* A function that lays the things out one by one.
LaysOut(f, n, items, pos) ==
  /\ f[n] = Laid(items, pos)
  /\ f \in [0 .. n -> Bytes]
  /\ f[0] = << >>
  /\ \A i \in 1 .. n : f[i] = f[i - 1] \o items[i][pos + Len(f[i - 1])]

LEMMA SomeLaysOut ==
  ASSUME NEW items \in Seq(Placed), NEW pos \in Nat
  PROVE  \E f : LaysOut(f, Len(items), items, pos)
<1> DEFINE g == CHOOSE h : h \in LayingOut(items, pos)
           n == Len(items)
<1>1. n \in Nat
  BY LenProperties
<1>2. g \in LayingOut(items, pos)
  BY LayingOutExists
<1>3. Laid(items, pos) = g[n]
  BY DEF Laid
<1> HIDE DEF g
<1>4. /\ g \in [0 .. n -> Bytes] /\ g[0] = << >>
      /\ \A i \in 1 .. n : g[i] = Behind(items, pos)[i][g[i - 1]]
  BY <1>2 DEF LayingOut, Recursions
<1>5. ASSUME NEW i \in 1 .. n
      PROVE  g[i] = g[i - 1] \o items[i][pos + Len(g[i - 1])]
  <2>1. i - 1 \in 0 .. n
    BY <1>1
  <2>2. g[i - 1] \in Bytes
    BY <1>4, <2>1
  <2>. QED BY <1>4, <2>2 DEF Behind
<1>6. LaysOut(g, n, items, pos)
  BY <1>3, <1>4, <1>5 DEF LaysOut
<1>. QED BY <1>6

\* Whatever lays the things out one by one ends with all of them.
LEMMA LaidOut ==
  ASSUME NEW items \in Seq(Placed), NEW pos \in Nat, NEW f, f[0] = << >>,
         \A i \in 1 .. Len(items) :
           f[i] = f[i - 1] \o items[i][pos + Len(f[i - 1])]
  PROVE  f[Len(items)] = Laid(items, pos)
<1>1. Len(items) \in Nat
  BY LenProperties
<1>2. PICK g : LaysOut(g, Len(items), items, pos)
  BY SomeLaysOut
<1>3. /\ g[Len(items)] = Laid(items, pos) /\ g[0] = << >>
      /\ \A i \in 1 .. Len(items) :
           g[i] = g[i - 1] \o items[i][pos + Len(g[i - 1])]
  BY <1>2 DEF LaysOut
<1> DEFINE D == {i \in 0 .. Len(items) : f[i] = g[i]}
<1>4. 0 \in D
  BY <1>1, <1>3
<1>5. ASSUME NEW i \in 0 .. Len(items) - 1, i \in D PROVE i + 1 \in D
  <2>1. i + 1 \in 1 .. Len(items) /\ (i + 1) - 1 = i
    BY <1>1
  <2>2. f[i + 1] = f[i] \o items[i + 1][pos + Len(f[i])]
    BY <2>1
  <2>3. g[i + 1] = g[i] \o items[i + 1][pos + Len(g[i])]
    BY <1>3, <2>1
  <2>4. f[i] = g[i]
    BY <1>5
  <2>5. i + 1 \in 0 .. Len(items)
    BY <2>1, <1>1
  <2>. QED BY <2>2, <2>3, <2>4, <2>5
<1> HIDE DEF D
<1>6. \A i \in 0 .. Len(items) : i \in D
  BY <1>1, <1>4, <1>5, Induction
<1>7. Len(items) \in D
  BY <1>1, <1>6
<1>. QED BY <1>3, <1>7 DEF D

LEMMA LaidEmpty ==
  ASSUME NEW pos \in Nat
  PROVE  Laid(<< >>, pos) = << >>
<1>1. << >> \in Seq(Placed) /\ Len(<< >>) = 0
  BY EmptySeq
<1>2. PICK f : LaysOut(f, 0, << >>, pos)
  BY <1>1, SomeLaysOut
<1>. QED BY <1>2 DEF LaysOut

\* What is appended goes to the end.
LEMMA LaidAppend ==
  ASSUME NEW items \in Seq(Placed), NEW x \in Placed, NEW pos \in Nat
  PROVE  /\ Laid(items, pos) \in Bytes
         /\ Laid(Append(items, x), pos)
              = Laid(items, pos) \o x[pos + Len(Laid(items, pos))]
<1> DEFINE n == Len(items)
           more == Append(items, x)
<1>1. /\ more \in Seq(Placed) /\ Len(more) = n + 1 /\ n \in Nat
      /\ more[n + 1] = x /\ \A i \in 1 .. n : more[i] = items[i]
  BY AppendProperties, LenProperties
<1> HIDE DEF more
<1>2. PICK g : LaysOut(g, n + 1, more, pos)
  BY <1>1, SomeLaysOut
<1>3. /\ g[n + 1] = Laid(more, pos) /\ g[0] = << >> /\ g \in [0 .. n + 1 -> Bytes]
      /\ \A i \in 1 .. n + 1 : g[i] = g[i - 1] \o more[i][pos + Len(g[i - 1])]
  BY <1>2 DEF LaysOut
<1>4. g[n] = Laid(items, pos)
  <2>1. \A i \in 1 .. n : g[i] = g[i - 1] \o items[i][pos + Len(g[i - 1])]
    BY <1>1, <1>3
  <2>. QED BY <1>3, <2>1, LaidOut
<1>5. g[n] \in Bytes /\ g[n + 1] = g[n] \o x[pos + Len(g[n])]
  <2>1. n + 1 \in 1 .. n + 1 /\ (n + 1) - 1 = n /\ n \in 0 .. n + 1
    BY <1>1
  <2>. QED BY <1>1, <1>3, <2>1
<1>. QED BY <1>3, <1>4, <1>5 DEF more

\* What is joined to a sequence of things is laid behind them.
LEMMA LaidSplit ==
  ASSUME NEW a \in Seq(Placed), NEW b \in Seq(Placed), NEW pos \in Nat
  PROVE  /\ Laid(a, pos) \in Bytes
         /\ pos + Len(Laid(a, pos)) \in Nat
         /\ Laid(a \o b, pos) = Laid(a, pos) \o Laid(b, pos + Len(Laid(a, pos)))
<1> DEFINE n == Len(a)
           m == Len(b)
           both == a \o b
           first == Laid(a, pos)
           at == pos + Len(first)
<1>1. /\ both \in Seq(Placed) /\ Len(both) = n + m /\ n \in Nat /\ m \in Nat
      /\ \A i \in 1 .. n : both[i] = a[i]
      /\ \A i \in 1 .. m : both[n + i] = b[i]
  BY ConcatProperties, LenProperties
<1> HIDE DEF both, n, m
<1>2. PICK f : LaysOut(f, n + m, both, pos)
  BY <1>1, SomeLaysOut
<1>3. /\ f[n + m] = Laid(both, pos) /\ f[0] = << >> /\ f \in [0 .. n + m -> Bytes]
      /\ \A i \in 1 .. n + m : f[i] = f[i - 1] \o both[i][pos + Len(f[i - 1])]
  BY <1>2 DEF LaysOut
<1>4. f[n] = first
  <2>1. ASSUME NEW i \in 1 .. n PROVE f[i] = f[i - 1] \o a[i][pos + Len(f[i - 1])]
    <3>1. i \in 1 .. n + m
      BY <1>1
    <3>2. both[i] = a[i]
      BY <1>1
    <3>. QED BY <1>3, <3>1, <3>2
  <2>. QED BY <1>3, <2>1, LaidOut DEF n
<1>5. first \in Bytes /\ at \in Nat
  <2>1. f[n] \in Bytes
    BY <1>1, <1>3
  <2>. QED BY <1>4, <2>1, Joins
<1> HIDE DEF first, at
<1>6. PICK g : LaysOut(g, m, b, at)
  BY <1>5, SomeLaysOut DEF m
<1>7. /\ g[m] = Laid(b, at) /\ g[0] = << >> /\ g \in [0 .. m -> Bytes]
      /\ \A i \in 1 .. m : g[i] = g[i - 1] \o b[i][at + Len(g[i - 1])]
  BY <1>6 DEF LaysOut
<1> DEFINE D == {i \in 0 .. m : f[n + i] = first \o g[i]}
<1>8. 0 \in D
  <2>1. n + 0 = n /\ 0 \in 0 .. m
    BY <1>1
  <2>2. first \o << >> = first
    BY <1>5, NoBytes, Joins
  <2>. QED BY <1>4, <1>7, <2>1, <2>2
<1>9. ASSUME NEW i \in 0 .. m - 1, i \in D PROVE i + 1 \in D
  <2>1. /\ i + 1 \in 1 .. m /\ (i + 1) - 1 = i /\ n + (i + 1) \in 1 .. n + m
        /\ (n + (i + 1)) - 1 = n + i /\ i \in 0 .. m /\ i + 1 \in 0 .. m
    BY <1>1
  <2>2. f[n + i] = first \o g[i] /\ g[i] \in Bytes
    BY <1>7, <1>9, <2>1
  <2>3. f[n + (i + 1)] = f[n + i] \o b[i + 1][pos + Len(f[n + i])]
    BY <1>1, <1>3, <2>1
  <2>4. pos + Len(f[n + i]) = at + Len(g[i]) /\ at + Len(g[i]) \in Nat
    <3>1. Len(first \o g[i]) = Len(first) + Len(g[i]) /\ Len(first) \in Nat
          /\ Len(g[i]) \in Nat
      BY <1>5, <2>2, Joins
    <3>2. pos + Len(f[n + i]) = pos + (Len(first) + Len(g[i]))
      BY <2>2, <3>1
    <3>3. at = pos + Len(first)
      BY DEF at
    <3>4. at + Len(g[i]) = (pos + Len(first)) + Len(g[i])
      BY <3>3
    <3>5. ASSUME NEW x \in Nat, NEW y \in Nat
          PROVE  pos + (x + y) = (pos + x) + y /\ (pos + x) + y \in Nat
      OBVIOUS
    <3>6. pos + (Len(first) + Len(g[i])) = (pos + Len(first)) + Len(g[i])
          /\ (pos + Len(first)) + Len(g[i]) \in Nat
      BY <3>1, <3>5
    <3>. QED BY <3>2, <3>4, <3>6
  <2>5. b[i + 1][at + Len(g[i])] \in Bytes
    <3>1. b[i + 1] \in [Nat -> Bytes]
      BY <2>1, ElementOfSeq DEF Placed, m
    <3>. QED BY <2>4, <3>1
  <2>6. f[n + (i + 1)] = first \o (g[i] \o b[i + 1][at + Len(g[i])])
    <3>1. f[n + (i + 1)] = (first \o g[i]) \o b[i + 1][at + Len(g[i])]
      BY <2>2, <2>3, <2>4
    <3> HIDE DEF D
    <3>. QED BY <1>5, <2>2, <2>5, <3>1, Regroup
  <2>7. g[i + 1] = g[i] \o b[i + 1][at + Len(g[i])]
    BY <1>7, <2>1
  <2>. QED BY <2>1, <2>6, <2>7
<1> HIDE DEF D
<1>10. \A i \in 0 .. m : i \in D
  BY <1>1, <1>8, <1>9, Induction
<1>11. m \in D
  BY <1>1, <1>10
<1>12. f[n + m] = first \o g[m]
  BY <1>11 DEF D
<1>. QED BY <1>3, <1>5, <1>7, <1>12 DEF first, at, both

LEMMA LaidOne ==
  ASSUME NEW x \in Placed, NEW pos \in Nat
  PROVE  Laid(<<x>>, pos) = x[pos] /\ <<x>> \in Seq(Placed) /\ x[pos] \in Bytes
<1>1. x[pos] \in Bytes
  BY DEF Placed
<1>2. Append(<< >>, x) = <<x>> /\ << >> \in Seq(Placed)
  BY EmptySeq
<1>3. Laid(Append(<< >>, x), pos) = << >> \o x[pos + 0]
  BY <1>2, LaidAppend, LaidEmpty, NoBytes
<1>4. pos + 0 = pos
  OBVIOUS
<1>. QED BY <1>1, <1>2, <1>3, <1>4, Joins

LEMMA LaidFirst ==
  ASSUME NEW x \in Placed, NEW items \in Seq(Placed), NEW pos \in Nat
  PROVE  /\ Laid(<<x>> \o items, pos) = x[pos] \o Laid(items, pos + Len(x[pos]))
         /\ x[pos] \in Bytes /\ pos + Len(x[pos]) \in Nat
<1>1. Laid(<<x>>, pos) = x[pos] /\ <<x>> \in Seq(Placed) /\ x[pos] \in Bytes
  BY LaidOne
<1>2. /\ Laid(<<x>> \o items, pos)
           = Laid(<<x>>, pos) \o Laid(items, pos + Len(Laid(<<x>>, pos)))
      /\ pos + Len(Laid(<<x>>, pos)) \in Nat
  BY <1>1, LaidSplit
<1>. QED BY <1>1, <1>2

LEMMA LaidIsBytes ==
  ASSUME NEW items \in Seq(Placed), NEW pos \in Nat
  PROVE  Laid(items, pos) \in Bytes
BY LaidSplit

\* What is empty wherever it is takes no room.
LEMMA LaidNothing ==
  ASSUME NEW items \in Seq(Placed), NEW pos \in Nat,
         \A i \in 1 .. Len(items) : \A p \in Nat : items[i][p] = << >>
  PROVE  Laid(items, pos) = << >>
<1> DEFINE f == [i \in 0 .. Len(items) |-> << >>]
<1>1. Len(items) \in Nat
  BY LenProperties
<1>2. f[0] = << >> /\ f[Len(items)] = << >>
  BY <1>1
<1>3. ASSUME NEW i \in 1 .. Len(items)
      PROVE  f[i] = f[i - 1] \o items[i][pos + Len(f[i - 1])]
  <2>1. f[i] = << >> /\ f[i - 1] = << >>
    BY <1>1
  <2>2. pos + Len(<< >>) \in Nat
    BY NoBytes
  <2>3. items[i][pos + Len(<< >>)] = << >>
    BY <2>2
  <2>. QED BY <2>1, <2>3, NoBytes, Joins
<1> HIDE DEF f
<1>. QED BY <1>2, <1>3, LaidOut

-----------------------------------------------------------------------------
(* FlattenSeq lays out what does not depend on its position *)

Anywhere(seqs) == [i \in 1 .. Len(seqs) |-> [p \in Nat |-> seqs[i]]]

LEMMA AnywhereIsPlaced ==
  ASSUME NEW seqs \in Seq(Bytes)
  PROVE  Anywhere(seqs) \in Seq(Placed) /\ Len(Anywhere(seqs)) = Len(seqs)
<1>1. \A i \in 1 .. Len(seqs) : seqs[i] \in Bytes
  OBVIOUS
<1>2. Len(seqs) \in Nat
  BY LenProperties
<1>. QED BY <1>1, <1>2 DEF Anywhere, Placed

LEMMA FlattenIsLaid ==
  ASSUME NEW seqs \in Seq(Bytes), NEW pos \in Nat
  PROVE  FlattenSeq(seqs) = Laid(Anywhere(seqs), pos)
<1> DEFINE n == Len(seqs)
           Is(g) == g = [i \in 1 .. n |->
                           IF i = 1 THEN seqs[i] ELSE g[i - 1] \o seqs[i]]
           flat == CHOOSE g : Is(g)
<1>1. n \in Nat /\ \A i \in 1 .. n : seqs[i] \in Bytes
  BY LenProperties
<1>2. Anywhere(seqs) \in Seq(Placed) /\ Len(Anywhere(seqs)) = n
  BY AnywhereIsPlaced
<1>3. PICK f : LaysOut(f, n, Anywhere(seqs), pos)
  BY <1>2, SomeLaysOut
<1>4. /\ f[n] = Laid(Anywhere(seqs), pos) /\ f[0] = << >> /\ f \in [0 .. n -> Bytes]
      /\ \A i \in 1 .. n :
           f[i] = f[i - 1] \o Anywhere(seqs)[i][pos + Len(f[i - 1])]
  BY <1>3 DEF LaysOut
<1>5. ASSUME NEW i \in 1 .. n PROVE f[i] = f[i - 1] \o seqs[i]
  <2>1. i - 1 \in 0 .. n
    BY <1>1
  <2>2. pos + Len(f[i - 1]) \in Nat
    BY <1>4, <2>1, NoLength
  <2>3. Anywhere(seqs)[i] = [p \in Nat |-> seqs[i]]
    BY DEF Anywhere
  <2>. QED BY <1>4, <2>2, <2>3
<1> HIDE DEF n
<1>6. n # 0 => Is([i \in 1 .. n |-> f[i]])
  <2> DEFINE h == [i \in 1 .. n |-> f[i]]
  <2>1. ASSUME NEW i \in 1 .. n
        PROVE  h[i] = IF i = 1 THEN seqs[i] ELSE h[i - 1] \o seqs[i]
    <3>1. CASE i = 1
      <4>1. f[i] = << >> \o seqs[i]
        <5>1. i - 1 = 0
          BY <3>1
        <5>. QED BY <1>4, <1>5, <5>1
      <4>2. seqs[i] \in Bytes
        BY <1>1
      <4>3. f[i] = seqs[i]
        BY <4>1, <4>2, Joins, NoBytes
      <4>. QED BY <3>1, <4>3
    <3>2. CASE i # 1
      <4>1. i - 1 \in 1 .. n
        BY <1>1, <3>2
      <4>2. h[i - 1] = f[i - 1] /\ h[i] = f[i]
        BY <4>1
      <4>. QED BY <1>5, <3>2, <4>2
    <3>. QED BY <3>1, <3>2
  <2>. QED BY <2>1
<1>7. n # 0 => Is(flat)
  <2> HIDE DEF Is
  <2>. QED BY <1>6
<1>8. CASE n = 0
  <2>1. seqs = << >> /\ FlattenSeq(<< >>) = << >>
    BY <1>8, EmptySeq DEF n, FlattenSeq
  <2>. QED BY <1>4, <1>8, <2>1
<1>9. CASE n # 0
  <2>1. FlattenSeq(seqs) = flat[n]
    BY <1>9 DEF FlattenSeq, n
  <2>2. \A i \in 1 .. n : flat[i] = IF i = 1 THEN seqs[i] ELSE flat[i - 1] \o seqs[i]
    BY <1>7, <1>9
  <2> HIDE DEF flat
  <2> DEFINE D == {i \in 0 .. n : i = 0 \/ flat[i] = f[i]}
  <2>3. 0 \in D
    BY <1>1
  <2>4. ASSUME NEW i \in 0 .. n - 1, i \in D PROVE i + 1 \in D
    <3>1. i + 1 \in 1 .. n /\ (i + 1) - 1 = i /\ i + 1 \in 0 .. n
      BY <1>1
    <3>2. f[i + 1] = f[i] \o seqs[i + 1] /\ seqs[i + 1] \in Bytes
      BY <1>1, <1>5, <3>1
    <3>3. CASE i = 0
      <4>1. f[i + 1] = seqs[i + 1]
        <5>1. f[i] = << >>
          BY <1>4, <3>3
        <5>. QED BY <3>2, <5>1, NoBytes, Joins
      <4>2. flat[i + 1] = seqs[i + 1]
        BY <2>2, <3>1, <3>3
      <4>. QED BY <3>1, <4>1, <4>2
    <3>4. CASE i # 0
      <4>1. flat[i + 1] = flat[i] \o seqs[i + 1]
        <5>1. flat[i + 1] = IF i + 1 = 1 THEN seqs[i + 1]
                            ELSE flat[(i + 1) - 1] \o seqs[i + 1]
          BY <2>2, <3>1
        <5>2. i + 1 # 1 /\ (i + 1) - 1 = i
          BY <3>1, <3>4
        <5>. QED BY <5>1, <5>2
      <4>2. flat[i] = f[i]
        BY <2>4, <3>4
      <4>. QED BY <3>1, <3>2, <4>1, <4>2
    <3>. QED BY <3>3, <3>4
  <2> HIDE DEF D
  <2>5. \A i \in 0 .. n : i \in D
    BY <1>1, <2>3, <2>4, Induction
  <2>6. n \in D
    BY <1>1, <2>5
  <2>7. flat[n] = f[n]
    BY <1>9, <2>6 DEF D
  <2>. QED BY <1>4, <2>1, <2>7
<1>. QED BY <1>8, <1>9

LEMMA FlattenEmpty == FlattenSeq(<< >>) = << >>
BY DEF FlattenSeq

LEMMA FlattenJoin ==
  ASSUME NEW s \in Seq(Bytes), NEW t \in Seq(Bytes)
  PROVE  /\ FlattenSeq(s) \in Bytes
         /\ FlattenSeq(s \o t) = FlattenSeq(s) \o FlattenSeq(t)
<1>1. s \o t \in Seq(Bytes) /\ Len(s) \in Nat /\ Len(t) \in Nat
  BY ConcatProperties, LenProperties
<1>2. Anywhere(s) \in Seq(Placed) /\ Anywhere(t) \in Seq(Placed)
  BY AnywhereIsPlaced
<1>3. Anywhere(s \o t) = Anywhere(s) \o Anywhere(t)
  <2>1. /\ Anywhere(s \o t) \in Seq(Placed) /\ Anywhere(s) \o Anywhere(t) \in Seq(Placed)
        /\ Len(Anywhere(s \o t)) = Len(s) + Len(t)
        /\ Len(Anywhere(s) \o Anywhere(t)) = Len(s) + Len(t)
        /\ Len(Anywhere(s)) = Len(s)
    <3>1. Len(s \o t) = Len(s) + Len(t)
      BY ConcatProperties
    <3>2. Len(Anywhere(s)) = Len(s) /\ Len(Anywhere(t)) = Len(t)
      BY AnywhereIsPlaced
    <3>3. Anywhere(s \o t) \in Seq(Placed) /\ Len(Anywhere(s \o t)) = Len(s \o t)
      BY <1>1, AnywhereIsPlaced
    <3>4. Anywhere(s) \o Anywhere(t) \in Seq(Placed)
          /\ Len(Anywhere(s) \o Anywhere(t)) = Len(Anywhere(s)) + Len(Anywhere(t))
      BY <1>2, ConcatProperties
    <3>. QED BY <3>1, <3>2, <3>3, <3>4
  <2>2. ASSUME NEW i \in 1 .. Len(s) + Len(t)
        PROVE  Anywhere(s \o t)[i] = (Anywhere(s) \o Anywhere(t))[i]
    <3>1. (s \o t)[i] = IF i <= Len(s) THEN s[i] ELSE t[i - Len(s)]
      BY ConcatProperties
    <3>2. (Anywhere(s) \o Anywhere(t))[i]
            = IF i <= Len(s) THEN Anywhere(s)[i] ELSE Anywhere(t)[i - Len(s)]
      BY <1>2, AnywhereIsPlaced, ConcatProperties
    <3>3. Anywhere(s \o t)[i] = [p \in Nat |-> (s \o t)[i]]
      BY <1>1, ConcatProperties DEF Anywhere
    <3>4. CASE i <= Len(s)
      <4>1. Anywhere(s)[i] = [p \in Nat |-> s[i]]
        BY <1>1, <3>4 DEF Anywhere
      <4>. QED BY <3>1, <3>2, <3>3, <3>4, <4>1
    <3>5. CASE ~(i <= Len(s))
      <4>1. Anywhere(t)[i - Len(s)] = [p \in Nat |-> t[i - Len(s)]]
        BY <1>1, <3>5 DEF Anywhere
      <4>. QED BY <3>1, <3>2, <3>3, <3>5, <4>1
    <3>. QED BY <3>4, <3>5
  <2>. QED BY <2>1, <2>2, SeqEqual
<1>4. FlattenSeq(s) = Laid(Anywhere(s), 0) /\ FlattenSeq(s \o t) = Laid(Anywhere(s \o t), 0)
  BY <1>1, FlattenIsLaid
<1>5. 0 + Len(Laid(Anywhere(s), 0)) \in Nat
      /\ Laid(Anywhere(s) \o Anywhere(t), 0)
           = Laid(Anywhere(s), 0) \o Laid(Anywhere(t), 0 + Len(Laid(Anywhere(s), 0)))
      /\ Laid(Anywhere(s), 0) \in Bytes
  BY <1>2, LaidSplit
<1>6. FlattenSeq(t) = Laid(Anywhere(t), 0 + Len(Laid(Anywhere(s), 0)))
  BY <1>5, FlattenIsLaid
<1>. QED BY <1>3, <1>4, <1>5, <1>6

LEMMA FlattenOne ==
  ASSUME NEW x \in Bytes
  PROVE  FlattenSeq(<<x>>) = x /\ <<x>> \in Seq(Bytes)
<1>1. <<x>> \in Seq(Bytes) /\ Anywhere(<<x>>) = << [p \in Nat |-> x] >>
  BY DEF Anywhere
<1>2. [p \in Nat |-> x] \in Placed /\ [p \in Nat |-> x][0] = x
  BY DEF Placed
<1>. QED BY <1>1, <1>2, FlattenIsLaid, LaidOne

LEMMA FlattenFirst ==
  ASSUME NEW s \in Seq(Bytes), s # << >>
  PROVE  /\ Head(s) \in Bytes /\ Tail(s) \in Seq(Bytes)
         /\ Len(Tail(s)) = Len(s) - 1
         /\ FlattenSeq(s) = Head(s) \o FlattenSeq(Tail(s))
<1>1. Head(s) \in Bytes /\ Tail(s) \in Seq(Bytes) /\ Len(Tail(s)) = Len(s) - 1
  BY HeadTailProperties
<1>2. s = <<Head(s)>> \o Tail(s)
  <2>1. Len(s) \in Nat /\ Len(s) # 0
    BY LenProperties, EmptySeq
  <2>2. SubSeq(s, 1, Len(s)) = <<s[1]>> \o SubSeq(s, 1 + 1, Len(s))
    BY <2>1, SubSeqRecursiveFirst
  <2>. QED BY <2>2, SubSeqFull, TailIsSubSeq
<1>3. <<Head(s)>> \in Seq(Bytes) /\ FlattenSeq(<<Head(s)>>) = Head(s)
  BY <1>1, FlattenOne
<1>4. FlattenSeq(<<Head(s)>> \o Tail(s))
        = FlattenSeq(<<Head(s)>>) \o FlattenSeq(Tail(s))
  BY <1>1, <1>3, FlattenJoin
<1>. QED BY <1>1, <1>2, <1>3, <1>4

LEMMA FlattenAppend ==
  ASSUME NEW s \in Seq(Bytes), NEW x \in Bytes
  PROVE  /\ Append(s, x) \in Seq(Bytes)
         /\ FlattenSeq(s) \in Bytes
         /\ FlattenSeq(Append(s, x)) = FlattenSeq(s) \o x
<1>1. Append(s, x) = s \o <<x>> /\ Append(s, x) \in Seq(Bytes)
  BY AppendIsConcat, AppendProperties
<1>2. FlattenSeq(<<x>>) = x /\ <<x>> \in Seq(Bytes)
  BY FlattenOne
<1>3. FlattenSeq(s) \in Bytes /\ FlattenSeq(s \o <<x>>) = FlattenSeq(s) \o FlattenSeq(<<x>>)
  BY <1>2, FlattenJoin
<1>. QED BY <1>1, <1>2, <1>3

-----------------------------------------------------------------------------
(* Sinks *)

IsSink(k) ==
  /\ k \in [base : Nat, out : Bytes, limit : Nat, strict : BOOLEAN]
  /\ SinkPos(k) <= k.limit

\* The sink when it has taken the bytes.
After(k, w) == [k EXCEPT !.out = @ \o w]

\* k2 is what has become of k, and of what there was to write the rest is left.
Midway(k, todo, k2, rest) ==
  \E w \in Bytes : /\ todo = w \o rest
                   /\ k2 = After(k, w)
                   /\ SinkPos(k2) <= k.limit

\* Ready, and nothing is left; or something is left, for a sink that is full or
\* one that refuses it.
Stands(k, r, rest) ==
  \/ r = "ready" /\ rest = << >>
  \/ r = "pending" /\ rest # << >> /\ ~k.strict /\ SinkPos(k) = k.limit
  \/ r = "error" /\ rest # << >> /\ k.strict

Outcome(k, todo, k2, r, rest) ==
  /\ rest \in Bytes
  /\ Midway(k, todo, k2, rest)
  /\ Stands(k2, r, rest)

LEMMA AfterFacts ==
  ASSUME NEW k, IsSink(k), NEW w \in Bytes
  PROVE  /\ After(k, w) = [base |-> k.base, out |-> k.out \o w,
                           limit |-> k.limit, strict |-> k.strict]
         /\ SinkPos(After(k, w)) = SinkPos(k) + Len(w)
         /\ SinkPos(k) \in Nat
         /\ SinkPos(k) + Len(w) <= k.limit => IsSink(After(k, w))
<1>1. /\ k = [base |-> k.base, out |-> k.out, limit |-> k.limit, strict |-> k.strict]
      /\ k.base \in Nat /\ k.out \in Bytes /\ k.limit \in Nat /\ k.strict \in BOOLEAN
  BY DEF IsSink
<1>2. After(k, w) = [base |-> k.base, out |-> k.out \o w,
                     limit |-> k.limit, strict |-> k.strict]
  <2> DEFINE r == After(k, w)
  <2>1. k.out \o w \in Bytes
    BY <1>1, Joins
  <2>2. r \in [base : Nat, out : Bytes, limit : Nat, strict : BOOLEAN]
    BY <2>1 DEF After, IsSink
  <2>3. /\ r.base = k.base /\ r.out = k.out \o w
        /\ r.limit = k.limit /\ r.strict = k.strict
    BY DEF After, IsSink
  <2> HIDE DEF r
  <2>4. r = [base |-> r.base, out |-> r.out, limit |-> r.limit, strict |-> r.strict]
    BY <2>2
  <2>5. After(k, w) = r
    BY DEF r
  <2>. QED BY <2>3, <2>4, <2>5
<1>3. k.out \o w \in Bytes /\ Len(k.out \o w) = Len(k.out) + Len(w)
      /\ Len(k.out) \in Nat /\ Len(w) \in Nat
  BY <1>1, Joins
<1>4. SinkPos(After(k, w)) = k.base + Len(k.out \o w) /\ SinkPos(k) = k.base + Len(k.out)
  BY <1>2 DEF SinkPos
<1>5. ASSUME NEW b \in Nat, NEW x \in Nat, NEW y \in Nat
      PROVE  b + (x + y) = (b + x) + y
  OBVIOUS
<1>6. SinkPos(After(k, w)) = SinkPos(k) + Len(w) /\ SinkPos(k) \in Nat
  BY <1>1, <1>3, <1>4, <1>5
<1>7. SinkPos(k) + Len(w) <= k.limit => IsSink(After(k, w))
  BY <1>1, <1>2, <1>3, <1>6 DEF IsSink
<1>. QED BY <1>2, <1>6, <1>7

LEMMA MidwayStart ==
  ASSUME NEW k, IsSink(k), NEW todo \in Bytes
  PROVE  Midway(k, todo, k, todo)
<1>1. << >> \in Bytes /\ << >> \o todo = todo /\ Len(<< >>) = 0
  BY NoBytes, Joins
<1>2. k.out \in Bytes /\ k.out \o << >> = k.out
  BY NoBytes, Joins DEF IsSink
<1>3. After(k, << >>) = k
  BY <1>2 DEF After, IsSink
<1>4. SinkPos(k) <= k.limit
  BY DEF IsSink
<1>. QED BY <1>1, <1>3, <1>4 DEF Midway

LEMMA MidwayFacts ==
  ASSUME NEW k, NEW todo, NEW k2, NEW rest,
         IsSink(k), rest \in Bytes, Midway(k, todo, k2, rest)
  PROVE  /\ IsSink(k2) /\ todo \in Bytes
         /\ k2.base = k.base /\ k2.limit = k.limit /\ k2.strict = k.strict
         /\ SinkPos(k) \in Nat /\ SinkPos(k2) \in Nat
         /\ SinkPos(k2) + Len(rest) = SinkPos(k) + Len(todo)
<1>1. PICK w \in Bytes : todo = w \o rest /\ k2 = After(k, w) /\ SinkPos(k2) <= k.limit
  BY DEF Midway
<1>2. /\ After(k, w) = [base |-> k.base, out |-> k.out \o w,
                        limit |-> k.limit, strict |-> k.strict]
      /\ SinkPos(After(k, w)) = SinkPos(k) + Len(w)
      /\ SinkPos(k) \in Nat
      /\ SinkPos(k) + Len(w) <= k.limit => IsSink(After(k, w))
  BY AfterFacts
<1>3. todo \in Bytes /\ Len(todo) = Len(w) + Len(rest) /\ Len(w) \in Nat /\ Len(rest) \in Nat
  BY <1>1, Joins
<1>4. IsSink(k2) /\ k2.base = k.base /\ k2.limit = k.limit /\ k2.strict = k.strict
  BY <1>1, <1>2
<1>5. ASSUME NEW p \in Nat, NEW x \in Nat, NEW y \in Nat
      PROVE  (p + x) + y = p + (x + y) /\ p + x \in Nat
  OBVIOUS
<1>6. SinkPos(k2) + Len(rest) = (SinkPos(k) + Len(w)) + Len(rest)
  BY <1>1, <1>2
<1>7. SinkPos(k2) \in Nat
  BY <1>1, <1>2, <1>3
<1>. QED BY <1>2, <1>3, <1>4, <1>5, <1>6, <1>7

\* From k on there was todo to write and at k1 there is x \o y; of x a call has
\* left x2.
Continued(k, todo, k1, x, y, k2, r, x2) ==
  /\ x2 \in Bytes /\ x2 \o y \in Bytes
  /\ Midway(k, todo, k2, x2 \o y)
  /\ IsSink(k1) /\ IsSink(k2)
  /\ r # "ready" => Stands(k2, r, x2 \o y)
  /\ r = "ready" => x2 = << >> /\ x2 \o y = y
  /\ SinkPos(k1) \in Nat /\ SinkPos(k2) \in Nat
  /\ SinkPos(k2) + Len(x2) = SinkPos(k1) + Len(x)

\* Where a part of what is left has an outcome, so has the whole.
LEMMA Further ==
  ASSUME NEW k, NEW todo, NEW k1, NEW x, NEW y, NEW k2, NEW r, NEW x2,
         IsSink(k), x \in Bytes, y \in Bytes,
         Midway(k, todo, k1, x \o y), Outcome(k1, x, k2, r, x2)
  PROVE  Continued(k, todo, k1, x, y, k2, r, x2)
<1>1. PICK w \in Bytes : /\ todo = w \o (x \o y) /\ k1 = After(k, w)
                         /\ SinkPos(k1) <= k.limit
  BY DEF Midway
<1>2. x2 \in Bytes /\ Midway(k1, x, k2, x2) /\ Stands(k2, r, x2)
  BY DEF Outcome
<1>3. PICK u \in Bytes : /\ x = u \o x2 /\ k2 = After(k1, u)
                         /\ SinkPos(k2) <= k1.limit
  BY <1>2 DEF Midway
<1>4. x \o y \in Bytes /\ x2 \o y \in Bytes /\ w \o u \in Bytes
  BY <1>2, Joins
<1>5. /\ IsSink(k1) /\ k1.limit = k.limit /\ k1.strict = k.strict
  BY <1>4, MidwayFacts
<1>6. /\ IsSink(k2) /\ SinkPos(k1) \in Nat /\ SinkPos(k2) \in Nat
      /\ SinkPos(k2) + Len(x2) = SinkPos(k1) + Len(x)
  BY <1>2, <1>5, MidwayFacts
<1>7. todo = (w \o u) \o (x2 \o y)
  <2>1. x \o y = u \o (x2 \o y)
    BY <1>2, <1>3, Regroup
  <2>2. w \o (u \o (x2 \o y)) = (w \o u) \o (x2 \o y)
    BY <1>4, Regroup
  <2>. QED BY <1>1, <2>1, <2>2
<1>8. k2 = After(k, w \o u)
  <2>1. k1 = [base |-> k.base, out |-> k.out \o w, limit |-> k.limit, strict |-> k.strict]
    BY <1>1, AfterFacts
  <2>2. k2 = [base |-> k1.base, out |-> k1.out \o u, limit |-> k1.limit, strict |-> k1.strict]
    BY <1>3, <1>5, AfterFacts
  <2>3. After(k, w \o u) = [base |-> k.base, out |-> k.out \o (w \o u),
                            limit |-> k.limit, strict |-> k.strict]
    BY <1>4, AfterFacts
  <2>4. k.out \in Bytes /\ (k.out \o w) \o u = k.out \o (w \o u)
    BY Regroup DEF IsSink
  <2>. QED BY <2>1, <2>2, <2>3, <2>4
<1>9. Midway(k, todo, k2, x2 \o y)
  BY <1>3, <1>4, <1>5, <1>7, <1>8 DEF Midway
<1>10. r # "ready" => Stands(k2, r, x2 \o y)
  <2>1. x2 # << >> => x2 \o y # << >>
    BY <1>2, Joins
  <2>. QED BY <1>2, <2>1 DEF Stands
<1>11. r = "ready" => x2 = << >> /\ x2 \o y = y
  <2>1. << >> \o y = y
    BY Joins
  <2>. QED BY <1>2, <2>1 DEF Stands
<1>. QED BY <1>2, <1>4, <1>5, <1>6, <1>9, <1>10, <1>11 DEF Continued

LEMMA WriteOutcome ==
  ASSUME NEW k, IsSink(k), NEW bytes \in Bytes
  PROVE  LET a == Write(bytes, k)
         IN  Outcome(k, bytes, a.sink, a.r, a.s)
<1> DEFINE room == k.limit - SinkPos(k)
           len == Len(bytes)
           n == Accepts(k.strict, room, len)
           w == SubSeq(bytes, 1, n)
           rest == SubSeq(bytes, n + 1, len)
           k2 == After(k, w)
           a == Write(bytes, k)
<1>1. /\ a.s = rest /\ a.sink = k2
      /\ a.r = IF n = len THEN "ready" ELSE IF k.strict THEN "error" ELSE "pending"
  BY DEF Write, Written, Answer, After
<1>2. /\ k.base \in Nat /\ k.out \in Bytes /\ k.limit \in Nat /\ k.strict \in BOOLEAN
      /\ SinkPos(k) <= k.limit /\ SinkPos(k) \in Nat /\ len \in Nat
  BY AfterFacts, NoBytes, NoLength DEF IsSink
<1>3. room \in Nat /\ SinkPos(k) + room = k.limit
  BY <1>2
<1>4. /\ n \in 0 .. len /\ n <= room
      /\ n = len \/ (k.strict /\ n = 0) \/ (~k.strict /\ n = room /\ n < len)
      /\ n # len => n < len
  <2> HIDE DEF room, len
  <2>. QED BY <1>2, <1>3 DEF Accepts
<1>5. w \in Bytes /\ Len(w) = n /\ rest \in Bytes /\ Len(rest) = len - n
  <2>1. \A i \in 1 .. len : bytes[i] \in Byte
    BY DEF Bytes
  <2>2. \A i \in 1 .. n : bytes[i] \in Byte
    BY <1>2, <1>4, <2>1
  <2>3. \A i \in n + 1 .. len : bytes[i] \in Byte
    BY <1>2, <1>4, <2>1
  <2> HIDE DEF n, len
  <2>4. /\ w \in Seq(Byte) /\ Len(w) = IF 1 <= n THEN n - 1 + 1 ELSE 0
    BY <1>2, <1>4, <2>2, SubSeqProperties
  <2>5. /\ rest \in Seq(Byte)
        /\ Len(rest) = IF n + 1 <= len THEN len - (n + 1) + 1 ELSE 0
    BY <1>2, <1>4, <2>3, SubSeqProperties
  <2> HIDE DEF w, rest
  <2>. QED BY <1>2, <1>4, <2>4, <2>5 DEF Bytes
<1>6. bytes = w \o rest
  <2>1. SubSeq(bytes, 1, len) = bytes
    BY SubSeqFull DEF Bytes
  <2> HIDE DEF n
  <2>2. SubSeq(bytes, 1, n) \o SubSeq(bytes, n + 1, len) = SubSeq(bytes, 1, len)
    <3>1. 1 \in 1 .. len + 1 /\ n \in 1 - 1 .. len /\ len \in n .. len
      BY <1>2, <1>4
    <3>. QED BY <3>1, ConcatAdjacentSubSeq DEF Bytes
  <2>. QED BY <2>1, <2>2
<1> HIDE DEF n, w, rest, a
<1>7. SinkPos(k2) = SinkPos(k) + n /\ SinkPos(k2) <= k.limit
      /\ k2.limit = k.limit /\ k2.strict = k.strict
  <2>1. SinkPos(k2) = SinkPos(k) + n /\ k2.limit = k.limit /\ k2.strict = k.strict
    BY <1>5, AfterFacts
  <2> HIDE DEF k2, room
  <2>. QED BY <1>2, <1>3, <1>4, <2>1
<1>8. Midway(k, bytes, k2, rest)
  BY <1>5, <1>6, <1>7 DEF Midway
<1>9. Stands(k2, a.r, rest)
  <2>1. rest = << >> <=> n = len
    <3>1. Len(rest) = 0 <=> rest = << >>
      BY <1>5, NoLength
    <3>. QED BY <1>2, <1>4, <1>5, <3>1
  <2>2. n = room => SinkPos(k2) = k2.limit
    BY <1>3, <1>7
  <2> HIDE DEF room, len, k2
  <2>. QED BY <1>1, <1>2, <1>4, <1>7, <2>1, <2>2 DEF Stands
<1>. QED BY <1>1, <1>5, <1>8, <1>9 DEF Outcome, a

\* Where the last part has an outcome, so has the whole.
LEMMA FurtherToTheEnd ==
  ASSUME NEW k, NEW todo, NEW k1, NEW x, NEW k2, NEW r, NEW x2,
         IsSink(k), x \in Bytes,
         Midway(k, todo, k1, x), Outcome(k1, x, k2, r, x2)
  PROVE  Outcome(k, todo, k2, r, x2) /\ x2 \in Bytes /\ IsSink(k1) /\ IsSink(k2)
<1>1. << >> \in Bytes /\ x \o << >> = x
  BY NoBytes, Joins
<1>2. x2 \in Bytes /\ Stands(k2, r, x2)
  BY DEF Outcome
<1>3. x2 \o << >> = x2
  BY <1>1, <1>2, Joins
<1>4. Midway(k, todo, k1, x \o << >>)
  BY <1>1
<1>5. Midway(k, todo, k2, x2 \o << >>) /\ IsSink(k1) /\ IsSink(k2)
  BY <1>1, <1>4, Further DEF Continued
<1>. QED BY <1>2, <1>3, <1>5 DEF Outcome

\* The first of two parts.
LEMMA FirstOfTwo ==
  ASSUME NEW k, NEW x, NEW y, NEW k2, NEW r, NEW x2,
         IsSink(k), x \in Bytes, y \in Bytes, Outcome(k, x, k2, r, x2)
  PROVE  Continued(k, x \o y, k, x, y, k2, r, x2)
<1>1. x \o y \in Bytes
  BY Joins
<1>2. Midway(k, x \o y, k, x \o y)
  BY <1>1, MidwayStart
<1>. QED BY <1>1, <1>2, Further

-----------------------------------------------------------------------------
(* The promise *)

\* The vec's bound on what a sink may reach is that of the model.
Fits(k, todo) == SinkPos(k) + Len(todo) <= 2 * MaxPos

\* Nothing is left to write, wherever it would be, nor for finish to add.
Over(ty, s) ==
  /\ Going(ty, s)
  /\ AtRest(ty, s)
  /\ \A at \in Nat : Rest(ty, s, at) = << >>

\* The answer a of a call that found todo to write: what the sink did not take
\* is what the state has left.
Answers(ty, k, todo, a) ==
  \E rest \in Bytes :
    /\ Outcome(k, todo, a.sink, a.r, rest)
    /\ a.r = "ready" => Over(ty, a.s)
    /\ a.r = "pending" => /\ Going(ty, a.s)
                          /\ Rest(ty, a.s, SinkPos(a.sink)) = rest

\* What the serializers of a type promise.
Writes(ty) ==
  /\ \A v, pos : pos \in Nat /\ IsValue(ty, v) => Encoding(ty, v, pos) \in Bytes
  /\ \A s, at : at \in Nat /\ Going(ty, s) => Rest(ty, s, at) \in Bytes
  /\ FieldEncoding(ty) \in Byte
  /\ Alignment(ty) \in Nat \ {0}

Accepting(ty) ==
  \A s, v, k :
    /\ IsSink(k) /\ Idle(ty, s) /\ IsValue(ty, v)
    /\ Fits(k, Encoding(ty, v, SinkPos(k)))
    => Answers(ty, k, Encoding(ty, v, SinkPos(k)), Input(ty, s, v, k))

Continuing(ty) ==
  \A s, k :
    /\ IsSink(k) /\ Going(ty, s) /\ Fits(k, Rest(ty, s, SinkPos(k)))
    => Answers(ty, k, Rest(ty, s, SinkPos(k)), Poll(ty, s, k))

Finishing(ty) ==
  /\ \A s, k : Ended(ty, s) => /\ Finish(ty, s, k).r = "ready"
                               /\ Finish(ty, s, k).sink = k
  /\ Quiet(ty) => \A s : Idle(ty, s) => Ended(ty, s)

Measured(ty) ==
  Exact(ty) => \A v, pos : pos \in Nat /\ IsValue(ty, v)
                 => MeasureBody(ty, v) = Len(Encoding(ty, v, pos))

Keeps(ty) ==
  /\ Idle(ty, New(ty))
  /\ Writes(ty)
  /\ Accepting(ty)
  /\ Continuing(ty)
  /\ Finishing(ty)
  /\ Measured(ty)

\* The methods of the type are those of its kind.
AtLevel(ty) ==
  /\ HasFixedSize(ty) <=> HasFixedSizeOf(ty)
  /\ Alignment(ty) = AlignmentOf(ty)
  /\ FieldEncoding(ty) = FieldEncodingOf(ty)
  /\ \A v, pos : Encoding(ty, v, pos) = EncodingOf(ty, v, pos)
  /\ \A v : MeasureBody(ty, v) = MeasureBodyOf(ty, v)
  /\ New(ty) = NewOf(ty)
  /\ \A s, v, k : Input(ty, s, v, k) = InputOf(ty, s, v, k)
  /\ \A s, k : Poll(ty, s, k) = PollOf(ty, s, k)
  /\ \A s, k : Finish(ty, s, k) = FinishOf(ty, s, k)
  /\ \A v : IsValue(ty, v) <=> IsValueOf(ty, v)
  /\ \A s, at : Rest(ty, s, at) = RestOf(ty, s, at)
  /\ \A s : Idle(ty, s) <=> IdleOf(ty, s)
  /\ \A s : Going(ty, s) <=> GoingOf(ty, s)
  /\ \A s : Ended(ty, s) <=> EndedOf(ty, s)
  /\ Reusable(ty) <=> ReusableOf(ty)
  /\ Quiet(ty) <=> QuietOf(ty)
  /\ Exact(ty) <=> ExactOf(ty)
  /\ Regular(ty) <=> RegularOf(ty)

LEMMA LeftIsBytes ==
  ASSUME NEW ty, NEW started, NEW s, NEW slot, NEW at,
         Keeps(ty), started \in BOOLEAN, Underway(ty, started, s, slot), at \in Nat
  PROVE  Left(ty, started, s, slot, at) \in Bytes
BY DEF Keeps, Writes, Underway, Left

\* A serializer that has its value goes on, one that has it in its slot begins.
LEMMA Resumes ==
  ASSUME NEW ty, NEW started, NEW s, NEW slot, NEW k,
         Keeps(ty), started \in BOOLEAN, Underway(ty, started, s, slot),
         IsSink(k), Fits(k, Left(ty, started, s, slot, SinkPos(k)))
  PROVE  Answers(ty, k, Left(ty, started, s, slot, SinkPos(k)),
                 IF started THEN Poll(ty, s, k) ELSE Input(ty, s, slot[1], k))
<1>1. CASE started
  BY <1>1 DEF Keeps, Continuing, Underway, Left
<1>2. CASE ~started
  BY <1>2 DEF Keeps, Accepting, Underway, Left
<1>. QED BY <1>1, <1>2

-----------------------------------------------------------------------------
(* Option *)

LEMMA OptionLevel ==
  ASSUME NEW ty, AtLevel(ty), ty.k = "option"
  PROVE  /\ New(ty) = NewOption(ty)
         /\ Alignment(ty) = 1 /\ FieldEncoding(ty) = 0
         /\ \A v, pos : Encoding(ty, v, pos) =
              <<Len(v)>> \o IF v = << >> THEN << >> ELSE Encoding(ty.of, v[1], pos + 1)
         /\ \A v : MeasureBody(ty, v) = MeasureOption(ty, v)
         /\ \A s, v, k : Input(ty, s, v, k) = InputOption(ty, s, v, k)
         /\ \A s, k : Poll(ty, s, k) = PollOption(ty, s, k)
         /\ \A s, k : Finish(ty, s, k) = Finish(ty.of, s.inner, k)
         /\ \A v : IsValue(ty, v) <=> v = << >> \/ AreValues(<<ty.of>>, v, 1)
         /\ \A s, at : Rest(ty, s, at) =
              s.prefix
              \o IF s.hasInner
                 THEN Left(ty.of, s.started, s.inner, s.value, at + Len(s.prefix))
                 ELSE << >>
         /\ \A s : Idle(ty, s) <=> IsRecord(s, OptionNames) /\ Idle(ty.of, s.inner)
         /\ \A s : Going(ty, s) <=>
              /\ IsRecord(s, OptionNames)
              /\ s.prefix \in Seq(Byte) /\ {s.hasInner, s.started} \subseteq BOOLEAN
              /\ IF s.hasInner THEN Underway(ty.of, s.started, s.inner, s.value)
                 ELSE AtRest(ty.of, s.inner)
         /\ \A s : Ended(ty, s) <=> Ended(ty.of, s.inner)
         /\ Reusable(ty) <=> Reusable(ty.of)
         /\ Quiet(ty) <=> Quiet(ty.of)
         /\ Exact(ty) <=> Exact(ty.of)
         /\ Regular(ty) <=> Regular(ty.of) /\ Quiet(ty.of)
BY DEF AtLevel, NewOf, AlignmentOf, FieldEncodingOf, EncodingOf, MeasureBodyOf,
       InputOf, PollOf, FinishOf, IsValueOf, RestOf, IdleOf, GoingOf, EndedOf,
       ReusableOf, QuietOf, ExactOf, RegularOf, Leaf

LEMMA OptionRestIsBytes ==
  ASSUME NEW ty, NEW s, NEW at,
         AtLevel(ty), ty.k = "option", Keeps(ty.of), Going(ty, s), at \in Nat
  PROVE  Rest(ty, s, at) \in Bytes
<1>1. /\ s.prefix \in Bytes /\ s.hasInner \in BOOLEAN /\ s.started \in BOOLEAN
      /\ s.hasInner => Underway(ty.of, s.started, s.inner, s.value)
  BY OptionLevel DEF Bytes
<1>2. at + Len(s.prefix) \in Nat
  BY <1>1, NoLength
<1> DEFINE inner == IF s.hasInner
                    THEN Left(ty.of, s.started, s.inner, s.value, at + Len(s.prefix))
                    ELSE << >>
<1>3. inner \in Bytes
  BY <1>1, <1>2, LeftIsBytes, NoBytes
<1>4. Rest(ty, s, at) = s.prefix \o inner
  BY OptionLevel
<1>. QED BY <1>1, <1>3, <1>4, Joins

LEMMA OptionPoll ==
  ASSUME NEW ty, NEW s, NEW k, AtLevel(ty), ty.k = "option", Keeps(ty.of),
         Going(ty, s), IsSink(k), Fits(k, Rest(ty, s, SinkPos(k)))
  PROVE  Answers(ty, k, Rest(ty, s, SinkPos(k)), Poll(ty, s, k))
<1> DEFINE w == Write(s.prefix, k)
           p == SinkPos(k)
           inner(at) == IF s.hasInner THEN Left(ty.of, s.started, s.inner, s.value, at)
                        ELSE << >>
           todo == s.prefix \o inner(p + Len(s.prefix))
           t == [s EXCEPT !.prefix = w.s]
           a == Poll(ty, s, k)
<1>a. \A z, at : Rest(ty, z, at) =
        z.prefix
        \o IF z.hasInner THEN Left(ty.of, z.started, z.inner, z.value, at + Len(z.prefix))
           ELSE << >>
  BY OptionLevel
<1>b. a = PollOption(ty, s, k)
  BY OptionLevel
<1>c. << >> \o << >> = << >>
  BY NoBytes, Joins
<1>1. /\ IsRecord(s, OptionNames) /\ s.prefix \in Bytes
      /\ s.hasInner \in BOOLEAN /\ s.started \in BOOLEAN
      /\ s.hasInner => Underway(ty.of, s.started, s.inner, s.value)
      /\ ~s.hasInner => AtRest(ty.of, s.inner)
  BY OptionLevel DEF Bytes
<1>2. Len(s.prefix) \in Nat /\ p \in Nat
  BY <1>1, NoBytes, NoLength, AfterFacts
<1>3. ASSUME NEW at \in Nat PROVE inner(at) \in Bytes
  BY <1>1, LeftIsBytes, NoBytes
<1> DEFINE x == inner(p + Len(s.prefix))
<1>5. Rest(ty, s, p) = todo /\ todo = s.prefix \o x /\ x \in Bytes /\ todo \in Bytes
  <2>1. p + Len(s.prefix) \in Nat
    BY <1>2
  <2>2. x \in Bytes
    BY <1>3, <2>1
  <2>3. Rest(ty, s, p) = todo
    BY <1>a
  <2>. QED BY <1>1, <2>2, <2>3, Joins
<1>6. Outcome(k, s.prefix, w.sink, w.r, w.s)
  BY <1>1, WriteOutcome
<1> HIDE DEF w, p, x, todo
<1>7. /\ Midway(k, todo, w.sink, w.s \o x) /\ IsSink(w.sink)
      /\ w.s \in Bytes /\ w.s \o x \in Bytes
      /\ w.r # "ready" => Stands(w.sink, w.r, w.s \o x)
      /\ w.r = "ready" => w.s = << >> /\ w.s \o x = x
      /\ SinkPos(w.sink) \in Nat /\ SinkPos(w.sink) + Len(w.s) = p + Len(s.prefix)
  <2>1. Continued(k, s.prefix \o x, k, s.prefix, x, w.sink, w.r, w.s)
    BY <1>1, <1>5, <1>6, FirstOfTwo
  <2>. QED BY <1>5, <2>1 DEF Continued, p
<1>8. IsRecord(t, OptionNames) /\ t.prefix = w.s /\ t.hasInner = s.hasInner
      /\ t.started = s.started /\ t.inner = s.inner /\ t.value = s.value
  BY <1>1 DEF IsRecord, OptionNames
<1> HIDE DEF t
<1>9. CASE w.r # "ready" \/ ~s.hasInner
  <2>1. a.s = t /\ a.sink = w.sink /\ a.r = w.r
    BY <1>b, <1>9 DEF PollOption, OptionAfterPrefix, Answer, w, t
  <2>2. Going(ty, t)
    BY <1>1, <1>7, <1>8, OptionLevel DEF Bytes
  <2>3. Rest(ty, t, SinkPos(w.sink)) = w.s \o x
    BY <1>a, <1>7, <1>8 DEF x
  <2>4. w.r = "ready" => x = << >>
    BY <1>9 DEF x
  <2>5. Outcome(k, todo, w.sink, w.r, w.s \o x)
    BY <1>7, <2>4 DEF Outcome, Stands
  <2>6. w.r = "ready" => Over(ty, t)
    <3>1. SUFFICES ASSUME w.r = "ready" PROVE Over(ty, t)
      OBVIOUS
    <3>2. ~t.hasInner /\ t.prefix = << >>
      BY <1>7, <1>8, <1>9, <3>1
    <3>3. AtRest(ty, t)
      BY <1>1, <1>8, <3>2, OptionLevel DEF AtRest
    <3>4. \A at \in Nat : Rest(ty, t, at) = << >>
      BY <1>a, <1>c, <3>2
    <3>. QED BY <2>2, <3>3, <3>4 DEF Over
  <2>. QED BY <1>5, <1>7, <2>1, <2>2, <2>3, <2>5, <2>6 DEF Answers, p
<1>10. CASE w.r = "ready" /\ s.hasInner
  <2> DEFINE i == IF s.started THEN Poll(ty.of, s.inner, w.sink)
                  ELSE Input(ty.of, s.inner, s.value[1], w.sink)
             u == [t EXCEPT !.value = << >>, !.started = TRUE, !.inner = i.s,
                            !.hasInner = InnerLeft(i.r)]
  <2>1. a.s = u /\ a.sink = i.sink /\ a.r = i.r
    BY <1>b, <1>10, <1>8 DEF PollOption, OptionAfterPrefix, OptionAfterInner, Answer, w, t
  <2>2. /\ w.s = << >> /\ SinkPos(w.sink) = p + Len(s.prefix)
        /\ Midway(k, todo, w.sink, x)
    <3>1. SinkPos(w.sink) + 0 = SinkPos(w.sink)
      BY <1>7
    <3>. QED BY <1>7, <1>10, <3>1, NoBytes
  <2>3. x = Left(ty.of, s.started, s.inner, s.value, SinkPos(w.sink))
    BY <1>10, <2>2 DEF x
  <2>4. Fits(w.sink, x)
    BY <1>5, <1>7, <2>2, MidwayFacts DEF Fits, p
  <2>5. Answers(ty.of, w.sink, x, i)
    BY <1>1, <1>7, <1>10, <2>3, <2>4, Resumes
  <2> HIDE DEF i
  <2>6. PICK rest \in Bytes :
          /\ Outcome(w.sink, x, i.sink, i.r, rest)
          /\ i.r = "ready" => Over(ty.of, i.s)
          /\ i.r = "pending" => /\ Going(ty.of, i.s)
                                /\ Rest(ty.of, i.s, SinkPos(i.sink)) = rest
    BY <2>5 DEF Answers
  <2>7. Outcome(k, todo, i.sink, i.r, rest) /\ IsSink(i.sink)
    BY <1>5, <2>2, <2>6, FurtherToTheEnd
  <2>8. /\ IsRecord(u, OptionNames) /\ u.prefix = << >> /\ u.started = TRUE
        /\ u.inner = i.s /\ u.hasInner = (i.r # "ready")
    BY <1>8, <2>2 DEF IsRecord, OptionNames, InnerLeft
  <2> HIDE DEF u
  <2>9. i.r = "ready" => Over(ty, u)
    <3>1. SUFFICES ASSUME i.r = "ready" PROVE Over(ty, u)
      OBVIOUS
    <3>2. AtRest(ty.of, u.inner) /\ ~u.hasInner
      BY <2>6, <2>8, <3>1 DEF Over
    <3>3. Going(ty, u)
      BY <2>8, <3>2, OptionLevel, NoBytes DEF Bytes
    <3>4. AtRest(ty, u)
      BY <2>8, <3>2, OptionLevel DEF AtRest
    <3>5. \A at \in Nat : Rest(ty, u, at) = << >>
      BY <1>a, <1>c, <2>8, <3>2
    <3>. QED BY <3>3, <3>4, <3>5 DEF Over
  <2>10. ASSUME i.r = "pending"
         PROVE  Going(ty, u) /\ Rest(ty, u, SinkPos(i.sink)) = rest
    <3>1. Underway(ty.of, u.started, u.inner, u.value) /\ u.hasInner
      BY <2>6, <2>8, <2>10 DEF Underway
    <3>2. Going(ty, u)
      BY <2>8, <3>1, OptionLevel, NoBytes DEF Bytes
    <3>3. SinkPos(i.sink) \in Nat /\ SinkPos(i.sink) + Len(<< >>) = SinkPos(i.sink)
      <4>1. SinkPos(i.sink) \in Nat
        BY <2>7, AfterFacts, NoBytes
      <4>. QED BY <4>1, NoBytes
    <3>4. Rest(ty, u, SinkPos(i.sink)) = << >> \o Rest(ty.of, i.s, SinkPos(i.sink))
      BY <1>a, <2>8, <3>1, <3>3 DEF Left
    <3>. QED BY <2>6, <2>10, <3>2, <3>4, Joins
  <2>. QED BY <1>5, <2>1, <2>7, <2>9, <2>10, <2>6 DEF Answers, p
<1>. QED BY <1>9, <1>10

LEMMA OneValue ==
  ASSUME NEW ty, NEW v, AreValues(<<ty>>, v, 1)
  PROVE  v = <<v[1]>> /\ Len(v) = 1 /\ v # << >> /\ IsValue(ty, v[1])
<1>1. v = [i \in 1 .. 1 |-> v[i]] /\ \A i \in 1 .. 1 : IsValue(<<ty>>[i], v[i])
  BY DEF AreValues
<1>2. v = <<v[1]>>
  BY <1>1
<1>3. IsValue(<<ty>>[1], v[1]) /\ <<ty>>[1] = ty
  BY <1>1
<1>4. Len(<<v[1]>>) = 1 /\ <<v[1]>> # << >>
  OBVIOUS
<1>. QED BY <1>2, <1>3, <1>4

LEMMA OneByte ==
  ASSUME NEW b \in Byte
  PROVE  <<b>> \in Bytes /\ Len(<<b>>) = 1
BY DEF Bytes

\* An option keeps the promise if what it may hold does; its finish reaches what
\* it holds even when it holds nothing.
LEMMA OptionKeeps ==
  ASSUME NEW ty, AtLevel(ty), ty.k = "option", Regular(ty), Keeps(ty.of)
  PROVE  Keeps(ty)
<1>1. /\ Quiet(ty.of) /\ Idle(ty.of, New(ty.of)) /\ Writes(ty.of)
      /\ Finishing(ty.of) /\ Measured(ty.of)
  BY OptionLevel DEF Keeps
<1>2. Idle(ty, New(ty))
  <2>1. New(ty) = NewOption(ty)
    BY OptionLevel
  <2>2. IsRecord(NewOption(ty), OptionNames) /\ NewOption(ty).inner = New(ty.of)
    BY DEF NewOption, IsRecord, OptionNames
  <2>3. \A s : Idle(ty, s) <=> IsRecord(s, OptionNames) /\ Idle(ty.of, s.inner)
    BY OptionLevel
  <2>. QED BY <1>1, <2>1, <2>2, <2>3
<1>3. ASSUME NEW v, NEW pos \in Nat, IsValue(ty, v)
      PROVE  /\ <<Len(v)>> \in Bytes /\ Len(<<Len(v)>>) = 1 /\ pos + 1 \in Nat
             /\ v # << >> => /\ v = <<v[1]>> /\ IsValue(ty.of, v[1])
                             /\ Encoding(ty.of, v[1], pos + 1) \in Bytes
  <2>1. v = << >> \/ AreValues(<<ty.of>>, v, 1)
    BY <1>3, OptionLevel
  <2>2. v # << >> => v = <<v[1]>> /\ IsValue(ty.of, v[1])
    BY <2>1, OneValue
  <2>3. Len(v) \in {0, 1}
    BY <2>1, OneValue, NoBytes
  <2>4. Len(v) \in Byte
    BY <2>3 DEF Byte
  <2>. QED BY <1>1, <2>2, <2>4, OneByte DEF Writes
<1>4. \A v, pos : Encoding(ty, v, pos) =
        <<Len(v)>> \o IF v = << >> THEN << >> ELSE Encoding(ty.of, v[1], pos + 1)
  BY OptionLevel
<1>5. Writes(ty)
  <2>1. ASSUME NEW v, NEW pos, pos \in Nat, IsValue(ty, v)
        PROVE  Encoding(ty, v, pos) \in Bytes
    <3>1. CASE v = << >>
      <4>1. Encoding(ty, v, pos) = <<Len(v)>> \o << >>
        BY <1>4, <3>1
      <4>. QED BY <1>3, <2>1, <4>1, NoBytes, Joins
    <3>2. CASE v # << >>
      <4>1. Encoding(ty, v, pos) = <<Len(v)>> \o Encoding(ty.of, v[1], pos + 1)
        BY <1>4, <3>2
      <4>. QED BY <1>3, <2>1, <3>2, <4>1, Joins
    <3>. QED BY <3>1, <3>2
  <2>2. ASSUME NEW s, NEW at, at \in Nat, Going(ty, s) PROVE Rest(ty, s, at) \in Bytes
    BY <2>2, OptionRestIsBytes
  <2>3. FieldEncoding(ty) \in Byte /\ Alignment(ty) \in Nat \ {0}
    <3>1. FieldEncoding(ty) = 0 /\ Alignment(ty) = 1
      BY OptionLevel
    <3>. QED BY <3>1 DEF Byte
  <2>. QED BY <2>1, <2>2, <2>3 DEF Writes
<1>6. Continuing(ty)
  BY OptionPoll DEF Continuing
<1>7. Accepting(ty)
  <2>1. SUFFICES ASSUME NEW s, NEW v, NEW k,
                        IsSink(k), Idle(ty, s), IsValue(ty, v),
                        Fits(k, Encoding(ty, v, SinkPos(k)))
                 PROVE  Answers(ty, k, Encoding(ty, v, SinkPos(k)), Input(ty, s, v, k))
    BY DEF Accepting
  <2> DEFINE t == [s EXCEPT !.value = v, !.prefix = <<Len(v)>>, !.hasInner = v # << >>,
                            !.started = FALSE]
  <2>2. Input(ty, s, v, k) = Poll(ty, t, k)
    <3>1. Input(ty, s, v, k) = InputOption(ty, s, v, k)
      BY OptionLevel
    <3>2. InputOption(ty, s, v, k) = PollOption(ty, t, k)
      BY DEF InputOption
    <3>3. Poll(ty, t, k) = PollOption(ty, t, k)
      BY OptionLevel
    <3>. QED BY <3>1, <3>2, <3>3
  <2>3. IsRecord(s, OptionNames) /\ Idle(ty.of, s.inner)
    BY <2>1, OptionLevel
  <2>4. /\ IsRecord(t, OptionNames) /\ t.value = v /\ t.prefix = <<Len(v)>>
        /\ t.hasInner = (v # << >>) /\ t.started = FALSE /\ t.inner = s.inner
    BY <2>3 DEF IsRecord, OptionNames
  <2> HIDE DEF t
  <2>5. SinkPos(k) \in Nat
    BY <2>1, AfterFacts, NoBytes
  <2>6. /\ <<Len(v)>> \in Bytes /\ Len(<<Len(v)>>) = 1
        /\ v # << >> => v = <<v[1]>> /\ IsValue(ty.of, v[1])
    BY <1>3, <2>1, <2>5
  <2>7. AtRest(ty.of, s.inner)
    BY <1>1, <2>3 DEF AtRest, Finishing
  <2>8. Going(ty, t)
    BY <2>3, <2>4, <2>6, <2>7, OptionLevel DEF Underway, Bytes
  <2>9. Rest(ty, t, SinkPos(k)) = Encoding(ty, v, SinkPos(k))
    <3>1. Rest(ty, t, SinkPos(k)) =
            t.prefix
            \o IF t.hasInner
               THEN Left(ty.of, t.started, t.inner, t.value, SinkPos(k) + Len(t.prefix))
               ELSE << >>
      BY OptionLevel
    <3>. QED BY <1>4, <2>4, <2>6, <3>1 DEF Left
  <2>10. Answers(ty, k, Rest(ty, t, SinkPos(k)), Poll(ty, t, k))
    BY <2>1, <2>8, <2>9, OptionPoll
  <2>. QED BY <2>2, <2>9, <2>10
<1>8. Finishing(ty)
  <2>1. \A s : /\ Ended(ty, s) <=> Ended(ty.of, s.inner)
               /\ Idle(ty, s) => Idle(ty.of, s.inner)
               /\ \A k : Finish(ty, s, k) = Finish(ty.of, s.inner, k)
    BY OptionLevel
  <2>. QED BY <1>1, <2>1 DEF Finishing
<1>9. Measured(ty)
  <2>1. SUFFICES ASSUME Exact(ty), NEW v, NEW pos, pos \in Nat, IsValue(ty, v)
                 PROVE  MeasureBody(ty, v) = Len(Encoding(ty, v, pos))
    BY DEF Measured
  <2>2. MeasureBody(ty, v) = MeasureOption(ty, v) /\ Exact(ty.of)
    BY <2>1, OptionLevel
  <2>3. CASE v = << >>
    <3>1. Encoding(ty, v, pos) = <<Len(v)>> \o << >>
      BY <1>4, <2>3
    <3>2. Encoding(ty, v, pos) = <<Len(v)>> /\ Len(<<Len(v)>>) = 1
      BY <1>3, <2>1, <3>1, Joins
    <3>. QED BY <2>2, <2>3, <3>2 DEF MeasureOption
  <2>4. CASE v # << >>
    <3>1. Encoding(ty, v, pos) = <<Len(v)>> \o Encoding(ty.of, v[1], pos + 1)
      BY <1>4, <2>4
    <3>2. Len(Encoding(ty, v, pos)) = 1 + Len(Encoding(ty.of, v[1], pos + 1))
      BY <1>3, <2>1, <2>4, <3>1, Joins
    <3>3. MeasureBody(ty.of, v[1]) = Len(Encoding(ty.of, v[1], pos + 1))
      BY <1>1, <1>3, <2>1, <2>2, <2>4 DEF Measured
    <3>. QED BY <2>2, <2>4, <3>2, <3>3 DEF MeasureOption
  <2>. QED BY <2>3, <2>4
<1>. QED BY <1>2, <1>5, <1>6, <1>7, <1>8, <1>9 DEF Keeps

-----------------------------------------------------------------------------
(* Box, Rc, Arc and Cow *)

LEMMA SharedLevel ==
  ASSUME NEW ty, AtLevel(ty), ty.k = "shared"
  PROVE  /\ New(ty) = New(ty.of)
         /\ Alignment(ty) = Alignment(ty.of)
         /\ FieldEncoding(ty) = FieldEncoding(ty.of)
         /\ \A v, pos : Encoding(ty, v, pos) = Encoding(ty.of, v, pos)
         /\ \A v : MeasureBody(ty, v) = MeasureBody(ty.of, v)
         /\ \A s, v, k : Input(ty, s, v, k) = Input(ty.of, s, v, k)
         /\ \A s, k : Poll(ty, s, k) = Poll(ty.of, s, k)
         /\ \A s, k : Finish(ty, s, k) = Finish(ty.of, s, k)
         /\ \A v : IsValue(ty, v) <=> IsValue(ty.of, v)
         /\ \A s, at : Rest(ty, s, at) = Rest(ty.of, s, at)
         /\ \A s : Idle(ty, s) <=> Idle(ty.of, s)
         /\ \A s : Going(ty, s) <=> Going(ty.of, s)
         /\ \A s : Ended(ty, s) <=> Ended(ty.of, s)
         /\ Reusable(ty) <=> Reusable(ty.of)
         /\ Quiet(ty) <=> Quiet(ty.of)
         /\ Exact(ty) <=> Exact(ty.of)
         /\ Regular(ty) <=> Regular(ty.of)
BY DEF AtLevel, NewOf, AlignmentOf, FieldEncodingOf, EncodingOf, MeasureBodyOf,
       InputOf, PollOf, FinishOf, IsValueOf, RestOf, IdleOf, GoingOf, EndedOf,
       ReusableOf, QuietOf, ExactOf, RegularOf, Leaf,
       NewShared, InputShared, PollShared, FinishShared, MeasureShared

\* They keep the promise of what they hold.
LEMMA SharedKeeps ==
  ASSUME NEW ty, AtLevel(ty), ty.k = "shared", Keeps(ty.of)
  PROVE  Keeps(ty)
<1>1. /\ Idle(ty.of, New(ty.of)) /\ Writes(ty.of) /\ Accepting(ty.of)
      /\ Continuing(ty.of) /\ Finishing(ty.of) /\ Measured(ty.of)
  BY DEF Keeps
<1>2. Idle(ty, New(ty))
  <2>1. New(ty) = New(ty.of) /\ \A s : Idle(ty, s) <=> Idle(ty.of, s)
    BY SharedLevel
  <2>. QED BY <1>1, <2>1
<1>3. Writes(ty)
  <2>1. /\ Alignment(ty) = Alignment(ty.of) /\ FieldEncoding(ty) = FieldEncoding(ty.of)
        /\ \A v, pos : Encoding(ty, v, pos) = Encoding(ty.of, v, pos)
        /\ \A v : IsValue(ty, v) <=> IsValue(ty.of, v)
        /\ \A s, at : Rest(ty, s, at) = Rest(ty.of, s, at)
        /\ \A s : Going(ty, s) <=> Going(ty.of, s)
    BY SharedLevel
  <2>. QED BY <1>1, <2>1 DEF Writes
<1>4. \A s : Over(ty, s) <=> Over(ty.of, s)
  <2>1. /\ \A s, at : Rest(ty, s, at) = Rest(ty.of, s, at)
        /\ \A s : Going(ty, s) <=> Going(ty.of, s)
        /\ \A s : Idle(ty, s) <=> Idle(ty.of, s)
        /\ \A s : Ended(ty, s) <=> Ended(ty.of, s)
        /\ Reusable(ty) <=> Reusable(ty.of)
    BY SharedLevel
  <2>. QED BY <2>1 DEF Over, AtRest
<1>5. ASSUME NEW k, NEW todo, NEW a
      PROVE  Answers(ty, k, todo, a) <=> Answers(ty.of, k, todo, a)
  <2>1. /\ \A s, at : Rest(ty, s, at) = Rest(ty.of, s, at)
        /\ \A s : Going(ty, s) <=> Going(ty.of, s)
    BY SharedLevel
  <2>. QED BY <1>4, <2>1 DEF Answers
<1>6. Accepting(ty)
  <2>1. /\ \A s : Idle(ty, s) <=> Idle(ty.of, s)
        /\ \A v, pos : Encoding(ty, v, pos) = Encoding(ty.of, v, pos)
        /\ \A v : IsValue(ty, v) <=> IsValue(ty.of, v)
        /\ \A s, v, k : Input(ty, s, v, k) = Input(ty.of, s, v, k)
    BY SharedLevel
  <2>. QED BY <1>1, <1>5, <2>1 DEF Accepting
<1>7. Continuing(ty)
  <2>1. /\ \A s : Going(ty, s) <=> Going(ty.of, s)
        /\ \A s, at : Rest(ty, s, at) = Rest(ty.of, s, at)
        /\ \A s, k : Poll(ty, s, k) = Poll(ty.of, s, k)
    BY SharedLevel
  <2>. QED BY <1>1, <1>5, <2>1 DEF Continuing
<1>8. Finishing(ty)
  <2>1. /\ \A s, k : Finish(ty, s, k) = Finish(ty.of, s, k)
        /\ \A s : Idle(ty, s) <=> Idle(ty.of, s)
        /\ \A s : Ended(ty, s) <=> Ended(ty.of, s)
        /\ Quiet(ty) <=> Quiet(ty.of)
    BY SharedLevel
  <2>. QED BY <1>1, <2>1 DEF Finishing
<1>9. Measured(ty)
  <2>1. /\ Exact(ty) <=> Exact(ty.of)
        /\ \A v, pos : Encoding(ty, v, pos) = Encoding(ty.of, v, pos)
        /\ \A v : IsValue(ty, v) <=> IsValue(ty.of, v)
        /\ \A v : MeasureBody(ty, v) = MeasureBody(ty.of, v)
    BY SharedLevel
  <2>. QED BY <1>1, <2>1 DEF Measured
<1>. QED BY <1>2, <1>3, <1>6, <1>7, <1>8, <1>9 DEF Keeps

-----------------------------------------------------------------------------
(* Result *)

LEMMA ResultLevel ==
  ASSUME NEW ty, AtLevel(ty), ty.k = "result"
  PROVE  /\ New(ty) = NewResult(ty)
         /\ Alignment(ty) = 1 /\ FieldEncoding(ty) = 0
         /\ \A v, pos : Encoding(ty, v, pos) =
              <<v.tag>>
              \o Encoding(IF v.tag = 0 THEN ty.left ELSE ty.right, v.val, pos + 1)
         /\ \A v : MeasureBody(ty, v) =
              1 + MeasureBody(IF v.tag = 0 THEN ty.left ELSE ty.right, v.val)
         /\ \A s, v, k : Input(ty, s, v, k) = InputResult(ty, s, v, k)
         /\ \A s, k : Poll(ty, s, k) = PollResult(ty, s, k)
         /\ \A s, k : Finish(ty, s, k) = FinishResult(ty, s, k)
         /\ \A v : IsValue(ty, v) <=> v.tag \in {0, 1} /\ IsValue(ty[Side(v.tag)], v.val)
         /\ \A s, at : Rest(ty, s, at) =
              s.prefix \o Left(ty[SideOf(s)], s.started, s[SideOf(s)], s.value,
                               at + Len(s.prefix))
         /\ \A s : Idle(ty, s) <=> /\ IsRecord(s, ResultNames)
                                   /\ Idle(ty.left, s.left) /\ Idle(ty.right, s.right)
                                   /\ Ended(ty, s)
         /\ \A s : Going(ty, s) <=>
              /\ IsRecord(s, ResultNames)
              /\ s.state \in {"ok", "err"} /\ s.prefix \in Seq(Byte)
              /\ s.started \in BOOLEAN
              /\ Underway(ty[SideOf(s)], s.started, s[SideOf(s)], s.value)
              /\ Idle(ty[Other(SideOf(s))], s[Other(SideOf(s))])
         /\ \A s : Ended(ty, s) <=>
              \/ s.state = "uninitialized"
              \/ s.state \in {"ok", "err"} /\ Ended(ty[SideOf(s)], s[SideOf(s)])
         /\ Reusable(ty) <=> Reusable(ty.left) /\ Reusable(ty.right)
         /\ Quiet(ty)
         /\ Exact(ty) <=> Exact(ty.left) /\ Exact(ty.right)
         /\ Regular(ty) <=> Regular(ty.left) /\ Regular(ty.right)
<1>1. New(ty) = NewResult(ty)
  BY DEF AtLevel, NewOf, Leaf
<1>2. Alignment(ty) = 1 /\ FieldEncoding(ty) = 0
  BY DEF AtLevel, AlignmentOf, FieldEncodingOf, Leaf
<1>3. \A v, pos : Encoding(ty, v, pos) =
        <<v.tag>>
        \o Encoding(IF v.tag = 0 THEN ty.left ELSE ty.right, v.val, pos + 1)
  BY DEF AtLevel, EncodingOf, Leaf
<1>4. \A v : MeasureBody(ty, v) =
        1 + MeasureBody(IF v.tag = 0 THEN ty.left ELSE ty.right, v.val)
  BY DEF AtLevel, MeasureBodyOf, MeasureResult, Leaf
<1>5. \A s, v, k : Input(ty, s, v, k) = InputResult(ty, s, v, k)
  BY DEF AtLevel, InputOf, Leaf
<1>6. \A s, k : Poll(ty, s, k) = PollResult(ty, s, k)
  BY DEF AtLevel, PollOf, Leaf
<1>7. \A s, k : Finish(ty, s, k) = FinishResult(ty, s, k)
  BY DEF AtLevel, FinishOf, Leaf
<1>8. \A v : IsValue(ty, v) <=> v.tag \in {0, 1} /\ IsValue(ty[Side(v.tag)], v.val)
  BY DEF AtLevel, IsValueOf, Leaf
<1>9. \A s, at : Rest(ty, s, at) =
        s.prefix \o Left(ty[SideOf(s)], s.started, s[SideOf(s)], s.value,
                         at + Len(s.prefix))
  BY DEF AtLevel, RestOf, Leaf
<1>10. \A s : Idle(ty, s) <=> /\ IsRecord(s, ResultNames)
                             /\ Idle(ty.left, s.left) /\ Idle(ty.right, s.right)
                             /\ Ended(ty, s)
  BY DEF AtLevel, IdleOf, Leaf
<1>11. \A s : Going(ty, s) <=>
        /\ IsRecord(s, ResultNames)
        /\ s.state \in {"ok", "err"} /\ s.prefix \in Seq(Byte)
        /\ s.started \in BOOLEAN
        /\ Underway(ty[SideOf(s)], s.started, s[SideOf(s)], s.value)
        /\ Idle(ty[Other(SideOf(s))], s[Other(SideOf(s))])
  BY DEF AtLevel, GoingOf, Leaf
<1>12. \A s : Ended(ty, s) <=>
        \/ s.state = "uninitialized"
        \/ s.state \in {"ok", "err"} /\ Ended(ty[SideOf(s)], s[SideOf(s)])
  BY DEF AtLevel, EndedOf, Leaf
<1>13. Reusable(ty) <=> Reusable(ty.left) /\ Reusable(ty.right)
  BY DEF AtLevel, ReusableOf, Leaf
<1>14. Quiet(ty)
  BY DEF AtLevel, QuietOf, Leaf
<1>15. Exact(ty) <=> Exact(ty.left) /\ Exact(ty.right)
  BY DEF AtLevel, ExactOf, Leaf
<1>16. Regular(ty) <=> Regular(ty.left) /\ Regular(ty.right)
  BY DEF AtLevel, RegularOf, Leaf
<1>. QED BY <1>1, <1>2, <1>3, <1>4, <1>5, <1>6, <1>7, <1>8, <1>9, <1>10, <1>11, <1>12, <1>13, <1>14, <1>15, <1>16

\* Both sides of a Result keep the promise.
BothKeep(ty) == Keeps(ty.left) /\ Keeps(ty.right)

LEMMA ResultRestIsBytes ==
  ASSUME NEW ty, NEW s, NEW at,
         AtLevel(ty), ty.k = "result", BothKeep(ty), Going(ty, s), at \in Nat
  PROVE  Rest(ty, s, at) \in Bytes
<1>1. /\ s.prefix \in Bytes /\ s.started \in BOOLEAN
      /\ Underway(ty[SideOf(s)], s.started, s[SideOf(s)], s.value)
  BY ResultLevel DEF Bytes
<1>2. at + Len(s.prefix) \in Nat
  BY <1>1, NoLength
<1>3. Keeps(ty[SideOf(s)])
  BY DEF SideOf, BothKeep
<1>4. Left(ty[SideOf(s)], s.started, s[SideOf(s)], s.value, at + Len(s.prefix)) \in Bytes
  BY <1>1, <1>2, <1>3, LeftIsBytes
<1>5. \A z, p : Rest(ty, z, p) =
        z.prefix \o Left(ty[SideOf(z)], z.started, z[SideOf(z)], z.value,
                         p + Len(z.prefix))
  BY ResultLevel
<1>6. Rest(ty, s, at) = s.prefix \o Left(ty[SideOf(s)], s.started, s[SideOf(s)],
                                         s.value, at + Len(s.prefix))
  BY <1>5
<1>. QED BY <1>1, <1>4, <1>6, Joins

LEMMA ResultPoll ==
  ASSUME NEW ty, NEW s, NEW k, AtLevel(ty), ty.k = "result", BothKeep(ty),
         Going(ty, s), IsSink(k), Fits(k, Rest(ty, s, SinkPos(k)))
  PROVE  Answers(ty, k, Rest(ty, s, SinkPos(k)), Poll(ty, s, k))
<1> DEFINE w == Write(s.prefix, k)
           p == SinkPos(k)
           side == SideOf(s)
           x == Left(ty[side], s.started, s[side], s.value, p + Len(s.prefix))
           todo == s.prefix \o x
           t == [s EXCEPT !.prefix = w.s]
           a == Poll(ty, s, k)
<1>a. \A z, at : Rest(ty, z, at) =
        z.prefix \o Left(ty[SideOf(z)], z.started, z[SideOf(z)], z.value,
                         at + Len(z.prefix))
  BY ResultLevel
<1>b. a = PollResult(ty, s, k)
  <2>1. \A z, q : Poll(ty, z, q) = PollResult(ty, z, q)
    BY ResultLevel
  <2>. QED BY <2>1
<1>c. << >> \o << >> = << >>
  BY NoBytes, Joins
<1>d. \A z : Going(ty, z) <=>
        /\ IsRecord(z, ResultNames)
        /\ z.state \in {"ok", "err"} /\ z.prefix \in Seq(Byte)
        /\ z.started \in BOOLEAN
        /\ Underway(ty[SideOf(z)], z.started, z[SideOf(z)], z.value)
        /\ Idle(ty[Other(SideOf(z))], z[Other(SideOf(z))])
  BY ResultLevel
<1>1. /\ IsRecord(s, ResultNames) /\ s.prefix \in Bytes
      /\ s.state \in {"ok", "err"} /\ s.started \in BOOLEAN
      /\ Underway(ty[side], s.started, s[side], s.value)
      /\ Idle(ty[Other(side)], s[Other(side)])
  BY <1>d DEF Bytes
<1>2. Len(s.prefix) \in Nat /\ p \in Nat
  BY <1>1, NoBytes, NoLength, AfterFacts
<1>3. /\ side \in {"left", "right"} /\ Keeps(ty[side]) /\ Keeps(ty[Other(side)])
      /\ side = IF s.state = "ok" THEN "left" ELSE "right"
      /\ Other(side) \in {"left", "right"} /\ Other(side) # side
  BY DEF SideOf, Other, BothKeep
<1>4. Rest(ty, s, p) = todo /\ x \in Bytes /\ todo \in Bytes
  <2>1. p + Len(s.prefix) \in Nat
    BY <1>2
  <2>2. x \in Bytes
    BY <1>1, <1>3, <2>1, LeftIsBytes
  <2>3. Rest(ty, s, p) = todo
    BY <1>a
  <2>. QED BY <1>1, <2>2, <2>3, Joins
<1>5. Outcome(k, s.prefix, w.sink, w.r, w.s)
  BY <1>1, WriteOutcome
<1> HIDE DEF w, p, x, side
<1>6. /\ w.s \in Bytes /\ w.s \o x \in Bytes
      /\ Midway(k, todo, w.sink, w.s \o x)
      /\ IsSink(w.sink)
      /\ w.r # "ready" => Stands(w.sink, w.r, w.s \o x)
      /\ w.r = "ready" => w.s = << >> /\ w.s \o x = x
      /\ SinkPos(w.sink) \in Nat
      /\ SinkPos(w.sink) + Len(w.s) = SinkPos(k) + Len(s.prefix)
  <2>1. Continued(k, s.prefix \o x, k, s.prefix, x, w.sink, w.r, w.s)
    BY <1>1, <1>4, <1>5, FirstOfTwo
  <2>. QED BY <2>1 DEF Continued
<1> HIDE DEF todo
<1>7. /\ IsRecord(t, ResultNames) /\ t.prefix = w.s /\ t.state = s.state
      /\ t.started = s.started /\ t.left = s.left /\ t.right = s.right
      /\ t.value = s.value /\ t[side] = s[side] /\ t[Other(side)] = s[Other(side)]
      /\ SideOf(t) = side
  <2>1. /\ IsRecord(t, ResultNames) /\ t.prefix = w.s /\ t.state = s.state
        /\ t.started = s.started /\ t.left = s.left /\ t.right = s.right
        /\ t.value = s.value
    BY <1>1 DEF IsRecord, ResultNames
  <2>. QED BY <1>3, <2>1 DEF SideOf, side
<1> HIDE DEF t
<1>8. CASE w.r # "ready"
  <2>1. a.s = t /\ a.sink = w.sink /\ a.r = w.r
    BY <1>b, <1>1, <1>8 DEF PollResult, ResultAfterPrefix, Answer, w, t
  <2>2. Going(ty, t)
    BY <1>1, <1>d, <1>6, <1>7 DEF Bytes
  <2>3. Rest(ty, t, SinkPos(w.sink)) = w.s \o x
    BY <1>a, <1>6, <1>7 DEF x, p
  <2>4. Outcome(k, todo, w.sink, w.r, w.s \o x)
    BY <1>6, <1>8 DEF Outcome
  <2>. QED BY <1>4, <1>6, <1>8, <2>1, <2>2, <2>3, <2>4 DEF Answers, p
<1>9. CASE w.r = "ready"
  <2> DEFINE i == IF s.started THEN Poll(ty[side], s[side], w.sink)
                  ELSE Input(ty[side], s[side], s.value[1], w.sink)
             u == [t EXCEPT !.value = << >>, !.started = TRUE, ![side] = i.s]
  <2>1. a.s = u /\ a.sink = i.sink /\ a.r = i.r
    <3>1. a = ResultAfterPrefix(ty, s, side, w)
      BY <1>b, <1>1, <1>3 DEF PollResult, w
    <3>2. a = ResultAfterInner(t, side, i)
      BY <1>7, <1>9, <3>1 DEF ResultAfterPrefix, t
    <3> HIDE DEF i
    <3>. QED BY <3>2 DEF ResultAfterInner, Answer
  <2>2. /\ w.s = << >> /\ SinkPos(w.sink) = p + Len(s.prefix)
        /\ Midway(k, todo, w.sink, x)
    <3>1. SinkPos(w.sink) + 0 = SinkPos(w.sink)
      BY <1>6
    <3>. QED BY <1>6, <1>9, <3>1, NoBytes DEF p
  <2>3. x = Left(ty[side], s.started, s[side], s.value, SinkPos(w.sink))
    BY <2>2 DEF x
  <2>4. Fits(w.sink, x)
    BY <1>4, <2>2, MidwayFacts DEF Fits, p
  <2>5. Answers(ty[side], w.sink, x, i)
    BY <1>1, <1>3, <1>6, <2>3, <2>4, Resumes
  <2> HIDE DEF i
  <2>6. PICK rest \in Bytes :
          /\ Outcome(w.sink, x, i.sink, i.r, rest)
          /\ i.r = "ready" => Over(ty[side], i.s)
          /\ i.r = "pending" => /\ Going(ty[side], i.s)
                                /\ Rest(ty[side], i.s, SinkPos(i.sink)) = rest
    BY <2>5 DEF Answers
  <2>7. Outcome(k, todo, i.sink, i.r, rest) /\ IsSink(i.sink)
    BY <1>4, <2>2, <2>6, FurtherToTheEnd
  <2>8. /\ IsRecord(u, ResultNames) /\ u.prefix = << >> /\ u.started = TRUE
        /\ u[side] = i.s /\ u[Other(side)] = s[Other(side)] /\ u.state = s.state
        /\ SideOf(u) = side
    <3>1. /\ IsRecord(u, ResultNames) /\ u.prefix = << >> /\ u.started = TRUE
          /\ u[side] = i.s /\ u[Other(side)] = s[Other(side)] /\ u.state = s.state
      BY <1>3, <1>7, <2>2 DEF IsRecord, ResultNames
    <3>. QED BY <1>3, <3>1 DEF SideOf
  <2> HIDE DEF u
  <2>9. i.r \in {"ready", "pending"} => Going(ty, u)
    <3>1. i.r \in {"ready", "pending"} => Underway(ty[side], u.started, u[side], u.value)
      BY <2>6, <2>8 DEF Underway, Over
    <3>. QED BY <1>1, <1>d, <2>8, <3>1, NoBytes DEF Bytes
  <2>10. \A at \in Nat : Rest(ty, u, at) = << >> \o Rest(ty[side], i.s, at)
    <3>1. \A at \in Nat : at + Len(<< >>) = at
      BY NoBytes
    <3>. QED BY <1>a, <2>8, <3>1 DEF Left
  <2>11. i.r = "ready" => Over(ty, u)
    <3>1. SUFFICES ASSUME i.r = "ready" PROVE Over(ty, u)
      OBVIOUS
    <3>2. \A at \in Nat : Rest(ty, u, at) = << >>
      BY <1>c, <2>6, <2>10, <3>1 DEF Over
    <3>3. Ended(ty, u)
      BY <1>1, <2>6, <2>8, <3>1, ResultLevel DEF Over, AtRest
    <3>4. Reusable(ty) => Idle(ty, u)
      <4>1. Reusable(ty) => Idle(ty[side], u[side]) /\ Idle(ty[Other(side)], u[Other(side)])
        <5>1. Reusable(ty) => Reusable(ty[side])
          BY <1>3, ResultLevel
        <5>. QED BY <1>1, <2>6, <2>8, <3>1, <5>1 DEF Over, AtRest
      <4>2. Reusable(ty) => Idle(ty.left, u.left) /\ Idle(ty.right, u.right)
        BY <1>3, <4>1
      <4>. QED BY <2>8, <3>3, <4>2, ResultLevel
    <3>. QED BY <2>9, <3>1, <3>2, <3>3, <3>4 DEF Over, AtRest
  <2>12. i.r = "pending" => Rest(ty, u, SinkPos(i.sink)) = rest
    <3>1. SinkPos(i.sink) \in Nat
      BY <2>7, AfterFacts, NoBytes
    <3>. QED BY <2>6, <2>10, <3>1, Joins
  <2>. QED BY <1>4, <2>1, <2>6, <2>7, <2>9, <2>11, <2>12 DEF Answers, p
<1>. QED BY <1>8, <1>9

\* A Result keeps the promise if both its sides do.
LEMMA ResultKeeps ==
  ASSUME NEW ty, AtLevel(ty), ty.k = "result", BothKeep(ty)
  PROVE  Keeps(ty)
<1>a. \A v, pos : Encoding(ty, v, pos) =
        <<v.tag>> \o Encoding(IF v.tag = 0 THEN ty.left ELSE ty.right, v.val, pos + 1)
  BY ResultLevel
<1>b. \A v : IsValue(ty, v) <=> v.tag \in {0, 1} /\ IsValue(ty[Side(v.tag)], v.val)
  BY ResultLevel
<1>c. \A s : Idle(ty, s) <=> /\ IsRecord(s, ResultNames)
                             /\ Idle(ty.left, s.left) /\ Idle(ty.right, s.right)
                             /\ Ended(ty, s)
  BY ResultLevel
<1>1. /\ Idle(ty.left, New(ty.left)) /\ Idle(ty.right, New(ty.right))
      /\ Writes(ty.left) /\ Writes(ty.right)
      /\ Finishing(ty.left) /\ Finishing(ty.right)
      /\ Measured(ty.left) /\ Measured(ty.right)
  BY DEF Keeps, BothKeep
<1>2. Idle(ty, New(ty))
  <2>1. New(ty) = NewResult(ty)
    BY ResultLevel
  <2>2. /\ IsRecord(NewResult(ty), ResultNames)
        /\ NewResult(ty).left = New(ty.left) /\ NewResult(ty).right = New(ty.right)
        /\ NewResult(ty).state = "uninitialized"
    BY DEF NewResult, IsRecord, ResultNames
  <2>3. \A s : s.state = "uninitialized" => Ended(ty, s)
    BY ResultLevel
  <2>. QED BY <1>1, <1>c, <2>1, <2>2, <2>3
<1>3. ASSUME NEW v, NEW pos \in Nat, IsValue(ty, v)
      PROVE  /\ <<v.tag>> \in Bytes /\ Len(<<v.tag>>) = 1 /\ pos + 1 \in Nat
             /\ (IF v.tag = 0 THEN ty.left ELSE ty.right) = ty[Side(v.tag)]
             /\ Side(v.tag) \in {"left", "right"}
             /\ IsValue(ty[Side(v.tag)], v.val)
             /\ Encoding(ty[Side(v.tag)], v.val, pos + 1) \in Bytes
  <2>1. v.tag \in {0, 1} /\ IsValue(ty[Side(v.tag)], v.val)
    BY <1>3, <1>b
  <2>2. v.tag \in Byte
    BY <2>1 DEF Byte
  <2>3. /\ (IF v.tag = 0 THEN ty.left ELSE ty.right) = ty[Side(v.tag)]
        /\ Side(v.tag) \in {"left", "right"} /\ Writes(ty[Side(v.tag)])
    BY <1>1 DEF Side
  <2>4. pos + 1 \in Nat
    OBVIOUS
  <2>5. Encoding(ty[Side(v.tag)], v.val, pos + 1) \in Bytes
    BY <2>1, <2>3, <2>4 DEF Writes
  <2>. QED BY <2>1, <2>2, <2>3, <2>4, <2>5, OneByte
<1>4. Writes(ty)
  <2>1. ASSUME NEW v, NEW pos, pos \in Nat, IsValue(ty, v)
        PROVE  Encoding(ty, v, pos) \in Bytes
    <3>1. Encoding(ty, v, pos) = <<v.tag>> \o Encoding(ty[Side(v.tag)], v.val, pos + 1)
      BY <1>3, <1>a, <2>1
    <3>. QED BY <1>3, <2>1, <3>1, Joins
  <2>2. ASSUME NEW s, NEW at, at \in Nat, Going(ty, s) PROVE Rest(ty, s, at) \in Bytes
    BY <2>2, ResultRestIsBytes
  <2>3. FieldEncoding(ty) \in Byte /\ Alignment(ty) \in Nat \ {0}
    <3>1. FieldEncoding(ty) = 0 /\ Alignment(ty) = 1
      BY ResultLevel
    <3>. QED BY <3>1 DEF Byte
  <2>. QED BY <2>1, <2>2, <2>3 DEF Writes
<1>5. Continuing(ty)
  BY ResultPoll DEF Continuing
<1>6. Accepting(ty)
  <2>1. SUFFICES ASSUME NEW s, NEW v, NEW k,
                        IsSink(k), Idle(ty, s), IsValue(ty, v),
                        Fits(k, Encoding(ty, v, SinkPos(k)))
                 PROVE  Answers(ty, k, Encoding(ty, v, SinkPos(k)), Input(ty, s, v, k))
    BY DEF Accepting
  <2> DEFINE t == [s EXCEPT !.state = IF v.tag = 0 THEN "ok" ELSE "err",
                            !.value = <<v.val>>, !.prefix = <<v.tag>>,
                            !.started = FALSE]
             side == Side(v.tag)
  <2>2. Input(ty, s, v, k) = Poll(ty, t, k)
    <3>1. \A z, y, q : Input(ty, z, y, q) = InputResult(ty, z, y, q)
      BY ResultLevel
    <3>2. InputResult(ty, s, v, k) = PollResult(ty, t, k)
      BY DEF InputResult
    <3>3. \A z, q : Poll(ty, z, q) = PollResult(ty, z, q)
      BY ResultLevel
    <3> HIDE DEF t
    <3>. QED BY <3>1, <3>2, <3>3
  <2>3. /\ IsRecord(s, ResultNames)
        /\ Idle(ty.left, s.left) /\ Idle(ty.right, s.right)
    BY <2>1, <1>c
  <2>4. SinkPos(k) \in Nat
    BY <2>1, AfterFacts, NoBytes
  <2>5. /\ <<v.tag>> \in Bytes /\ Len(<<v.tag>>) = 1 /\ side \in {"left", "right"}
        /\ (IF v.tag = 0 THEN ty.left ELSE ty.right) = ty[side]
        /\ IsValue(ty[side], v.val)
    BY <1>3, <2>1, <2>4
  <2>6. /\ IsRecord(t, ResultNames) /\ t.value = <<v.val>> /\ t.prefix = <<v.tag>>
        /\ t.started = FALSE /\ t.left = s.left /\ t.right = s.right
        /\ t.state = IF v.tag = 0 THEN "ok" ELSE "err"
    BY <2>3 DEF IsRecord, ResultNames
  <2> HIDE DEF t
  <2>7. SideOf(t) = side /\ Other(side) \in {"left", "right"}
        /\ t.state \in {"ok", "err"}
    BY <2>6 DEF SideOf, Side, Other
  <2> HIDE DEF side
  <2>8. /\ Idle(ty[side], t[side]) /\ Idle(ty[Other(side)], t[Other(side)])
    BY <2>3, <2>5, <2>6, <2>7
  <2>9. Underway(ty[side], t.started, t[side], t.value)
    BY <2>5, <2>6, <2>8 DEF Underway
  <2>10. Going(ty, t)
    <3>1. \A z : Going(ty, z) <=>
            /\ IsRecord(z, ResultNames)
            /\ z.state \in {"ok", "err"} /\ z.prefix \in Seq(Byte)
            /\ z.started \in BOOLEAN
            /\ Underway(ty[SideOf(z)], z.started, z[SideOf(z)], z.value)
            /\ Idle(ty[Other(SideOf(z))], z[Other(SideOf(z))])
      BY ResultLevel
    <3>. QED BY <2>5, <2>6, <2>7, <2>8, <2>9, <3>1 DEF Bytes
  <2>11. Rest(ty, t, SinkPos(k)) = Encoding(ty, v, SinkPos(k))
    <3>1. \A z, at : Rest(ty, z, at) =
            z.prefix \o Left(ty[SideOf(z)], z.started, z[SideOf(z)], z.value,
                             at + Len(z.prefix))
      BY ResultLevel
    <3>2. Rest(ty, t, SinkPos(k)) = <<v.tag>> \o Encoding(ty[side], v.val, SinkPos(k) + 1)
      <4>1. Rest(ty, t, SinkPos(k)) =
              t.prefix \o Left(ty[SideOf(t)], t.started, t[SideOf(t)], t.value,
                               SinkPos(k) + Len(t.prefix))
        BY <3>1
      <4>2. Left(ty[side], FALSE, t[side], <<v.val>>, SinkPos(k) + 1)
              = Encoding(ty[side], v.val, SinkPos(k) + 1)
        BY DEF Left
      <4>. QED BY <2>5, <2>6, <2>7, <4>1, <4>2
    <3>. QED BY <1>a, <2>5, <3>2
  <2>12. Answers(ty, k, Rest(ty, t, SinkPos(k)), Poll(ty, t, k))
    BY <2>1, <2>10, <2>11, ResultPoll
  <2>. QED BY <2>2, <2>11, <2>12
<1>7. Finishing(ty)
  <2>1. \A s, k : Finish(ty, s, k) = FinishResult(ty, s, k)
    BY ResultLevel
  <2>2. \A s : Ended(ty, s) <=>
              \/ s.state = "uninitialized"
              \/ s.state \in {"ok", "err"} /\ Ended(ty[SideOf(s)], s[SideOf(s)])
    BY ResultLevel
  <2>3. ASSUME NEW s, NEW k, Ended(ty, s)
        PROVE  Finish(ty, s, k).r = "ready" /\ Finish(ty, s, k).sink = k
    <3>1. CASE s.state = "uninitialized"
      BY <2>1, <3>1 DEF FinishResult, Answer
    <3>2. CASE s.state = "ok"
      BY <1>1, <2>1, <2>2, <2>3, <3>2 DEF FinishResult, Finishing, SideOf
    <3>3. CASE s.state = "err"
      BY <1>1, <2>1, <2>2, <2>3, <3>3 DEF FinishResult, Finishing, SideOf
    <3>. QED BY <2>2, <2>3, <3>1, <3>2, <3>3
  <2>. QED BY <1>c, <2>3 DEF Finishing
<1>8. Measured(ty)
  <2>1. SUFFICES ASSUME Exact(ty), NEW v, NEW pos, pos \in Nat, IsValue(ty, v)
                 PROVE  MeasureBody(ty, v) = Len(Encoding(ty, v, pos))
    BY DEF Measured
  <2>2. \A y : MeasureBody(ty, y) =
          1 + MeasureBody(IF y.tag = 0 THEN ty.left ELSE ty.right, y.val)
    BY ResultLevel
  <2>3. Exact(ty[Side(v.tag)]) /\ Measured(ty[Side(v.tag)])
    BY <1>1, <1>3, <2>1, ResultLevel
  <2>4. MeasureBody(ty[Side(v.tag)], v.val) = Len(Encoding(ty[Side(v.tag)], v.val, pos + 1))
    BY <1>3, <2>1, <2>3 DEF Measured
  <2>5. Encoding(ty, v, pos) = <<v.tag>> \o Encoding(ty[Side(v.tag)], v.val, pos + 1)
    BY <1>3, <1>a, <2>1
  <2>6. Len(Encoding(ty, v, pos)) = 1 + Len(Encoding(ty[Side(v.tag)], v.val, pos + 1))
    BY <1>3, <2>1, <2>5, Joins
  <2>7. MeasureBody(ty, v) = 1 + MeasureBody(ty[Side(v.tag)], v.val)
    BY <1>3, <2>1, <2>2
  <2>. QED BY <2>4, <2>6, <2>7
<1>. QED BY <1>2, <1>4, <1>5, <1>6, <1>7, <1>8 DEF Keeps

-----------------------------------------------------------------------------
(* Values one behind the other *)

Items(types, v, n) ==
  [i \in 1 .. n |-> [p \in Nat |-> Encoding(types[i], v[i], p)]]

LEMMA ItemsArePlaced ==
  ASSUME NEW types, NEW v, NEW n, n \in Nat,
         \A i \in 1 .. n : \A p \in Nat : Encoding(types[i], v[i], p) \in Bytes
  PROVE  /\ Items(types, v, n) \in Seq(Placed)
         /\ Len(Items(types, v, n)) = n
BY DEF Items, Placed

LEMMA PartsAreLaid ==
  ASSUME NEW types, NEW v, NEW n, NEW pos, n \in Nat, pos \in Nat,
         \A i \in 1 .. n : \A p \in Nat : Encoding(types[i], v[i], p) \in Bytes
  PROVE  /\ Parts(types, v, pos, n) \in Seq(Bytes)
         /\ Len(Parts(types, v, pos, n)) = n
         /\ FlattenSeq(Parts(types, v, pos, n)) = Laid(Items(types, v, n), pos)
         /\ \A j \in 1 .. n : \E p \in Nat :
              Parts(types, v, pos, n)[j] = Encoding(types[j], v[j], p)
<1> DEFINE Next1(x, i) == Append(x, Encoding(types[i], v[i], pos + Len(FlattenSeq(x))))
           Is(g) == g = [i \in 0 .. n |-> IF i = 0 THEN << >> ELSE Next1(g[i - 1], i)]
           upto == CHOOSE g : Is(g)
           step == [i \in 1 .. n |-> [x \in Seq(Bytes) |-> Next1(x, i)]]
<1>1. ASSUME NEW x, NEW i, x \in Seq(Bytes), i \in 1 .. n
      PROVE  /\ FlattenSeq(x) \in Bytes
             /\ pos + Len(FlattenSeq(x)) \in Nat
             /\ Encoding(types[i], v[i], pos + Len(FlattenSeq(x))) \in Bytes
             /\ Next1(x, i) \in Seq(Bytes) /\ Len(Next1(x, i)) = Len(x) + 1
             /\ FlattenSeq(Next1(x, i))
                  = FlattenSeq(x) \o Encoding(types[i], v[i], pos + Len(FlattenSeq(x)))
             /\ \A j \in 1 .. Len(x) : Next1(x, i)[j] = x[j]
             /\ Next1(x, i)[Len(x) + 1]
                  = Encoding(types[i], v[i], pos + Len(FlattenSeq(x)))
  <2> DEFINE e == Encoding(types[i], v[i], pos + Len(FlattenSeq(x)))
  <2>1. FlattenSeq(x) \in Bytes
    BY <1>1, NoBytes, FlattenAppend
  <2>2. pos + Len(FlattenSeq(x)) \in Nat
    BY <2>1, NoLength
  <2>3. e \in Bytes
    BY <1>1, <2>2
  <2> HIDE DEF e
  <2>4. /\ Append(x, e) \in Seq(Bytes) /\ Len(Append(x, e)) = Len(x) + 1
        /\ \A j \in 1 .. Len(x) : Append(x, e)[j] = x[j]
        /\ Append(x, e)[Len(x) + 1] = e
    BY <1>1, <2>3, AppendProperties
  <2>5. FlattenSeq(Append(x, e)) = FlattenSeq(x) \o e
    BY <1>1, <2>3, FlattenAppend
  <2>. QED BY <2>1, <2>2, <2>3, <2>4, <2>5 DEF e
<1> HIDE DEF Next1
<1>2. step \in [1 .. n -> [Seq(Bytes) -> Seq(Bytes)]] /\ << >> \in Seq(Bytes)
  BY <1>1, EmptySeq
<1>3. PICK f : f \in Recursions(n, Seq(Bytes), << >>, step)
  <2> HIDE DEF step
  <2>. QED BY <1>2, Recursion
<1>4. Is(f)
  <2>1. /\ f \in [0 .. n -> Seq(Bytes)] /\ f[0] = << >>
        /\ \A i \in 1 .. n : f[i] = step[i][f[i - 1]]
    BY <1>3 DEF Recursions
  <2>2. ASSUME NEW i \in 0 .. n
        PROVE  f[i] = IF i = 0 THEN << >> ELSE Next1(f[i - 1], i)
    <3>1. CASE i = 0
      BY <2>1, <3>1
    <3>2. CASE i # 0
      <4>1. i \in 1 .. n /\ i - 1 \in 0 .. n
        BY <3>2
      <4>2. f[i - 1] \in Seq(Bytes)
        BY <2>1, <4>1
      <4>. QED BY <2>1, <3>2, <4>1, <4>2
    <3>. QED BY <3>1, <3>2
  <2>. QED BY <2>1, <2>2
<1>5. Is(upto)
  <2> HIDE DEF Is
  <2>. QED BY <1>4
<1>6. Parts(types, v, pos, n) = upto[n]
  BY DEF Parts, Next1
<1>7. upto[0] = << >> /\ \A i \in 1 .. n : upto[i] = Next1(upto[i - 1], i)
  <2> HIDE DEF upto
  <2>1. 0 \in 0 .. n /\ \A i \in 1 .. n : i \in 0 .. n /\ i # 0
    OBVIOUS
  <2>. QED BY <1>5, <2>1
<1> HIDE DEF upto, Is, step
<1> DEFINE Good(k) == /\ upto[k] \in Seq(Bytes) /\ Len(upto[k]) = k
                      /\ \A j \in 1 .. k : \E p \in Nat :
                           upto[k][j] = Encoding(types[j], v[j], p)
           D == {k \in 0 .. n : Good(k)}
<1>8. 0 \in D
  <2>1. << >> \in Seq(Bytes) /\ Len(<< >>) = 0 /\ 0 \in 0 .. n
    BY EmptySeq
  <2>2. \A j \in 1 .. 0 : \E p \in Nat : upto[0][j] = Encoding(types[j], v[j], p)
    OBVIOUS
  <2>. QED BY <1>7, <2>1, <2>2
<1>9. ASSUME NEW k \in 0 .. n - 1, k \in D PROVE k + 1 \in D
  <2>1. k + 1 \in 1 .. n /\ (k + 1) - 1 = k /\ k + 1 \in 0 .. n
    OBVIOUS
  <2>2. upto[k] \in Seq(Bytes) /\ Len(upto[k]) = k
    BY <1>9
  <2>3. upto[k + 1] = Next1(upto[k], k + 1)
    BY <1>7, <2>1
  <2>4. /\ upto[k + 1] \in Seq(Bytes) /\ Len(upto[k + 1]) = k + 1
        /\ \A j \in 1 .. k : upto[k + 1][j] = upto[k][j]
        /\ upto[k + 1][k + 1]
             = Encoding(types[k + 1], v[k + 1], pos + Len(FlattenSeq(upto[k])))
        /\ pos + Len(FlattenSeq(upto[k])) \in Nat
    BY <1>1, <2>1, <2>2, <2>3
  <2>5. ASSUME NEW j \in 1 .. k + 1
        PROVE  \E p \in Nat : upto[k + 1][j] = Encoding(types[j], v[j], p)
    <3>1. CASE j \in 1 .. k
      BY <1>9, <2>4, <3>1
    <3>2. CASE j = k + 1
      BY <2>4, <3>2
    <3>. QED BY <3>1, <3>2
  <2>. QED BY <2>1, <2>4, <2>5
<1>10. \A k \in 0 .. n : k \in D
  <2> HIDE DEF D
  <2>. QED BY <1>8, <1>9, Induction
<1>11. \A k \in 0 .. n : Good(k)
  BY <1>10
<1>12. n \in 0 .. n
  OBVIOUS
<1> DEFINE F == [k \in 0 .. n |-> FlattenSeq(upto[k])]
           its == Items(types, v, n)
<1>13. F[n] = Laid(its, pos)
  <2>1. its \in Seq(Placed) /\ Len(its) = n
    BY ItemsArePlaced
  <2>2. F[0] = << >>
    BY <1>7, FlattenEmpty
  <2>3. ASSUME NEW i \in 1 .. n
        PROVE  F[i] = F[i - 1] \o its[i][pos + Len(F[i - 1])]
    <3>1. i - 1 \in 0 .. n /\ i \in 0 .. n
      OBVIOUS
    <3>2. upto[i - 1] \in Seq(Bytes) /\ upto[i] = Next1(upto[i - 1], i)
      BY <1>7, <1>11, <3>1
    <3>3. /\ FlattenSeq(upto[i]) = FlattenSeq(upto[i - 1])
               \o Encoding(types[i], v[i], pos + Len(FlattenSeq(upto[i - 1])))
          /\ pos + Len(FlattenSeq(upto[i - 1])) \in Nat
      BY <1>1, <3>2
    <3>4. its[i] = [p \in Nat |-> Encoding(types[i], v[i], p)]
      BY DEF Items
    <3>. QED BY <3>1, <3>3, <3>4
  <2> HIDE DEF F, its
  <2>. QED BY <2>1, <2>2, <2>3, LaidOut
<1>. QED BY <1>6, <1>11, <1>12, <1>13

\* The first value, then the others.
First(types, v, n, pos, types2, v2) ==
  LET first == Encoding(types[1], v[1], pos)
      others == Laid(Items(types2, v2, n), pos + Len(first))
  IN  /\ Laid(Items(types, v, n + 1), pos) = first \o others
      /\ first \in Bytes /\ pos + Len(first) \in Nat
      /\ others \in Bytes
      /\ \A i \in 1 .. n : \A p \in Nat : Encoding(types2[i], v2[i], p) \in Bytes

LEMMA ItemsFirst ==
  ASSUME NEW types, NEW v, NEW n, NEW pos, NEW types2, NEW v2,
         n \in Nat, pos \in Nat,
         \A i \in 1 .. n + 1 : \A p \in Nat : Encoding(types[i], v[i], p) \in Bytes,
         \A i \in 1 .. n : types2[i] = types[i + 1] /\ v2[i] = v[i + 1]
  PROVE  First(types, v, n, pos, types2, v2)
<1> DEFINE x == [p \in Nat |-> Encoding(types[1], v[1], p)]
           a == Items(types, v, n + 1)
           b == Items(types2, v2, n)
<1>1. x \in Placed /\ x[pos] = Encoding(types[1], v[1], pos)
  <2>1. 1 \in 1 .. n + 1
    OBVIOUS
  <2>. QED BY <2>1 DEF Placed
<1>2. \A i \in 1 .. n : \A p \in Nat : Encoding(types2[i], v2[i], p) \in Bytes
  <2>1. ASSUME NEW i \in 1 .. n PROVE i + 1 \in 1 .. n + 1
    OBVIOUS
  <2>. QED BY <2>1
<1>3. b \in Seq(Placed) /\ Len(b) = n
  BY <1>2, ItemsArePlaced
<1>4. n + 1 \in Nat
  OBVIOUS
<1>5. a \in Seq(Placed) /\ Len(a) = n + 1
  BY <1>4, ItemsArePlaced
<1>6. a = <<x>> \o b
  <2>1. <<x>> \in Seq(Placed) /\ Len(<<x>>) = 1 /\ <<x>>[1] = x
    BY <1>1
  <2>2. /\ <<x>> \o b \in Seq(Placed) /\ Len(<<x>> \o b) = 1 + n
        /\ \A i \in 1 .. 1 + n :
             (<<x>> \o b)[i] = IF i <= 1 THEN <<x>>[i] ELSE b[i - 1]
    <3> HIDE DEF x, b
    <3>. QED BY <1>3, <2>1, ConcatProperties
  <2>3. ASSUME NEW i \in 1 .. n + 1 PROVE a[i] = (<<x>> \o b)[i]
    <3>1. (<<x>> \o b)[i] = IF i <= 1 THEN <<x>>[i] ELSE b[i - 1]
      BY <2>2
    <3>2. a[i] = [p \in Nat |-> Encoding(types[i], v[i], p)]
      BY DEF Items
    <3>3. CASE i = 1
      BY <2>1, <3>1, <3>2, <3>3
    <3>4. CASE i # 1
      <4>1. i - 1 \in 1 .. n /\ (i - 1) + 1 = i /\ ~(i <= 1)
        BY <3>4
      <4>2. b[i - 1] = [p \in Nat |-> Encoding(types2[i - 1], v2[i - 1], p)]
        BY <4>1 DEF Items
      <4>3. types2[i - 1] = types[i] /\ v2[i - 1] = v[i]
        BY <4>1
      <4>. QED BY <3>1, <3>2, <4>1, <4>2, <4>3
    <3>. QED BY <3>3, <3>4
  <2>4. 1 + n = n + 1
    OBVIOUS
  <2> HIDE DEF a, b, x
  <2>. QED BY <1>5, <2>2, <2>3, <2>4, SeqEqual
<1> HIDE DEF x, a, b
<1>7. /\ Laid(a, pos) = x[pos] \o Laid(b, pos + Len(x[pos]))
      /\ x[pos] \in Bytes /\ pos + Len(x[pos]) \in Nat
  BY <1>1, <1>3, <1>6, LaidFirst
<1>8. Laid(b, pos + Len(x[pos])) \in Bytes
  BY <1>3, <1>7, LaidIsBytes
<1>. QED BY <1>1, <1>2, <1>7, <1>8 DEF a, b, First

LEMMA NoItems ==
  ASSUME NEW types, NEW v, NEW pos, pos \in Nat
  PROVE  Laid(Items(types, v, 0), pos) = << >>
<1>1. Items(types, v, 0) = << >>
  BY DEF Items
<1>. QED BY <1>1, LaidEmpty

\* A call that goes on where another has stopped.
LEMMA AnswersFurther ==
  ASSUME NEW ty, NEW k, NEW todo, NEW k1, NEW x, NEW a,
         IsSink(k), x \in Bytes, Midway(k, todo, k1, x), Answers(ty, k1, x, a)
  PROVE  Answers(ty, k, todo, a)
<1>1. PICK rest \in Bytes :
        /\ Outcome(k1, x, a.sink, a.r, rest)
        /\ a.r = "ready" => Over(ty, a.s)
        /\ a.r = "pending" => /\ Going(ty, a.s)
                              /\ Rest(ty, a.s, SinkPos(a.sink)) = rest
  BY DEF Answers
<1>2. Outcome(k, todo, a.sink, a.r, rest)
  BY <1>1, FurtherToTheEnd
<1>. QED BY <1>1, <1>2 DEF Answers

\* Nothing to do.
LEMMA ReadyAtOnce ==
  ASSUME NEW ty, NEW s, NEW k, IsSink(k), Over(ty, s)
  PROVE  Answers(ty, k, << >>, Answer(s, k, "ready"))
<1>1. << >> \in Bytes /\ Midway(k, << >>, k, << >>)
  BY NoBytes, MidwayStart
<1>2. Outcome(k, << >>, k, "ready", << >>)
  BY <1>1 DEF Outcome, Stands
<1>. QED BY <1>1, <1>2 DEF Answers, Answer

\* `input` fills the slots of the state and polls it.
LEMMA AcceptsByPolling ==
  ASSUME NEW ty, NEW s, NEW v, NEW k, NEW t,
         Continuing(ty), IsSink(k), Fits(k, Encoding(ty, v, SinkPos(k))),
         Going(ty, t), Rest(ty, t, SinkPos(k)) = Encoding(ty, v, SinkPos(k)),
         Input(ty, s, v, k) = Poll(ty, t, k)
  PROVE  Answers(ty, k, Encoding(ty, v, SinkPos(k)), Input(ty, s, v, k))
BY DEF Continuing

-----------------------------------------------------------------------------
(* Pairs *)

LEMMA TupleLevel ==
  ASSUME NEW ty, AtLevel(ty), ty.k = "tuple"
  PROVE  /\ New(ty) = NewTuple(ty)
         /\ Alignment(ty) = 1 /\ FieldEncoding(ty) = 0
         /\ \A v, pos : Encoding(ty, v, pos) =
                 FlattenSeq(Parts(<<ty.left, ty.right>>, v, pos, 2))
         /\ \A v : MeasureBody(ty, v) =
                 MeasureBody(ty.left, v[1]) + MeasureBody(ty.right, v[2])
         /\ \A s, v, k : Input(ty, s, v, k) = InputTuple(ty, s, v, k)
         /\ \A s, k : Poll(ty, s, k) = PollTuple(ty, s, k)
         /\ \A s, k : Finish(ty, s, k) = Answer(s, k, "ready")
         /\ \A v : IsValue(ty, v) <=> AreValues(<<ty.left, ty.right>>, v, 2)
         /\ \A s, at : Rest(ty, s, at) = TupleRest(ty, s, at)
         /\ \A s : Idle(ty, s) <=> /\ IsRecord(s, TupleNames)
                                   /\ s.stage = 0
                                   /\ Idle(ty.left, s.key) /\ Idle(ty.right, s.value)
         /\ \A s : Going(ty, s) <=> TupleGoing(ty, s)
         /\ \A s : Ended(ty, s)
         /\ ~Reusable(ty)
         /\ Quiet(ty)
         /\ Exact(ty) <=> Exact(ty.left) /\ Exact(ty.right)
         /\ Regular(ty) <=> Regular(ty.left) /\ Regular(ty.right)
<1>1. New(ty) = NewTuple(ty)
  BY DEF AtLevel, NewOf, Leaf
<1>2. Alignment(ty) = 1 /\ FieldEncoding(ty) = 0
  BY DEF AtLevel, AlignmentOf, FieldEncodingOf, Leaf
<1>3. \A v, pos : Encoding(ty, v, pos) =
          FlattenSeq(Parts(<<ty.left, ty.right>>, v, pos, 2))
  BY DEF AtLevel, EncodingOf, Leaf
<1>4. \A v : MeasureBody(ty, v) =
          MeasureBody(ty.left, v[1]) + MeasureBody(ty.right, v[2])
  BY DEF AtLevel, MeasureBodyOf, MeasureTuple, Leaf
<1>5. \A s, v, k : Input(ty, s, v, k) = InputTuple(ty, s, v, k)
  BY DEF AtLevel, InputOf, Leaf
<1>6. \A s, k : Poll(ty, s, k) = PollTuple(ty, s, k)
  BY DEF AtLevel, PollOf, Leaf
<1>7. \A s, k : Finish(ty, s, k) = Answer(s, k, "ready")
  BY DEF AtLevel, FinishOf, Leaf
<1>8. \A v : IsValue(ty, v) <=> AreValues(<<ty.left, ty.right>>, v, 2)
  BY DEF AtLevel, IsValueOf, Leaf
<1>9. \A s, at : Rest(ty, s, at) = TupleRest(ty, s, at)
  BY DEF AtLevel, RestOf, Leaf
<1>10. \A s : Idle(ty, s) <=> /\ IsRecord(s, TupleNames)
                              /\ s.stage = 0
                              /\ Idle(ty.left, s.key) /\ Idle(ty.right, s.value)
  BY DEF AtLevel, IdleOf, Leaf
<1>11. \A s : Going(ty, s) <=> TupleGoing(ty, s)
  BY DEF AtLevel, GoingOf, Leaf
<1>12. \A s : Ended(ty, s)
  BY DEF AtLevel, EndedOf, Leaf
<1>13. ~Reusable(ty)
  BY DEF AtLevel, ReusableOf, Leaf
<1>14. Quiet(ty)
  BY DEF AtLevel, QuietOf, Leaf
<1>15. Exact(ty) <=> Exact(ty.left) /\ Exact(ty.right)
  BY DEF AtLevel, ExactOf, Leaf
<1>16. Regular(ty) <=> Regular(ty.left) /\ Regular(ty.right)
  BY DEF AtLevel, RegularOf, Leaf
<1>. QED BY <1>1, <1>2, <1>3, <1>4, <1>5, <1>6, <1>7, <1>8, <1>9, <1>10,
         <1>11, <1>12, <1>13, <1>14, <1>15, <1>16

\* The key, then the value behind it.
LEMMA TupleEncoding ==
  ASSUME NEW ty, NEW v, NEW pos, AtLevel(ty), ty.k = "tuple", BothKeep(ty),
         IsValue(ty, v), pos \in Nat
  PROVE  LET key == Encoding(ty.left, v[1], pos)
             value == Encoding(ty.right, v[2], pos + Len(key))
         IN  /\ IsValue(ty.left, v[1]) /\ IsValue(ty.right, v[2])
             /\ key \in Bytes /\ value \in Bytes /\ pos + Len(key) \in Nat
             /\ Encoding(ty, v, pos) = key \o value
             /\ Encoding(ty, v, pos) \in Bytes
<1> DEFINE types == <<ty.left, ty.right>>
           key == Encoding(ty.left, v[1], pos)
           value == Encoding(ty.right, v[2], pos + Len(key))
<1>1. AreValues(types, v, 2)
  BY TupleLevel
<1>2. IsValue(ty.left, v[1]) /\ IsValue(ty.right, v[2])
  <2>1. types[1] = ty.left /\ types[2] = ty.right /\ 1 \in 1 .. 2 /\ 2 \in 1 .. 2
    OBVIOUS
  <2> HIDE DEF types
  <2>. QED BY <1>1, <2>1 DEF AreValues
<1>3. Writes(ty.left) /\ Writes(ty.right)
  BY DEF BothKeep, Keeps
<1>4. \A i \in 1 .. 2 : \A p \in Nat : Encoding(types[i], v[i], p) \in Bytes
  <2>1. \A p \in Nat : /\ Encoding(ty.left, v[1], p) \in Bytes
                       /\ Encoding(ty.right, v[2], p) \in Bytes
    BY <1>2, <1>3 DEF Writes
  <2>2. types[1] = ty.left /\ types[2] = ty.right /\ \A i \in 1 .. 2 : i = 1 \/ i = 2
    OBVIOUS
  <2> HIDE DEF types
  <2>. QED BY <2>1, <2>2
<1>5. FlattenSeq(Parts(types, v, pos, 2)) = Laid(Items(types, v, 2), pos)
  <2> HIDE DEF types
  <2>. QED BY <1>4, PartsAreLaid
<1> DEFINE types2 == <<ty.right>>
           v2 == <<v[2]>>
<1>6. /\ Laid(Items(types, v, 2), pos) = key \o Laid(Items(types2, v2, 1), pos + Len(key))
      /\ key \in Bytes /\ pos + Len(key) \in Nat
      /\ \A i \in 1 .. 1 : \A p \in Nat : Encoding(types2[i], v2[i], p) \in Bytes
  <2>1. types[1] = ty.left /\ \A i \in 1 .. 1 : types2[i] = types[i + 1] /\ v2[i] = v[i + 1]
    OBVIOUS
  <2>2. PICK m \in Nat : m = 1
    OBVIOUS
  <2>3. m + 1 = 2
    BY <2>2
  <2> HIDE DEF types, types2, v2
  <2>4. \A i \in 1 .. m + 1 : \A p \in Nat : Encoding(types[i], v[i], p) \in Bytes
    BY <1>4, <2>3
  <2>5. \A i \in 1 .. m : types2[i] = types[i + 1] /\ v2[i] = v[i + 1]
    BY <2>1, <2>2
  <2>6. /\ Laid(Items(types, v, m + 1), pos)
             = Encoding(types[1], v[1], pos)
               \o Laid(Items(types2, v2, m), pos + Len(Encoding(types[1], v[1], pos)))
        /\ Encoding(types[1], v[1], pos) \in Bytes
        /\ pos + Len(Encoding(types[1], v[1], pos)) \in Nat
        /\ \A i \in 1 .. m : \A p \in Nat : Encoding(types2[i], v2[i], p) \in Bytes
    <3>1. First(types, v, m, pos, types2, v2)
      BY <2>4, <2>5, ItemsFirst
    <3>. QED BY <3>1 DEF First
  <2>. QED BY <2>1, <2>2, <2>3, <2>6
<1>7. Laid(Items(types2, v2, 1), pos + Len(key)) = value /\ value \in Bytes
  <2>1. value \in Bytes
    BY <1>2, <1>3, <1>6 DEF Writes
  <2> DEFINE x == [p \in Nat |-> Encoding(ty.right, v[2], p)]
  <2>2. Items(types2, v2, 1) = <<x>>
    BY DEF Items
  <2>3. x \in Placed /\ x[pos + Len(key)] = value
    <3>1. \A p \in Nat : Encoding(ty.right, v[2], p) \in Bytes
      BY <1>2, <1>3 DEF Writes
    <3>. QED BY <1>6, <3>1 DEF Placed
  <2> HIDE DEF x, value, key
  <2>. QED BY <1>6, <2>1, <2>2, <2>3, LaidOne
<1>8. Encoding(ty, v, pos) = FlattenSeq(Parts(types, v, pos, 2))
  <2>1. \A y, p : Encoding(ty, y, p) = FlattenSeq(Parts(<<ty.left, ty.right>>, y, p, 2))
    BY TupleLevel
  <2>. QED BY <2>1
<1> HIDE DEF key, value, types, types2, v2
<1>9. Encoding(ty, v, pos) = key \o value /\ key \o value \in Bytes
  BY <1>5, <1>6, <1>7, <1>8, Joins
<1>. QED BY <1>2, <1>6, <1>7, <1>9 DEF key, value

\* What fits as a whole fits in part.
LEMMA FitsPart ==
  ASSUME NEW k, NEW x, NEW y, IsSink(k), x \in Bytes, y \in Bytes,
         Fits(k, x \o y)
  PROVE  Fits(k, x)
<1>1. Len(x \o y) = Len(x) + Len(y) /\ Len(y) \in Nat /\ Len(x) \in Nat
  BY Joins
<1>2. SinkPos(k) \in Nat
  BY AfterFacts, NoBytes
<1>3. ASSUME NEW p \in Nat, NEW a \in Nat, NEW b \in Nat, NEW m \in Nat,
             p + (a + b) <= 2 * m
      PROVE  p + a <= 2 * m
  BY <1>3
<1>. QED BY <1>1, <1>2, <1>3, BoundsAssumption DEF Fits

LEMMA TupleRestIsBytes ==
  ASSUME NEW ty, NEW s, NEW at,
         AtLevel(ty), ty.k = "tuple", BothKeep(ty), Going(ty, s), at \in Nat
  PROVE  Rest(ty, s, at) \in Bytes
<1>1. Writes(ty.left) /\ Writes(ty.right)
  BY DEF BothKeep, Keeps
<1>2. Rest(ty, s, at) = TupleRest(ty, s, at) /\ TupleGoing(ty, s)
  <2>1. /\ \A z, p : Rest(ty, z, p) = TupleRest(ty, z, p)
        /\ \A z : Going(ty, z) <=> TupleGoing(ty, z)
    BY TupleLevel
  <2>. QED BY <2>1
<1>3. CASE /\ s.stage = 0 /\ Going(ty.left, s.key)
           /\ Underway(ty.right, FALSE, s.value, s.pending)
  <2> DEFINE key == Rest(ty.left, s.key, at)
             value == Encoding(ty.right, s.pending[1], at + Len(key))
  <2>1. key \in Bytes
    BY <1>1, <1>3 DEF Writes
  <2>2. at + Len(key) \in Nat
    BY <2>1, NoLength
  <2>3. value \in Bytes
    BY <1>1, <1>3, <2>2 DEF Writes, Underway
  <2>4. Rest(ty, s, at) = key \o value
    BY <1>2, <1>3 DEF TupleRest
  <2>. QED BY <2>1, <2>3, <2>4, Joins
<1>4. CASE s.stage = 1 /\ Going(ty.right, s.value)
  BY <1>1, <1>2, <1>4 DEF TupleRest, Writes
<1>5. CASE s.stage = 2
  BY <1>2, <1>5, NoBytes DEF TupleRest
<1>. QED BY <1>2, <1>3, <1>4, <1>5 DEF TupleGoing

\* The value is begun, or goes on.
LEMMA TupleValue ==
  ASSUME NEW ty, NEW s, NEW k,
         AtLevel(ty), ty.k = "tuple", BothKeep(ty), IsSink(k),
         IsRecord(s, TupleNames), s.stage = 1, s.valueStarted \in BOOLEAN,
         Underway(ty.right, s.valueStarted, s.value, s.pending),
         Fits(k, Left(ty.right, s.valueStarted, s.value, s.pending, SinkPos(k)))
  PROVE  Answers(ty, k, Left(ty.right, s.valueStarted, s.value, s.pending, SinkPos(k)),
                 PollTupleValue(ty, s, k))
<1> DEFINE x == Left(ty.right, s.valueStarted, s.value, s.pending, SinkPos(k))
           i == IF s.valueStarted THEN Poll(ty.right, s.value, k)
                ELSE Input(ty.right, s.value, s.pending[1], k)
           u == [s EXCEPT !.pending = IF s.valueStarted THEN @ ELSE << >>,
                          !.valueStarted = TRUE, !.value = i.s,
                          !.stage = IF i.r = "ready" THEN 2 ELSE 1]
           a == PollTupleValue(ty, s, k)
<1>1. Answers(ty.right, k, x, i)
  BY Resumes DEF BothKeep
<1>2. a.s = u /\ a.sink = i.sink /\ a.r = i.r
  <2>1. s.valueStarted \/ s.pending # << >>
    BY DEF Underway
  <2>2. a = TupleAfterValue(s, i)
    BY <2>1 DEF PollTupleValue
  <2> HIDE DEF i, a
  <2>. QED BY <2>2 DEF TupleAfterValue, Answer
<1> HIDE DEF i, x
<1>3. /\ IsRecord(u, TupleNames) /\ u.valueStarted = TRUE /\ u.value = i.s
      /\ u.stage = IF i.r = "ready" THEN 2 ELSE 1
  BY DEF IsRecord, TupleNames
<1> HIDE DEF u, a
<1>4. /\ \A z, p : Rest(ty, z, p) = TupleRest(ty, z, p)
      /\ \A z : Going(ty, z) <=> TupleGoing(ty, z)
      /\ \A z : Ended(ty, z)
      /\ ~Reusable(ty)
  BY TupleLevel
<1>5. i.r = "ready" => Over(ty, u)
  <2>1. i.r = "ready" => TupleGoing(ty, u)
    BY <1>3 DEF TupleGoing
  <2>2. i.r = "ready" => \A at \in Nat : TupleRest(ty, u, at) = << >>
    BY <1>3 DEF TupleRest
  <2>. QED BY <1>4, <2>1, <2>2 DEF Over, AtRest
<1>6. ASSUME i.r = "pending", Going(ty.right, i.s)
      PROVE  /\ Going(ty, u)
             /\ Rest(ty, u, SinkPos(i.sink)) = Rest(ty.right, i.s, SinkPos(i.sink))
  <2>1. u.stage = 1
    BY <1>3, <1>6
  <2>2. TupleGoing(ty, u)
    BY <1>3, <1>6, <2>1 DEF TupleGoing
  <2>3. TupleRest(ty, u, SinkPos(i.sink)) = Rest(ty.right, u.value, SinkPos(i.sink))
    BY <2>1 DEF TupleRest
  <2>. QED BY <1>3, <1>4, <2>2, <2>3
<1>7. PICK rest \in Bytes :
        /\ Outcome(k, x, i.sink, i.r, rest)
        /\ i.r = "pending" => /\ Going(ty.right, i.s)
                              /\ Rest(ty.right, i.s, SinkPos(i.sink)) = rest
  BY <1>1 DEF Answers
<1>8. Answers(ty, k, x, a)
  BY <1>2, <1>5, <1>6, <1>7 DEF Answers
<1>. QED BY <1>8 DEF x, a

\* i answers for the key; the value is parked behind it.
LEMMA TupleKey ==
  ASSUME NEW ty, NEW s, NEW k, NEW x, NEW i,
         AtLevel(ty), ty.k = "tuple", BothKeep(ty), IsSink(k),
         IsRecord(s, TupleNames), s.stage = 0,
         Underway(ty.right, FALSE, s.value, s.pending),
         x \in Bytes, Answers(ty.left, k, x, i),
         Fits(k, x \o Encoding(ty.right, s.pending[1], SinkPos(k) + Len(x)))
  PROVE  Answers(ty, k, x \o Encoding(ty.right, s.pending[1], SinkPos(k) + Len(x)),
                 TupleAfterKey(ty, s, i))
<1> DEFINE p == SinkPos(k)
           y == Encoding(ty.right, s.pending[1], p + Len(x))
           t == KeyAnswered(s, i)
           a == TupleAfterKey(ty, s, i)
<1>1. PICK rest \in Bytes :
        /\ Outcome(k, x, i.sink, i.r, rest)
        /\ i.r = "ready" => Over(ty.left, i.s)
        /\ i.r = "pending" => /\ Going(ty.left, i.s)
                              /\ Rest(ty.left, i.s, SinkPos(i.sink)) = rest
  BY DEF Answers
<1>2. p \in Nat /\ p + Len(x) \in Nat
  <2>1. p \in Nat /\ Len(x) \in Nat
    BY AfterFacts, NoBytes, NoLength
  <2>. QED BY <2>1
<1>3. IsValue(ty.right, s.pending[1]) /\ Idle(ty.right, s.value)
      /\ s.pending = <<s.pending[1]>>
  BY DEF Underway
<1>4. y \in Bytes /\ x \o y \in Bytes
  <2>1. y \in Bytes
    BY <1>2, <1>3 DEF BothKeep, Keeps, Writes
  <2>. QED BY <2>1, Joins
<1>5. /\ rest \o y \in Bytes
      /\ Midway(k, x \o y, i.sink, rest \o y)
      /\ IsSink(i.sink)
      /\ i.r # "ready" => Stands(i.sink, i.r, rest \o y)
      /\ i.r = "ready" => rest = << >> /\ rest \o y = y
      /\ SinkPos(i.sink) \in Nat
      /\ SinkPos(i.sink) + Len(rest) = p + Len(x)
  <2> HIDE DEF y
  <2>1. Continued(k, x \o y, k, x, y, i.sink, i.r, rest)
    BY <1>1, <1>4, FirstOfTwo
  <2>. QED BY <2>1 DEF Continued
<1>6. /\ IsRecord(t, TupleNames) /\ t.key = i.s /\ t.value = s.value
      /\ t.pending = s.pending /\ t.stage = 0
      /\ t.keyStarted = (s.keyStarted \/ i.r # "error")
  BY DEF KeyAnswered, IsRecord, TupleNames
<1> HIDE DEF t
<1>7. CASE i.r = "ready"
  <2> DEFINE u == [t EXCEPT !.stage = 1, !.valueStarted = FALSE]
  <2>1. a = PollTupleValue(ty, u, i.sink)
    BY <1>7 DEF TupleAfterKey, AdvanceAfterKey, t
  <2>2. /\ IsRecord(u, TupleNames) /\ u.stage = 1 /\ u.valueStarted = FALSE
        /\ u.value = s.value /\ u.pending = s.pending
    BY <1>6 DEF IsRecord, TupleNames
  <2> HIDE DEF u
  <2>3. SinkPos(i.sink) = p + Len(x) /\ Midway(k, x \o y, i.sink, y)
    <3>1. SinkPos(i.sink) + 0 = SinkPos(i.sink)
      BY <1>5
    <3>. QED BY <1>5, <1>7, <3>1, NoBytes
  <2>4. Left(ty.right, u.valueStarted, u.value, u.pending, SinkPos(i.sink)) = y
    BY <2>2, <2>3 DEF Left
  <2>5. Fits(i.sink, y)
    <3>1. SinkPos(i.sink) + Len(y) = p + Len(x \o y)
      BY <1>4, <2>3, MidwayFacts
    <3>. QED BY <3>1 DEF Fits
  <2>6. Underway(ty.right, u.valueStarted, u.value, u.pending)
    BY <1>3, <2>2 DEF Underway
  <2>7. Answers(ty, i.sink, y, a)
    BY <1>5, <2>1, <2>2, <2>4, <2>5, <2>6, TupleValue
  <2> HIDE DEF y, a, p
  <2>8. Answers(ty, k, x \o y, a)
    BY <1>4, <2>3, <2>7, AnswersFurther
  <2>. QED BY <2>8 DEF y, a, p
<1>8. CASE i.r # "ready"
  <2>1. a.s = t /\ a.sink = i.sink /\ a.r = i.r
    BY <1>8 DEF TupleAfterKey, Answer, t
  <2>2. ASSUME i.r = "pending"
        PROVE  Going(ty, t) /\ Rest(ty, t, SinkPos(i.sink)) = rest \o y
    <3>1. TupleGoing(ty, t)
      BY <1>1, <1>3, <1>6, <2>2 DEF TupleGoing, Underway
    <3>2. TupleRest(ty, t, SinkPos(i.sink))
            = rest \o Encoding(ty.right, s.pending[1], SinkPos(i.sink) + Len(rest))
      BY <1>1, <1>6, <2>2 DEF TupleRest
    <3>3. /\ \A z, q : Rest(ty, z, q) = TupleRest(ty, z, q)
          /\ \A z : Going(ty, z) <=> TupleGoing(ty, z)
      BY TupleLevel
    <3>. QED BY <1>5, <3>1, <3>2, <3>3
  <2>3. Outcome(k, x \o y, a.sink, a.r, rest \o y)
    BY <1>5, <1>8, <2>1 DEF Outcome
  <2> HIDE DEF y, a, p
  <2>4. Answers(ty, k, x \o y, a)
    BY <1>5, <1>8, <2>1, <2>2, <2>3 DEF Answers
  <2>. QED BY <2>4 DEF y, a, p
<1>. QED BY <1>7, <1>8

LEMMA TuplePoll ==
  ASSUME NEW ty, NEW s, NEW k, AtLevel(ty), ty.k = "tuple", BothKeep(ty),
         Going(ty, s), IsSink(k), Fits(k, Rest(ty, s, SinkPos(k)))
  PROVE  Answers(ty, k, Rest(ty, s, SinkPos(k)), Poll(ty, s, k))
<1>1. /\ Rest(ty, s, SinkPos(k)) = TupleRest(ty, s, SinkPos(k))
      /\ TupleGoing(ty, s)
      /\ Poll(ty, s, k) = PollTuple(ty, s, k)
  <2>1. /\ \A z, p : Rest(ty, z, p) = TupleRest(ty, z, p)
        /\ \A z : Going(ty, z) <=> TupleGoing(ty, z)
        /\ \A z, q : Poll(ty, z, q) = PollTuple(ty, z, q)
    BY TupleLevel
  <2>. QED BY <2>1
<1>2. IsRecord(s, TupleNames) /\ Writes(ty.left) /\ SinkPos(k) \in Nat
  BY <1>1, AfterFacts, NoBytes DEF TupleGoing, BothKeep, Keeps
<1>3. CASE /\ s.stage = 0 /\ s.keyStarted /\ Going(ty.left, s.key)
           /\ Underway(ty.right, FALSE, s.value, s.pending)
  <2> DEFINE x == Rest(ty.left, s.key, SinkPos(k))
             y == Encoding(ty.right, s.pending[1], SinkPos(k) + Len(x))
             i == Poll(ty.left, s.key, k)
  <2>1. Rest(ty, s, SinkPos(k)) = x \o y
    BY <1>1, <1>3 DEF TupleRest
  <2>2. Poll(ty, s, k) = TupleAfterKey(ty, s, i)
    BY <1>1, <1>3 DEF PollTuple, PollTupleKey
  <2>3. x \in Bytes /\ Len(x) \in Nat
    BY <1>2, <1>3, NoLength DEF Writes
  <2>4. y \in Bytes
    BY <1>2, <1>3, <2>3 DEF BothKeep, Keeps, Writes, Underway
  <2>5. Fits(k, x)
    <3> HIDE DEF x, y
    <3>1. Fits(k, x \o y)
      BY <2>1
    <3>. QED BY <2>3, <2>4, <3>1, FitsPart
  <2>6. Answers(ty.left, k, x, i)
    BY <1>3, <2>5 DEF BothKeep, Keeps, Continuing
  <2> HIDE DEF i, x
  <2>. QED BY <1>2, <1>3, <2>1, <2>2, <2>3, <2>6, TupleKey
<1>4. CASE s.stage = 1 /\ s.valueStarted /\ Going(ty.right, s.value)
  <2>1. Left(ty.right, s.valueStarted, s.value, s.pending, SinkPos(k))
          = Rest(ty, s, SinkPos(k))
    BY <1>1, <1>4 DEF TupleRest, Left
  <2>2. Poll(ty, s, k) = PollTupleValue(ty, s, k)
    BY <1>1, <1>4 DEF PollTuple
  <2>3. Underway(ty.right, s.valueStarted, s.value, s.pending)
    BY <1>4 DEF Underway
  <2>4. s.valueStarted \in BOOLEAN
    BY <1>4
  <2>. QED BY <1>2, <1>4, <2>1, <2>2, <2>3, <2>4, TupleValue
<1>5. CASE s.stage = 2
  <2>1. \A at \in Nat : TupleRest(ty, s, at) = << >>
    BY <1>5 DEF TupleRest
  <2>2. Over(ty, s)
    <3>1. \A z, p : Rest(ty, z, p) = TupleRest(ty, z, p)
      BY TupleLevel
    <3>2. Ended(ty, s) /\ ~Reusable(ty)
      BY TupleLevel
    <3>. QED BY <2>1, <3>1, <3>2 DEF Over, AtRest
  <2>3. Poll(ty, s, k) = Answer(s, k, "ready")
    BY <1>1, <1>5 DEF PollTuple
  <2>. QED BY <1>1, <1>2, <2>1, <2>2, <2>3, ReadyAtOnce
<1>. QED BY <1>1, <1>3, <1>4, <1>5 DEF TupleGoing

\* A pair keeps the promise if its key and its value do; it takes one pair only.
LEMMA TupleKeeps ==
  ASSUME NEW ty, AtLevel(ty), ty.k = "tuple", BothKeep(ty)
  PROVE  Keeps(ty)
<1>1. /\ Idle(ty.left, New(ty.left)) /\ Idle(ty.right, New(ty.right))
      /\ Measured(ty.left) /\ Measured(ty.right) /\ Accepting(ty.left)
  BY DEF Keeps, BothKeep
<1>2. Idle(ty, New(ty))
  <2>1. New(ty) = NewTuple(ty)
    BY TupleLevel
  <2>2. /\ IsRecord(NewTuple(ty), TupleNames) /\ NewTuple(ty).stage = 0
        /\ NewTuple(ty).key = New(ty.left) /\ NewTuple(ty).value = New(ty.right)
    BY DEF NewTuple, IsRecord, TupleNames
  <2>3. \A s : /\ IsRecord(s, TupleNames) /\ s.stage = 0
               /\ Idle(ty.left, s.key) /\ Idle(ty.right, s.value)
               => Idle(ty, s)
    BY TupleLevel
  <2>. QED BY <1>1, <2>1, <2>2, <2>3
<1>3. Writes(ty)
  <2>1. ASSUME NEW v, NEW pos, pos \in Nat, IsValue(ty, v)
        PROVE  Encoding(ty, v, pos) \in Bytes
    BY <2>1, TupleEncoding
  <2>2. ASSUME NEW s, NEW at, at \in Nat, Going(ty, s) PROVE Rest(ty, s, at) \in Bytes
    BY <2>2, TupleRestIsBytes
  <2>3. FieldEncoding(ty) \in Byte /\ Alignment(ty) \in Nat \ {0}
    <3>1. FieldEncoding(ty) = 0 /\ Alignment(ty) = 1
      BY TupleLevel
    <3>. QED BY <3>1 DEF Byte
  <2>. QED BY <2>1, <2>2, <2>3 DEF Writes
<1>4. Continuing(ty)
  BY TuplePoll DEF Continuing
<1>5. Accepting(ty)
  <2>1. SUFFICES ASSUME NEW s, NEW v, NEW k,
                        IsSink(k), Idle(ty, s), IsValue(ty, v),
                        Fits(k, Encoding(ty, v, SinkPos(k)))
                 PROVE  Answers(ty, k, Encoding(ty, v, SinkPos(k)), Input(ty, s, v, k))
    BY DEF Accepting
  <2> DEFINE p == SinkPos(k)
             x == Encoding(ty.left, v[1], p)
             y == Encoding(ty.right, v[2], p + Len(x))
             t == [s EXCEPT !.pending = <<v[2]>>]
             i == Input(ty.left, s.key, v[1], k)
  <2>2. p \in Nat
    BY <2>1, AfterFacts, NoBytes
  <2>3. /\ IsValue(ty.left, v[1]) /\ IsValue(ty.right, v[2])
        /\ x \in Bytes /\ y \in Bytes
        /\ Encoding(ty, v, p) = x \o y
    BY <2>1, <2>2, TupleEncoding
  <2>4. /\ IsRecord(s, TupleNames) /\ s.stage = 0
        /\ Idle(ty.left, s.key) /\ Idle(ty.right, s.value)
    BY <2>1, TupleLevel
  <2>5. /\ IsRecord(t, TupleNames) /\ t.stage = 0 /\ t.value = s.value
        /\ t.pending = <<v[2]>> /\ t.pending[1] = v[2]
    BY <2>4 DEF IsRecord, TupleNames
  <2>6. Input(ty, s, v, k) = TupleAfterKey(ty, t, i)
    <3>1. \A z, q, r : Input(ty, z, q, r) = InputTuple(ty, z, q, r)
      BY TupleLevel
    <3>. QED BY <3>1 DEF InputTuple
  <2> HIDE DEF t
  <2>7. Underway(ty.right, FALSE, t.value, t.pending)
    BY <2>3, <2>4, <2>5 DEF Underway
  <2>8. Fits(k, x)
    BY <2>1, <2>3, FitsPart
  <2>9. Answers(ty.left, k, x, i)
    BY <1>1, <2>1, <2>3, <2>4, <2>8 DEF Accepting
  <2>10. Fits(k, x \o y) /\ y = Encoding(ty.right, t.pending[1], SinkPos(k) + Len(x))
    BY <2>1, <2>3, <2>5
  <2> HIDE DEF x, i, y
  <2>11. Answers(ty, k, x \o Encoding(ty.right, t.pending[1], SinkPos(k) + Len(x)),
                 TupleAfterKey(ty, t, i))
    BY <2>1, <2>3, <2>5, <2>7, <2>9, <2>10, TupleKey
  <2>. QED BY <2>3, <2>6, <2>10, <2>11
<1>6. Finishing(ty)
  <2>1. /\ \A s, k : Finish(ty, s, k) = Answer(s, k, "ready")
        /\ \A s : Ended(ty, s)
    BY TupleLevel
  <2>2. \A s, k : Answer(s, k, "ready").r = "ready" /\ Answer(s, k, "ready").sink = k
    BY DEF Answer
  <2>. QED BY <2>1, <2>2 DEF Finishing
<1>7. Measured(ty)
  <2>1. SUFFICES ASSUME Exact(ty), NEW v, NEW pos, pos \in Nat, IsValue(ty, v)
                 PROVE  MeasureBody(ty, v) = Len(Encoding(ty, v, pos))
    BY DEF Measured
  <2> DEFINE x == Encoding(ty.left, v[1], pos)
             y == Encoding(ty.right, v[2], pos + Len(x))
  <2>2. /\ IsValue(ty.left, v[1]) /\ IsValue(ty.right, v[2])
        /\ x \in Bytes /\ y \in Bytes /\ pos + Len(x) \in Nat
        /\ Encoding(ty, v, pos) = x \o y
    BY <2>1, TupleEncoding
  <2>3. Exact(ty.left) /\ Exact(ty.right)
    BY <2>1, TupleLevel
  <2>4. MeasureBody(ty.left, v[1]) = Len(x) /\ MeasureBody(ty.right, v[2]) = Len(y)
    BY <1>1, <2>1, <2>2, <2>3 DEF Measured
  <2>5. \A z : MeasureBody(ty, z) = MeasureBody(ty.left, z[1]) + MeasureBody(ty.right, z[2])
    BY TupleLevel
  <2> HIDE DEF x, y
  <2>6. MeasureBody(ty, v) = Len(x) + Len(y)
    BY <2>4, <2>5
  <2>7. Len(x \o y) = Len(x) + Len(y)
    BY <2>2, Joins
  <2>. QED BY <2>2, <2>6, <2>7
<1>. QED BY <1>2, <1>3, <1>4, <1>5, <1>6, <1>7 DEF Keeps

-----------------------------------------------------------------------------
(* The walk over the parts of a state *)

IsWalk(f, n, ty, steps, s, k) ==
  /\ f[0] = Answer(s, k, "ready")
  /\ \A j \in 1 .. n : f[j] = StepAfter(ty, steps[j], f[j - 1])

\* Whoever takes the steps one after the other ends where the walk does.
LEMMA WalkExists ==
  ASSUME NEW ty, NEW steps, NEW s, NEW k, Len(steps) \in Nat
  PROVE  \E f : /\ IsWalk(f, Len(steps), ty, steps, s, k)
                /\ f[Len(steps)] = Walk(ty, steps, s, k)
<1> DEFINE n == Len(steps)
           Next1(a, j) == StepAfter(ty, steps[j], a)
           Is(g, m) == g = [j \in 0 .. m |-> IF j = 0 THEN Answer(s, k, "ready")
                                             ELSE Next1(g[j - 1], j)]
           upto == CHOOSE g : Is(g, n)
           D == {m \in 0 .. n : \E g : Is(g, m)}
<1> HIDE DEF Next1
<1>1. 0 \in D
  <2> DEFINE g == [j \in 0 .. 0 |-> Answer(s, k, "ready")]
  <2>1. \A j \in 0 .. 0 : g[j] = Answer(s, k, "ready") /\ j = 0
    OBVIOUS
  <2>2. g = [j \in 0 .. 0 |-> IF j = 0 THEN Answer(s, k, "ready")
                              ELSE Next1(g[j - 1], j)]
    BY <2>1
  <2>3. 0 \in 0 .. n
    OBVIOUS
  <2> HIDE DEF g
  <2>. QED BY <2>2, <2>3
<1>2. ASSUME NEW m \in 0 .. n - 1, m \in D PROVE m + 1 \in D
  <2>1. PICK g : Is(g, m)
    BY <1>2
  <2> DEFINE h == [j \in 0 .. m + 1 |-> IF j = m + 1 THEN Next1(g[m], m + 1) ELSE g[j]]
  <2>2. ASSUME NEW j \in 0 .. m + 1
        PROVE  h[j] = IF j = 0 THEN Answer(s, k, "ready") ELSE Next1(h[j - 1], j)
    <3>1. CASE j = m + 1
      <4>1. j # 0 /\ j - 1 = m /\ j - 1 # m + 1 /\ j - 1 \in 0 .. m + 1
        BY <3>1
      <4>2. h[j] = Next1(g[m], m + 1)
        BY <3>1
      <4>3. h[j - 1] = g[m]
        BY <4>1
      <4>. QED BY <3>1, <4>1, <4>2, <4>3
    <3>2. CASE j # m + 1
      <4>1. j \in 0 .. m
        BY <3>2
      <4>2. h[j] = g[j]
        BY <3>2
      <4>3. g[j] = IF j = 0 THEN Answer(s, k, "ready") ELSE Next1(g[j - 1], j)
        BY <2>1, <4>1
      <4>4. j # 0 => j - 1 \in 0 .. m + 1 /\ j - 1 # m + 1
        BY <4>1
      <4>5. j # 0 => h[j - 1] = g[j - 1]
        BY <4>4
      <4>. QED BY <4>2, <4>3, <4>5
    <3>. QED BY <3>1, <3>2
  <2>3. Is(h, m + 1)
    BY <2>2
  <2>4. m + 1 \in 0 .. n
    OBVIOUS
  <2> HIDE DEF h, Is
  <2>. QED BY <2>3, <2>4
<1>3. \A m \in 0 .. n : m \in D
  <2> HIDE DEF D
  <2>. QED BY <1>1, <1>2, Induction
<1>4. Is(upto, n)
  <2>1. n \in D
    BY <1>3
  <2> HIDE DEF Is
  <2>. QED BY <2>1
<1>5. Walk(ty, steps, s, k) = upto[n]
  BY DEF Walk, Next1
<1> HIDE DEF upto
<1>6. upto[0] = Answer(s, k, "ready")
  BY <1>4
<1>7. ASSUME NEW j \in 1 .. n PROVE upto[j] = StepAfter(ty, steps[j], upto[j - 1])
  <2>1. j \in 0 .. n /\ j # 0
    OBVIOUS
  <2>. QED BY <1>4, <2>1 DEF Next1
<1>. QED BY <1>5, <1>6, <1>7 DEF IsWalk

-----------------------------------------------------------------------------
(* Pieces *)

\* What is left of pieces when a call has answered.
PiecesLeft(k, todo, a) ==
  /\ a.s \in Seq(Bytes)
  /\ Outcome(k, todo, a.sink, a.r, FlattenSeq(a.s))
  /\ a.r = "ready" => a.s = << >>

LEMMA StepOfPiece ==
  ASSUME NEW k, NEW todo, NEW a,
         IsSink(k), a.s \in Seq(Bytes), a.s # << >>,
         Midway(k, todo, a.sink, FlattenSeq(a.s))
  PROVE  LET b == PollPiece(a.s, a.sink)
         IN  /\ b.r = "ready" => /\ b.s \in Seq(Bytes) /\ Len(b.s) = Len(a.s) - 1
                                 /\ Midway(k, todo, b.sink, FlattenSeq(b.s))
             /\ b.r # "ready" => PiecesLeft(k, todo, b)
<1> DEFINE h == Head(a.s)
           t == Tail(a.s)
           y == FlattenSeq(t)
           w == Write(h, a.sink)
           b == PollPiece(a.s, a.sink)
<1>1. /\ h \in Bytes /\ t \in Seq(Bytes) /\ Len(t) = Len(a.s) - 1
      /\ FlattenSeq(a.s) = h \o y
  BY FlattenFirst
<1>2. b.s = (IF w.r = "ready" THEN t ELSE <<w.s>> \o t) /\ b.sink = w.sink /\ b.r = w.r
  BY DEF PollPiece, LeafAfter, Answer
<1> HIDE DEF h, t, w, b, y
<1>3. y \in Bytes
  <2>1. << >> \in Seq(Bytes) /\ FlattenSeq(t) \in Bytes
    BY <1>1, EmptySeq, FlattenJoin
  <2>. QED BY <2>1 DEF y
<1>4. IsSink(a.sink)
  BY <1>1, <1>3, Joins, MidwayFacts
<1>5. Outcome(a.sink, h, w.sink, w.r, w.s)
  BY <1>1, <1>4, WriteOutcome DEF w
<1>6. /\ w.s \in Bytes /\ w.s \o y \in Bytes
      /\ Midway(k, todo, w.sink, w.s \o y)
      /\ w.r # "ready" => Stands(w.sink, w.r, w.s \o y)
      /\ w.r = "ready" => w.s \o y = y
  <2>1. Continued(k, todo, a.sink, h, y, w.sink, w.r, w.s)
    BY <1>1, <1>3, <1>5, Further
  <2>. QED BY <2>1 DEF Continued
<1>7. b.r = "ready" => /\ b.s \in Seq(Bytes) /\ Len(b.s) = Len(a.s) - 1
                       /\ Midway(k, todo, b.sink, FlattenSeq(b.s))
  BY <1>1, <1>2, <1>6 DEF y
<1>8. b.r # "ready" => PiecesLeft(k, todo, b)
  <2>1. <<w.s>> \in Seq(Bytes) /\ FlattenSeq(<<w.s>>) = w.s
    BY <1>6, FlattenOne
  <2>2. <<w.s>> \o t \in Seq(Bytes) /\ FlattenSeq(<<w.s>> \o t) = w.s \o y
    BY <1>1, <2>1, FlattenJoin, ConcatProperties DEF y
  <2>. QED BY <1>2, <1>6, <2>2 DEF PiecesLeft, Outcome
<1>. QED BY <1>7, <1>8 DEF b

\* The pieces are written one behind the other.
LEMMA LeafPoll ==
  ASSUME NEW s, NEW k, IsSink(k), s \in Seq(Bytes)
  PROVE  PiecesLeft(k, FlattenSeq(s), PollLeaf(s, k))
<1> DEFINE n == Len(s)
           steps == Steps("piece", OneTo(n))
           todo == FlattenSeq(s)
<1>1. n \in Nat /\ todo \in Bytes
  <2>1. << >> \in Seq(Bytes)
    BY EmptySeq
  <2>. QED BY <2>1, LenProperties, FlattenJoin
<1>2. Len(steps) = n /\ \A j \in 1 .. n : steps[j].what = "piece"
  BY <1>1 DEF Steps, OneTo
<1> HIDE DEF steps, todo, n
<1>3. PICK f : IsWalk(f, n, << >>, steps, s, k) /\ f[n] = PollLeaf(s, k)
  <2>1. PollLeaf(s, k) = Walk(<< >>, steps, s, k)
    BY DEF PollLeaf, steps, n
  <2>. QED BY <1>1, <1>2, <2>1, WalkExists
<1> DEFINE Good(j) ==
             /\ f[j].r = "ready" => /\ f[j].s \in Seq(Bytes) /\ Len(f[j].s) = n - j
                                    /\ Midway(k, todo, f[j].sink, FlattenSeq(f[j].s))
             /\ f[j].r # "ready" => PiecesLeft(k, todo, f[j])
           D == {j \in 0 .. n : Good(j)}
<1>4. 0 \in D
  <2>1. f[0].s = s /\ f[0].sink = k /\ f[0].r = "ready"
    BY <1>3 DEF IsWalk, Answer
  <2>2. Midway(k, todo, k, FlattenSeq(s))
    BY <1>1, MidwayStart DEF todo
  <2>3. n - 0 = n /\ 0 \in 0 .. n /\ Len(s) = n
    BY <1>1 DEF n
  <2>. QED BY <2>1, <2>2, <2>3
<1>5. ASSUME NEW j \in 0 .. n - 1, j \in D PROVE j + 1 \in D
  <2>1. j + 1 \in 1 .. n /\ (j + 1) - 1 = j /\ j + 1 \in 0 .. n
    BY <1>1
  <2>2. f[j + 1] = StepAfter(<< >>, steps[j + 1], f[j])
    BY <1>3, <2>1 DEF IsWalk
  <2>3. CASE f[j].r # "ready"
    <3>1. f[j + 1] = f[j]
      BY <2>2, <2>3 DEF StepAfter
    <3>. QED BY <1>5, <2>1, <2>3, <3>1
  <2>4. CASE f[j].r = "ready"
    <3>1. f[j + 1] = PollPiece(f[j].s, f[j].sink)
      BY <1>2, <2>1, <2>2, <2>4 DEF StepAfter, Step
    <3>2. /\ f[j].s \in Seq(Bytes) /\ Len(f[j].s) = n - j
          /\ Midway(k, todo, f[j].sink, FlattenSeq(f[j].s))
      BY <1>5, <2>4
    <3>3. f[j].s # << >>
      <4>1. n - j # 0
        BY <1>1
      <4>. QED BY <3>2, <4>1, EmptySeq
    <3>4. /\ f[j + 1].r = "ready" =>
               /\ f[j + 1].s \in Seq(Bytes) /\ Len(f[j + 1].s) = Len(f[j].s) - 1
               /\ Midway(k, todo, f[j + 1].sink, FlattenSeq(f[j + 1].s))
          /\ f[j + 1].r # "ready" => PiecesLeft(k, todo, f[j + 1])
      BY <3>1, <3>2, <3>3, StepOfPiece
    <3>5. Len(f[j].s) - 1 = n - (j + 1)
      BY <1>1, <3>2
    <3>. QED BY <2>1, <3>4, <3>5
  <2>. QED BY <2>3, <2>4
<1>6. \A j \in 0 .. n : j \in D
  <2> HIDE DEF D
  <2>. QED BY <1>1, <1>4, <1>5, Induction
<1>7. Good(n)
  <2>1. n \in 0 .. n
    BY <1>1
  <2>. QED BY <1>6, <2>1
<1>8. CASE f[n].r = "ready"
  <2>1. f[n].s = << >>
    <3>1. n - n = 0
      BY <1>1
    <3>. QED BY <1>7, <1>8, <3>1, EmptySeq
  <2>2. FlattenSeq(f[n].s) = << >> /\ << >> \in Bytes
    BY <2>1, FlattenEmpty, NoBytes
  <2>3. PiecesLeft(k, todo, f[n])
    BY <1>7, <1>8, <2>1, <2>2 DEF PiecesLeft, Outcome, Stands
  <2>. QED BY <1>3, <2>3 DEF todo
<1>9. CASE f[n].r # "ready"
  BY <1>3, <1>7, <1>9 DEF todo
<1>. QED BY <1>8, <1>9

-----------------------------------------------------------------------------
(* Lengths *)

\* f is the table of the lengths up to n.
IsLengths(f, n) ==
  f = [v \in 0 .. n |-> IF v < 128 THEN 1 ELSE 1 + f[v \div 128]]

LEMMA LengthEntry ==
  ASSUME NEW n \in Nat, NEW f, IsLengths(f, n), NEW v \in 0 .. n
  PROVE  f[v] = IF v < 128 THEN 1 ELSE 1 + f[v \div 128]
<1> DEFINE Entry(x) == IF x < 128 THEN 1 ELSE 1 + f[x \div 128]
<1>1. f = [x \in 0 .. n |-> Entry(x)]
  BY DEF IsLengths
<1> HIDE DEF Entry
<1>2. f[v] = Entry(v)
  BY <1>1
<1>. QED BY <1>2 DEF Entry

LEMMA SerializeU64IsBytes ==
  ASSUME NEW n \in Nat
  PROVE  /\ SerializeU64(n) \in Bytes /\ Len(SerializeU64(n)) \in Nat
         /\ n < 128 => Len(SerializeU64(n)) = 1
         /\ n >= 128 => /\ n \div 128 \in 0 .. n - 1 /\ n \div 128 \in Nat
                        /\ Len(SerializeU64(n)) = 1 + Len(SerializeU64(n \div 128))
<1>1. SerializeU64(n) \in Bytes
  <2>1. Octet = Byte
    BY DEF Octet, Byte
  <2>. QED BY <2>1, SerializeU64Def DEF Bytes
<1>2. n < 128 => Len(SerializeU64(n)) = 1
  <2>1. Len(<<n>>) = 1
    OBVIOUS
  <2>2. n < 128 => SerializeU64(n) = <<n>>
    BY SerializeU64Cases
  <2>. QED BY <2>1, <2>2
<1>3. ASSUME n >= 128
      PROVE  /\ n \div 128 \in 0 .. n - 1 /\ n \div 128 \in Nat
             /\ Len(SerializeU64(n)) = 1 + Len(SerializeU64(n \div 128))
  <2>1. n \div 128 \in 0 .. n - 1 /\ (n % 128) + 128 \in Octet
    BY <1>3, Quotient
  <2>2. n \div 128 \in Nat
    BY <2>1
  <2>3. SerializeU64(n \div 128) \in Seq(Octet)
    BY <2>2, SerializeU64Def
  <2>4. SerializeU64(n) = <<(n % 128) + 128>> \o SerializeU64(n \div 128)
    BY <1>3, SerializeU64Cases
  <2> DEFINE a == (n % 128) + 128
             t == SerializeU64(n \div 128)
  <2>5. <<a>> \in Seq(Octet) /\ Len(<<a>>) = 1
    BY <2>1
  <2> HIDE DEF a, t
  <2>6. Len(<<a>> \o t) = 1 + Len(t)
    BY <2>3, <2>5, ConcatProperties DEF t
  <2>. QED BY <2>1, <2>2, <2>4, <2>6 DEF a, t
<1>. QED BY <1>1, <1>2, <1>3, NoLength

\* serialized_len_u64 counts the bytes serialize_u64 writes.
LEMMA SerializedLenIs ==
  ASSUME NEW n \in Nat
  PROVE  SerializedLen(n) = Len(SerializeU64(n))
<1> DEFINE g == [v \in 0 .. n |-> Len(SerializeU64(v))]
           f == CHOOSE h : IsLengths(h, n)
<1>1. IsLengths(g, n)
  <2>1. ASSUME NEW v \in 0 .. n
        PROVE  Len(SerializeU64(v)) = IF v < 128 THEN 1 ELSE 1 + g[v \div 128]
    <3>1. v \in Nat
      OBVIOUS
    <3>2. CASE v < 128
      BY <3>1, <3>2, SerializeU64IsBytes
    <3>3. CASE v >= 128
      <4>1. v \div 128 \in 0 .. n
        BY <3>1, <3>3, SerializeU64IsBytes
      <4>2. g[v \div 128] = Len(SerializeU64(v \div 128))
        BY <4>1
      <4>3. ~(v < 128)
        BY <3>1, <3>3
      <4>. QED BY <3>1, <3>3, <4>2, <4>3, SerializeU64IsBytes
    <3>. QED BY <3>1, <3>2, <3>3
  <2>. QED BY <2>1 DEF IsLengths
<1>2. IsLengths(f, n)
  <2> HIDE DEF g
  <2>. QED BY <1>1
<1>3. SerializedLen(n) = f[n]
  BY DEF SerializedLen, IsLengths
<1> HIDE DEF f
<1> DEFINE Wrong == {v \in 0 .. n : f[v] # Len(SerializeU64(v))}
<1>4. ASSUME Wrong # {} PROVE FALSE
  <2>1. PICK v \in Wrong : \A w \in Wrong : v <= w
    <3>1. Wrong \in SUBSET Nat
      OBVIOUS
    <3> HIDE DEF Wrong
    <3>. QED BY <1>4, <3>1, LeastNumber
  <2>2. v \in 0 .. n /\ v \in Nat /\ f[v] # Len(SerializeU64(v))
    OBVIOUS
  <2>3. f[v] = IF v < 128 THEN 1 ELSE 1 + f[v \div 128]
    BY <1>2, <2>2, LengthEntry
  <2>4. CASE v < 128
    BY <2>2, <2>3, <2>4, SerializeU64IsBytes
  <2>5. CASE v >= 128
    <3>1. v \div 128 \in 0 .. v - 1
      BY <2>2, <2>5, SerializeU64IsBytes
    <3>2. v \div 128 \in 0 .. n /\ ~(v <= v \div 128)
      BY <2>2, <3>1
    <3>3. f[v \div 128] = Len(SerializeU64(v \div 128))
      BY <2>1, <3>2
    <3>. QED BY <2>2, <2>3, <2>5, <3>3, SerializeU64IsBytes
  <2>. QED BY <2>2, <2>4, <2>5
<1>5. n \in 0 .. n
  OBVIOUS
<1>. QED BY <1>3, <1>4, <1>5

\* Whoever adds the lengths one by one ends with their sum.
LEMMA SumExists ==
  ASSUME NEW lens \in Seq(Nat)
  PROVE  \E f : /\ f \in [0 .. Len(lens) -> Nat] /\ f[0] = 0
                /\ \A i \in 1 .. Len(lens) : f[i] = f[i - 1] + lens[i]
                /\ f[Len(lens)] = SumOf(lens)
<1> DEFINE n == Len(lens)
           step == [i \in 1 .. n |-> [x \in Nat |-> x + lens[i]]]
           Is(g) == g = [i \in 0 .. n |-> IF i = 0 THEN 0 ELSE g[i - 1] + lens[i]]
           sum == CHOOSE g : Is(g)
<1>1. n \in Nat /\ \A i \in 1 .. n : lens[i] \in Nat
  OBVIOUS
<1> HIDE DEF n
<1>2. step \in [1 .. n -> [Nat -> Nat]]
  BY <1>1
<1>3. PICK f : f \in Recursions(n, Nat, 0, step)
  <2>1. 0 \in Nat
    OBVIOUS
  <2>2. Recursions(n, Nat, 0, step) # {}
    <3> HIDE DEF step
    <3>. QED BY <1>1, <1>2, <2>1, Recursion
  <2> HIDE DEF step
  <2>. QED BY <2>2
<1>4. f \in [0 .. n -> Nat] /\ f[0] = 0 /\ \A i \in 1 .. n : f[i] = step[i][f[i - 1]]
  BY <1>3 DEF Recursions
<1>5. ASSUME NEW i \in 1 .. n PROVE f[i] = f[i - 1] + lens[i]
  <2>1. i - 1 \in 0 .. n
    BY <1>1
  <2>2. f[i - 1] \in Nat
    BY <1>4, <2>1
  <2>. QED BY <1>4, <2>2
<1> HIDE DEF step
<1>6. Is(f)
  <2>1. ASSUME NEW i \in 0 .. n
        PROVE  f[i] = IF i = 0 THEN 0 ELSE f[i - 1] + lens[i]
    <3>1. i # 0 => i \in 1 .. n
      BY <1>1
    <3>. QED BY <1>4, <1>5, <3>1
  <2>. QED BY <1>4, <2>1
<1>7. Is(sum)
  <2> HIDE DEF Is
  <2>. QED BY <1>6
<1>8. SumOf(lens) = sum[n]
  BY DEF SumOf, n
<1> HIDE DEF sum
<1>9. sum[0] = 0 /\ \A i \in 1 .. n : sum[i] = sum[i - 1] + lens[i]
  <2>1. 0 \in 0 .. n /\ \A i \in 1 .. n : i \in 0 .. n /\ i # 0
    BY <1>1
  <2>. QED BY <1>7, <2>1
<1> HIDE DEF Is
<1> DEFINE D == {i \in 0 .. n : sum[i] = f[i]}
<1>10. 0 \in D
  BY <1>1, <1>4, <1>9
<1>11. ASSUME NEW i \in 0 .. n - 1, i \in D PROVE i + 1 \in D
  <2>1. i + 1 \in 1 .. n /\ (i + 1) - 1 = i /\ i + 1 \in 0 .. n
    BY <1>1
  <2>2. f[i + 1] = f[i] + lens[i + 1] /\ sum[i + 1] = sum[i] + lens[i + 1]
    BY <1>5, <1>9, <2>1
  <2>. QED BY <1>11, <2>1, <2>2
<1>12. \A i \in 0 .. n : i \in D
  <2> HIDE DEF D
  <2>. QED BY <1>1, <1>10, <1>11, Induction
<1>13. sum[n] = f[n]
  <2>1. n \in 0 .. n
    BY <1>1
  <2>. QED BY <1>12, <2>1
<1>. QED BY <1>4, <1>5, <1>8, <1>13 DEF n

\* Things of known lengths.
LEMMA LaidLength ==
  ASSUME NEW items, NEW lens, NEW pos,
         items \in Seq(Placed), lens \in Seq(Nat), pos \in Nat,
         Len(items) = Len(lens),
         \A i \in 1 .. Len(lens) : \A p \in Nat : Len(items[i][p]) = lens[i]
  PROVE  Len(Laid(items, pos)) = SumOf(lens)
<1> DEFINE n == Len(lens)
<1>1. n \in Nat
  OBVIOUS
<1> HIDE DEF n
<1>2. PICK f : /\ f \in [0 .. n -> Nat] /\ f[0] = 0
               /\ \A i \in 1 .. n : f[i] = f[i - 1] + lens[i]
               /\ f[n] = SumOf(lens)
  BY SumExists DEF n
<1>3. PICK g : LaysOut(g, n, items, pos)
  BY SomeLaysOut DEF n
<1>4. /\ g[n] = Laid(items, pos) /\ g \in [0 .. n -> Bytes] /\ g[0] = << >>
      /\ \A i \in 1 .. n : g[i] = g[i - 1] \o items[i][pos + Len(g[i - 1])]
  BY <1>3 DEF LaysOut
<1> DEFINE D == {i \in 0 .. n : Len(g[i]) = f[i]}
<1>5. 0 \in D
  BY <1>1, <1>2, <1>4, NoBytes
<1>6. ASSUME NEW i \in 0 .. n - 1, i \in D PROVE i + 1 \in D
  <2>1. i + 1 \in 1 .. n /\ (i + 1) - 1 = i /\ i + 1 \in 0 .. n /\ i \in 0 .. n
    BY <1>1
  <2>2. g[i + 1] = g[i] \o items[i + 1][pos + Len(g[i])]
    BY <1>4, <2>1
  <2>3. g[i] \in Bytes /\ pos + Len(g[i]) \in Nat
    <3>1. g[i] \in Bytes
      BY <1>4, <2>1
    <3>. QED BY <3>1, NoLength
  <2>4. items[i + 1][pos + Len(g[i])] \in Bytes
    <3>1. items[i + 1] \in Placed
      BY <2>1, ElementOfSeq DEF n
    <3>. QED BY <2>3, <3>1 DEF Placed
  <2>5. Len(items[i + 1][pos + Len(g[i])]) = lens[i + 1]
    BY <2>1, <2>3 DEF n
  <2>6. Len(g[i + 1]) = Len(g[i]) + lens[i + 1]
    <3> DEFINE y == items[i + 1][pos + Len(g[i])]
    <3>1. g[i + 1] = g[i] \o y /\ y \in Bytes /\ Len(y) = lens[i + 1]
      BY <2>2, <2>4, <2>5
    <3> HIDE DEF y
    <3>2. Len(g[i] \o y) = Len(g[i]) + Len(y)
      BY <2>3, <3>1, Joins
    <3>. QED BY <3>1, <3>2
  <2>7. f[i + 1] = f[i] + lens[i + 1]
    BY <1>2, <2>1
  <2>. QED BY <1>6, <2>1, <2>6, <2>7
<1>7. \A i \in 0 .. n : i \in D
  <2> HIDE DEF D
  <2>. QED BY <1>1, <1>5, <1>6, Induction
<1>8. n \in 0 .. n
  BY <1>1
<1>. QED BY <1>2, <1>4, <1>7, <1>8

LEMMA FlattenLength ==
  ASSUME NEW seqs, NEW lens, seqs \in Seq(Bytes), lens \in Seq(Nat),
         Len(seqs) = Len(lens), \A i \in 1 .. Len(lens) : Len(seqs[i]) = lens[i]
  PROVE  Len(FlattenSeq(seqs)) = SumOf(lens)
<1>1. Anywhere(seqs) \in Seq(Placed) /\ Len(Anywhere(seqs)) = Len(seqs)
  BY AnywhereIsPlaced
<1>2. FlattenSeq(seqs) = Laid(Anywhere(seqs), 0)
  BY FlattenIsLaid
<1>3. \A i \in 1 .. Len(lens) : \A p \in Nat : Len(Anywhere(seqs)[i][p]) = lens[i]
  BY DEF Anywhere
<1>4. 0 \in Nat /\ Len(Anywhere(seqs)) = Len(lens)
  BY <1>1
<1>5. Len(Laid(Anywhere(seqs), 0)) = SumOf(lens)
  BY <1>1, <1>3, <1>4, LaidLength
<1>. QED BY <1>2, <1>5

\* Four bytes of a number.
LEMMA LEIsBytes ==
  ASSUME NEW n \in 0 .. 4, NEW x \in Nat
  PROVE  LE(n, x) \in Bytes /\ Len(LE(n, x)) = n
<1>1. \A i \in 1 .. n : (x \div ByteWeight[i]) % 256 \in Byte
  <2>1. TAKE i \in 1 .. n
  <2>2. ByteWeight[i] \in Nat \ {0}
    BY SMT DEF ByteWeight
  <2>3. x \div ByteWeight[i] \in Nat
    BY <2>2
  <2>. QED BY <2>3 DEF Byte
<1>2. n \in Nat
  OBVIOUS
<1>3. LE(n, x) \in [1 .. n -> Byte]
  BY <1>1 DEF LE
<1>4. LE(n, x) \in Seq(Byte) /\ Len(LE(n, x)) = n
  BY <1>2, <1>3, IsASeq
<1>. QED BY <1>4 DEF Bytes

-----------------------------------------------------------------------------
(* Packed values *)

LEMMA PackedIsBytes ==
  ASSUME NEW bits \in 1 .. 8, NEW values \in Seq(Nat)
  PROVE  /\ Packed(bits, values) \in Bytes
         /\ Len(Packed(bits, values)) = (bits * Len(values) + 7) \div 8
BY PackedBytesOf DEF Bytes, Byte

-----------------------------------------------------------------------------
(* Leaves *)

LEMMA LeafLevel ==
  ASSUME NEW ty, AtLevel(ty), ty.k \in Leaf
  PROVE  /\ New(ty) = NewLeaf(ty)
         /\ Alignment(ty) = IF ty.k = "prim" THEN ty.size ELSE 1
         /\ FieldEncoding(ty) \in 0 .. 4
         /\ \A s, k : Poll(ty, s, k) = PollLeaf(s, k)
         /\ \A s, k : Finish(ty, s, k) = Answer(s, k, "ready")
         /\ \A s, at : Rest(ty, s, at) = FlattenSeq(s)
         /\ \A s : Idle(ty, s) <=> (ty.k = "unit" => s = << >>)
         /\ \A s : Going(ty, s) <=> s \in Seq(Bytes)
         /\ \A s : Ended(ty, s)
         /\ Regular(ty) => /\ ty.k = "prim" => ty.size \in Nat \ {0}
                           /\ ty.k = "packed" => ty.bits \in 1 .. 8
<1>1. New(ty) = NewLeaf(ty)
  BY DEF AtLevel, NewOf, Leaf
<1>2. Alignment(ty) = IF ty.k = "prim" THEN ty.size ELSE 1
  BY DEF AtLevel, AlignmentOf, Leaf
<1>3. FieldEncoding(ty) \in 0 .. 4
  BY DEF AtLevel, FieldEncodingOf, Leaf
<1>4. \A s, k : Poll(ty, s, k) = PollLeaf(s, k)
  BY DEF AtLevel, PollOf, Leaf
<1>5. \A s, k : Finish(ty, s, k) = Answer(s, k, "ready")
  BY DEF AtLevel, FinishOf, Leaf
<1>6. \A s, at : Rest(ty, s, at) = FlattenSeq(s)
  BY DEF AtLevel, RestOf, Leaf
<1>7. \A s : Idle(ty, s) <=> (ty.k = "unit" => s = << >>)
  BY DEF AtLevel, IdleOf, Leaf
<1>8. \A s : Going(ty, s) <=> s \in Seq(Bytes)
  BY DEF AtLevel, GoingOf, Bytes, Leaf
<1>9. \A s : Ended(ty, s)
  BY DEF AtLevel, EndedOf, Leaf
<1>10. Regular(ty) => /\ ty.k = "prim" => ty.size \in Nat \ {0}
                      /\ ty.k = "packed" => ty.bits \in 1 .. 8
  BY DEF AtLevel, RegularOf, Leaf
<1>. QED BY <1>1, <1>2, <1>3, <1>4, <1>5, <1>6, <1>7, <1>8, <1>9, <1>10

\* The pieces of a value.
Pieces(ty, v) ==
  CASE ty.k = "prim" -> <<v>>
    [] ty.k = "unit" -> << >>
    [] ty.k = "varint" -> <<SerializeU64(v)>>
    [] ty.k = "string" -> <<LE(4, Len(v)), v>>
    [] ty.k = "packed" -> <<LE(4, Len(v)), Packed(ty.bits, v)>>
    [] ty.k = "varintvec" ->
         <<LE(4, Len(v))>> \o [i \in 1 .. Len(v) |-> SerializeU64(v[i])]

LEMMA TwoPieces ==
  ASSUME NEW x, NEW y, x \in Bytes, y \in Bytes
  PROVE  /\ <<x, y>> \in Seq(Bytes) /\ FlattenSeq(<<x, y>>) = x \o y
         /\ x \o y \in Bytes /\ Len(x \o y) = Len(x) + Len(y)
<1>1. <<x>> \in Seq(Bytes) /\ FlattenSeq(<<x>>) = x
  BY FlattenOne
<1>2. <<y>> \in Seq(Bytes) /\ FlattenSeq(<<y>>) = y
  BY FlattenOne
<1>3. <<x, y>> \in Seq(Bytes) /\ Len(<<x, y>>) = 2
      /\ <<x, y>>[1] = x /\ <<x, y>>[2] = y
  OBVIOUS
<1>4. <<x, y>> = <<x>> \o <<y>>
  <2> DEFINE t == <<x>> \o <<y>>
  <2>1. <<x>>[1] = x /\ <<y>>[1] = y /\ Len(<<x>>) = 1 /\ Len(<<y>>) = 1
    OBVIOUS
  <2>2. /\ t \in Seq(Bytes) /\ Len(t) = 2
        /\ t[1] = x /\ t[2] = y
    BY <1>1, <1>2, <2>1, ConcatProperties
  <2> HIDE DEF t
  <2>3. \A i \in 1 .. Len(t) : t[i] = <<x, y>>[i]
    <3>1. \A i \in 1 .. Len(t) : i = 1 \/ i = 2
      BY <2>2
    <3>. QED BY <1>3, <2>2, <3>1
  <2>4. t = <<x, y>>
    BY <1>3, <2>2, <2>3, SeqEqual
  <2>. QED BY <2>4 DEF t
<1>5. FlattenSeq(<<x>> \o <<y>>) = x \o y
  <2>1. FlattenSeq(<<x>> \o <<y>>) = FlattenSeq(<<x>>) \o FlattenSeq(<<y>>)
    BY <1>1, <1>2, FlattenJoin
  <2>. QED BY <1>1, <1>2, <2>1
<1>6. x \o y \in Bytes /\ Len(x \o y) = Len(x) + Len(y)
  BY Joins
<1>. QED BY <1>3, <1>4, <1>5, <1>6

\* The pieces are the encoding.
LEMMA PiecesEncode ==
  ASSUME NEW ty, NEW v, NEW pos,
         AtLevel(ty), ty.k \in Leaf, Regular(ty), IsValue(ty, v)
  PROVE  /\ Pieces(ty, v) \in Seq(Bytes)
         /\ Encoding(ty, v, pos) = FlattenSeq(Pieces(ty, v))
         /\ \A s, k : Input(ty, s, v, k) =
              IF ty.k = "unit" THEN Answer(s, k, "ready") ELSE PollLeaf(Pieces(ty, v), k)
         /\ Exact(ty) => MeasureBody(ty, v) = Len(Encoding(ty, v, pos))
<1>1. /\ Encoding(ty, v, pos) = EncodingOf(ty, v, pos)
      /\ \A s, k : Input(ty, s, v, k) = InputOf(ty, s, v, k)
      /\ MeasureBody(ty, v) = MeasureBodyOf(ty, v)
      /\ IsValueOf(ty, v)
  BY DEF AtLevel
<1>2. CASE ty.k = "prim"
  <2>1. v \in Bytes /\ Len(v) = ty.size
    BY <1>1, <1>2 DEF IsValueOf, Bytes
  <2>2. <<v>> \in Seq(Bytes) /\ FlattenSeq(<<v>>) = v
    BY <2>1, FlattenOne
  <2>3. Encoding(ty, v, pos) = v /\ Pieces(ty, v) = <<v>> /\ MeasureBody(ty, v) = ty.size
    BY <1>1, <1>2 DEF EncodingOf, Pieces, MeasureBodyOf
  <2>4. \A s, k : Input(ty, s, v, k) = PollLeaf(<<v>>, k)
    BY <1>1, <1>2 DEF InputOf, InputByte
  <2>. QED BY <1>2, <2>1, <2>2, <2>3, <2>4
<1>3. CASE ty.k = "unit"
  <2>1. v = << >>
    BY <1>1, <1>3 DEF IsValueOf
  <2>2. Encoding(ty, v, pos) = << >> /\ Pieces(ty, v) = << >> /\ MeasureBody(ty, v) = 0
    BY <1>1, <1>3 DEF EncodingOf, Pieces, MeasureBodyOf
  <2>3. \A s, k : Input(ty, s, v, k) = Answer(s, k, "ready")
    BY <1>1, <1>3 DEF InputOf, InputUnit
  <2>4. << >> \in Seq(Bytes) /\ Len(<< >>) = 0
    BY EmptySeq
  <2>. QED BY <1>3, <2>2, <2>3, <2>4, FlattenEmpty
<1>4. CASE ty.k = "varint"
  <2>1. v \in Nat
    BY <1>1, <1>4 DEF IsValueOf
  <2>2. SerializeU64(v) \in Bytes /\ SerializedLen(v) = Len(SerializeU64(v))
    BY <2>1, SerializeU64IsBytes, SerializedLenIs
  <2>3. <<SerializeU64(v)>> \in Seq(Bytes)
        /\ FlattenSeq(<<SerializeU64(v)>>) = SerializeU64(v)
    BY <2>2, FlattenOne
  <2>4. /\ Encoding(ty, v, pos) = SerializeU64(v) /\ Pieces(ty, v) = <<SerializeU64(v)>>
        /\ MeasureBody(ty, v) = SerializedLen(v)
    BY <1>1, <1>4 DEF EncodingOf, Pieces, MeasureBodyOf
  <2>5. \A s, k : Input(ty, s, v, k) = PollLeaf(<<SerializeU64(v)>>, k)
    BY <1>1, <1>4 DEF InputOf, InputVarInt
  <2>. QED BY <1>4, <2>2, <2>3, <2>4, <2>5
<1>5. CASE ty.k = "string"
  <2>1. v \in Bytes /\ Len(v) \in Nat
    BY <1>1, <1>5, LenProperties DEF IsValueOf, Bytes
  <2> DEFINE n == LE(4, Len(v))
  <2>2. n \in Bytes /\ Len(n) = 4
    BY <2>1, LEIsBytes
  <2>3. /\ Encoding(ty, v, pos) = n \o v /\ Pieces(ty, v) = <<n, v>>
        /\ MeasureBody(ty, v) = 4 + Len(v)
    BY <1>1, <1>5 DEF EncodingOf, Pieces, MeasureBodyOf, MeasureString
  <2>4. \A s, k : Input(ty, s, v, k) = PollLeaf(<<n, v>>, k)
    BY <1>1, <1>5 DEF InputOf, InputString
  <2> HIDE DEF n
  <2>5. /\ <<n, v>> \in Seq(Bytes) /\ FlattenSeq(<<n, v>>) = n \o v
        /\ Len(n \o v) = Len(n) + Len(v)
    BY <2>1, <2>2, TwoPieces
  <2>. QED BY <1>5, <2>2, <2>3, <2>4, <2>5
<1>6. CASE ty.k = "packed"
  <2>1. /\ v \in Seq(Nat) /\ Len(v) \in Nat
        /\ \A i \in 1 .. Len(v) : v[i] \in Nat /\ v[i] < 2^ty.bits
        /\ ty.bits \in 1 .. 8 /\ Packed(ty.bits, v) \in Bytes
        /\ Len(Packed(ty.bits, v)) = (ty.bits * Len(v) + 7) \div 8
    <3>1. v \in Seq(Nat) /\ \A i \in 1 .. Len(v) : v[i] < 2^ty.bits
      BY <1>1, <1>6 DEF IsValueOf
    <3>2. ty.bits \in 1 .. 8
      BY <1>6, LeafLevel
    <3>3. /\ Packed(ty.bits, v) \in Bytes
          /\ Len(Packed(ty.bits, v)) = (ty.bits * Len(v) + 7) \div 8
      BY <3>1, <3>2, PackedIsBytes
    <3>. QED BY <3>1, <3>2, <3>3, ElementOfSeq, LenProperties
  <2> DEFINE n == LE(4, Len(v))
             b == Packed(ty.bits, v)
  <2>2. n \in Bytes /\ Len(n) = 4
    BY <2>1, LEIsBytes
  <2>3. Encoding(ty, v, pos) = n \o b /\ Pieces(ty, v) = <<n, b>>
    BY <1>1, <1>6 DEF EncodingOf, Pieces
  <2>4. ASSUME NEW s, NEW k PROVE Input(ty, s, v, k) = PollLeaf(<<n, b>>, k)
    <3>1. CASE ty.bits = 1
      BY <1>1, <1>6, <3>1 DEF InputOf, InputPackedBool
    <3>2. CASE ty.bits # 1
      <4>1. 2^ty.bits \in Nat
        <5>1. ty.bits \in 1 .. 8
          BY <1>6, LeafLevel
        <5>2. /\ 2^1 = 2 /\ 2^2 = 4 /\ 2^3 = 8 /\ 2^4 = 16
              /\ 2^5 = 32 /\ 2^6 = 64 /\ 2^7 = 128 /\ 2^8 = 256
          BY SMT
        <5>3. \/ ty.bits = 1 \/ ty.bits = 2 \/ ty.bits = 3 \/ ty.bits = 4
              \/ ty.bits = 5 \/ ty.bits = 6 \/ ty.bits = 7 \/ ty.bits = 8
          BY <5>1
        <5>4. \/ 2^ty.bits = 2^1 \/ 2^ty.bits = 2^2 \/ 2^ty.bits = 2^3 \/ 2^ty.bits = 2^4
              \/ 2^ty.bits = 2^5 \/ 2^ty.bits = 2^6 \/ 2^ty.bits = 2^7 \/ 2^ty.bits = 2^8
          BY <5>3, Zenon
        <5>. QED BY <5>2, <5>4
      <4>2. ~ \E i \in 1 .. Len(v) : v[i] >= 2^ty.bits
        <5> DEFINE top == 2^ty.bits
        <5>1. top \in Nat /\ \A i \in 1 .. Len(v) : v[i] \in Nat /\ v[i] < top
          BY <2>1, <4>1
        <5> HIDE DEF top
        <5>2. \A i \in 1 .. Len(v) : ~(v[i] >= top)
          BY <5>1
        <5>. QED BY <5>2 DEF top
      <4>3. Input(ty, s, v, k) = InputPacked(ty, s, v, k)
        BY <1>1, <1>6, <3>2 DEF InputOf
      <4>. QED BY <4>2, <4>3 DEF InputPacked
    <3>. QED BY <3>1, <3>2
  <2> HIDE DEF n, b
  <2>5. <<n, b>> \in Seq(Bytes) /\ FlattenSeq(<<n, b>>) = n \o b
    BY <2>1, <2>2, TwoPieces DEF b
  <2>6. MeasureBody(ty, v) = Len(n \o b)
    <3>1. MeasureBody(ty, v) = 4 + (ty.bits * Len(v) + 8 - 1) \div 8
      BY <1>1, <1>6 DEF MeasureBodyOf, MeasurePacked, DivCeil
    <3>2. ty.bits * Len(v) \in Nat
      <4>1. ty.bits \in Nat /\ Len(v) \in Nat
        BY <2>1
      <4>2. \A x \in Nat, y \in Nat : x * y \in Nat
        OBVIOUS
      <4>. QED BY <4>1, <4>2
    <3>3. MeasureBody(ty, v) = 4 + (ty.bits * Len(v) + 7) \div 8
      <4>1. \A x \in Nat : x + 8 - 1 = x + 7
        OBVIOUS
      <4>2. ty.bits * Len(v) + 8 - 1 = ty.bits * Len(v) + 7
        BY <3>2, <4>1
      <4>. QED BY <3>1, <4>2
    <3>4. Len(b) = (ty.bits * Len(v) + 7) \div 8
      BY <2>1 DEF b
    <3>5. Len(n \o b) = 4 + Len(b)
      BY <2>1, <2>2, Joins DEF b
    <3>. QED BY <3>3, <3>4, <3>5
  <2>. QED BY <1>6, <2>3, <2>4, <2>5, <2>6
<1>7. CASE ty.k = "varintvec"
  <2>1. v \in Seq(Nat) /\ Len(v) \in Nat /\ \A i \in 1 .. Len(v) : v[i] \in Nat
    <3>1. v \in Seq(Nat)
      BY <1>1, <1>7 DEF IsValueOf
    <3>. QED BY <3>1, ElementOfSeq, LenProperties
  <2> DEFINE n == LE(4, Len(v))
             w == [i \in 1 .. Len(v) |-> SerializeU64(v[i])]
             lens == [i \in 1 .. Len(v) |-> SerializedLen(v[i])]
  <2>2. n \in Bytes /\ Len(n) = 4
    BY <2>1, LEIsBytes
  <2>3. /\ \A i \in 1 .. Len(v) : /\ SerializeU64(v[i]) \in Bytes
                                  /\ SerializedLen(v[i]) \in Nat
                                  /\ SerializedLen(v[i]) = Len(SerializeU64(v[i]))
    BY <2>1, SerializeU64IsBytes, SerializedLenIs
  <2>4. w \in Seq(Bytes) /\ lens \in Seq(Nat) /\ Len(w) = Len(v) /\ Len(lens) = Len(v)
        /\ \A i \in 1 .. Len(lens) : Len(w[i]) = lens[i]
    BY <2>1, <2>3
  <2>5. /\ Encoding(ty, v, pos) = n \o FlattenSeq(w) /\ Pieces(ty, v) = <<n>> \o w
        /\ MeasureBody(ty, v) = 4 + SumOf(lens)
    BY <1>1, <1>7 DEF EncodingOf, Pieces, MeasureBodyOf, MeasureVarIntVec
  <2>6. \A s, k : Input(ty, s, v, k) = PollLeaf(<<n>> \o w, k)
    BY <1>1, <1>7 DEF InputOf, InputVarIntVec
  <2> HIDE DEF n, w, lens
  <2>7. <<n>> \in Seq(Bytes) /\ FlattenSeq(<<n>>) = n
    BY <2>2, FlattenOne
  <2>8. /\ <<n>> \o w \in Seq(Bytes) /\ FlattenSeq(<<n>> \o w) = n \o FlattenSeq(w)
        /\ FlattenSeq(w) \in Bytes
    BY <2>4, <2>7, FlattenJoin, ConcatProperties
  <2>9. Len(FlattenSeq(w)) = SumOf(lens)
    BY <2>4, FlattenLength
  <2>10. Len(n \o FlattenSeq(w)) = 4 + SumOf(lens)
    BY <2>2, <2>8, <2>9, Joins
  <2>. QED BY <1>7, <2>5, <2>6, <2>8, <2>10
<1>. QED BY <1>2, <1>3, <1>4, <1>5, <1>6, <1>7 DEF Leaf

\* The leaves keep the promise.
LEMMA LeafKeeps ==
  ASSUME NEW ty, AtLevel(ty), ty.k \in Leaf, Regular(ty)
  PROVE  Keeps(ty)
<1>1. /\ \A s, k : Poll(ty, s, k) = PollLeaf(s, k)
      /\ \A s, k : Finish(ty, s, k) = Answer(s, k, "ready")
      /\ \A s, at : Rest(ty, s, at) = FlattenSeq(s)
      /\ \A s : Idle(ty, s) <=> (ty.k = "unit" => s = << >>)
      /\ \A s : Going(ty, s) <=> s \in Seq(Bytes)
      /\ \A s : Ended(ty, s)
  BY LeafLevel
<1>2. Idle(ty, New(ty))
  <2>1. ty.k = "unit" => NewLeaf(ty) = << >>
    BY DEF NewLeaf
  <2>2. New(ty) = NewLeaf(ty)
    BY LeafLevel
  <2>. QED BY <1>1, <2>1, <2>2
<1>3. Over(ty, << >>)
  <2>1. << >> \in Seq(Bytes)
    BY EmptySeq
  <2>. QED BY <1>1, <2>1, FlattenEmpty DEF Over, AtRest
<1>4. ASSUME NEW k, NEW s, IsSink(k), s \in Seq(Bytes)
      PROVE  Answers(ty, k, FlattenSeq(s), PollLeaf(s, k))
  <2> DEFINE a == PollLeaf(s, k)
  <2>1. /\ a.s \in Seq(Bytes)
        /\ Outcome(k, FlattenSeq(s), a.sink, a.r, FlattenSeq(a.s))
        /\ a.r = "ready" => a.s = << >>
    BY <1>4, LeafPoll DEF PiecesLeft
  <2>2. FlattenSeq(a.s) \in Bytes
    BY <2>1 DEF Outcome
  <2> HIDE DEF a
  <2>3. Answers(ty, k, FlattenSeq(s), a)
    BY <1>1, <1>3, <2>1, <2>2 DEF Answers
  <2>. QED BY <2>3 DEF a
<1>5. ASSUME NEW s \in Seq(Bytes) PROVE FlattenSeq(s) \in Bytes
  <2>1. << >> \in Seq(Bytes)
    BY EmptySeq
  <2>. QED BY <2>1, FlattenJoin
<1>6. Writes(ty)
  <2>1. ASSUME NEW v, NEW pos, pos \in Nat, IsValue(ty, v)
        PROVE  Encoding(ty, v, pos) \in Bytes
    BY <1>5, <2>1, PiecesEncode
  <2>2. FieldEncoding(ty) \in Byte
    <3>1. FieldEncoding(ty) \in 0 .. 4
      BY LeafLevel
    <3>. QED BY <3>1 DEF Byte
  <2>3. Alignment(ty) \in Nat \ {0}
    <3>1. Alignment(ty) = IF ty.k = "prim" THEN ty.size ELSE 1
      BY LeafLevel
    <3>2. ty.k = "prim" => ty.size \in Nat \ {0}
      BY LeafLevel
    <3>. QED BY <3>1, <3>2
  <2>. QED BY <1>1, <1>5, <2>1, <2>2, <2>3 DEF Writes
<1>7. Continuing(ty)
  BY <1>1, <1>4 DEF Continuing
<1>8. Accepting(ty)
  <2>1. SUFFICES ASSUME NEW s, NEW v, NEW k,
                        IsSink(k), Idle(ty, s), IsValue(ty, v),
                        Fits(k, Encoding(ty, v, SinkPos(k)))
                 PROVE  Answers(ty, k, Encoding(ty, v, SinkPos(k)), Input(ty, s, v, k))
    BY DEF Accepting
  <2>2. /\ Pieces(ty, v) \in Seq(Bytes)
        /\ Encoding(ty, v, SinkPos(k)) = FlattenSeq(Pieces(ty, v))
        /\ Input(ty, s, v, k) =
             IF ty.k = "unit" THEN Answer(s, k, "ready") ELSE PollLeaf(Pieces(ty, v), k)
    BY <2>1, PiecesEncode
  <2>3. CASE ty.k = "unit"
    <3>1. s = << >> /\ Pieces(ty, v) = << >>
      BY <1>1, <2>1, <2>3 DEF Pieces
    <3>. QED BY <1>3, <2>1, <2>2, <2>3, <3>1, FlattenEmpty, ReadyAtOnce
  <2>4. CASE ty.k # "unit"
    BY <1>4, <2>1, <2>2, <2>4
  <2>. QED BY <2>3, <2>4
<1>9. Finishing(ty)
  <2>1. \A s, k : Answer(s, k, "ready").r = "ready" /\ Answer(s, k, "ready").sink = k
    BY DEF Answer
  <2>. QED BY <1>1, <2>1 DEF Finishing
<1>10. Measured(ty)
  BY PiecesEncode DEF Measured
<1>. QED BY <1>2, <1>6, <1>7, <1>8, <1>9, <1>10 DEF Keeps

-----------------------------------------------------------------------------
(* Elements one behind the other *)

LEMMA FitsMidway ==
  ASSUME NEW k, NEW todo, NEW k1, NEW rest,
         IsSink(k), rest \in Bytes, Midway(k, todo, k1, rest), Fits(k, todo)
  PROVE  Fits(k1, rest)
BY MidwayFacts DEF Fits

\* Values of one type.
Values(ty, v) == Len(v) \in Nat /\ AreValues(Alike(ty, Len(v)), v, Len(v))

Elements(ty, v, at) == FlattenSeq(ItemParts(ty, v, at))

LEMMA ValuesAre ==
  ASSUME NEW ty, NEW v, NEW n, n \in Nat, AreValues(Alike(ty, n), v, n)
  PROVE  /\ Values(ty, v) /\ Len(v) = n
         /\ \A i \in 1 .. n : IsValue(ty, v[i])
<1>1. v = [i \in 1 .. n |-> v[i]] /\ \A i \in 1 .. n : IsValue(Alike(ty, n)[i], v[i])
  BY DEF AreValues
<1>2. Len([i \in 1 .. n |-> v[i]]) = n
  OBVIOUS
<1>3. Len(v) = n
  BY <1>1, <1>2
<1>. QED BY <1>1, <1>3 DEF Values, Alike

LEMMA ElementsAreLaid ==
  ASSUME NEW ty, NEW v, NEW at, at \in Nat, Writes(ty.of), Values(ty.of, v)
  PROVE  /\ Elements(ty, v, at) = Laid(Items(Alike(ty.of, Len(v)), v, Len(v)), at)
         /\ Elements(ty, v, at) \in Bytes
         /\ \A i \in 1 .. Len(v) : \A p \in Nat :
              Encoding(Alike(ty.of, Len(v))[i], v[i], p) \in Bytes
<1> DEFINE types == Alike(ty.of, Len(v))
<1>1. Len(v) \in Nat /\ \A i \in 1 .. Len(v) : types[i] = ty.of /\ IsValue(ty.of, v[i])
  BY DEF Values, AreValues, Alike
<1>2. Elements(ty, v, at) = FlattenSeq(Parts(types, v, at, Len(v)))
  BY DEF Elements, ItemParts, Alike
<1> HIDE DEF types
<1>3. \A i \in 1 .. Len(v) : \A p \in Nat : Encoding(types[i], v[i], p) \in Bytes
  BY <1>1 DEF Writes
<1>4. FlattenSeq(Parts(types, v, at, Len(v))) = Laid(Items(types, v, Len(v)), at)
  BY <1>1, <1>3, PartsAreLaid
<1>5. Items(types, v, Len(v)) \in Seq(Placed)
  BY <1>1, <1>3, ItemsArePlaced
<1>6. Laid(Items(types, v, Len(v)), at) \in Bytes
  BY <1>5, LaidIsBytes
<1>. QED BY <1>2, <1>3, <1>4, <1>6 DEF types

LEMMA NoElements ==
  ASSUME NEW ty, NEW v, NEW at, at \in Nat, Writes(ty.of), Values(ty.of, v), Len(v) = 0
  PROVE  Elements(ty, v, at) = << >>
BY ElementsAreLaid, NoItems

\* The first element, then the others.
FirstElement(ty, v, at) ==
  LET first == Encoding(ty.of, Head(v), at)
      others == Elements(ty, Tail(v), at + Len(first))
  IN  /\ IsValue(ty.of, Head(v)) /\ Values(ty.of, Tail(v))
      /\ Len(Tail(v)) = Len(v) - 1
      /\ first \in Bytes /\ others \in Bytes /\ at + Len(first) \in Nat
      /\ Elements(ty, v, at) = first \o others

LEMMA ElementsFirst ==
  ASSUME NEW ty, NEW v, NEW at, at \in Nat, Writes(ty.of), Values(ty.of, v), Len(v) # 0
  PROVE  FirstElement(ty, v, at)
<1> DEFINE n == Len(v) - 1
           t == Tail(v)
           types == Alike(ty.of, Len(v))
           types2 == Alike(ty.of, n)
           S == {v[i] : i \in 1 .. Len(v)}
<1>1. /\ Len(v) \in Nat /\ v = [i \in 1 .. Len(v) |-> v[i]]
      /\ \A i \in 1 .. Len(v) : IsValue(ty.of, v[i])
  BY DEF Values, AreValues, Alike
<1>2. n \in Nat /\ n + 1 = Len(v)
  BY <1>1
<1>3. v \in Seq(S)
  BY <1>1
<1>4. /\ Head(v) = v[1] /\ t \in Seq(S) /\ Len(t) = n
      /\ \A i \in 1 .. n : t[i] = v[i + 1]
  <2> HIDE DEF S
  <2>1. v # << >>
    BY EmptySeq
  <2>. QED BY <1>2, <1>3, <2>1, HeadTailProperties
<1> HIDE DEF t, n, S
<1>5. /\ \A i \in 1 .. n : IsValue(ty.of, t[i])
      /\ t = [i \in 1 .. n |-> t[i]]
  <2>1. \A i \in 1 .. n : i + 1 \in 1 .. Len(v)
    BY <1>2
  <2>2. t = [i \in 1 .. Len(t) |-> t[i]]
    BY <1>4
  <2>. QED BY <1>1, <1>4, <2>1, <2>2
<1>6. Values(ty.of, t) /\ IsValue(ty.of, Head(v))
  <2>1. 1 \in 1 .. Len(v)
    BY <1>2
  <2>. QED BY <1>1, <1>2, <1>4, <1>5, <2>1 DEF Values, AreValues, Alike
<1>7. /\ types[1] = ty.of
      /\ \A i \in 1 .. n : types2[i] = types[i + 1] /\ t[i] = v[i + 1]
  <2>1. \A i \in 1 .. n : i + 1 \in 1 .. Len(v)
    BY <1>2
  <2>2. 1 \in 1 .. Len(v)
    BY <1>2
  <2>. QED BY <1>4, <2>1, <2>2 DEF Alike
<1>8. /\ Elements(ty, v, at) = Laid(Items(types, v, n + 1), at)
      /\ \A i \in 1 .. n + 1 : \A p \in Nat : Encoding(types[i], v[i], p) \in Bytes
  BY <1>2, ElementsAreLaid
<1> HIDE DEF types
<1>9. First(types, v, n, at, types2, t)
  <2> HIDE DEF types2
  <2>. QED BY <1>2, <1>7, <1>8, ItemsFirst
<1> DEFINE first == Encoding(ty.of, Head(v), at)
<1>10. /\ Laid(Items(types, v, n + 1), at) = first \o Laid(Items(types2, t, n), at + Len(first))
       /\ first \in Bytes /\ at + Len(first) \in Nat
       /\ Laid(Items(types2, t, n), at + Len(first)) \in Bytes
  BY <1>4, <1>7, <1>9 DEF First
<1>11. Elements(ty, t, at + Len(first)) = Laid(Items(types2, t, n), at + Len(first))
  <2> HIDE DEF first
  <2>. QED BY <1>4, <1>6, <1>10, ElementsAreLaid
<1>. QED BY <1>2, <1>4, <1>6, <1>8, <1>10, <1>11 DEF FirstElement, t, n

\* Elements of known lengths.
LEMMA ElementsLength ==
  ASSUME NEW ty, NEW v, NEW at, at \in Nat, Writes(ty.of), Values(ty.of, v),
         Measured(ty.of), Exact(ty.of)
  PROVE  Len(Elements(ty, v, at)) = SumOf(Lens(ty.of, v))
<1> DEFINE lens == Lens(ty.of, v)
           items == Items(Alike(ty.of, Len(v)), v, Len(v))
<1>1. Len(v) \in Nat /\ \A i \in 1 .. Len(v) : IsValue(ty.of, v[i])
  BY DEF Values, AreValues, Alike
<1>2. \A i \in 1 .. Len(v) : \A p \in Nat :
        /\ MeasureBody(ty.of, v[i]) = Len(Encoding(ty.of, v[i], p))
        /\ Encoding(ty.of, v[i], p) \in Bytes
  BY <1>1 DEF Measured, Writes
<1>3. \A i \in 1 .. Len(v) : MeasureBody(ty.of, v[i]) \in Nat
  <2>1. TAKE i \in 1 .. Len(v)
  <2>2. 0 \in Nat
    OBVIOUS
  <2>3. /\ MeasureBody(ty.of, v[i]) = Len(Encoding(ty.of, v[i], 0))
        /\ Encoding(ty.of, v[i], 0) \in Bytes
    BY <1>2, <2>2
  <2>. QED BY <2>3, NoLength
<1>4. /\ lens \in Seq(Nat) /\ Len(lens) = Len(v)
      /\ \A i \in 1 .. Len(v) : lens[i] = MeasureBody(ty.of, v[i])
  BY <1>1, <1>3 DEF Lens
<1>5. items \in Seq(Placed) /\ Len(items) = Len(v) /\ Elements(ty, v, at) = Laid(items, at)
  BY <1>1, ElementsAreLaid, ItemsArePlaced
<1>6. \A i \in 1 .. Len(v) : \A p \in Nat : items[i][p] = Encoding(ty.of, v[i], p)
  BY DEF Items, Alike
<1> HIDE DEF lens, items
<1>7. \A i \in 1 .. Len(lens) : \A p \in Nat : Len(items[i][p]) = lens[i]
  BY <1>2, <1>4, <1>6
<1>8. Len(items) = Len(lens)
  BY <1>4, <1>5
<1>9. Len(Laid(items, at)) = SumOf(lens)
  BY <1>4, <1>5, <1>7, <1>8, LaidLength
<1>. QED BY <1>5, <1>9 DEF lens

-----------------------------------------------------------------------------
(* Arrays *)

LEMMA ArrayLevel ==
  ASSUME NEW ty, AtLevel(ty), ty.k = "array"
  PROVE  /\ New(ty) = NewArray(ty)
         /\ Alignment(ty) = Alignment(ty.of) /\ FieldEncoding(ty) = 0
         /\ \A v, pos : Encoding(ty, v, pos) = Elements(ty, v, pos)
         /\ \A v : MeasureBody(ty, v) = SumOf(Lens(ty.of, v))
         /\ \A s, v, k : Input(ty, s, v, k) = InputArray(ty, s, v, k)
         /\ \A s, k : Poll(ty, s, k) = PollArray(ty, s, k)
         /\ \A s, k : Finish(ty, s, k) = Finish(ty.of, s.item, k)
         /\ \A v : IsValue(ty, v) <=> AreValues(Alike(ty.of, ty.n), v, ty.n)
         /\ \A s, at : Rest(ty, s, at) = ArrayRest(ty, s, at)
         /\ \A s : Idle(ty, s) <=> IsRecord(s, ArrayNames) /\ Idle(ty.of, s.item)
         /\ \A s : Going(ty, s) <=>
              /\ IsRecord(s, ArrayNames)
              /\ s.started /\ s.awaiting \in BOOLEAN
              /\ Values(ty.of, s.items)
              /\ IF s.awaiting THEN Idle(ty.of, s.item) ELSE Going(ty.of, s.item)
         /\ \A s : Ended(ty, s) <=> Ended(ty.of, s.item)
         /\ Reusable(ty) <=> Reusable(ty.of)
         /\ Quiet(ty) <=> Quiet(ty.of)
         /\ Exact(ty) <=> Exact(ty.of)
         /\ Regular(ty) <=>
              ty.n \in Nat /\ Regular(ty.of) /\ Quiet(ty.of) /\ Reusable(ty.of)
<1>1. New(ty) = NewArray(ty)
  BY DEF AtLevel, NewOf, Leaf
<1>2. Alignment(ty) = Alignment(ty.of) /\ FieldEncoding(ty) = 0
  BY DEF AtLevel, AlignmentOf, FieldEncodingOf, Leaf
<1>3. \A v, pos : Encoding(ty, v, pos) = Elements(ty, v, pos)
  BY DEF AtLevel, EncodingOf, Elements, Leaf
<1>4. \A v : MeasureBody(ty, v) = SumOf(Lens(ty.of, v))
  BY DEF AtLevel, MeasureBodyOf, MeasureArray, Leaf
<1>5. \A s, v, k : Input(ty, s, v, k) = InputArray(ty, s, v, k)
  BY DEF AtLevel, InputOf, Leaf
<1>6. \A s, k : Poll(ty, s, k) = PollArray(ty, s, k)
  BY DEF AtLevel, PollOf, Leaf
<1>7. \A s, k : Finish(ty, s, k) = Finish(ty.of, s.item, k)
  BY DEF AtLevel, FinishOf, Leaf
<1>8. \A v : IsValue(ty, v) <=> AreValues(Alike(ty.of, ty.n), v, ty.n)
  BY DEF AtLevel, IsValueOf, Leaf
<1>9. \A s, at : Rest(ty, s, at) = ArrayRest(ty, s, at)
  BY DEF AtLevel, RestOf, Leaf
<1>10. \A s : Idle(ty, s) <=> IsRecord(s, ArrayNames) /\ Idle(ty.of, s.item)
  BY DEF AtLevel, IdleOf, Leaf
<1>11. \A s : Going(ty, s) <=>
         /\ IsRecord(s, ArrayNames)
         /\ s.started /\ s.awaiting \in BOOLEAN
         /\ Values(ty.of, s.items)
         /\ IF s.awaiting THEN Idle(ty.of, s.item) ELSE Going(ty.of, s.item)
  BY DEF AtLevel, GoingOf, Values, Leaf
<1>12. \A s : Ended(ty, s) <=> Ended(ty.of, s.item)
  BY DEF AtLevel, EndedOf, Leaf
<1>13. Reusable(ty) <=> Reusable(ty.of)
  BY DEF AtLevel, ReusableOf, Leaf
<1>14. Quiet(ty) <=> Quiet(ty.of)
  BY DEF AtLevel, QuietOf, Leaf
<1>15. Exact(ty) <=> Exact(ty.of)
  BY DEF AtLevel, ExactOf, Leaf
<1>16. Regular(ty) <=>
         ty.n \in Nat /\ Regular(ty.of) /\ Quiet(ty.of) /\ Reusable(ty.of)
  BY DEF AtLevel, RegularOf, Leaf
<1>. QED BY <1>1, <1>2, <1>3, <1>4, <1>5, <1>6, <1>7, <1>8, <1>9, <1>10,
         <1>11, <1>12, <1>13, <1>14, <1>15, <1>16

\* The element that is next, and the elements behind it.
Element(ty, s, at) ==
  IF s.awaiting THEN Encoding(ty.of, Head(s.items), at) ELSE Rest(ty.of, s.item, at)
Others(s) == IF s.awaiting THEN Tail(s.items) ELSE s.items

\* An array of which something is left.
Ahead(ty, s, at) ==
  LET x == Element(ty, s, at)
      y == Elements(ty, Others(s), at + Len(x))
  IN  /\ x \in Bytes /\ y \in Bytes /\ at + Len(x) \in Nat
      /\ Rest(ty, s, at) = x \o y
      /\ Values(ty.of, Others(s))
      /\ Len(Others(s)) = ItemsLeft(s) - 1 /\ ItemsLeft(s) \in Nat

\* An array that awaits its elements has them left.
LEMMA ArrayAwaits ==
  ASSUME NEW ty, NEW s, NEW at, AtLevel(ty), ty.k = "array", Writes(ty.of),
         at \in Nat, s.awaiting = TRUE, Values(ty.of, s.items)
  PROVE  Rest(ty, s, at) = Elements(ty, s.items, at)
<1>1. Rest(ty, s, at) = ArrayRest(ty, s, at)
  <2>1. \A z, p : Rest(ty, z, p) = ArrayRest(ty, z, p)
    BY ArrayLevel
  <2>. QED BY <2>1
<1>2. at + Len(<< >>) = at
  BY NoBytes
<1>3. ArrayRest(ty, s, at) = << >> \o Elements(ty, s.items, at)
  BY <1>2 DEF ArrayRest, Elements
<1>4. Elements(ty, s.items, at) \in Bytes
  BY ElementsAreLaid
<1>. QED BY <1>1, <1>3, <1>4, Joins

LEMMA ArrayPends ==
  ASSUME NEW ty, NEW s, NEW at, AtLevel(ty), ty.k = "array", s.awaiting = FALSE
  PROVE  Rest(ty, s, at) = Rest(ty.of, s.item, at)
                           \o Elements(ty, s.items, at + Len(Rest(ty.of, s.item, at)))
<1>1. \A z, p : Rest(ty, z, p) = ArrayRest(ty, z, p)
  BY ArrayLevel
<1>2. ArrayRest(ty, s, at) = Rest(ty.of, s.item, at)
                             \o Elements(ty, s.items, at + Len(Rest(ty.of, s.item, at)))
  BY DEF ArrayRest, Elements
<1>. QED BY <1>1, <1>2

LEMMA ArrayIsAhead ==
  ASSUME NEW ty, NEW s, NEW at, AtLevel(ty), ty.k = "array", Writes(ty.of),
         at \in Nat, Going(ty, s), ItemsLeft(s) # 0
  PROVE  Ahead(ty, s, at)
<1>1. /\ s.awaiting \in BOOLEAN /\ Values(ty.of, s.items) /\ Len(s.items) \in Nat
      /\ IF s.awaiting THEN Idle(ty.of, s.item) ELSE Going(ty.of, s.item)
  BY ArrayLevel DEF Values
<1>2. CASE s.awaiting = TRUE
  <2>1. Len(s.items) # 0 /\ ItemsLeft(s) = Len(s.items)
    BY <1>2 DEF ItemsLeft
  <2>2. FirstElement(ty, s.items, at)
    BY <1>1, <2>1, ElementsFirst
  <2>3. Rest(ty, s, at) = Elements(ty, s.items, at)
    BY <1>1, <1>2, ArrayAwaits
  <2>. QED BY <1>1, <1>2, <2>1, <2>2, <2>3 DEF FirstElement, Ahead, Element, Others
<1>3. CASE s.awaiting = FALSE
  <2> DEFINE x == Rest(ty.of, s.item, at)
  <2>1. x \in Bytes
    BY <1>1, <1>3 DEF Writes
  <2>2. at + Len(x) \in Nat
    BY <2>1, NoLength
  <2>3. Elements(ty, s.items, at + Len(x)) \in Bytes
    BY <1>1, <2>2, ElementsAreLaid
  <2>4. Rest(ty, s, at) = x \o Elements(ty, s.items, at + Len(x))
    BY <1>3, ArrayPends
  <2>5. Len(s.items) = ItemsLeft(s) - 1 /\ ItemsLeft(s) \in Nat
    BY <1>1, <1>3 DEF ItemsLeft
  <2> HIDE DEF x
  <2>. QED BY <1>1, <1>3, <2>1, <2>2, <2>3, <2>4, <2>5 DEF Ahead, Element, Others, x
<1>. QED BY <1>1, <1>2, <1>3

LEMMA ArrayRestIsBytes ==
  ASSUME NEW ty, NEW s, NEW at,
         AtLevel(ty), ty.k = "array", Writes(ty.of), Going(ty, s), at \in Nat
  PROVE  Rest(ty, s, at) \in Bytes
<1>1. s.awaiting \in BOOLEAN /\ Values(ty.of, s.items)
  BY ArrayLevel
<1>2. CASE ItemsLeft(s) = 0
  <2>1. s.awaiting = TRUE
    BY <1>1, <1>2 DEF ItemsLeft, Values
  <2>2. Rest(ty, s, at) = Elements(ty, s.items, at)
    BY <1>1, <2>1, ArrayAwaits
  <2>3. Elements(ty, s.items, at) \in Bytes
    BY <1>1, ElementsAreLaid
  <2>. QED BY <2>2, <2>3
<1>3. CASE ItemsLeft(s) # 0
  <2> DEFINE x == Element(ty, s, at)
             y == Elements(ty, Others(s), at + Len(x))
  <2>1. x \in Bytes /\ y \in Bytes /\ Rest(ty, s, at) = x \o y
    BY <1>3, ArrayIsAhead DEF Ahead
  <2> HIDE DEF x, y
  <2>. QED BY <2>1, Joins
<1>. QED BY <1>2, <1>3

LEMMA MidwaySink ==
  ASSUME NEW k, NEW todo, NEW k1, NEW rest, IsSink(k), Midway(k, todo, k1, rest)
  PROVE  IsSink(k1) /\ SinkPos(k1) \in Nat
<1>1. PICK w \in Bytes : k1 = After(k, w) /\ SinkPos(k1) <= k.limit
  BY DEF Midway
<1>2. IsSink(k1)
  BY <1>1, AfterFacts
<1>. QED BY <1>2, NoBytes, AfterFacts

\* From k on there was todo to write; n elements are left.
ArrayAt(ty, k, todo, a, n) ==
  /\ a.r = "ready" => /\ Going(ty, a.s) /\ ItemsLeft(a.s) = n
                      /\ Midway(k, todo, a.sink, Rest(ty, a.s, SinkPos(a.sink)))
  /\ a.r # "ready" => Answers(ty, k, todo, a)

LEMMA StepOfItem ==
  ASSUME NEW ty, NEW k, NEW todo, NEW a,
         AtLevel(ty), ty.k = "array", Keeps(ty.of), Reusable(ty.of), IsSink(k),
         Fits(k, todo), a.r = "ready", ItemsLeft(a.s) # 0,
         ArrayAt(ty, k, todo, a, ItemsLeft(a.s))
  PROVE  ArrayAt(ty, k, todo, PollItem(ty, a.s, a.sink), ItemsLeft(a.s) - 1)
<1> DEFINE s == a.s
           k1 == a.sink
           p == SinkPos(k1)
           x == Element(ty, s, p)
           y == Elements(ty, Others(s), p + Len(x))
           i == IF s.awaiting THEN Input(ty.of, s.item, Head(s.items), k1)
                ELSE Poll(ty.of, s.item, k1)
           u == [s EXCEPT !.item = i.s, !.items = IF s.awaiting THEN Tail(@) ELSE @,
                          !.awaiting = \/ i.r = "ready"
                                       \/ i.r = "error" /\ s.awaiting]
           b == PollItem(ty, s, k1)
<1>1. Going(ty, s) /\ Midway(k, todo, k1, Rest(ty, s, p)) /\ ItemsLeft(s) # 0
  BY DEF ArrayAt
<1> HIDE DEF s, k1
<1>2. Writes(ty.of) /\ Accepting(ty.of) /\ Continuing(ty.of)
  BY DEF Keeps
<1>3. \A z : Going(ty, z) <=>
        /\ IsRecord(z, ArrayNames)
        /\ z.started /\ z.awaiting \in BOOLEAN
        /\ Values(ty.of, z.items)
        /\ IF z.awaiting THEN Idle(ty.of, z.item) ELSE Going(ty.of, z.item)
  BY ArrayLevel
<1>4. /\ IsRecord(s, ArrayNames) /\ s.started /\ s.awaiting \in BOOLEAN
      /\ Values(ty.of, s.items)
      /\ IF s.awaiting THEN Idle(ty.of, s.item) ELSE Going(ty.of, s.item)
  BY <1>1, <1>3
<1>5. IsSink(k1) /\ p \in Nat
  BY <1>1, MidwaySink
<1>6. Ahead(ty, s, p)
  BY <1>1, <1>2, <1>5, ArrayIsAhead
<1>7. /\ x \in Bytes /\ y \in Bytes /\ p + Len(x) \in Nat
      /\ Rest(ty, s, p) = x \o y /\ Values(ty.of, Others(s))
      /\ Len(Others(s)) = ItemsLeft(s) - 1 /\ ItemsLeft(s) \in Nat
  BY <1>6 DEF Ahead
<1>8. x \o y \in Bytes /\ Midway(k, todo, k1, x \o y)
  BY <1>1, <1>7, Joins
<1>9. Fits(k1, x)
  <2>1. Fits(k1, x \o y)
    BY <1>8, FitsMidway
  <2> HIDE DEF x, y
  <2>. QED BY <1>5, <1>7, <2>1, FitsPart
<1>10. Answers(ty.of, k1, x, i)
  <2>1. CASE s.awaiting = TRUE
    <3>1. x = Encoding(ty.of, Head(s.items), p) /\ i = Input(ty.of, s.item, Head(s.items), k1)
      BY <2>1 DEF Element
    <3>2. IsValue(ty.of, Head(s.items))
      <4>1. Len(s.items) # 0
        BY <1>1, <2>1 DEF ItemsLeft
      <4>. QED BY <1>2, <1>4, <1>5, <4>1, ElementsFirst DEF FirstElement
    <3>3. Idle(ty.of, s.item)
      BY <1>4, <2>1
    <3>. QED BY <1>2, <1>5, <1>9, <3>1, <3>2, <3>3 DEF Accepting
  <2>2. CASE s.awaiting = FALSE
    <3>1. x = Rest(ty.of, s.item, p) /\ i = Poll(ty.of, s.item, k1)
      BY <2>2 DEF Element
    <3>2. Going(ty.of, s.item)
      BY <1>4, <2>2
    <3>. QED BY <1>2, <1>5, <1>9, <3>1, <3>2 DEF Continuing
  <2>. QED BY <1>4, <2>1, <2>2
<1>11. b.s = u /\ b.sink = i.sink /\ b.r = i.r
  <2>1. b = ArrayAfterItem(s, i)
    BY DEF PollItem
  <2> HIDE DEF b, i
  <2>. QED BY <2>1 DEF ArrayAfterItem, MovedOn, Answer
<1> HIDE DEF i, b
<1>12. /\ IsRecord(u, ArrayNames) /\ u.item = i.s /\ u.items = Others(s)
       /\ u.awaiting = (i.r = "ready" \/ (i.r = "error" /\ s.awaiting))
       /\ u.started = s.started
  BY <1>4 DEF IsRecord, ArrayNames, Others
<1> HIDE DEF u, x
<1>13. PICK rest \in Bytes :
         /\ Outcome(k1, x, i.sink, i.r, rest)
         /\ i.r = "ready" => Over(ty.of, i.s)
         /\ i.r = "pending" => /\ Going(ty.of, i.s)
                               /\ Rest(ty.of, i.s, SinkPos(i.sink)) = rest
  BY <1>10 DEF Answers
<1>14. /\ rest \o y \in Bytes
       /\ Midway(k, todo, i.sink, rest \o y)
       /\ IsSink(i.sink)
       /\ i.r # "ready" => Stands(i.sink, i.r, rest \o y)
       /\ i.r = "ready" => rest = << >> /\ rest \o y = y
       /\ SinkPos(i.sink) \in Nat
       /\ SinkPos(i.sink) + Len(rest) = p + Len(x)
  <2> HIDE DEF y
  <2>1. Continued(k, todo, k1, x, y, i.sink, i.r, rest)
    BY <1>7, <1>8, <1>13, Further
  <2>. QED BY <2>1 DEF Continued, p
<1>15. i.r = "ready" => /\ Going(ty, u) /\ ItemsLeft(u) = ItemsLeft(s) - 1
                        /\ Midway(k, todo, i.sink, Rest(ty, u, SinkPos(i.sink)))
  <2>1. SUFFICES ASSUME i.r = "ready"
                 PROVE  /\ Going(ty, u) /\ ItemsLeft(u) = ItemsLeft(s) - 1
                        /\ Midway(k, todo, i.sink, Rest(ty, u, SinkPos(i.sink)))
    OBVIOUS
  <2>2. Idle(ty.of, i.s)
    BY <1>13, <2>1 DEF Over, AtRest
  <2>3. u.awaiting = TRUE
    BY <1>12, <2>1
  <2>4. Going(ty, u)
    BY <1>3, <1>4, <1>7, <1>12, <2>2, <2>3
  <2>5. ItemsLeft(u) = ItemsLeft(s) - 1
    BY <1>7, <1>12, <2>3 DEF ItemsLeft
  <2>6. SinkPos(i.sink) = p + Len(x)
    <3>1. SinkPos(i.sink) + 0 = SinkPos(i.sink)
      BY <1>14
    <3>. QED BY <1>14, <2>1, <3>1, NoBytes
  <2>7. Rest(ty, u, SinkPos(i.sink)) = y
    <3>1. Rest(ty, u, SinkPos(i.sink)) = Elements(ty, u.items, SinkPos(i.sink))
      BY <1>2, <1>7, <1>12, <1>14, <2>3, ArrayAwaits
    <3>. QED BY <1>12, <2>6, <3>1
  <2>. QED BY <1>14, <2>1, <2>4, <2>5, <2>7
<1>16. i.r = "pending" => Going(ty, u) /\ Rest(ty, u, SinkPos(i.sink)) = rest \o y
  <2>1. SUFFICES ASSUME i.r = "pending"
                 PROVE  Going(ty, u) /\ Rest(ty, u, SinkPos(i.sink)) = rest \o y
    OBVIOUS
  <2>2. u.awaiting = FALSE
    BY <1>12, <2>1
  <2>3. Going(ty.of, i.s) /\ Rest(ty.of, i.s, SinkPos(i.sink)) = rest
    BY <1>13, <2>1
  <2>4. Going(ty, u)
    BY <1>3, <1>4, <1>7, <1>12, <2>2, <2>3
  <2>5. Rest(ty, u, SinkPos(i.sink))
          = rest \o Elements(ty, u.items, SinkPos(i.sink) + Len(rest))
    <3>1. Rest(ty, u, SinkPos(i.sink))
            = Rest(ty.of, u.item, SinkPos(i.sink))
              \o Elements(ty, u.items, SinkPos(i.sink)
                                       + Len(Rest(ty.of, u.item, SinkPos(i.sink))))
      BY <2>2, ArrayPends
    <3>. QED BY <1>12, <2>3, <3>1
  <2>. QED BY <1>12, <1>14, <2>4, <2>5
<1>17. i.r # "ready" => Answers(ty, k, todo, b)
  <2>1. i.r # "ready" => Outcome(k, todo, b.sink, b.r, rest \o y)
    BY <1>11, <1>14 DEF Outcome
  <2> HIDE DEF y
  <2>. QED BY <1>11, <1>14, <1>16, <2>1 DEF Answers
<1>18. ArrayAt(ty, k, todo, b, ItemsLeft(s) - 1)
  BY <1>11, <1>15, <1>17 DEF ArrayAt
<1>. QED BY <1>18 DEF b, s, k1

\* The walk over the elements of an array.
LEMMA ArrayPoll ==
  ASSUME NEW ty, NEW s, NEW k,
         AtLevel(ty), ty.k = "array", Keeps(ty.of), Reusable(ty.of), Quiet(ty.of),
         IsSink(k), Going(ty, s), Fits(k, Rest(ty, s, SinkPos(k)))
  PROVE  Answers(ty, k, Rest(ty, s, SinkPos(k)), Poll(ty, s, k))
<1> DEFINE n == ItemsLeft(s)
           steps == Steps("item", OneTo(n))
           todo == Rest(ty, s, SinkPos(k))
<1>1. Writes(ty.of) /\ Finishing(ty.of)
  BY DEF Keeps
<1>2. /\ s.started /\ s.awaiting \in BOOLEAN /\ Values(ty.of, s.items)
  BY ArrayLevel
<1>3. n \in Nat
  BY <1>2 DEF ItemsLeft, Values
<1>4. SinkPos(k) \in Nat
  BY AfterFacts, NoBytes
<1>5. todo \in Bytes
  BY <1>1, <1>4, ArrayRestIsBytes
<1>6. Len(steps) = n /\ \A j \in 1 .. n : steps[j].what = "item"
  <2> HIDE DEF n
  <2>. QED BY <1>3 DEF Steps, OneTo
<1>7. Poll(ty, s, k) = Walk(ty, steps, s, k)
  <2>1. \A z, q : Poll(ty, z, q) = PollArray(ty, z, q)
    BY ArrayLevel
  <2>2. PollArray(ty, s, k) = Walk(ty, steps, s, k)
    BY <1>2 DEF PollArray
  <2>. QED BY <2>1, <2>2
<1>8. Fits(k, todo)
  OBVIOUS
<1>9. /\ IsRecord(s, ArrayNames)
  BY ArrayLevel
<1>10. Midway(k, todo, k, Rest(ty, s, SinkPos(k)))
  BY <1>5, MidwayStart
<1> HIDE DEF steps, todo
<1>11. PICK f : IsWalk(f, n, ty, steps, s, k) /\ f[n] = Poll(ty, s, k)
  <2> HIDE DEF n
  <2>. QED BY <1>3, <1>6, <1>7, WalkExists
<1> DEFINE D == {j \in 0 .. n : ArrayAt(ty, k, todo, f[j], n - j)}
<1>12. 0 \in D
  <2>1. f[0].s = s /\ f[0].sink = k /\ f[0].r = "ready"
    BY <1>11 DEF IsWalk, Answer
  <2>2. n - 0 = n /\ 0 \in 0 .. n /\ ItemsLeft(s) = n
    <3>1. \A m \in Nat : m - 0 = m /\ 0 \in 0 .. m
      OBVIOUS
    <3>. QED BY <1>3, <3>1
  <2>3. ArrayAt(ty, k, todo, f[0], n)
    BY <1>10, <2>1, <2>2 DEF ArrayAt
  <2> HIDE DEF n
  <2>. QED BY <2>2, <2>3
<1> HIDE DEF n
<1>13. ASSUME NEW j \in 0 .. n - 1, j \in D PROVE j + 1 \in D
  <2>1. j + 1 \in 1 .. n /\ (j + 1) - 1 = j /\ j + 1 \in 0 .. n
        /\ (n - j) - 1 = n - (j + 1) /\ n - j # 0
    BY <1>3
  <2>2. f[j + 1] = StepAfter(ty, steps[j + 1], f[j])
    BY <1>11, <2>1 DEF IsWalk
  <2>3. ArrayAt(ty, k, todo, f[j], n - j)
    BY <1>13
  <2>4. CASE f[j].r # "ready"
    <3>1. f[j + 1] = f[j]
      BY <2>2, <2>4 DEF StepAfter
    <3>2. ArrayAt(ty, k, todo, f[j + 1], n - (j + 1))
      BY <2>3, <2>4, <3>1 DEF ArrayAt
    <3>. QED BY <2>1, <3>2
  <2>5. CASE f[j].r = "ready"
    <3>1. f[j + 1] = PollItem(ty, f[j].s, f[j].sink)
      BY <1>6, <2>1, <2>2, <2>5 DEF StepAfter, Step
    <3>2. ItemsLeft(f[j].s) = n - j
      BY <2>3, <2>5 DEF ArrayAt
    <3>3. ArrayAt(ty, k, todo, PollItem(ty, f[j].s, f[j].sink), ItemsLeft(f[j].s) - 1)
      BY <1>8, <2>1, <2>3, <2>5, <3>2, StepOfItem DEF todo
    <3>4. ArrayAt(ty, k, todo, f[j + 1], n - (j + 1))
      BY <2>1, <3>1, <3>2, <3>3
    <3>. QED BY <2>1, <3>4
  <2>. QED BY <2>4, <2>5
<1>14. \A j \in 0 .. n : j \in D
  <2> HIDE DEF D
  <2>. QED BY <1>3, <1>12, <1>13, Induction
<1>15. ArrayAt(ty, k, todo, f[n], 0)
  <2>1. n \in 0 .. n /\ n - n = 0
    BY <1>3
  <2>2. ArrayAt(ty, k, todo, f[n], n - n)
    BY <1>14, <2>1
  <2>. QED BY <2>1, <2>2
<1>16. CASE f[n].r = "ready"
  <2> DEFINE u == f[n].s
             k2 == f[n].sink
  <2>1. /\ Going(ty, u) /\ ItemsLeft(u) = 0
        /\ Midway(k, todo, k2, Rest(ty, u, SinkPos(k2)))
    BY <1>15, <1>16 DEF ArrayAt
  <2> HIDE DEF u, k2
  <2>2. /\ u.awaiting \in BOOLEAN /\ Values(ty.of, u.items) /\ Len(u.items) \in Nat
        /\ IsRecord(u, ArrayNames)
        /\ IF u.awaiting THEN Idle(ty.of, u.item) ELSE Going(ty.of, u.item)
    BY <2>1, ArrayLevel DEF Values
  <2>3. u.awaiting = TRUE /\ Len(u.items) = 0
    BY <2>1, <2>2 DEF ItemsLeft
  <2>4. \A at \in Nat : Rest(ty, u, at) = << >>
    <3>1. TAKE at \in Nat
    <3>2. Rest(ty, u, at) = Elements(ty, u.items, at)
      BY <1>1, <2>2, <2>3, ArrayAwaits
    <3>3. Elements(ty, u.items, at) = << >>
      BY <1>1, <2>2, <2>3, NoElements
    <3>. QED BY <3>2, <3>3
  <2>5. Idle(ty.of, u.item) /\ Ended(ty.of, u.item)
    BY <1>1, <2>2, <2>3 DEF Finishing
  <2>6. Idle(ty, u) /\ Ended(ty, u)
    BY <2>2, <2>5, ArrayLevel
  <2>7. Over(ty, u)
    BY <2>1, <2>4, <2>6 DEF Over, AtRest
  <2>8. SinkPos(k2) \in Nat /\ << >> \in Bytes
    BY <2>1, MidwaySink, NoBytes
  <2>9. Outcome(k, todo, k2, "ready", << >>)
    BY <2>1, <2>4, <2>8 DEF Outcome, Stands
  <2>10. Answers(ty, k, todo, f[n])
    BY <1>16, <2>7, <2>8, <2>9 DEF Answers, u, k2
  <2>. QED BY <1>11, <2>10 DEF todo
<1>17. CASE f[n].r # "ready"
  BY <1>11, <1>15, <1>17 DEF ArrayAt, todo
<1>. QED BY <1>16, <1>17

\* An array keeps the promise if its elements do and if their serializer takes
\* one after the other.
LEMMA ArrayKeeps ==
  ASSUME NEW ty, AtLevel(ty), ty.k = "array", Regular(ty), Keeps(ty.of)
  PROVE  Keeps(ty)
<1>1. /\ Idle(ty.of, New(ty.of)) /\ Writes(ty.of) /\ Accepting(ty.of)
      /\ Finishing(ty.of) /\ Measured(ty.of)
  BY DEF Keeps
<1>2. ty.n \in Nat /\ Quiet(ty.of) /\ Reusable(ty.of)
  BY ArrayLevel
<1>3. \A v : IsValue(ty, v) => Values(ty.of, v) /\ Len(v) = ty.n
  <2>1. TAKE v
  <2>2. IsValue(ty, v) => AreValues(Alike(ty.of, ty.n), v, ty.n)
    <3>1. \A z : IsValue(ty, z) <=> AreValues(Alike(ty.of, ty.n), z, ty.n)
      BY ArrayLevel
    <3>. QED BY <3>1
  <2>. QED BY <1>2, <2>2, ValuesAre
<1>4. \A v, pos : Encoding(ty, v, pos) = Elements(ty, v, pos)
  BY ArrayLevel
<1>5. Idle(ty, New(ty))
  <2>1. New(ty) = NewArray(ty)
    BY ArrayLevel
  <2>2. IsRecord(NewArray(ty), ArrayNames) /\ NewArray(ty).item = New(ty.of)
    BY DEF NewArray, IsRecord, ArrayNames
  <2>3. \A s : IsRecord(s, ArrayNames) /\ Idle(ty.of, s.item) => Idle(ty, s)
    BY ArrayLevel
  <2>. QED BY <1>1, <2>1, <2>2, <2>3
<1>6. Writes(ty)
  <2>1. ASSUME NEW v, NEW pos, pos \in Nat, IsValue(ty, v)
        PROVE  Encoding(ty, v, pos) \in Bytes
    <3>1. Elements(ty, v, pos) \in Bytes
      BY <1>1, <1>3, <2>1, ElementsAreLaid
    <3>. QED BY <1>4, <3>1
  <2>2. ASSUME NEW s, NEW at, at \in Nat, Going(ty, s) PROVE Rest(ty, s, at) \in Bytes
    BY <1>1, <2>2, ArrayRestIsBytes
  <2>3. FieldEncoding(ty) \in Byte /\ Alignment(ty) \in Nat \ {0}
    <3>1. FieldEncoding(ty) = 0 /\ Alignment(ty) = Alignment(ty.of)
      BY ArrayLevel
    <3>. QED BY <1>1, <3>1 DEF Byte, Writes
  <2>. QED BY <2>1, <2>2, <2>3 DEF Writes
<1>7. Continuing(ty)
  BY <1>2, ArrayPoll DEF Continuing
<1>8. Accepting(ty)
  <2>1. SUFFICES ASSUME NEW s, NEW v, NEW k,
                        IsSink(k), Idle(ty, s), IsValue(ty, v),
                        Fits(k, Encoding(ty, v, SinkPos(k)))
                 PROVE  Answers(ty, k, Encoding(ty, v, SinkPos(k)), Input(ty, s, v, k))
    BY DEF Accepting
  <2> DEFINE t == [s EXCEPT !.items = v, !.started = TRUE, !.awaiting = TRUE]
  <2>2. SinkPos(k) \in Nat
    BY <2>1, AfterFacts, NoBytes
  <2>3. IsRecord(s, ArrayNames) /\ Idle(ty.of, s.item)
    BY <2>1, ArrayLevel
  <2>4. /\ IsRecord(t, ArrayNames) /\ t.items = v /\ t.started = TRUE
        /\ t.awaiting = TRUE /\ t.item = s.item
    BY <2>3 DEF IsRecord, ArrayNames
  <2>5. Input(ty, s, v, k) = Poll(ty, t, k)
    <3>1. /\ \A z, q, r : Input(ty, z, q, r) = InputArray(ty, z, q, r)
          /\ \A z, r : Poll(ty, z, r) = PollArray(ty, z, r)
      BY ArrayLevel
    <3>2. InputArray(ty, s, v, k) = PollArray(ty, t, k)
      BY DEF InputArray
    <3>. QED BY <3>1, <3>2
  <2> HIDE DEF t
  <2>6. Values(ty.of, v)
    BY <1>3, <2>1
  <2>7. Going(ty, t)
    BY <2>3, <2>4, <2>6, ArrayLevel
  <2>8. Rest(ty, t, SinkPos(k)) = Encoding(ty, v, SinkPos(k))
    <3>1. Rest(ty, t, SinkPos(k)) = Elements(ty, t.items, SinkPos(k))
      BY <1>1, <2>2, <2>4, <2>6, ArrayAwaits
    <3>. QED BY <1>4, <2>4, <3>1
  <2>. QED BY <1>7, <2>1, <2>5, <2>7, <2>8, AcceptsByPolling
<1>9. Finishing(ty)
  <2>1. /\ \A s, k : Finish(ty, s, k) = Finish(ty.of, s.item, k)
        /\ \A s : Ended(ty, s) => Ended(ty.of, s.item)
        /\ \A s : Idle(ty, s) => Idle(ty.of, s.item)
        /\ \A s : Ended(ty.of, s.item) => Ended(ty, s)
    BY ArrayLevel
  <2>. QED BY <1>1, <1>2, <2>1 DEF Finishing
<1>10. Measured(ty)
  <2>1. SUFFICES ASSUME Exact(ty), NEW v, NEW pos, pos \in Nat, IsValue(ty, v)
                 PROVE  MeasureBody(ty, v) = Len(Encoding(ty, v, pos))
    BY DEF Measured
  <2>2. Exact(ty.of) /\ MeasureBody(ty, v) = SumOf(Lens(ty.of, v))
    <3>1. Exact(ty.of) /\ \A z : MeasureBody(ty, z) = SumOf(Lens(ty.of, z))
      BY <2>1, ArrayLevel
    <3>. QED BY <3>1
  <2>3. Len(Elements(ty, v, pos)) = SumOf(Lens(ty.of, v))
    BY <1>1, <1>3, <2>1, <2>2, ElementsLength
  <2>. QED BY <1>4, <2>2, <2>3
<1>. QED BY <1>5, <1>6, <1>7, <1>8, <1>9, <1>10 DEF Keeps

-----------------------------------------------------------------------------
(* Enums *)

LEMMA EnumLevel ==
  ASSUME NEW ty, AtLevel(ty), ty.k = "enum"
  PROVE  /\ New(ty) = NewEnum
         /\ Alignment(ty) = 1 /\ FieldEncoding(ty) = 0
         /\ \A v, pos : Encoding(ty, v, pos) =
                 LE(4, v.tag) \o Encoding(ty.variants[v.tag + 1], v.val, pos + 4)
         /\ \A v : MeasureBody(ty, v) = MeasureEnum(ty, v)
         /\ \A s, v, k : Input(ty, s, v, k) = InputEnum(ty, s, v, k)
         /\ \A s, k : Poll(ty, s, k) = PollEnum(ty, s, k)
         /\ \A s, k : Finish(ty, s, k) = FinishEnum(ty, s, k)
         /\ \A v : IsValue(ty, v) <=> /\ v.tag \in 0 .. Len(ty.variants) - 1
                                      /\ IsValue(ty.variants[v.tag + 1], v.val)
         /\ \A s, at : Rest(ty, s, at) =
                 s.tag
                 \o IF s.payload = << >> THEN << >>
                    ELSE Left(ty.variants[s.variant], s.pending = << >>, s.payload[1],
                              s.pending, at + Len(s.tag))
         /\ \A s : Idle(ty, s) <=> IsRecord(s, EnumNames) /\ Ended(ty, s)
         /\ \A s : Going(ty, s) <=>
                 /\ IsRecord(s, EnumNames)
                 /\ s.tag \in Seq(Byte) /\ s.variant \in 1 .. Len(ty.variants)
                 /\ \/ s.payload = << >>
                    \/ /\ s.payload = <<s.payload[1]>>
                       /\ Underway(ty.variants[s.variant], s.pending = << >>,
                                   s.payload[1], s.pending)
         /\ \A s : Ended(ty, s) <=>
                 s.payload = << >> \/ (s.variant \in 1 .. Len(ty.variants)
                               /\ Ended(ty.variants[s.variant], s.payload[1]))
         /\ Reusable(ty)
         /\ Quiet(ty)
         /\ Exact(ty) <=> \A i \in 1 .. Len(ty.variants) : Exact(ty.variants[i])
         /\ Regular(ty) <=>
                 \A i \in 1 .. Len(ty.variants) :
                   /\ Regular(ty.variants[i]) /\ ty.variants[i].k = "record"
                   /\ IsUnit(ty.variants[i]) => ty.variants[i].key = 0
<1>1. New(ty) = NewEnum
  BY DEF AtLevel, NewOf, Leaf
<1>2. Alignment(ty) = 1 /\ FieldEncoding(ty) = 0
  BY DEF AtLevel, AlignmentOf, FieldEncodingOf, Leaf
<1>3. \A v, pos : Encoding(ty, v, pos) =
           LE(4, v.tag) \o Encoding(ty.variants[v.tag + 1], v.val, pos + 4)
  BY DEF AtLevel, EncodingOf, Leaf
<1>4. \A v : MeasureBody(ty, v) = MeasureEnum(ty, v)
  BY DEF AtLevel, MeasureBodyOf, Leaf
<1>5. \A s, v, k : Input(ty, s, v, k) = InputEnum(ty, s, v, k)
  BY DEF AtLevel, InputOf, Leaf
<1>6. \A s, k : Poll(ty, s, k) = PollEnum(ty, s, k)
  BY DEF AtLevel, PollOf, Leaf
<1>7. \A s, k : Finish(ty, s, k) = FinishEnum(ty, s, k)
  BY DEF AtLevel, FinishOf, Leaf
<1>8. \A v : IsValue(ty, v) <=> /\ v.tag \in 0 .. Len(ty.variants) - 1
                                /\ IsValue(ty.variants[v.tag + 1], v.val)
  BY DEF AtLevel, IsValueOf, Leaf
<1>9. \A s, at : Rest(ty, s, at) =
           s.tag
           \o IF s.payload = << >> THEN << >>
              ELSE Left(ty.variants[s.variant], s.pending = << >>, s.payload[1],
                        s.pending, at + Len(s.tag))
  BY DEF AtLevel, RestOf, Leaf
<1>10. \A s : Idle(ty, s) <=> IsRecord(s, EnumNames) /\ Ended(ty, s)
  BY DEF AtLevel, IdleOf, Leaf
<1>11. \A s : Going(ty, s) <=>
            /\ IsRecord(s, EnumNames)
            /\ s.tag \in Seq(Byte) /\ s.variant \in 1 .. Len(ty.variants)
            /\ \/ s.payload = << >>
               \/ /\ s.payload = <<s.payload[1]>>
                  /\ Underway(ty.variants[s.variant], s.pending = << >>,
                              s.payload[1], s.pending)
  BY DEF AtLevel, GoingOf, Leaf
<1>12. \A s : Ended(ty, s) <=>
            s.payload = << >> \/ (s.variant \in 1 .. Len(ty.variants)
                               /\ Ended(ty.variants[s.variant], s.payload[1]))
  BY DEF AtLevel, EndedOf, Leaf
<1>13. Reusable(ty)
  BY DEF AtLevel, ReusableOf, Leaf
<1>14. Quiet(ty)
  BY DEF AtLevel, QuietOf, Leaf
<1>15. Exact(ty) <=> \A i \in 1 .. Len(ty.variants) : Exact(ty.variants[i])
  BY DEF AtLevel, ExactOf, Leaf
<1>16. Regular(ty) <=>
            \A i \in 1 .. Len(ty.variants) :
              /\ Regular(ty.variants[i]) /\ ty.variants[i].k = "record"
              /\ IsUnit(ty.variants[i]) => ty.variants[i].key = 0
  BY DEF AtLevel, RegularOf, Leaf
<1>. QED BY <1>1, <1>2, <1>3, <1>4, <1>5, <1>6, <1>7, <1>8, <1>9, <1>10,
         <1>11, <1>12, <1>13, <1>14, <1>15, <1>16

\* The records of the variants are at their level and keep the promise.
VariantsKeep(ty) ==
  /\ Len(ty.variants) \in Nat
  /\ \A i \in 1 .. Len(ty.variants) : AtLevel(ty.variants[i]) /\ Keeps(ty.variants[i])

\* What is left behind the tag.
VariantRest(ty, s, at) ==
  IF s.payload = << >> THEN << >>
  ELSE Left(ty.variants[s.variant], s.pending = << >>, s.payload[1], s.pending, at)

LEMMA PayloadIsBytes ==
  ASSUME NEW ty, NEW s, NEW at,
         AtLevel(ty), ty.k = "enum", VariantsKeep(ty), Going(ty, s), at \in Nat
  PROVE  VariantRest(ty, s, at) \in Bytes
<1> DEFINE begun == s.pending = << >>
<1>1. /\ s.variant \in 1 .. Len(ty.variants)
      /\ s.payload # << >> => Underway(ty.variants[s.variant], begun,
                                       s.payload[1], s.pending)
  BY EnumLevel
<1>2. Keeps(ty.variants[s.variant])
  BY <1>1 DEF VariantsKeep
<1>3. begun \in BOOLEAN
  OBVIOUS
<1>4. VariantRest(ty, s, at) =
        IF s.payload = << >> THEN << >>
        ELSE Left(ty.variants[s.variant], begun, s.payload[1], s.pending, at)
  BY DEF VariantRest
<1> HIDE DEF begun
<1>. QED BY <1>1, <1>2, <1>3, <1>4, LeftIsBytes, NoBytes

LEMMA EnumRestIs ==
  ASSUME NEW ty, NEW s, NEW at, AtLevel(ty), ty.k = "enum"
  PROVE  Rest(ty, s, at) = s.tag \o VariantRest(ty, s, at + Len(s.tag))
<1>1. \A z, p : Rest(ty, z, p) =
        z.tag
        \o IF z.payload = << >> THEN << >>
           ELSE Left(ty.variants[z.variant], z.pending = << >>, z.payload[1],
                     z.pending, p + Len(z.tag))
  BY EnumLevel
<1>. QED BY <1>1 DEF VariantRest

LEMMA EnumPoll ==
  ASSUME NEW ty, NEW s, NEW k, AtLevel(ty), ty.k = "enum", VariantsKeep(ty),
         Going(ty, s), IsSink(k), Fits(k, Rest(ty, s, SinkPos(k)))
  PROVE  Answers(ty, k, Rest(ty, s, SinkPos(k)), Poll(ty, s, k))
<1> DEFINE w == Write(s.tag, k)
           p == SinkPos(k)
           x == VariantRest(ty, s, p + Len(s.tag))
           todo == s.tag \o x
           record == ty.variants[s.variant]
           begun == s.pending = << >>
           t == [s EXCEPT !.tag = w.s]
           a == Poll(ty, s, k)
<1>a. a = EnumAfterTag(s, record, w)
  <2>1. \A z, q : Poll(ty, z, q) = PollEnum(ty, z, q)
    BY EnumLevel
  <2>. QED BY <2>1 DEF PollEnum, PollTag
<1>b. \A z : Going(ty, z) <=>
        /\ IsRecord(z, EnumNames)
        /\ z.tag \in Bytes /\ z.variant \in 1 .. Len(ty.variants)
        /\ \/ z.payload = << >>
           \/ /\ z.payload = <<z.payload[1]>>
              /\ Underway(ty.variants[z.variant], z.pending = << >>,
                          z.payload[1], z.pending)
  BY EnumLevel DEF Bytes
<1>c. << >> \o << >> = << >> /\ << >> \in Bytes /\ Len(<< >>) = 0
  BY NoBytes, Joins
<1>d. \A z : IsRecord(z, EnumNames) /\ Ended(ty, z) /\ Going(ty, z) => AtRest(ty, z)
  BY EnumLevel DEF AtRest
<1>1. /\ IsRecord(s, EnumNames) /\ s.tag \in Bytes
      /\ s.variant \in 1 .. Len(ty.variants)
      /\ s.payload # << >> => /\ s.payload = <<s.payload[1]>>
                              /\ Underway(record, begun, s.payload[1], s.pending)
  BY <1>b
<1>2. Keeps(record)
  BY <1>1 DEF VariantsKeep
<1>3. Len(s.tag) \in Nat /\ p \in Nat
  BY <1>1, NoBytes, NoLength, AfterFacts
<1>4. x \in Bytes
  <2>1. p + Len(s.tag) \in Nat
    BY <1>3
  <2>. QED BY <2>1, PayloadIsBytes
<1>5. Rest(ty, s, p) = todo /\ todo = s.tag \o x /\ todo \in Bytes
  <2>1. Rest(ty, s, p) = s.tag \o VariantRest(ty, s, p + Len(s.tag))
    BY EnumRestIs
  <2>2. Rest(ty, s, p) = todo /\ todo = s.tag \o x
    BY <2>1
  <2> HIDE DEF x
  <2>. QED BY <1>1, <1>4, <2>2, Joins
<1>6. Outcome(k, s.tag, w.sink, w.r, w.s)
  BY <1>1, WriteOutcome
<1> HIDE DEF w, p, x, todo
<1>7. /\ Midway(k, todo, w.sink, w.s \o x) /\ IsSink(w.sink)
      /\ w.s \in Bytes /\ w.s \o x \in Bytes
      /\ w.r # "ready" => Stands(w.sink, w.r, w.s \o x)
      /\ w.r = "ready" => w.s = << >> /\ w.s \o x = x
      /\ SinkPos(w.sink) \in Nat /\ SinkPos(w.sink) + Len(w.s) = p + Len(s.tag)
  <2>1. Continued(k, s.tag \o x, k, s.tag, x, w.sink, w.r, w.s)
    BY <1>1, <1>4, <1>6, FirstOfTwo
  <2>. QED BY <1>5, <2>1 DEF Continued, p
<1>8. IsRecord(t, EnumNames) /\ t.tag = w.s /\ t.variant = s.variant
      /\ t.payload = s.payload /\ t.pending = s.pending
  BY <1>1 DEF IsRecord, EnumNames
<1> HIDE DEF t
<1>9. CASE w.r # "ready" \/ s.payload = << >>
  <2>1. a.s = t /\ a.sink = w.sink /\ a.r = w.r
    BY <1>a, <1>9 DEF EnumAfterTag, Answer, t
  <2>2. Going(ty, t)
    BY <1>1, <1>b, <1>7, <1>8
  <2>3. Rest(ty, t, SinkPos(w.sink)) = w.s \o x
    <3>1. Rest(ty, t, SinkPos(w.sink)) = t.tag \o VariantRest(ty, t, SinkPos(w.sink) + Len(t.tag))
      BY EnumRestIs
    <3>2. SinkPos(w.sink) + Len(t.tag) = p + Len(s.tag)
      BY <1>7, <1>8
    <3>3. VariantRest(ty, t, p + Len(s.tag)) = x
      BY <1>8 DEF x, VariantRest
    <3>. QED BY <1>8, <3>1, <3>2, <3>3
  <2>4. w.r = "ready" => x = << >>
    BY <1>9 DEF x, VariantRest
  <2>5. Outcome(k, todo, w.sink, w.r, w.s \o x)
    BY <1>7, <2>4 DEF Outcome, Stands
  <2>6. w.r = "ready" => Over(ty, t)
    <3>1. SUFFICES ASSUME w.r = "ready" PROVE Over(ty, t)
      OBVIOUS
    <3>2. t.payload = << >> /\ t.tag = << >>
      BY <1>7, <1>8, <1>9, <3>1
    <3>3. AtRest(ty, t)
      BY <1>8, <1>d, <2>2, <3>2, EnumLevel
    <3>4. \A at : Rest(ty, t, at) = << >>
      BY <1>c, <3>2, EnumRestIs DEF VariantRest
    <3>. QED BY <2>2, <3>3, <3>4 DEF Over
  <2>. QED BY <1>5, <1>7, <2>1, <2>2, <2>3, <2>5, <2>6 DEF Answers, p
<1>10. CASE w.r = "ready" /\ s.payload # << >>
  <2> DEFINE i == IF begun THEN Poll(record, s.payload[1], w.sink)
                  ELSE Input(record, s.payload[1], s.pending[1], w.sink)
             u == [t EXCEPT !.pending = << >>, !.payload = <<i.s>>]
  <2>1. a.s = u /\ a.sink = i.sink /\ a.r = i.r
    <3>1. a = EnumAfterPayload(t, IF s.pending # << >>
                                  THEN Input(record, s.payload[1], s.pending[1], w.sink)
                                  ELSE Poll(record, s.payload[1], w.sink))
      BY <1>a, <1>10 DEF EnumAfterTag, t
    <3>2. a = EnumAfterPayload(t, i)
      BY <3>1
    <3> HIDE DEF i, a
    <3>. QED BY <3>2 DEF EnumAfterPayload, Answer
  <2>2. /\ w.s = << >> /\ SinkPos(w.sink) = p + Len(s.tag)
        /\ Midway(k, todo, w.sink, x)
    <3>1. SinkPos(w.sink) + 0 = SinkPos(w.sink)
      BY <1>7
    <3>. QED BY <1>7, <1>10, <3>1, NoBytes
  <2>3. x = Left(record, begun, s.payload[1], s.pending, SinkPos(w.sink))
    BY <1>10, <2>2 DEF x, VariantRest
  <2>4. Fits(w.sink, x)
    BY <1>4, <1>5, <2>2, FitsMidway DEF p
  <2>5. begun \in BOOLEAN
    OBVIOUS
  <2> HIDE DEF begun, record
  <2>6. Answers(record, w.sink, x, i)
    BY <1>1, <1>2, <1>7, <1>10, <2>3, <2>4, <2>5, Resumes
  <2> HIDE DEF i
  <2>7. PICK rest \in Bytes :
          /\ Outcome(w.sink, x, i.sink, i.r, rest)
          /\ i.r = "ready" => Over(record, i.s)
          /\ i.r = "pending" => /\ Going(record, i.s)
                                /\ Rest(record, i.s, SinkPos(i.sink)) = rest
    BY <2>6 DEF Answers
  <2>8. Outcome(k, todo, i.sink, i.r, rest) /\ IsSink(i.sink)
    BY <1>4, <2>2, <2>7, FurtherToTheEnd
  <2>9. /\ IsRecord(u, EnumNames) /\ u.tag = << >> /\ u.variant = s.variant
        /\ u.pending = << >> /\ u.payload = <<i.s>>
    BY <1>8, <2>2 DEF IsRecord, EnumNames
  <2> HIDE DEF u
  <2>10. /\ u.payload # << >> /\ u.payload[1] = i.s
         /\ u.payload = <<u.payload[1]>>
         /\ record = ty.variants[u.variant]
    <3>1. <<i.s>> # << >> /\ <<i.s>>[1] = i.s
      OBVIOUS
    <3>. QED BY <2>9, <3>1 DEF record
  <2>11. Going(record, i.s) => Going(ty, u)
    BY <1>1, <1>b, <1>c, <2>9, <2>10 DEF Underway
  <2>12. ASSUME NEW at \in Nat
         PROVE  Rest(ty, u, at) = << >> \o Rest(record, i.s, at)
    <3>1. at + Len(<< >>) = at
      BY <1>c
    <3>2. Rest(ty, u, at) = u.tag \o VariantRest(ty, u, at + Len(u.tag))
      BY EnumRestIs
    <3>3. VariantRest(ty, u, at) = Rest(record, i.s, at)
      BY <2>9, <2>10 DEF VariantRest, Left
    <3>. QED BY <2>9, <3>1, <3>2, <3>3
  <2>13. i.r = "ready" => Over(ty, u)
    <3>1. SUFFICES ASSUME i.r = "ready" PROVE Over(ty, u)
      OBVIOUS
    <3>2. Going(record, i.s) /\ Ended(record, i.s) /\ \A at \in Nat : Rest(record, i.s, at) = << >>
      BY <2>7, <3>1 DEF Over, AtRest
    <3>3. Ended(ty, u)
      BY <1>1, <2>9, <2>10, <3>2, EnumLevel
    <3>4. AtRest(ty, u)
      BY <1>d, <2>9, <2>11, <3>2, <3>3
    <3>5. \A at \in Nat : Rest(ty, u, at) = << >>
      BY <1>c, <2>12, <3>2
    <3>. QED BY <2>11, <3>2, <3>4, <3>5 DEF Over
  <2>14. i.r = "pending" => Going(ty, u) /\ Rest(ty, u, SinkPos(i.sink)) = rest
    <3>1. SinkPos(i.sink) \in Nat
      BY <2>8, AfterFacts, NoBytes
    <3>2. << >> \o rest = rest
      BY Joins, NoBytes
    <3>. QED BY <2>7, <2>11, <2>12, <3>1, <3>2
  <2>. QED BY <1>5, <2>1, <2>7, <2>8, <2>13, <2>14 DEF Answers, p
<1>. QED BY <1>9, <1>10

\* A variant without fields has no bytes but its tag.
LEMMA UnitVariant ==
  ASSUME NEW record, NEW v, NEW pos, pos \in Nat,
         AtLevel(record), IsUnit(record), record.key = 0
  PROVE  Encoding(record, v, pos) = << >>
<1> DEFINE types == FieldTypes(record)
           w == FieldValues(record, v)
<1>1. record.k = "record" /\ Len(record.fields) = 0
  BY NoBytes DEF IsUnit
<1>2. \A z, p : Encoding(record, z, p) = RecordEncoding(record, z, p)
  BY <1>1 DEF AtLevel, EncodingOf, Leaf
<1>3. RecordEncoding(record, v, pos) = FlattenSeq(Parts(types, w, pos, 0))
  BY <1>1 DEF RecordEncoding, FieldParts
<1> HIDE DEF types, w
<1>4. FlattenSeq(Parts(types, w, pos, 0)) = Laid(Items(types, w, 0), pos)
  <2>1. 0 \in Nat /\ \A i \in 1 .. 0 : \A p \in Nat : Encoding(types[i], w[i], p) \in Bytes
    OBVIOUS
  <2>. QED BY <2>1, PartsAreLaid
<1>. QED BY <1>2, <1>3, <1>4, NoItems

\* The tag, then the record of the variant.
Tagged(ty, v, pos) ==
  LET record == ty.variants[v.tag + 1]
      x == Encoding(record, v.val, pos + 4)
  IN  /\ v.tag \in Nat /\ v.tag + 1 \in 1 .. Len(ty.variants)
      /\ AtLevel(record) /\ Keeps(record) /\ record.k = "record"
      /\ IsValue(record, v.val)
      /\ LE(4, v.tag) \in Bytes /\ Len(LE(4, v.tag)) = 4
      /\ pos + 4 \in Nat /\ x \in Bytes
      /\ IsUnit(record) => x = << >>
      /\ Encoding(ty, v, pos) = LE(4, v.tag) \o x

LEMMA EnumEncoding ==
  ASSUME NEW ty, NEW v, NEW pos, pos \in Nat,
         AtLevel(ty), ty.k = "enum", Regular(ty), VariantsKeep(ty), IsValue(ty, v)
  PROVE  Tagged(ty, v, pos)
<1> DEFINE record == ty.variants[v.tag + 1]
<1>1. v.tag \in 0 .. Len(ty.variants) - 1 /\ IsValue(record, v.val)
  BY EnumLevel
<1>2. Len(ty.variants) \in Nat
  BY DEF VariantsKeep
<1>3. v.tag \in Nat /\ v.tag + 1 \in 1 .. Len(ty.variants) /\ pos + 4 \in Nat
  BY <1>1, <1>2
<1>4. AtLevel(record) /\ Keeps(record)
  BY <1>3 DEF VariantsKeep
<1>5. record.k = "record" /\ (IsUnit(record) => record.key = 0)
  BY <1>3, EnumLevel
<1>6. \A z, p : Encoding(ty, z, p) =
        LE(4, z.tag) \o Encoding(ty.variants[z.tag + 1], z.val, p + 4)
  BY EnumLevel
<1> HIDE DEF record
<1>7. Encoding(record, v.val, pos + 4) \in Bytes
  BY <1>1, <1>3, <1>4 DEF Keeps, Writes
<1>8. IsUnit(record) => Encoding(record, v.val, pos + 4) = << >>
  BY <1>3, <1>4, <1>5, UnitVariant
<1>9. LE(4, v.tag) \in Bytes /\ Len(LE(4, v.tag)) = 4
  <2>1. 4 \in 0 .. 4
    OBVIOUS
  <2>. QED BY <1>3, <2>1, LEIsBytes
<1>. QED BY <1>1, <1>3, <1>4, <1>5, <1>6, <1>7, <1>8, <1>9 DEF record, Tagged

\* An enum keeps the promise if the records of its variants do.
LEMMA EnumKeeps ==
  ASSUME NEW ty, AtLevel(ty), ty.k = "enum", Regular(ty), VariantsKeep(ty)
  PROVE  Keeps(ty)
<1>1. Idle(ty, New(ty))
  <2>1. New(ty) = NewEnum
    BY EnumLevel
  <2>2. IsRecord(NewEnum, EnumNames) /\ NewEnum.payload = << >>
    BY DEF NewEnum, IsRecord, EnumNames
  <2>3. \A s : IsRecord(s, EnumNames) /\ Ended(ty, s) => Idle(ty, s)
    BY EnumLevel
  <2>4. Ended(ty, NewEnum)
    BY <2>2, EnumLevel
  <2>. QED BY <2>1, <2>2, <2>3, <2>4
<1>2. Writes(ty)
  <2>1. ASSUME NEW v, NEW pos, pos \in Nat, IsValue(ty, v)
        PROVE  Encoding(ty, v, pos) \in Bytes
    <3> DEFINE x == Encoding(ty.variants[v.tag + 1], v.val, pos + 4)
    <3>1. /\ LE(4, v.tag) \in Bytes /\ x \in Bytes
          /\ Encoding(ty, v, pos) = LE(4, v.tag) \o x
      <4>1. Tagged(ty, v, pos)
        BY <2>1, EnumEncoding
      <4>. QED BY <4>1 DEF Tagged
    <3> HIDE DEF x
    <3>. QED BY <3>1, Joins
  <2>2. ASSUME NEW s, NEW at, at \in Nat, Going(ty, s) PROVE Rest(ty, s, at) \in Bytes
    <3>1. s.tag \in Bytes
      BY <2>2, EnumLevel DEF Bytes
    <3>2. at + Len(s.tag) \in Nat
      BY <2>2, <3>1, NoLength
    <3>3. VariantRest(ty, s, at + Len(s.tag)) \in Bytes
      BY <2>2, <3>2, PayloadIsBytes
    <3>4. Rest(ty, s, at) = s.tag \o VariantRest(ty, s, at + Len(s.tag))
      BY EnumRestIs
    <3>. QED BY <3>1, <3>3, <3>4, Joins
  <2>3. FieldEncoding(ty) \in Byte /\ Alignment(ty) \in Nat \ {0}
    <3>1. FieldEncoding(ty) = 0 /\ Alignment(ty) = 1
      BY EnumLevel
    <3>. QED BY <3>1 DEF Byte
  <2>. QED BY <2>1, <2>2, <2>3 DEF Writes
<1>3. Continuing(ty)
  BY EnumPoll DEF Continuing
<1>4. Accepting(ty)
  <2>1. SUFFICES ASSUME NEW s, NEW v, NEW k,
                        IsSink(k), Idle(ty, s), IsValue(ty, v),
                        Fits(k, Encoding(ty, v, SinkPos(k)))
                 PROVE  Answers(ty, k, Encoding(ty, v, SinkPos(k)), Input(ty, s, v, k))
    BY DEF Accepting
  <2> DEFINE p == SinkPos(k)
             record == ty.variants[v.tag + 1]
             x == Encoding(record, v.val, p + 4)
             t == [tag |-> LE(4, v.tag), variant |-> v.tag + 1, pending |-> <<v.val>>,
                   payload |-> IF IsUnit(record) THEN << >> ELSE <<New(record)>>]
  <2>2. p \in Nat
    BY <2>1, AfterFacts, NoBytes
  <2>3. /\ v.tag + 1 \in 1 .. Len(ty.variants)
        /\ Keeps(record) /\ IsValue(record, v.val)
        /\ LE(4, v.tag) \in Bytes /\ Len(LE(4, v.tag)) = 4
        /\ IsUnit(record) => x = << >>
        /\ Encoding(ty, v, p) = LE(4, v.tag) \o x
    BY <2>1, <2>2, EnumEncoding DEF Tagged
  <2>4. Input(ty, s, v, k) = Poll(ty, t, k)
    <3>1. /\ \A z, q, r : Input(ty, z, q, r) = InputEnum(ty, z, q, r)
          /\ \A z, r : Poll(ty, z, r) = PollEnum(ty, z, r)
      BY EnumLevel
    <3>2. InputEnum(ty, s, v, k) = PollEnum(ty, t, k)
      BY DEF InputEnum
    <3>. QED BY <3>1, <3>2
  <2>5. /\ IsRecord(t, EnumNames) /\ t.tag = LE(4, v.tag) /\ t.variant = v.tag + 1
        /\ t.pending = <<v.val>>
        /\ t.payload = IF IsUnit(record) THEN << >> ELSE <<New(record)>>
    BY DEF IsRecord, EnumNames
  <2> HIDE DEF t
  <2>6. /\ t.pending # << >> /\ t.pending[1] = v.val /\ t.pending = <<t.pending[1]>>
        /\ ty.variants[t.variant] = record
    <3>1. <<v.val>> # << >> /\ <<v.val>>[1] = v.val
      OBVIOUS
    <3>. QED BY <2>5, <3>1
  <2> HIDE DEF record
  <2>7. ~IsUnit(record) => /\ t.payload = <<t.payload[1]>> /\ t.payload[1] = New(record)
                           /\ t.payload # << >>
    <3>1. <<New(record)>> # << >> /\ <<New(record)>>[1] = New(record)
      OBVIOUS
    <3>. QED BY <2>5, <3>1
  <2>8. Idle(record, New(record))
    BY <2>3 DEF Keeps
  <2>9. ~IsUnit(record) => Underway(record, t.pending = << >>, t.payload[1], t.pending)
    <3> DEFINE begun == t.pending = << >>
    <3>1. begun = FALSE
      BY <2>6
    <3> HIDE DEF begun
    <3>2. ~IsUnit(record) => Underway(record, begun, t.payload[1], t.pending)
      BY <2>3, <2>6, <2>7, <2>8, <3>1 DEF Underway
    <3>. QED BY <3>2 DEF begun
  <2>10. Going(ty, t)
    <3>1. \A z : /\ IsRecord(z, EnumNames)
                 /\ z.tag \in Bytes /\ z.variant \in 1 .. Len(ty.variants)
                 /\ \/ z.payload = << >>
                    \/ /\ z.payload = <<z.payload[1]>>
                       /\ Underway(ty.variants[z.variant], z.pending = << >>,
                                   z.payload[1], z.pending)
                 => Going(ty, z)
      BY EnumLevel DEF Bytes
    <3>2. IsUnit(record) => t.payload = << >>
      BY <2>5
    <3>. QED BY <2>3, <2>5, <2>6, <2>7, <2>9, <3>1, <3>2
  <2>11. Rest(ty, t, p) = Encoding(ty, v, p)
    <3>1. Rest(ty, t, p) = t.tag \o VariantRest(ty, t, p + Len(t.tag))
      BY EnumRestIs
    <3>2. VariantRest(ty, t, p + 4) = x
      <4>1. CASE IsUnit(record)
        BY <2>3, <2>5, <4>1 DEF VariantRest
      <4>2. CASE ~IsUnit(record)
        BY <2>6, <2>7, <4>2 DEF VariantRest, Left
      <4>. QED BY <4>1, <4>2
    <3> HIDE DEF x, p
    <3>. QED BY <2>3, <2>5, <3>1, <3>2
  <2>. QED BY <1>3, <2>1, <2>4, <2>10, <2>11, AcceptsByPolling
<1>5. Finishing(ty)
  <2>1. ASSUME NEW s, NEW k, Ended(ty, s)
        PROVE  Finish(ty, s, k).r = "ready" /\ Finish(ty, s, k).sink = k
    <3>1. s.payload = << >> \/ (s.variant \in 1 .. Len(ty.variants)
                               /\ Ended(ty.variants[s.variant], s.payload[1]))
      BY <2>1, EnumLevel
    <3>2. Finish(ty, s, k) = FinishEnum(ty, s, k)
      <4>1. \A z, q : Finish(ty, z, q) = FinishEnum(ty, z, q)
        BY EnumLevel
      <4>. QED BY <4>1
    <3>3. CASE s.payload = << >>
      BY <3>2, <3>3 DEF FinishEnum, Answer
    <3>4. CASE s.payload # << >>
      <4>1. Finish(ty, s, k) = Finish(ty.variants[s.variant], s.payload[1], k)
        BY <3>2, <3>4 DEF FinishEnum
      <4>2. Finishing(ty.variants[s.variant])
        BY <3>1, <3>4 DEF VariantsKeep, Keeps
      <4>. QED BY <3>1, <3>4, <4>1, <4>2 DEF Finishing
    <3>. QED BY <3>3, <3>4
  <2>2. ASSUME NEW s, Idle(ty, s) PROVE Ended(ty, s)
    BY <2>2, EnumLevel
  <2>. QED BY <2>1, <2>2 DEF Finishing
<1>6. Measured(ty)
  <2>1. SUFFICES ASSUME Exact(ty), NEW v, NEW pos, pos \in Nat, IsValue(ty, v)
                 PROVE  MeasureBody(ty, v) = Len(Encoding(ty, v, pos))
    BY DEF Measured
  <2> DEFINE record == ty.variants[v.tag + 1]
             x == Encoding(record, v.val, pos + 4)
  <2>2. /\ v.tag + 1 \in 1 .. Len(ty.variants) /\ pos + 4 \in Nat
        /\ AtLevel(record) /\ Keeps(record) /\ record.k = "record"
        /\ IsValue(record, v.val) /\ x \in Bytes
        /\ LE(4, v.tag) \in Bytes /\ Len(LE(4, v.tag)) = 4
        /\ Encoding(ty, v, pos) = LE(4, v.tag) \o x
    <3>1. Tagged(ty, v, pos)
      BY <2>1, EnumEncoding
    <3>. QED BY <3>1 DEF Tagged
  <2>3. Exact(record)
    BY <2>1, <2>2, EnumLevel
  <2>4. MeasureBody(ty, v) = 4 + MeasureRecord(record, v.val)
    <3>1. \A z : MeasureBody(ty, z) = MeasureEnum(ty, z)
      BY EnumLevel
    <3>. QED BY <3>1 DEF MeasureEnum
  <2> HIDE DEF record
  <2>5. MeasureBody(record, v.val) = MeasureRecord(record, v.val)
    BY <2>2 DEF AtLevel, MeasureBodyOf, Leaf
  <2>6. MeasureBody(record, v.val) = Len(x)
    BY <2>2, <2>3 DEF Keeps, Measured
  <2> HIDE DEF x
  <2>7. Len(Encoding(ty, v, pos)) = 4 + Len(x)
    BY <2>2, Joins
  <2>. QED BY <2>4, <2>5, <2>6, <2>7
<1>. QED BY <1>1, <1>2, <1>3, <1>4, <1>5, <1>6 DEF Keeps
=============================================================================
