--------------------------- MODULE RecursionProofs ---------------------------
(***************************************************************************)
(* Induction on the natural numbers and definition by recursion, stated    *)
(* about sets and functions so that the other proofs can cite them for the *)
(* functions they recur with; and the codec of the variable-length         *)
(* integers, which is one of these: what is written is read back, and no   *)
(* encoding is the beginning of another; and the bytes of packed values.   *)
(***************************************************************************)
EXTENDS Integers, Sequences, VarIntCodec, BitPacking, WellFoundedInduction, TLAPS

\* A set of numbers that is not empty has a least element.
LEMMA LeastNumber ==
  ASSUME NEW T \in SUBSET Nat, T # {}
  PROVE  \E x \in T : \A y \in T : x <= y
<1> DEFINE R == {p \in Nat \X Nat : p[1] < p[2]}
<1>1. IsWellFoundedOn(R, Nat)
  BY NatLessThanWellFounded DEF OpToRel
<1>2. PICK x \in T : \A y \in T : ~ (<<y, x>> \in R)
  <2> HIDE DEF R
  <2>. QED BY <1>1, WFMin
<1>3. ASSUME NEW y \in T PROVE x <= y
  <2>1. <<y, x>> \in Nat \X Nat /\ <<y, x>>[1] = y /\ <<y, x>>[2] = x
    OBVIOUS
  <2>2. ~(y < x)
    BY <1>2, <2>1
  <2>. QED BY <2>2
<1>. QED BY <1>3

\* Induction up to n.
LEMMA Induction ==
  ASSUME NEW n \in Nat, NEW S, 0 \in S,
         \A k \in 0 .. n - 1 : k \in S => k + 1 \in S
  PROVE  \A k \in 0 .. n : k \in S
<1>1. SUFFICES ASSUME (0 .. n) \ S # {} PROVE FALSE
  OBVIOUS
<1>2. PICK x \in (0 .. n) \ S : \A y \in (0 .. n) \ S : x <= y
  <2>1. (0 .. n) \ S \in SUBSET Nat
    OBVIOUS
  <2>. QED BY <1>1, <2>1, LeastNumber
<1>3. x # 0 /\ x - 1 \in 0 .. n - 1
  BY <1>2
<1>4. x - 1 \in S
  BY <1>2, <1>3
<1>5. (x - 1) + 1 = x
  BY <1>2
<1>. QED BY <1>2, <1>3, <1>4, <1>5

\* The functions defined on 0 .. n by their value at 0 and a step.
Recursions(n, S, c, step) ==
  {f \in [0 .. n -> S] : f[0] = c /\ \A i \in 1 .. n : f[i] = step[i][f[i - 1]]}

\* A function that is defined by its value at 0 and a step exists.
LEMMA Recursion ==
  ASSUME NEW n \in Nat, NEW S, NEW c \in S, NEW step \in [1 .. n -> [S -> S]]
  PROVE  Recursions(n, S, c, step) # {}
<1> DEFINE Upto(k) == Recursions(k, S, c, step)
           D == {k \in 0 .. n : Upto(k) # {}}
<1>1. 0 \in D
  <2>1. [i \in 0 .. 0 |-> c] \in Upto(0)
    BY DEF Recursions
  <2>. QED BY <2>1
<1>2. ASSUME NEW k \in 0 .. n - 1, k \in D
      PROVE  k + 1 \in D
  <2>1. PICK f : f \in Upto(k)
    BY <1>2
  <2>2. f \in [0 .. k -> S] /\ f[0] = c
        /\ \A i \in 1 .. k : f[i] = step[i][f[i - 1]]
    BY <2>1 DEF Recursions
  <2> DEFINE g == [i \in 0 .. k + 1 |->
                     IF i = k + 1 THEN step[k + 1][f[k]] ELSE f[i]]
  <2>3. step[k + 1][f[k]] \in S
    BY <2>2
  <2>4. g \in [0 .. k + 1 -> S] /\ g[0] = c
    BY <2>2, <2>3
  <2>5. ASSUME NEW i \in 1 .. k + 1
        PROVE  g[i] = step[i][g[i - 1]]
    <3>1. i - 1 \in 0 .. k /\ g[i - 1] = f[i - 1]
      OBVIOUS
    <3>2. CASE i = k + 1
      BY <3>1, <3>2
    <3>3. CASE i # k + 1
      <4>1. i \in 1 .. k /\ g[i] = f[i]
        BY <3>3
      <4>. QED BY <2>2, <3>1, <4>1
    <3>. QED BY <3>2, <3>3
  <2> HIDE DEF g
  <2>6. g \in Upto(k + 1)
    BY <2>4, <2>5 DEF Recursions
  <2>. QED BY <2>6
<1> HIDE DEF D
<1>3. \A k \in 0 .. n : k \in D
  BY <1>1, <1>2, Induction
<1>4. n \in D
  BY <1>3
<1>. QED BY <1>4 DEF D, Recursions
-----------------------------------------------------------------------------
(* The base-128 encoding of every number *)

Octet == 0 .. 255

\* f is the table of encodings up to n.
IsTable(f, n) ==
  f = [v \in 0 .. n |->
         IF v < 128 THEN <<v>> ELSE <<(v % 128) + 128>> \o f[v \div 128]]

LEMMA Quotient ==
  ASSUME NEW n \in Nat, n >= 128
  PROVE  n \div 128 \in 0 .. n - 1 /\ (n % 128) + 128 \in Octet
BY DEF Octet

LEMMA TableEntry ==
  ASSUME NEW n \in Nat, NEW f, IsTable(f, n), NEW v \in 0 .. n
  PROVE  f[v] = IF v < 128 THEN <<v>>
                ELSE <<(v % 128) + 128>> \o f[v \div 128]
<1> DEFINE Entry(x) == IF x < 128 THEN <<x>>
                       ELSE <<(x % 128) + 128>> \o f[x \div 128]
<1>1. f = [x \in 0 .. n |-> Entry(x)]
  BY DEF IsTable
<1> HIDE DEF Entry
<1>2. f[v] = Entry(v)
  BY <1>1
<1>. QED BY <1>2 DEF Entry

LEMMA TableExists ==
  ASSUME NEW n \in Nat
  PROVE  \E f \in [0 .. n -> Seq(Octet)] : IsTable(f, n)
<1> DEFINE D == {k \in 0 .. n : \E f \in [0 .. k -> Seq(Octet)] : IsTable(f, k)}
<1>1. 0 \in D
  <2> DEFINE f == [v \in 0 .. 0 |-> <<0>>]
  <2>1. f \in [0 .. 0 -> Seq(Octet)]
    <3>1. <<0>> \in Seq(Octet)
      BY DEF Octet
    <3>. QED BY <3>1
  <2>2. IsTable(f, 0)
    BY DEF IsTable
  <2> HIDE DEF f
  <2>. QED BY <2>1, <2>2
<1>2. ASSUME NEW k \in 0 .. n - 1, k \in D
      PROVE  k + 1 \in D
  <2>1. PICK f \in [0 .. k -> Seq(Octet)] : IsTable(f, k)
    BY <1>2
  <2> DEFINE last == IF k + 1 < 128 THEN <<k + 1>>
                     ELSE <<((k + 1) % 128) + 128>> \o f[(k + 1) \div 128]
             g == [v \in 0 .. k + 1 |-> IF v = k + 1 THEN last ELSE f[v]]
  <2>2. last \in Seq(Octet)
    <3>1. CASE k + 1 < 128
      BY <3>1 DEF Octet
    <3>2. CASE k + 1 >= 128
      <4>1. /\ (k + 1) \div 128 \in 0 .. k
            /\ ((k + 1) % 128) + 128 \in Octet
        BY <3>2, Quotient
      <4>2. <<((k + 1) % 128) + 128>> \in Seq(Octet)
        BY <4>1
      <4>3. f[(k + 1) \div 128] \in Seq(Octet)
        BY <4>1
      <4>. QED BY <3>2, <4>2, <4>3
    <3>. QED BY <3>1, <3>2
  <2> HIDE DEF last
  <2>3. g \in [0 .. k + 1 -> Seq(Octet)]
    BY <2>2
  <2>4. ASSUME NEW v \in 0 .. k + 1
        PROVE  g[v] = IF v < 128 THEN <<v>>
                      ELSE <<(v % 128) + 128>> \o g[v \div 128]
    <3>1. v >= 128 => v \div 128 \in 0 .. v - 1
      BY Quotient
    <3>2. v >= 128 => g[v \div 128] = f[v \div 128]
      BY <3>1
    <3>3. CASE v = k + 1
      BY <3>2, <3>3 DEF last
    <3>4. CASE v # k + 1
      <4>1. v \in 0 .. k /\ g[v] = f[v]
        BY <3>4
      <4>2. f[v] = IF v < 128 THEN <<v>>
                   ELSE <<(v % 128) + 128>> \o f[v \div 128]
        BY <2>1, <4>1, TableEntry
      <4>. QED BY <3>2, <4>1, <4>2
    <3>. QED BY <3>3, <3>4
  <2>5. IsTable(g, k + 1)
    <3>1. g = [v \in 0 .. k + 1 |-> g[v]]
      OBVIOUS
    <3> HIDE DEF g
    <3>. QED BY <2>4, <3>1 DEF IsTable
  <2>. QED BY <2>3, <2>5
<1> HIDE DEF D
<1>3. \A k \in 0 .. n : k \in D
  BY <1>1, <1>2, Induction
<1>. QED BY <1>3 DEF D

\* Two tables agree where both are defined.
LEMMA TablesAgree ==
  ASSUME NEW n \in Nat, NEW m \in 0 .. n, NEW f, NEW g,
         IsTable(f, n), IsTable(g, m)
  PROVE  \A v \in 0 .. m : f[v] = g[v]
<1> DEFINE Wrong == {v \in 0 .. m : f[v] # g[v]}
<1>1. SUFFICES ASSUME Wrong # {} PROVE FALSE
  OBVIOUS
<1>2. PICK v \in Wrong : \A w \in Wrong : v <= w
  <2>1. Wrong \in SUBSET Nat
    OBVIOUS
  <2> HIDE DEF Wrong
  <2>. QED BY <1>1, <2>1, LeastNumber
<1>3. /\ f[v] = IF v < 128 THEN <<v>>
                 ELSE <<(v % 128) + 128>> \o f[v \div 128]
      /\ g[v] = IF v < 128 THEN <<v>>
                 ELSE <<(v % 128) + 128>> \o g[v \div 128]
  <2>1. v \in 0 .. m /\ v \in 0 .. n /\ m \in Nat
    OBVIOUS
  <2> HIDE DEF Wrong
  <2>. QED BY <2>1, TableEntry
<1>4. v >= 128 => f[v \div 128] = g[v \div 128]
  <2>1. v >= 128 => v \div 128 \in 0 .. v - 1
    BY Quotient
  <2>. QED BY <1>2, <2>1
<1>. QED BY <1>3, <1>4

\* serialize_u64 as an equation, for every number.
LEMMA SerializeU64Def ==
  ASSUME NEW n \in Nat
  PROVE  /\ SerializeU64(n) \in Seq(Octet)
         /\ SerializeU64(n) =
              IF n < 128 THEN <<n>>
              ELSE <<(n % 128) + 128>> \o SerializeU64(n \div 128)
<1> DEFINE Table(m) == CHOOSE f : IsTable(f, m)
<1>1. ASSUME NEW m \in Nat
      PROVE  /\ SerializeU64(m) = Table(m)[m]
             /\ IsTable(Table(m), m)
             /\ Table(m)[m] \in Seq(Octet)
  <2>1. SerializeU64(m) = Table(m)[m]
    BY DEF SerializeU64, IsTable
  <2>2. PICK f \in [0 .. m -> Seq(Octet)] : IsTable(f, m)
    BY TableExists
  <2>3. IsTable(Table(m), m)
    BY <2>2
  <2>4. Table(m)[m] = f[m]
    BY <2>2, <2>3, TablesAgree
  <2>. QED BY <2>1, <2>2, <2>3, <2>4
<1> HIDE DEF Table
<1>4. Table(n)[n] = IF n < 128 THEN <<n>>
                    ELSE <<(n % 128) + 128>> \o Table(n)[n \div 128]
  <2>1. n \in 0 .. n /\ IsTable(Table(n), n)
    BY <1>1
  <2>. QED BY <2>1, TableEntry
<1>2. CASE n < 128
  <2>1. Table(n)[n] = <<n>>
    BY <1>2, <1>4
  <2>. QED BY <1>1, <1>2, <2>1
<1>3. CASE n >= 128
  <2>1. n \div 128 \in 0 .. n - 1
    BY <1>3, Quotient
  <2>2. Table(n)[n] = <<(n % 128) + 128>> \o Table(n)[n \div 128]
    BY <1>3, <1>4
  <2>3. Table(n)[n \div 128] = Table(n \div 128)[n \div 128]
    BY <1>1, <2>1, TablesAgree
  <2>4. n \div 128 \in Nat
    BY <2>1
  <2>5. SerializeU64(n \div 128) = Table(n \div 128)[n \div 128]
    BY <1>1, <2>4
  <2>6. SerializeU64(n) = Table(n)[n] /\ Table(n)[n] \in Seq(Octet)
    BY <1>1
  <2>7. ~(n < 128)
    BY <1>3
  <2>. QED BY <2>2, <2>3, <2>5, <2>6, <2>7
<1>. QED BY <1>2, <1>3

LEMMA SerializeU64Cases ==
  ASSUME NEW n \in Nat
  PROVE  /\ n < 128 => SerializeU64(n) = <<n>>
         /\ n >= 128 =>
              SerializeU64(n) = <<(n % 128) + 128>> \o SerializeU64(n \div 128)
<1>1. SerializeU64(n) = IF n < 128 THEN <<n>>
                        ELSE <<(n % 128) + 128>> \o SerializeU64(n \div 128)
  BY SerializeU64Def
<1>2. n >= 128 => ~(n < 128)
  OBVIOUS
<1>. QED BY <1>1, <1>2

\* The number is in the bytes up to the first that is below 128: no encoding
\* is the beginning of another.  So a reader that takes bytes until one has no
\* continuation bit finds the number that was written and the place behind it,
\* whatever follows (varint.rs, deserialize_u64).
THEOREM VarIntsDelimitThemselves ==
  ASSUME NEW m \in Nat, NEW n \in Nat,
         Len(SerializeU64(m)) <= Len(SerializeU64(n)),
         \A i \in 1 .. Len(SerializeU64(m)) : SerializeU64(m)[i] = SerializeU64(n)[i]
  PROVE  m = n
<1> DEFINE Begins(x, y) ==
             /\ Len(SerializeU64(x)) <= Len(SerializeU64(y))
             /\ \A i \in 1 .. Len(SerializeU64(x)) :
                  SerializeU64(x)[i] = SerializeU64(y)[i]
           Wrong == {x \in Nat : \E y \in Nat : Begins(x, y) /\ x # y}
<1>1. SUFFICES ASSUME Wrong # {} PROVE FALSE
  <2>1. Begins(m, n)
    OBVIOUS
  <2> HIDE DEF Begins
  <2>. QED BY <2>1
<1>2. PICK x \in Wrong : \A z \in Wrong : x <= z
  <2>1. Wrong \in SUBSET Nat
    OBVIOUS
  <2> HIDE DEF Wrong
  <2>. QED BY <1>1, <2>1, LeastNumber
<1>3. PICK y \in Nat : Begins(x, y) /\ x # y /\ x \in Nat
  OBVIOUS
<1>4. PICK s \in Seq(Octet), t \in Seq(Octet) :
        /\ s = SerializeU64(x) /\ t = SerializeU64(y)
        /\ Len(s) <= Len(t) /\ \A i \in 1 .. Len(s) : s[i] = t[i]
        /\ Len(s) \in Nat /\ Len(t) \in Nat
  <2>1. SerializeU64(x) \in Seq(Octet) /\ SerializeU64(y) \in Seq(Octet)
    BY <1>3, SerializeU64Def
  <2>. QED BY <1>3, <2>1
<1>5. /\ x < 128 => s = <<x>>
      /\ x >= 128 => s = <<(x % 128) + 128>> \o SerializeU64(x \div 128)
      /\ y < 128 => t = <<y>>
      /\ y >= 128 => t = <<(y % 128) + 128>> \o SerializeU64(y \div 128)
  BY <1>3, <1>4, SerializeU64Cases
<1> HIDE DEF Wrong, Begins
<1>6. ASSUME NEW z \in Nat
      PROVE  /\ z \div 128 \in Nat
             /\ SerializeU64(z \div 128) \in Seq(Octet)
             /\ (z % 128) + 128 \in Octet
  <2>1. z \div 128 \in Nat /\ (z % 128) + 128 \in Octet
    BY DEF Octet
  <2>. QED BY <2>1, SerializeU64Def
<1>7. CASE x < 128
  <2>1. s[1] = x /\ Len(s) = 1
    BY <1>5, <1>7
  <2>2. t[1] = x
    BY <1>4, <2>1
  <2>3. CASE y < 128
    BY <1>3, <1>5, <2>2, <2>3
  <2>4. CASE y >= 128
    <3>1. PICK u \in Seq(Octet), b \in Octet :
            u = SerializeU64(y \div 128) /\ b = (y % 128) + 128
      BY <1>3, <1>6
    <3>2. (<<b>> \o u)[1] = b
      OBVIOUS
    <3>3. b = x
      BY <1>5, <2>2, <2>4, <3>1, <3>2
    <3>. QED BY <1>3, <1>7, <3>1, <3>3
  <2>. QED BY <1>3, <2>3, <2>4
<1>8. CASE x >= 128
  <2>1. PICK v \in Seq(Octet), a \in Octet :
          v = SerializeU64(x \div 128) /\ a = (x % 128) + 128
    BY <1>3, <1>6
  <2>2. s = <<a>> \o v
    BY <1>5, <1>8, <2>1
  <2>3. s[1] = a /\ Len(s) = 1 + Len(v) /\ Len(v) \in Nat
        /\ \A i \in 1 .. Len(v) : s[i + 1] = v[i]
    BY <2>2
  <2>4. t[1] = a
    BY <1>4, <2>3
  <2>5. y >= 128
    <3>1. ASSUME y < 128 PROVE FALSE
      <4>1. t[1] = y
        BY <1>5, <3>1
      <4>. QED BY <1>3, <2>1, <2>4, <3>1, <4>1
    <3>. QED BY <1>3, <3>1
  <2>6. PICK u \in Seq(Octet), b \in Octet :
          u = SerializeU64(y \div 128) /\ b = (y % 128) + 128
    BY <1>3, <1>6
  <2>7. t = <<b>> \o u
    BY <1>5, <2>5, <2>6
  <2>8. t[1] = b /\ Len(t) = 1 + Len(u) /\ Len(u) \in Nat
        /\ \A i \in 1 .. Len(u) : t[i + 1] = u[i]
    BY <2>7
  <2>9. x % 128 = y % 128
    BY <1>3, <2>1, <2>4, <2>6, <2>8
  <2>10. Len(v) <= Len(u) /\ \A i \in 1 .. Len(v) : v[i] = u[i]
    <3>1. Len(v) <= Len(u)
      BY <1>4, <2>3, <2>8
    <3>2. ASSUME NEW i \in 1 .. Len(v) PROVE v[i] = u[i]
      <4>1. i + 1 \in 1 .. Len(s) /\ i \in 1 .. Len(u)
        BY <2>3, <2>8, <3>1
      <4>. QED BY <1>4, <2>3, <2>8, <4>1
    <3>. QED BY <3>1, <3>2
  <2>11. Begins(x \div 128, y \div 128)
    BY <2>1, <2>6, <2>10 DEF Begins
  <2>12. x \div 128 = y \div 128
    <3>1. SUFFICES ASSUME x \div 128 # y \div 128 PROVE FALSE
      OBVIOUS
    <3>2. x \div 128 \in Wrong
      BY <1>3, <1>6, <2>11, <3>1 DEF Wrong
    <3>3. x <= x \div 128
      BY <1>2, <3>2
    <3>. QED BY <1>3, <1>8, <3>3
  <2>. QED BY <1>3, <2>9, <2>12
<1>. QED BY <1>3, <1>7, <1>8

\* Seven bits more are one byte more.
LEMMA OneByteMore ==
  ASSUME NEW bound \in Nat, NEW l \in Nat \ {0},
         \A m \in 0 .. bound - 1 : Len(SerializeU64(m)) \in 1 .. l,
         NEW n \in 0 .. 128 * bound - 1
  PROVE  Len(SerializeU64(n)) \in 1 .. l + 1
<1>3. n \in Nat
  OBVIOUS
<1>1. CASE n < 128
  <2>1. SerializeU64(n) = <<n>>
    BY <1>1, <1>3, SerializeU64Cases
  <2>. QED BY <2>1
<1>2. CASE n >= 128
  <2>1. n \div 128 \in 0 .. bound - 1
    BY <1>2
  <2>2. SerializeU64(n) = <<(n % 128) + 128>> \o SerializeU64(n \div 128)
    BY <1>2, SerializeU64Cases, SMTT(60)
  <2>3. PICK u \in Seq(Octet) : u = SerializeU64(n \div 128)
    <3>1. n \div 128 \in Nat
      BY <2>1
    <3>2. SerializeU64(n \div 128) \in Seq(Octet)
      BY <3>1, SerializeU64Def
    <3>. QED BY <3>2
  <2>4. Len(<<(n % 128) + 128>> \o u) = 1 + Len(u)
    OBVIOUS
  <2>5. Len(u) \in 1 .. l
    BY <2>1, <2>3
  <2>. QED BY <2>2, <2>3, <2>4, <2>5
<1>. QED BY <1>1, <1>2

\* Every number of 64 bits has one to ten bytes: the ten of the buffers that
\* hold one (varint.rs, varint_vec.rs) are enough.
LEMMA VarIntsFit ==
  ASSUME NEW n \in 0 .. 4294967296 * 4294967296 - 1
  PROVE  Len(SerializeU64(n)) \in 1 .. 10
<1> DEFINE Fits(k, l) == \A m \in 0 .. k - 1 : Len(SerializeU64(m)) \in 1 .. l
<1>1. Fits(2, 1)
  <2>1. ASSUME NEW m \in 0 .. 1 PROVE SerializeU64(m) = <<m>>
    BY SerializeU64Cases
  <2>. QED BY <2>1
<1>2. ASSUME NEW k \in Nat, NEW l \in Nat \ {0}, Fits(k, l)
      PROVE  Fits(128 * k, l + 1)
  BY <1>2, OneByteMore
<1> HIDE DEF Fits
<1>3. Fits(256, 2) BY <1>1, <1>2
<1>4. Fits(32768, 3) BY <1>3, <1>2
<1>5. Fits(4194304, 4) BY <1>4, <1>2
<1>6. Fits(536870912, 5) BY <1>5, <1>2
<1>7. Fits(68719476736, 6) BY <1>6, <1>2
<1>8. Fits(8796093022208, 7) BY <1>7, <1>2
<1>9. Fits(1125899906842624, 8) BY <1>8, <1>2
<1>10. Fits(144115188075855872, 9) BY <1>9, <1>2
<1>11. Fits(4294967296 * 4294967296, 10) BY <1>10, <1>2
<1>. QED BY <1>11 DEF Fits
-----------------------------------------------------------------------------
(* What deserialize_u64 makes of them *)

LEMMA RecursionsAgree ==
  ASSUME NEW n \in Nat, NEW m \in 0 .. n, NEW S, NEW c, NEW s, NEW t,
         NEW f \in Recursions(n, S, c, s), NEW g \in Recursions(m, S, c, t),
         \A i \in 1 .. m : \A x \in S : s[i][x] = t[i][x]
  PROVE  \A i \in 0 .. m : f[i] = g[i]
<1> DEFINE D == {i \in 0 .. m : f[i] = g[i]}
<1>1. m \in Nat /\ m <= n
  OBVIOUS
<1>2. /\ f \in [0 .. n -> S] /\ f[0] = c /\ \A i \in 1 .. n : f[i] = s[i][f[i - 1]]
      /\ g \in [0 .. m -> S] /\ g[0] = c /\ \A i \in 1 .. m : g[i] = t[i][g[i - 1]]
  BY DEF Recursions
<1>3. 0 \in D
  BY <1>2
<1>4. ASSUME NEW k \in 0 .. m - 1, k \in D
      PROVE  k + 1 \in D
  <2>1. k + 1 \in 1 .. m /\ k + 1 \in 1 .. n /\ (k + 1) - 1 = k /\ k \in 0 .. m
    BY <1>1
  <2>2. f[k + 1] = s[k + 1][f[k]] /\ g[k + 1] = t[k + 1][g[k]]
    BY <1>2, <2>1
  <2>3. f[k] = g[k] /\ g[k] \in S
    BY <1>2, <1>4, <2>1
  <2>4. s[k + 1][g[k]] = t[k + 1][g[k]]
    BY <2>1, <2>3
  <2>. QED BY <2>1, <2>2, <2>3, <2>4
<1> HIDE DEF D
<1>5. \A k \in 0 .. m : k \in D
  BY <1>1, <1>3, <1>4, Induction
<1>. QED BY <1>5 DEF D

\* One byte more in front of a number.
Widened(byte, consumed, x) == Payload(byte, consumed) + 128 * x

\* The steps over bytes that lie behind `before` others.
Widening(bytes, before) ==
  [k \in 1 .. Len(bytes) |->
     [x \in Nat |-> Widened(bytes[Len(bytes) - k + 1],
                            before + Len(bytes) - k, x)]]

\* n is the number that bytes behind `before` others stand for.
StandsFor(bytes, before, n) ==
  \E f \in Recursions(Len(bytes), Nat, 0, Widening(bytes, before)) :
    f[Len(bytes)] = n

LEMMA WidenedIsNumber ==
  ASSUME NEW byte \in Octet, NEW consumed \in Nat, NEW x \in Nat
  PROVE  Widened(byte, consumed, x) \in Nat
<1>1. Payload(byte, consumed) \in Nat
  BY DEF Payload, Octet
<1>. QED BY <1>1 DEF Widened

LEMMA WideningSteps ==
  ASSUME NEW bytes \in Seq(Octet), NEW before \in Nat
  PROVE  /\ Widening(bytes, before) \in [1 .. Len(bytes) -> [Nat -> Nat]]
         /\ \A k \in 1 .. Len(bytes) : \A x \in Nat :
              Widening(bytes, before)[k][x]
                = Widened(bytes[Len(bytes) - k + 1], before + Len(bytes) - k, x)
<1>1. Len(bytes) \in Nat
  OBVIOUS
<1>2. ASSUME NEW k \in 1 .. Len(bytes), NEW x \in Nat
      PROVE  Widened(bytes[Len(bytes) - k + 1], before + Len(bytes) - k, x) \in Nat
  <2>1. PICK l \in Nat : l = Len(bytes)
    BY <1>1
  <2>2. l - k + 1 \in 1 .. l /\ before + l - k \in Nat
    BY <2>1
  <2>3. bytes[l - k + 1] \in Octet
    BY <2>1, <2>2
  <2>. QED BY <2>1, <2>2, <2>3, WidenedIsNumber
<1>. QED BY <1>2 DEF Widening

\* The function in DeserializeU64 is one of these.
LEMMA DeserializedStandsFor ==
  ASSUME NEW bytes \in Seq(Octet), NEW n, StandsFor(bytes, 0, n)
  PROVE  DeserializeU64(bytes) = n
<1> DEFINE last == Len(bytes)
           Entry(g, k) == IF k = 0 THEN 0
                          ELSE Payload(bytes[last - k + 1], last - k)
                                 + 128 * g[k - 1]
           Is(g) == g = [k \in 0 .. last |-> Entry(g, k)]
           value == CHOOSE g : Is(g)
<1>1. DeserializeU64(bytes) = value[last]
  BY DEF DeserializeU64
<1>2. PICK f \in Recursions(last, Nat, 0, Widening(bytes, 0)) : f[last] = n
  BY DEF StandsFor
<1>3. /\ f \in [0 .. last -> Nat] /\ f[0] = 0
      /\ \A i \in 1 .. last : f[i] = Widening(bytes, 0)[i][f[i - 1]]
      /\ last \in Nat
  BY <1>2 DEF Recursions
<1>4. \A k \in 1 .. last : \A x \in Nat :
        Widening(bytes, 0)[k][x] = Widened(bytes[last - k + 1], last - k, x)
  <2>1. ASSUME NEW k \in 1 .. last PROVE 0 + last - k = last - k
    BY <1>3
  <2>. QED BY <2>1, WideningSteps
<1>5. ASSUME NEW k \in 1 .. last
      PROVE  f[k] = Payload(bytes[last - k + 1], last - k) + 128 * f[k - 1]
  <2>1. k - 1 \in 0 .. last
    BY <1>3
  <2>2. PICK x \in Nat : x = f[k - 1]
    BY <1>3, <2>1
  <2>3. f[k] = Widened(bytes[last - k + 1], last - k, x)
    BY <1>3, <1>4, <2>2
  <2>. QED BY <2>2, <2>3 DEF Widened
<1>6. Is(f)
  <2> DEFINE g == [k \in 0 .. last |->
                     IF k = 0 THEN 0
                     ELSE Payload(bytes[last - k + 1], last - k) + 128 * f[k - 1]]
  <2>1. ASSUME NEW k \in 0 .. last PROVE f[k] = g[k]
    <3>1. CASE k = 0
      BY <1>3, <3>1
    <3>2. CASE k # 0
      <4>1. k \in 1 .. last
        BY <1>3, <3>2
      <4>. QED BY <1>5, <3>2, <4>1
    <3>. QED BY <3>1, <3>2
  <2>2. f = [k \in 0 .. last |-> f[k]]
    BY <1>3
  <2>. QED BY <2>1, <2>2
<1>7. Is(value)
  <2> HIDE DEF Is
  <2>. QED BY <1>6
<1> HIDE DEF value, last
<1>8. /\ value[0] = 0
      /\ \A k \in 1 .. last :
           value[k] = Payload(bytes[last - k + 1], last - k) + 128 * value[k - 1]
  <2>1. ASSUME NEW k \in 0 .. last
        PROVE  value[k] = Entry(value, k)
    <3> HIDE DEF Entry
    <3>. QED BY <1>7
  <2>2. 0 \in 0 .. last /\ \A k \in 1 .. last : k \in 0 .. last /\ k # 0
    BY <1>3
  <2>. QED BY <2>1, <2>2
<1> DEFINE D == {k \in 0 .. last : value[k] = f[k]}
<1>9. 0 \in D
  BY <1>3, <1>8
<1>10. ASSUME NEW k \in 0 .. last - 1, k \in D
       PROVE  k + 1 \in D
  <2>1. k + 1 \in 1 .. last /\ (k + 1) - 1 = k
    BY <1>3
  <2>. QED BY <1>5, <1>8, <1>10, <2>1
<1>11. \A k \in 0 .. last : k \in D
  <2> HIDE DEF D
  <2>. QED BY <1>3, <1>9, <1>10, Induction
<1>. QED BY <1>1, <1>2, <1>3, <1>11 DEF last

\* A byte in front of others, and behind `before`.
LEMMA ByteInFront ==
  ASSUME NEW bytes \in Seq(Octet), NEW before \in Nat, NEW n \in Nat,
         StandsFor(bytes, before + 1, n), NEW a \in Octet
  PROVE  StandsFor(<<a>> \o bytes, before, Widened(a, before, n))
<1> DEFINE longer == <<a>> \o bytes
<1>1. PICK l \in Nat : l = Len(bytes)
  OBVIOUS
<1>2. longer \in Seq(Octet) /\ Len(longer) = l + 1 /\ longer[1] = a
      /\ \A i \in 1 .. l : longer[i + 1] = bytes[i]
  BY <1>1
<1> HIDE DEF longer
<1>3. /\ Widening(longer, before) \in [1 .. l + 1 -> [Nat -> Nat]]
      /\ \A k \in 1 .. l + 1 : \A x \in Nat :
           Widening(longer, before)[k][x]
             = Widened(longer[(l + 1) - k + 1], before + (l + 1) - k, x)
  <2>1. /\ Widening(longer, before) \in [1 .. Len(longer) -> [Nat -> Nat]]
        /\ \A k \in 1 .. Len(longer) : \A x \in Nat :
             Widening(longer, before)[k][x]
               = Widened(longer[Len(longer) - k + 1], before + Len(longer) - k, x)
    BY <1>2, WideningSteps
  <2>. QED BY <1>2, <2>1
<1>4. \A k \in 1 .. l : \A x \in Nat :
        Widening(bytes, before + 1)[k][x]
          = Widened(bytes[l - k + 1], (before + 1) + l - k, x)
  <2>1. PICK b \in Nat : b = before + 1
    OBVIOUS
  <2>2. \A k \in 1 .. Len(bytes) : \A x \in Nat :
          Widening(bytes, b)[k][x]
            = Widened(bytes[Len(bytes) - k + 1], b + Len(bytes) - k, x)
    BY WideningSteps
  <2>. QED BY <1>1, <2>1, <2>2
<1>5. PICK f \in Recursions(l, Nat, 0, Widening(bytes, before + 1)) : f[l] = n
  BY <1>1 DEF StandsFor
<1>6. PICK g : g \in Recursions(l + 1, Nat, 0, Widening(longer, before))
  <2>1. 0 \in Nat /\ l + 1 \in Nat
    BY <1>1
  <2>2. PICK m \in Nat : m = l + 1
    BY <2>1
  <2>3. Recursions(m, Nat, 0, Widening(longer, before)) # {}
    <3>1. Widening(longer, before) \in [1 .. m -> [Nat -> Nat]]
      BY <1>3, <2>2
    <3>. QED BY <2>1, <3>1, Recursion
  <2>. QED BY <2>2, <2>3
<1>7. ASSUME NEW i \in 1 .. l, NEW x \in Nat
      PROVE  Widening(longer, before)[i][x] = Widening(bytes, before + 1)[i][x]
  <2>1. i \in 1 .. l + 1 /\ l - i + 1 \in 1 .. l
        /\ (l + 1) - i + 1 = (l - i + 1) + 1
        /\ before + (l + 1) - i = (before + 1) + l - i
    BY <1>1
  <2>2. longer[(l - i + 1) + 1] = bytes[l - i + 1]
    BY <1>2, <2>1
  <2>3. Widening(longer, before)[i][x]
          = Widened(longer[(l + 1) - i + 1], before + (l + 1) - i, x)
    BY <1>3, <2>1
  <2>4. Widening(bytes, before + 1)[i][x]
          = Widened(bytes[l - i + 1], (before + 1) + l - i, x)
    BY <1>4
  <2>. QED BY <2>1, <2>2, <2>3, <2>4
<1>8. g[l] = n
  <2>1. l \in 0 .. l + 1 /\ l + 1 \in Nat /\ l \in 0 .. l
    BY <1>1
  <2>2. \A i \in 0 .. l : g[i] = f[i]
    BY <1>5, <1>6, <1>7, <2>1, RecursionsAgree
  <2>. QED BY <1>5, <2>1, <2>2
<1>9. g[l + 1] = Widened(a, before, n)
  <2>1. l + 1 \in 1 .. l + 1 /\ (l + 1) - 1 = l /\ (l + 1) - (l + 1) + 1 = 1
        /\ before + (l + 1) - (l + 1) = before
    BY <1>1
  <2>2. g[l + 1] = Widening(longer, before)[l + 1][g[l]]
    BY <1>6, <2>1 DEF Recursions
  <2>3. Widening(longer, before)[l + 1][n]
          = Widened(longer[(l + 1) - (l + 1) + 1], before + (l + 1) - (l + 1), n)
    BY <1>3, <2>1
  <2>. QED BY <1>2, <1>8, <2>1, <2>2, <2>3
<1>10. StandsFor(longer, before, Widened(a, before, n))
  BY <1>2, <1>6, <1>9 DEF StandsFor
<1>. QED BY <1>10 DEF longer

\* The byte in front of a number makes it whole.
LEMMA WidenedNumber ==
  ASSUME NEW n \in Nat, NEW consumed \in 0 .. 8
  PROVE  Widened((n % 128) + 128, consumed, n \div 128) = n
<1>1. PICK q \in Nat, r \in 0 .. 127 : q = n \div 128 /\ r = n % 128 /\ n = 128 * q + r
  OBVIOUS
<1>2. Payload(r + 128, consumed) = r
  <2>1. (r + 128) % 128 = r
    OBVIOUS
  <2>. QED BY <2>1 DEF Payload
<1>. QED BY <1>1, <1>2 DEF Widened

LEMMA OneByteStandsFor ==
  ASSUME NEW n \in 0 .. 127, NEW before \in Nat, Payload(n, before) = n
  PROVE  StandsFor(<<n>>, before, n)
<1> DEFINE none == << >>
<1>1. none \in Seq(Octet) /\ Len(none) = 0 /\ <<n>> \o none = <<n>> /\ n \in Octet
  BY DEF Octet
<1>2. StandsFor(none, before + 1, 0)
  <2>1. [i \in 0 .. 0 |-> 0] \in Recursions(Len(none), Nat, 0, Widening(none, before + 1))
    BY <1>1 DEF Recursions
  <2>2. [i \in 0 .. 0 |-> 0][Len(none)] = 0
    BY <1>1
  <2>. QED BY <2>1, <2>2 DEF StandsFor
<1> HIDE DEF none
<1>3. StandsFor(<<n>> \o none, before, Widened(n, before, 0))
  <2>1. 0 \in Nat
    OBVIOUS
  <2>. QED BY <1>1, <1>2, <2>1, ByteInFront
<1>4. Widened(n, before, 0) = n
  BY DEF Widened
<1>. QED BY <1>1, <1>3, <1>4

\* Seven bits more stand in front.
LEMMA SevenBitsMore ==
  ASSUME NEW bound \in Nat, NEW before \in 0 .. 8,
         \A m \in 0 .. bound - 1 : StandsFor(SerializeU64(m), before + 1, m),
         NEW n \in 0 .. 128 * bound - 1
  PROVE  StandsFor(SerializeU64(n), before, n)
<1>1. n \in Nat /\ before \in Nat
  OBVIOUS
<1>2. CASE n < 128
  <2>1. SerializeU64(n) = <<n>>
    BY <1>1, <1>2, SerializeU64Cases
  <2>2. n \in 0 .. 127 /\ Payload(n, before) = n
    BY <1>1, <1>2 DEF Payload
  <2>. QED BY <1>1, <2>1, <2>2, OneByteStandsFor
<1>3. CASE n >= 128
  <2>1. n \div 128 \in 0 .. bound - 1 /\ (n % 128) + 128 \in Octet
    BY <1>3 DEF Octet
  <2>2. SerializeU64(n) = <<(n % 128) + 128>> \o SerializeU64(n \div 128)
    BY <1>1, <1>3, SerializeU64Cases
  <2>3. n \div 128 \in Nat /\ SerializeU64(n \div 128) \in Seq(Octet)
    <3>1. n \div 128 \in Nat
      BY <2>1
    <3>. QED BY <3>1, SerializeU64Def
  <2>4. StandsFor(<<(n % 128) + 128>> \o SerializeU64(n \div 128), before,
                  Widened((n % 128) + 128, before, n \div 128))
    <3>1. StandsFor(SerializeU64(n \div 128), before + 1, n \div 128)
      BY <2>1
    <3>. QED BY <1>1, <2>1, <2>3, <3>1, ByteInFront
  <2>. QED BY <1>1, <2>2, <2>4, WidenedNumber
<1>. QED BY <1>1, <1>2, <1>3

\* All bytes of a number but its last have the continuation bit.
LEMMA OnlyTheLastEnds ==
  ASSUME NEW n \in Nat
  PROVE  LET s == SerializeU64(n)
         IN  /\ s[Len(s)] < 128
             /\ \A i \in 1 .. Len(s) - 1 : s[i] >= 128
<1> DEFINE Ends(s) == /\ s[Len(s)] < 128
                      /\ \A i \in 1 .. Len(s) - 1 : s[i] >= 128
           Wrong == {x \in Nat : ~Ends(SerializeU64(x))}
<1>1. SUFFICES ASSUME Wrong # {} PROVE FALSE
  OBVIOUS
<1>2. PICK x \in Wrong : \A z \in Wrong : x <= z
  <2>1. Wrong \in SUBSET Nat
    OBVIOUS
  <2> HIDE DEF Wrong
  <2>. QED BY <1>1, <2>1, LeastNumber
<1>3. x \in Nat /\ ~Ends(SerializeU64(x))
  OBVIOUS
<1>4. x >= 128
  <2>1. ASSUME x < 128 PROVE FALSE
    <3>1. SerializeU64(x) = <<x>>
      BY <1>3, <2>1, SerializeU64Cases
    <3>2. Ends(<<x>>)
      BY <2>1
    <3> HIDE DEF Ends
    <3>. QED BY <1>3, <3>1, <3>2
  <2>. QED BY <1>3, <2>1
<1>5. x \div 128 \in Nat /\ x \div 128 < x /\ (x % 128) + 128 \in Octet
  BY <1>3, <1>4 DEF Octet
<1>6. Ends(SerializeU64(x \div 128))
  <2> HIDE DEF Ends
  <2>1. x \div 128 \notin Wrong
    <3>1. ASSUME x \div 128 \in Wrong PROVE FALSE
      <4>1. x <= x \div 128
        BY <1>2, <3>1
      <4>. QED BY <1>3, <1>5, <4>1
    <3>. QED BY <3>1
  <2>. QED BY <1>5, <2>1
<1>7. PICK u \in Seq(Octet), a \in Octet :
        u = SerializeU64(x \div 128) /\ a = (x % 128) + 128
  BY <1>5, SerializeU64Def
<1>8. SerializeU64(x) = <<a>> \o u
  BY <1>3, <1>4, <1>7, SerializeU64Cases
<1>9. Len(u) >= 1
  <2>1. PICK y \in Nat : y = x \div 128
    BY <1>5
  <2>2. CASE y < 128
    <3>1. u = <<y>>
      BY <1>7, <2>1, <2>2, SerializeU64Cases
    <3>. QED BY <3>1
  <2>3. CASE y >= 128
    <3>1. y \div 128 \in Nat
      BY <2>1
    <3>2. PICK v \in Seq(Octet) : v = SerializeU64(y \div 128)
      BY <3>1, SerializeU64Def
    <3>4. PICK b \in Nat : b = (y % 128) + 128
      BY <2>1
    <3>3. u = <<b>> \o v
      BY <1>7, <2>1, <2>3, <3>2, <3>4, SerializeU64Cases
    <3>. QED BY <3>2, <3>3
  <2>. QED BY <2>1, <2>2, <2>3
<1>10. Ends(<<a>> \o u)
  <2> DEFINE s == <<a>> \o u
  <2>1. PICK l \in Nat : l = Len(u) /\ l >= 1
    BY <1>9
  <2>2. Len(s) = l + 1 /\ s[1] = a /\ \A i \in 1 .. l : s[i + 1] = u[i]
    BY <2>1
  <2>3. u[l] < 128 /\ \A i \in 1 .. l - 1 : u[i] >= 128
    BY <1>6, <1>7, <2>1
  <2>4. a >= 128
    BY <1>3, <1>7
  <2> HIDE DEF s
  <2>5. s[Len(s)] < 128
    BY <2>1, <2>2, <2>3
  <2>6. ASSUME NEW i \in 1 .. Len(s) - 1 PROVE s[i] >= 128
    <3>1. CASE i = 1
      BY <2>2, <2>4, <3>1
    <3>2. CASE i # 1
      <4>1. i - 1 \in 1 .. l - 1 /\ i - 1 \in 1 .. l /\ (i - 1) + 1 = i
        BY <2>1, <2>2, <3>2
      <4>2. s[i] = u[i - 1]
        BY <2>2, <4>1
      <4>. QED BY <2>3, <4>1, <4>2
    <3>. QED BY <3>1, <3>2
  <2>7. Ends(s)
    BY <2>5, <2>6
  <2>. QED BY <2>7 DEF s
<1> HIDE DEF Ends
<1>. QED BY <1>3, <1>8, <1>10

\* What serialize_u64 writes of a number of 64 bits deserialize_u64 reads: it
\* takes all of the bytes and no more, since the last alone has no continuation
\* bit and there are ten at most, and makes the number of them that was written,
\* none of its bits shifted out.
THEOREM VarIntsReadBack ==
  ASSUME NEW n \in 0 .. 4294967296 * 4294967296 - 1
  PROVE  LET s == SerializeU64(n)
         IN  /\ Len(s) \in 1 .. 10
             /\ s[Len(s)] < 128
             /\ \A i \in 1 .. Len(s) - 1 : s[i] >= 128
             /\ DeserializeU64(s) = n
<1> DEFINE Behind(bound, before) ==
             \A m \in 0 .. bound - 1 : StandsFor(SerializeU64(m), before, m)
<1>1. Behind(2, 9)
  <2>1. ASSUME NEW m \in 0 .. 1 PROVE StandsFor(SerializeU64(m), 9, m)
    <3>1. m \in Nat /\ m < 128 /\ m \in 0 .. 127 /\ 9 \in Nat
      OBVIOUS
    <3>2. SerializeU64(m) = <<m>>
      BY <3>1, SerializeU64Cases
    <3>3. Payload(m, 9) = m
      BY DEF Payload
    <3>. QED BY <3>1, <3>2, <3>3, OneByteStandsFor
  <2>. QED BY <2>1
<1>step. ASSUME NEW bound \in Nat, NEW before \in 0 .. 8, Behind(bound, before + 1)
      PROVE  Behind(128 * bound, before)
  BY <1>step, SevenBitsMore
<1> HIDE DEF Behind
<1>2. Behind(256, 8)
  BY <1>1, <1>step
<1>3. Behind(32768, 7)
  BY <1>2, <1>step
<1>4. Behind(4194304, 6)
  BY <1>3, <1>step
<1>5. Behind(536870912, 5)
  BY <1>4, <1>step
<1>6. Behind(68719476736, 4)
  BY <1>5, <1>step
<1>7. Behind(8796093022208, 3)
  BY <1>6, <1>step
<1>8. Behind(1125899906842624, 2)
  BY <1>7, <1>step
<1>9. Behind(144115188075855872, 1)
  BY <1>8, <1>step
<1>10. Behind(4294967296 * 4294967296, 0)
  BY <1>9, <1>step
<1>11. n \in 0 .. 4294967296 * 4294967296 - 1 /\ n \in Nat
  OBVIOUS
<1>12. StandsFor(SerializeU64(n), 0, n)
  BY <1>10 DEF Behind
<1>13. DeserializeU64(SerializeU64(n)) = n
  BY <1>11, <1>12, SerializeU64Def, DeserializedStandsFor
<1>. QED BY <1>11, <1>13, VarIntsFit, OnlyTheLastEnds

-----------------------------------------------------------------------------
(* Bits and bytes *)

LEMMA BitIsBit ==
  ASSUME NEW x \in Nat, NEW b \in 0 .. 7
  PROVE  BitOf(x, b) \in {0, 1}
BY DEF BitOf

\* The bits of a byte that is put together from bits are these.
LEMMA BitsOfAByte ==
  ASSUME NEW bit \in [0 .. 7 -> {0, 1}]
  PROVE  /\ FromBits(bit) \in Nat /\ FromBits(bit) \in 0 .. 255
         /\ \A b \in 0 .. 7 : BitOf(FromBits(bit), b) = bit[b]
<1> DEFINE x == FromBits(bit)
<1>1. PICK b0 \in {0, 1}, b1 \in {0, 1}, b2 \in {0, 1}, b3 \in {0, 1},
           b4 \in {0, 1}, b5 \in {0, 1}, b6 \in {0, 1}, b7 \in {0, 1} :
        /\ bit[0] = b0 /\ bit[1] = b1 /\ bit[2] = b2 /\ bit[3] = b3
        /\ bit[4] = b4 /\ bit[5] = b5 /\ bit[6] = b6 /\ bit[7] = b7
  OBVIOUS
<1>2. x = b0 + 2 * b1 + 4 * b2 + 8 * b3 + 16 * b4 + 32 * b5 + 64 * b6 + 128 * b7
  BY <1>1 DEF FromBits
<1>3. x \in Nat /\ x \in 0 .. 255
  BY <1>2
<1> HIDE DEF x
<1>4. /\ BitOf(x, 0) = b0 /\ BitOf(x, 1) = b1 /\ BitOf(x, 2) = b2
      /\ BitOf(x, 3) = b3 /\ BitOf(x, 4) = b4 /\ BitOf(x, 5) = b5
      /\ BitOf(x, 6) = b6 /\ BitOf(x, 7) = b7
  BY <1>2 DEF BitOf
<1>5. \A b \in 0 .. 7 : BitOf(x, b) = bit[b]
  BY <1>1, <1>4
<1>. QED BY <1>3, <1>5 DEF x

\* A number of so many bits is put together from its bits.
LEMMA NumberOfItsBits ==
  ASSUME NEW bits \in 1 .. 8, NEW x \in Nat, x < 2^bits
  PROVE  FromBits([b \in 0 .. 7 |-> IF b < bits THEN BitOf(x, b) ELSE 0]) = x
<1> DEFINE bit == [b \in 0 .. 7 |-> IF b < bits THEN BitOf(x, b) ELSE 0]
<1>1. CASE bits = 1 BY <1>1 DEF FromBits, BitOf
<1>2. CASE bits = 2 BY <1>2 DEF FromBits, BitOf
<1>3. CASE bits = 3 BY <1>3 DEF FromBits, BitOf
<1>4. CASE bits = 4 BY <1>4 DEF FromBits, BitOf
<1>5. CASE bits = 5 BY <1>5 DEF FromBits, BitOf
<1>6. CASE bits = 6 BY <1>6 DEF FromBits, BitOf
<1>7. CASE bits = 7 BY <1>7 DEF FromBits, BitOf
<1>8. CASE bits = 8 BY <1>8 DEF FromBits, BitOf
<1>. QED BY <1>1, <1>2, <1>3, <1>4, <1>5, <1>6, <1>7, <1>8

\* Where bit b of value i is.
LEMMA BitPosition ==
  ASSUME NEW bits \in 1 .. 8, NEW i \in Nat, NEW b \in 0 .. bits - 1
  PROVE  (i * bits + b) \div bits = i /\ (i * bits + b) % bits = b
<1>1. CASE bits = 1 BY <1>1
<1>2. CASE bits = 2 BY <1>2
<1>3. CASE bits = 3 BY <1>3
<1>4. CASE bits = 4 BY <1>4
<1>5. CASE bits = 5 BY <1>5
<1>6. CASE bits = 6 BY <1>6
<1>7. CASE bits = 7 BY <1>7
<1>8. CASE bits = 8 BY <1>8
<1>. QED BY <1>1, <1>2, <1>3, <1>4, <1>5, <1>6, <1>7, <1>8

\* And in which value a bit is.
LEMMA ValueOfBit ==
  ASSUME NEW bits \in 1 .. 8, NEW p \in Nat, NEW n \in Nat, p < bits * n
  PROVE  p \div bits \in 0 .. n - 1 /\ p % bits \in 0 .. 7
<1>1. CASE bits = 1 BY <1>1
<1>2. CASE bits = 2 BY <1>2
<1>3. CASE bits = 3 BY <1>3
<1>4. CASE bits = 4 BY <1>4
<1>5. CASE bits = 5 BY <1>5
<1>6. CASE bits = 6 BY <1>6
<1>7. CASE bits = 7 BY <1>7
<1>8. CASE bits = 8 BY <1>8
<1>. QED BY <1>1, <1>2, <1>3, <1>4, <1>5, <1>6, <1>7, <1>8

LEMMA PackedBitIsBit ==
  ASSUME NEW bits \in 1 .. 8, NEW values \in Seq(Nat), NEW p \in Nat
  PROVE  PackedBit(bits, values, p) \in {0, 1}
<1>1. CASE p < bits * Len(values)
  <2>1. PICK n \in Nat : n = Len(values)
    OBVIOUS
  <2>2. p \div bits \in 0 .. n - 1 /\ p % bits \in 0 .. 7
    BY <1>1, <2>1, ValueOfBit
  <2>3. p \div bits + 1 \in 1 .. Len(values)
    BY <2>1, <2>2
  <2>4. values[p \div bits + 1] \in Nat
    BY <2>3
  <2>5. BitOf(values[p \div bits + 1], p % bits) \in {0, 1}
    BY <2>2, <2>4, BitIsBit
  <2>. QED BY <1>1, <2>5 DEF PackedBit
<1>2. CASE ~(p < bits * Len(values))
  BY <1>2 DEF PackedBit
<1>. QED BY <1>1, <1>2

\* The buffer: bit p of the chunk is bit p % 8 of byte p \div 8.
LEMMA PackedBytesOf ==
  ASSUME NEW bits \in 1 .. 8, NEW values \in Seq(Nat)
  PROVE  /\ Packed(bits, values) \in Seq(Nat) /\ Packed(bits, values) \in Seq(0 .. 255)
         /\ Len(Packed(bits, values)) = (bits * Len(values) + 7) \div 8
         /\ \A k \in 1 .. Len(Packed(bits, values)) : \A b \in 0 .. 7 :
              BitOf(Packed(bits, values)[k], b)
                = PackedBit(bits, values, 8 * (k - 1) + b)
<1> DEFINE Byte(k) == [b \in 0 .. 7 |-> PackedBit(bits, values, 8 * (k - 1) + b)]
           len == (bits * Len(values) + 7) \div 8
           bytes == [k \in 1 .. len |-> FromBits(Byte(k))]
<1>1. len \in Nat
  <2>1. PICK n \in Nat : n = Len(values)
    OBVIOUS
  <2>2. bits * n + 7 \in Nat
    OBVIOUS
  <2>. QED BY <2>1, <2>2
<1>2. ASSUME NEW k \in 1 .. len
      PROVE  Byte(k) \in [0 .. 7 -> {0, 1}]
  <2>1. ASSUME NEW b \in 0 .. 7
        PROVE  PackedBit(bits, values, 8 * (k - 1) + b) \in {0, 1}
    <3>1. 8 * (k - 1) + b \in Nat
      BY <1>1
    <3>. QED BY <3>1, PackedBitIsBit
  <2>. QED BY <2>1
<1> HIDE DEF len
<1>3. ASSUME NEW k \in 1 .. len
      PROVE  /\ FromBits(Byte(k)) \in Nat /\ FromBits(Byte(k)) \in 0 .. 255
             /\ \A b \in 0 .. 7 : BitOf(FromBits(Byte(k)), b) = Byte(k)[b]
  <2> HIDE DEF Byte
  <2>. QED BY <1>2, BitsOfAByte
<1>4. Packed(bits, values) = bytes
  BY DEF Packed, len
<1>5. bytes \in Seq(Nat) /\ bytes \in Seq(0 .. 255) /\ Len(bytes) = len /\ \A k \in 1 .. len : bytes[k] = FromBits(Byte(k))
  <2> HIDE DEF Byte
  <2>. QED BY <1>1, <1>3
<1>6. \A k \in 1 .. len : \A b \in 0 .. 7 : Byte(k)[b] = PackedBit(bits, values, 8 * (k - 1) + b)
  OBVIOUS
<1> HIDE DEF bytes, Byte
<1>. QED BY <1>3, <1>4, <1>5, <1>6 DEF len
=============================================================================
