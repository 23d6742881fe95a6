---------------------------- MODULE StorageProofs ----------------------------
(***************************************************************************)
(* A sink of Storage holds what it said it took, for every kind of sink,   *)
(* capacity, first position and mix of requests.                           *)
(*                                                                         *)
(* Besides the properties themselves the invariant says where the next     *)
(* byte goes (Tight): a slice's write position, and the length of a        *)
(* vector, follow what was taken, the latter behind the bytes io::Write    *)
(* put ahead until the vector is resized.                                  *)
(***************************************************************************)
EXTENDS Storage, SequenceTheorems, TLAPS

\* Where the bytes that were taken end.
End == Start + Len(taken)

Tight ==
  /\ Kind = "slice" => writePos = Len(taken)
  /\ Kind = "vec" => Len(buf) = IF Len(taken) = ahead THEN ahead ELSE End
  /\ Kind = "mmap" => End <= Len(buf)
  /\ ahead <= Len(taken)

IInv ==
  /\ TypeOK
  /\ Tight
  /\ HoldsWhatItTook
  /\ PosCountsTaken
  /\ NothingElseTouched
  /\ WrittenIsTheEnd
  /\ PosTellsOfFailure

-----------------------------------------------------------------------------
(* The sink *)

\* What is known of every sink.
LEMMA SinkIs ==
  sink \in Sinks => /\ Kind \in {"slice", "vec", "mmap", "writer"}
                    /\ Base \in Nat
                    /\ Capacity \in Nat
                    /\ sink.io => Kind \in {"slice", "vec"}
                    /\ Kind = "mmap" => Base <= Capacity
  BY StorageAssumption DEF Kind, Base, Capacity

\* A sink remains what it is.
LEMMA SinkStays ==
  ASSUME UNCHANGED sink
  PROVE  Kind' = Kind /\ Base' = Base /\ Capacity' = Capacity /\ Start' = Start
  BY DEF Kind, Base, Capacity, Start

-----------------------------------------------------------------------------
(* Sequences *)

\* Filled(n, byte) has n bytes.
LEMMA FilledIs ==
  ASSUME NEW n \in Nat, NEW byte \in Byte
  PROVE  /\ Filled(n, byte) \in Seq(Byte)
         /\ Len(Filled(n, byte)) = n
         /\ \A i \in 1 .. n : Filled(n, byte)[i] = byte
  BY DEF Filled

\* What a concatenation holds.
LEMMA ConcatIs ==
  ASSUME NEW b \in Seq(Byte), NEW c \in Seq(Byte)
  PROVE  /\ b \o c \in Seq(Byte)
         /\ Len(b \o c) = Len(b) + Len(c)
         /\ \A i \in 1 .. Len(b) : (b \o c)[i] = b[i]
         /\ \A i \in 1 .. Len(c) : (b \o c)[Len(b) + i] = c[i]
<1>1. Len(b) \in Nat /\ Len(c) \in Nat
  OBVIOUS
<1>2. /\ b \o c \in Seq(Byte)
      /\ Len(b \o c) = Len(b) + Len(c)
      /\ \A i \in 1 .. Len(b) + Len(c) :
           (b \o c)[i] = IF i <= Len(b) THEN b[i] ELSE c[i - Len(b)]
  BY ConcatProperties
<1>3. \A i \in 1 .. Len(b) : (b \o c)[i] = b[i]
  BY <1>1, <1>2
<1>4. ASSUME NEW i \in 1 .. Len(c)
      PROVE  (b \o c)[Len(b) + i] = c[i]
  <2>1. /\ Len(b) + i \in 1 .. Len(b) + Len(c)
        /\ ~(Len(b) + i <= Len(b))
        /\ Len(b) + i - Len(b) = i
    BY <1>1
  <2> QED BY <1>2, <2>1
<1> QED BY <1>2, <1>3, <1>4

\* Overwritten replaces the bytes behind `at` and no others.
LEMMA OverwrittenIs ==
  ASSUME NEW b \in Seq(Byte), NEW at \in Nat, NEW bytes \in Seq(Byte),
         at + Len(bytes) <= Len(b) \/ bytes = << >>
  PROVE  /\ Overwritten(b, at, bytes) \in Seq(Byte)
         /\ Len(Overwritten(b, at, bytes)) = Len(b)
         /\ \A i \in 1 .. Len(b) :
              i <= at \/ i > at + Len(bytes) => Overwritten(b, at, bytes)[i] = b[i]
         /\ \A i \in 1 .. Len(bytes) :
              Overwritten(b, at, bytes)[at + i] = bytes[i]
<1> DEFINE f(i) == IF i > at /\ i <= at + Len(bytes) THEN bytes[i - at] ELSE b[i]
           w == Overwritten(b, at, bytes)
<1>1. Len(b) \in Nat /\ Len(bytes) \in Nat
  OBVIOUS
<1>2. \A i \in 1 .. Len(b) : f(i) \in Byte
  <2> TAKE i \in 1 .. Len(b)
  <2>1. CASE i > at /\ i <= at + Len(bytes)
    <3>1. i - at \in 1 .. Len(bytes)
      BY <1>1, <2>1
    <3> QED BY <2>1, <3>1
  <2>2. CASE ~(i > at /\ i <= at + Len(bytes))
    BY <2>2
  <2> QED BY <2>1, <2>2
<1>3. w = [i \in 1 .. Len(b) |-> f(i)]
  BY DEF Overwritten
<1> HIDE DEF w
<1>4. /\ w \in Seq(Byte)
      /\ Len(w) = Len(b)
      /\ \A i \in 1 .. Len(b) : w[i] = f(i)
  <2> HIDE DEF f
  <2> QED BY <1>1, <1>2, <1>3
<1>5. \A i \in 1 .. Len(b) : i <= at \/ i > at + Len(bytes) => w[i] = b[i]
  BY <1>1, <1>4
<1>6. \A i \in 1 .. Len(bytes) : w[at + i] = bytes[i]
  <2> TAKE i \in 1 .. Len(bytes)
  <2>1. /\ at + i \in 1 .. Len(b)
        /\ at + i > at
        /\ at + i <= at + Len(bytes)
        /\ at + i - at = i
    BY <1>1
  <2> QED BY <2>1, <1>4
<1> QED BY <1>4, <1>5, <1>6 DEF w

\* The accepted part of a request.
LEMMA AcceptedIs ==
  ASSUME NEW bytes \in Seq(Byte), NEW n \in 0 .. Len(bytes)
  PROVE  /\ SubSeq(bytes, 1, n) \in Seq(Byte)
         /\ Len(SubSeq(bytes, 1, n)) = n
<1>1. /\ Len(bytes) \in Nat
      /\ n \in Nat
      /\ \A i \in 1 .. n : bytes[i] \in Byte
  OBVIOUS
<1>2. /\ SubSeq(bytes, 1, n) \in Seq(Byte)
      /\ Len(SubSeq(bytes, 1, n)) = IF 1 <= n THEN n - 1 + 1 ELSE 0
  BY <1>1, SubSeqProperties
<1> QED BY <1>1, <1>2

-----------------------------------------------------------------------------

\* A new sink satisfies the invariant.
THEOREM InitIInv == Init => IInv
<1> SUFFICES ASSUME Init PROVE IInv
  OBVIOUS
<1>0. sink \in Sinks
  BY DEF Init
<1>1. /\ buf \in Seq(Byte)
      /\ Kind \in {"slice", "mmap"} => /\ Len(buf) = Capacity
                                       /\ \A i \in 1 .. Capacity : buf[i] = Old
      /\ Kind \notin {"slice", "mmap"} => Len(buf) = 0
  <2>1. CASE Kind \in {"slice", "mmap"}
    <3>1. buf = Filled(Capacity, Old)
      BY <2>1 DEF Init
    <3> QED BY <1>0, <2>1, <3>1, FilledIs, StorageAssumption, SinkIs
  <2>2. CASE Kind \notin {"slice", "mmap"}
    <3>1. buf = << >>
      BY <2>2 DEF Init
    <3> QED BY <2>2, <3>1
  <2> QED BY <2>1, <2>2
<1>2. taken = << >> /\ Len(taken) = 0
  BY DEF Init
<1>3. TypeOK /\ Tight
  BY <1>0, <1>1, <1>2, SinkIs DEF Init, TypeOK, Tight, End, Start
<1>4. HoldsWhatItTook /\ PosCountsTaken /\ WrittenIsTheEnd
  BY <1>0, <1>1, <1>2, SinkIs
     DEF Init, HoldsWhatItTook, PosCountsTaken, WrittenIsTheEnd
<1>5. NothingElseTouched
  BY <1>1, <1>2 DEF Init, NothingElseTouched
<1>6. PosTellsOfFailure
  BY <1>0, <1>2, SinkIs DEF Init, PosTellsOfFailure
<1> QED BY <1>3, <1>4, <1>5, <1>6 DEF IInv

\* What is copied right behind the bytes that were taken is held with them.
LEMMA TakeStep ==
  ASSUME TypeOK, Tight, HoldsWhatItTook, Kind # "writer",
         NEW acc \in Seq(Byte),
         UNCHANGED <<sink, ahead>>,
         taken' = taken \o acc,
         acc # << >> => End + Len(acc) <= Len(buf'),
         acc = << >> => Len(buf) <= Len(buf'),
         Len(buf) \in Nat, Len(buf') \in Nat,
         \A i \in 1 .. Len(acc) : buf'[End + i] = acc[i],
         \A i \in 1 .. Len(buf) : i <= End => buf'[i] = buf[i]
  PROVE  /\ HoldsWhatItTook'
         /\ taken' \in Seq(Byte)
         /\ Len(taken') = Len(taken) + Len(acc)
<1>1. /\ taken \in Seq(Byte)
      /\ Len(taken) \in Nat
      /\ Len(acc) \in Nat
      /\ Start \in Nat
      /\ ahead \in Nat /\ ahead <= Len(taken)
  BY SinkIs DEF TypeOK, Tight, Start
<1>2. /\ taken' \in Seq(Byte)
      /\ Len(taken') = Len(taken) + Len(acc)
      /\ \A i \in 1 .. Len(taken) + Len(acc) :
           taken'[i] = IF i <= Len(taken) THEN taken[i] ELSE acc[i - Len(taken)]
  BY <1>1, ConcatProperties
<1>3. ASSUME NEW i \in 1 .. Len(taken')
      PROVE  At(i) <= Len(buf') /\ buf'[At(i)] = taken'[i]
  <2>0. i \in 1 .. Len(taken) + Len(acc)
    BY <1>2
  <2>1. CASE i <= Len(taken)
    <3>1. i \in 1 .. Len(taken)
      BY <2>0, <2>1, <1>1
    <3>2. At(i) <= Len(buf) /\ buf[At(i)] = taken[i]
      BY <3>1 DEF HoldsWhatItTook
    <3>3. At(i) \in 1 .. Len(buf) /\ At(i) <= End
      BY <1>1, <3>1, <3>2 DEF End, At
    <3>4. buf'[At(i)] = taken'[i]
      BY <1>2, <2>0, <2>1, <3>2, <3>3
    <3>5. At(i) <= Len(buf')
      BY <1>1, <3>1, <3>2, <3>3, EmptySeq DEF End
    <3> QED BY <3>4, <3>5
  <2>2. CASE i > Len(taken)
    <3> DEFINE j == i - Len(taken)
    <3>1. j \in 1 .. Len(acc)
      BY <2>0, <2>2, <1>1
    <3>2. End + j = Start + i /\ At(i) = Start + i
      BY <1>1, <2>0, <2>2 DEF End, At
    <3>3. taken'[i] = acc[j]
      BY <1>1, <1>2, <2>0, <2>2
    <3>4. buf'[End + j] = acc[j]
      BY <3>1
    <3>5. Start + i <= Len(buf')
      BY <1>1, <3>1, <3>2 DEF End
    <3> QED BY <3>2, <3>3, <3>4, <3>5
  <2>3. i <= Len(taken) \/ i > Len(taken)
    BY <1>1, <2>0
  <2> QED BY <2>1, <2>2, <2>3
<1>4. Start' = Start /\ Kind' = Kind /\ Base' = Base /\ ahead' = ahead
  BY SinkStays
<1>5. \A i \in 1 .. Len(taken') :
        At(i)' <= Len(buf') /\ buf'[At(i)'] = taken'[i]
  BY <1>3, <1>4 DEF At
<1>6. ahead > 0 => Kind = "vec" /\ Base > 0
  BY DEF HoldsWhatItTook
<1> QED BY <1>2, <1>4, <1>5, <1>6 DEF HoldsWhatItTook, At

\* A sink that holds its bytes keeps the invariant when it takes some.
LEMMA StepIInv ==
  ASSUME IInv, Kind # "writer",
         NEW acc \in Seq(Byte),
         UNCHANGED <<sink, ahead>>,
         taken' = taken \o acc,
         buf' \in Seq(Byte),
         Advance(Len(acc)),
         file' = file,
         progress' \in {"complete", "partial", "blocked"},
         Kind # "vec" => Len(buf') = Len(buf) /\ End + Len(acc) <= Len(buf),
         Kind = "mmap" => acc # << >>,
         Kind = "vec" => /\ Len(buf') = End + Len(acc)
                         /\ acc = << >> => Len(buf) = End
                         /\ \A i \in Len(buf) + 1 .. End : buf'[i] = 0,
         \A i \in 1 .. Len(acc) : buf'[End + i] = acc[i],
         \A i \in 1 .. Len(buf) :
           i <= End \/ i > End + Len(acc) => buf'[i] = buf[i]
  PROVE  IInv'
<1>0. Kind' = Kind /\ Base' = Base /\ Capacity' = Capacity /\ Start' = Start
  BY SinkStays
<1>1. /\ Len(buf) \in Nat
      /\ Len(buf') \in Nat
      /\ Len(acc) \in Nat
      /\ taken \in Seq(Byte)
      /\ Len(taken) \in Nat
      /\ Start \in Nat
      /\ End \in Nat
      /\ pos \in Nat /\ writePos \in Nat /\ written \in Nat /\ Base \in Nat
      /\ ahead \in Nat /\ ahead <= Len(taken)
  BY SinkIs DEF IInv, TypeOK, Tight, Start, End
<1>2. /\ acc = << >> => Len(acc) = 0
      /\ acc # << >> => Len(acc) > 0
      /\ taken = << >> <=> Len(taken) = 0
      /\ taken' = << >> <=> taken = << >> /\ acc = << >>
      /\ acc = << >> => taken' = taken
  BY <1>1, EmptySeq, ConcatEmptySeq, ConcatProperties
<1>3. /\ acc # << >> => End + Len(acc) <= Len(buf')
      /\ acc = << >> => Len(buf) <= Len(buf')
  <2>1. CASE Kind = "vec"
    BY <1>1, <1>2, <2>1
  <2>2. CASE Kind # "vec"
    BY <1>1, <2>2
  <2> QED BY <2>1, <2>2
<1>4. /\ HoldsWhatItTook'
      /\ taken' \in Seq(Byte)
      /\ Len(taken') = Len(taken) + Len(acc)
  BY <1>1, <1>3, TakeStep DEF IInv
<1>5. /\ Start' = Start
      /\ End' = End + Len(acc)
  <2>1. End' = Start' + Len(taken')
    BY DEF End
  <2> QED BY <1>0, <1>1, <1>4, <2>1 DEF End
<1>6. /\ pos' = pos + Len(acc)
      /\ writePos' = IF Kind = "slice" THEN writePos + Len(acc) ELSE writePos
      /\ Kind = "slice" => written' = Larger(written, writePos + Len(acc))
      /\ Kind = "mmap" => written' = Larger(written, pos + Len(acc))
      /\ Kind = "vec" => written' = written
  BY DEF Advance, Place
<1>7. pos = Base + Len(taken)
  BY DEF IInv, PosCountsTaken
<1>8. PosCountsTaken'
  BY <1>0, <1>1, <1>4, <1>6, <1>7 DEF PosCountsTaken
<1>9. Kind = "slice" => /\ writePos = Len(taken)
                        /\ Start = 0
                        /\ End = Len(taken)
  BY <1>1 DEF IInv, Tight, Start, End
<1>10. Kind \in {"slice", "vec", "mmap"}
  BY SinkIs DEF IInv, TypeOK
<1>16. (Kind = "vec" => Len(buf) = IF Len(taken) = ahead THEN ahead ELSE End)'
  <2>1. SUFFICES ASSUME Kind = "vec"
                 PROVE  Len(buf') = IF Len(taken') = ahead THEN ahead ELSE End'
    BY <1>0
  <2>2. Len(buf') = End'
    BY <1>5, <2>1
  <2>3. ASSUME Len(taken') = ahead PROVE End' = ahead
    <3>1. Len(acc) = 0 /\ Len(taken) = ahead
      BY <1>1, <1>4, <2>3
    <3>2. Len(buf) = End /\ Len(buf) = ahead
      BY <1>2, <2>1, <3>1 DEF IInv, Tight
    <3> QED BY <1>1, <1>5, <3>1, <3>2
  <2> QED BY <2>2, <2>3
<1>11. Tight'
  <2>1. (Kind = "slice" => writePos = Len(taken))'
    BY <1>0, <1>1, <1>4, <1>6, <1>9
  <2>2. (Kind = "vec" => Len(buf) = IF Len(taken) = ahead THEN ahead ELSE End)'
    BY <1>16
  <2>4. (ahead <= Len(taken))'
    BY <1>1, <1>4
  <2>3. (Kind = "mmap" => End <= Len(buf))'
    BY <1>0, <1>1, <1>5
  <2> QED BY <2>1, <2>2, <2>3, <2>4 DEF Tight
<1>12. TypeOK'
  <2>1. written' \in Nat
    BY <1>1, <1>6, <1>10 DEF Larger
  <2>2. pos' \in Nat /\ writePos' \in Nat
    BY <1>1, <1>6
  <2>3. Kind = "slice" => writePos' <= Len(buf')
    BY <1>1, <1>6, <1>9
  <2>4. Kind \in {"slice", "mmap"} => Len(buf') = Capacity
    BY DEF IInv, TypeOK
  <2>5. file' \in Seq(Byte)
    BY DEF IInv, TypeOK
  <2>6. sink' \in Sinks
    BY DEF IInv, TypeOK
  <2>7. ahead' \in Nat
    BY <1>1
  <2> QED BY <1>0, <1>4, <2>1, <2>2, <2>3, <2>4, <2>5, <2>6, <2>7 DEF TypeOK
<1>13. NothingElseTouched'
  <2>1. ASSUME Kind \in {"slice", "mmap"}, NEW i \in 1 .. Len(buf'),
               i <= Start \/ i > Start + Len(taken')
        PROVE  buf'[i] = Old
    <3>1. i \in 1 .. Len(buf)
      BY <1>1, <2>1
    <3>2. i <= Start \/ i > Start + Len(taken)
      BY <1>1, <1>4, <2>1
    <3>3. buf[i] = Old
      BY <2>1, <3>1, <3>2 DEF IInv, NothingElseTouched
    <3>4. i <= End \/ i > End + Len(acc)
      BY <1>1, <1>4, <2>1 DEF End
    <3> QED BY <3>1, <3>3, <3>4
  <2>2. Kind = "vec" =>
          Len(buf') = IF Len(taken') = ahead' THEN ahead' ELSE Base + Len(taken')
    BY <1>0, <1>16 DEF Start, End
  <2>3. ASSUME Kind = "vec", NEW i \in ahead + 1 .. Len(buf'), i <= Base + ahead
        PROVE  buf'[i] = 0
    <3>1. Base = Start /\ End = Base + Len(taken) /\ i <= End
      BY <1>1, <2>3 DEF Start, End
    <3>2. CASE i <= Len(buf)
      <4>1. i \in 1 .. Len(buf) /\ i \in ahead + 1 .. Len(buf)
        BY <1>1, <2>3, <3>2
      <4>2. buf[i] = 0
        BY <2>3, <4>1 DEF IInv, NothingElseTouched
      <4> QED BY <3>1, <4>1, <4>2
    <3>3. CASE i > Len(buf)
      <4>1. i \in Len(buf) + 1 .. End
        BY <1>1, <2>3, <3>1, <3>3
      <4> QED BY <2>3, <4>1
    <3> QED BY <1>1, <2>3, <3>2, <3>3
  <2>4. Kind' = Kind /\ Base' = Base /\ Start' = Start /\ ahead' = ahead
    BY <1>0
  <2> QED BY <2>1, <2>2, <2>3, <2>4 DEF NothingElseTouched
<1>14. WrittenIsTheEnd'
  <2>1. Kind \in {"slice", "mmap"} =>
          written = IF taken = << >> THEN 0 ELSE Start + Len(taken)
    BY DEF IInv, WrittenIsTheEnd
  <2>2. CASE Kind = "slice"
    <3>1. written = Len(taken)
      BY <1>1, <1>2, <1>9, <2>1, <2>2
    <3>2. written' = Len(taken')
      <4>1. written' = Larger(Len(taken), Len(taken) + Len(acc))
        BY <1>6, <1>9, <2>2, <3>1
      <4>2. Larger(Len(taken), Len(taken) + Len(acc)) = Len(taken) + Len(acc)
        BY <1>1 DEF Larger
      <4> QED BY <1>4, <4>1, <4>2
    <3>3. taken' = << >> => Len(taken') = 0
      BY <1>1, <1>2, <1>4
    <3>4. Start' + Len(taken') = Len(taken')
      BY <1>0, <1>1, <1>4, <1>9, <2>2
    <3> QED BY <1>0, <2>2, <3>2, <3>3, <3>4 DEF WrittenIsTheEnd
  <2>3. CASE Kind = "mmap"
    <3>1. Start = Base /\ taken' # << >>
      BY <1>2, <2>3 DEF Start
    <3>2. written <= pos
      BY <1>1, <1>2, <1>7, <2>1, <2>3, <3>1
    <3>3. written' = Start' + Len(taken')
      BY <1>0, <1>1, <1>4, <1>6, <1>7, <2>3, <3>1, <3>2 DEF Larger
    <3> QED BY <1>0, <2>3, <3>1, <3>3 DEF WrittenIsTheEnd
  <2> QED BY <1>0, <2>2, <2>3 DEF WrittenIsTheEnd
<1>15. PosTellsOfFailure'
  BY <1>0 DEF PosTellsOfFailure
<1> QED BY <1>4, <1>8, <1>11, <1>12, <1>13, <1>14, <1>15 DEF IInv

-----------------------------------------------------------------------------
(* The requests *)

\* A request that is refused, or that asks for nothing, only has an answer; a
\* step that changes nothing has the answer it had.
LEMMA AnswerStep ==
  ASSUME IInv,
         UNCHANGED <<sink, storeVars>>,
         progress' \in {"complete", "partial", "blocked", "error"}
  PROVE  IInv'
<1>0. Kind' = Kind /\ Base' = Base /\ Capacity' = Capacity /\ Start' = Start
  BY SinkStays
<1>1. TypeOK'
  BY <1>0 DEF storeVars, IInv, TypeOK
<1>2. Tight' /\ HoldsWhatItTook' /\ PosCountsTaken'
  BY <1>0 DEF storeVars, IInv, Tight, End, At, HoldsWhatItTook, PosCountsTaken
<1>3. NothingElseTouched' /\ WrittenIsTheEnd' /\ PosTellsOfFailure'
  BY <1>0 DEF storeVars, IInv, NothingElseTouched, WrittenIsTheEnd,
              PosTellsOfFailure
<1> QED BY <1>1, <1>2, <1>3 DEF IInv

\* A WriteSerializer holds no byte itself: what matters are the types, and its
\* position, which falls behind when the writer fails.
LEMMA HandOverStep ==
  ASSUME IInv, Kind = "writer", UNCHANGED sink,
         NEW bytes \in Seq(Byte), bytes # << >>, HandOver(bytes)
  PROVE  IInv'
<1>1. taken' \in Seq(Byte) /\ progress' = "complete"
  BY DEF HandOver, IInv, TypeOK
<1>2. Len(bytes) \in Nat /\ pos \in Nat
  BY DEF IInv, TypeOK
<1>3. /\ pos' \in Nat
      /\ file' \in Seq(Byte)
  <2>1. CASE file' = file \o bytes /\ pos' = pos + Len(bytes)
    BY <1>2, <2>1 DEF IInv, TypeOK
  <2>2. CASE /\ \E k \in 0 .. Len(bytes) - 1 : file' = file \o SubSeq(bytes, 1, k)
             /\ UNCHANGED pos
    <3>1. PICK k \in 0 .. Len(bytes) - 1 : file' = file \o SubSeq(bytes, 1, k)
      BY <2>2
    <3>2. k \in 0 .. Len(bytes)
      BY <1>2
    <3>3. SubSeq(bytes, 1, k) \in Seq(Byte)
      BY <3>2, AcceptedIs
    <3> QED BY <1>2, <2>2, <3>1, <3>3 DEF IInv, TypeOK
  <2> QED BY <2>1, <2>2 DEF HandOver
<1>4. Kind' = Kind /\ Capacity' = Capacity /\ Base' = Base
  BY SinkStays
<1>5. TypeOK'
  BY <1>1, <1>3, <1>4 DEF HandOver, IInv, TypeOK
<1>6. PosTellsOfFailure'
  <2>1. /\ taken \in Seq(Byte) /\ file \in Seq(Byte) /\ Base \in Nat
        /\ Len(taken) \in Nat
    BY SinkIs DEF IInv, TypeOK
  <2>2. taken' = taken \o bytes /\ Len(taken') = Len(taken) + Len(bytes)
    BY <2>1, ConcatProperties DEF HandOver
  <2>3. /\ pos <= Base + Len(taken)
        /\ pos = Base + Len(taken) => file = taken
    BY DEF IInv, PosTellsOfFailure
  <2>4. CASE file' = file \o bytes /\ pos' = pos + Len(bytes)
    <3>1. pos' <= Base + Len(taken')
      BY <1>2, <2>1, <2>2, <2>3, <2>4
    <3>2. pos' = Base + Len(taken') => pos = Base + Len(taken)
      <4> DEFINE T == Len(taken)
                 L == Len(bytes)
      <4>1. pos \in Nat /\ Base \in Nat /\ T \in Nat /\ L \in Nat
        BY <1>2, <2>1
      <4>2. pos' = pos + L /\ Len(taken') = T + L
        BY <2>2, <2>4
      <4> HIDE DEF T, L
      <4>3. pos + L = Base + (T + L) => pos = Base + T
        BY <4>1
      <4>4. pos' = Base + Len(taken') => pos = Base + T
        BY <4>2, <4>3
      <4> QED BY <4>4 DEF T
    <3> QED BY <1>4, <2>2, <2>3, <2>4, <3>1, <3>2 DEF PosTellsOfFailure
  <2>5. CASE pos' = pos
    <3>1. Len(bytes) > 0
      BY <1>2, EmptySeq
    <3>2. pos' < Base + Len(taken')
      BY <1>2, <2>1, <2>2, <2>3, <2>5, <3>1
    <3> QED BY <1>2, <1>4, <2>1, <2>2, <2>5, <3>2 DEF PosTellsOfFailure
  <2> QED BY <2>4, <2>5 DEF HandOver
<1>7. ahead' <= Len(taken')
  <2>1. taken' = taken \o bytes /\ ahead' = ahead
    BY DEF HandOver
  <2>2. taken \in Seq(Byte) /\ ahead <= Len(taken) /\ ahead \in Nat
    BY DEF IInv, TypeOK, Tight
  <2> QED BY <1>2, <2>1, <2>2, ConcatProperties
<1> QED BY <1>4, <1>5, <1>6, <1>7
        DEF IInv, Tight, HoldsWhatItTook, PosCountsTaken,
            NothingElseTouched, WrittenIsTheEnd

\* A request is offered no more than it asks for, and no more than there is.
LEMMA OfferedIs ==
  ASSUME IInv, Kind # "writer", NEW n \in Nat, ~Refuses(n)
  PROVE  /\ Offered(n) \in 0 .. n
         /\ Kind # "slice" => Offered(n) = n
         /\ Kind # "vec" => End + Offered(n) <= Len(buf)
         /\ Place = End
<1>1. /\ Len(buf) \in Nat /\ Len(taken) \in Nat /\ Base \in Nat
      /\ writePos \in Nat
      /\ Kind = "slice" => writePos <= Len(buf)
      /\ Kind = "slice" => writePos = Len(taken)
      /\ pos = Base + Len(taken)
  BY SinkIs DEF IInv, TypeOK, Tight, PosCountsTaken
<1>2. Place = End
  BY <1>1 DEF Place, End, Start
<1>3. CASE Kind = "slice"
  <2>1. End = writePos
    BY <1>1, <1>3 DEF End, Start
  <2>2. Offered(n) \in 0 .. n /\ writePos + Offered(n) <= Len(buf)
    BY <1>1, <1>3 DEF Offered
  <2> QED BY <1>2, <1>3, <2>1, <2>2
<1>4. CASE Kind = "mmap"
  <2>1. End = pos /\ pos + n <= Len(buf)
    BY <1>1, <1>4 DEF End, Start, Refuses
  <2> QED BY <1>2, <1>4, <2>1 DEF Offered
<1>5. CASE Kind = "vec"
  BY <1>2, <1>5 DEF Offered
<1> QED BY <1>3, <1>4, <1>5, SinkIs DEF IInv, TypeOK

\* A vector is not longer than archive_pos.
LEMMA GrownAtMost ==
  ASSUME IInv, Kind = "vec"
  PROVE  Len(buf) <= End
<1>1. /\ Base \in Nat /\ Len(taken) \in Nat
      /\ ahead <= Len(taken) /\ ahead \in Nat
      /\ Len(buf) = IF Len(taken) = ahead THEN ahead ELSE End
  BY SinkIs DEF IInv, TypeOK, Tight
<1>2. End = Base + Len(taken)
  BY DEF End, Start
<1> QED BY <1>1, <1>2

\* VecSerializer grows to the end of the request, the others do not grow.
LEMMA GrownIs ==
  ASSUME IInv, Kind # "writer", NEW n \in Nat
  PROVE  /\ Grown(n) \in Seq(Byte)
         /\ Kind # "vec" => Grown(n) = buf
         /\ Kind = "vec" /\ n > 0 => Len(Grown(n)) = End + n
         /\ Len(buf) <= Len(Grown(n))
         /\ \A i \in 1 .. Len(buf) : Grown(n)[i] = buf[i]
         /\ \A i \in Len(buf) + 1 .. Len(Grown(n)) : Grown(n)[i] = 0
<1>1. /\ buf \in Seq(Byte) /\ Len(buf) \in Nat /\ End \in Nat /\ pos \in Nat
      /\ Kind = "vec" => pos = End /\ Len(buf) <= End
  <2>1. /\ buf \in Seq(Byte) /\ Len(buf) \in Nat /\ Base \in Nat
        /\ taken \in Seq(Byte) /\ Len(taken) \in Nat
        /\ pos = Base + Len(taken)
    BY SinkIs DEF IInv, TypeOK, PosCountsTaken
  <2>2. /\ End \in Nat /\ pos \in Nat
        /\ Kind = "vec" => pos = End
    BY <2>1 DEF End, Start
  <2>3. Kind = "vec" => Len(buf) <= End
    BY GrownAtMost
  <2> QED BY <2>1, <2>2, <2>3
<1>2. CASE Kind = "vec" /\ pos + n > Len(buf)
  <2> DEFINE more == pos + n - Len(buf)
  <2>1. more \in Nat
    BY <1>1, <1>2
  <2>2. Filled(more, 0) \in Seq(Byte) /\ Len(Filled(more, 0)) = more
    BY <2>1, FilledIs, StorageAssumption
  <2>3. Grown(n) = buf \o Filled(more, 0)
    BY <1>2 DEF Grown
  <2> DEFINE zeros == Filled(more, 0)
  <2> HIDE DEF zeros
  <2>4. /\ zeros \in Seq(Byte)
        /\ Len(zeros) = more
        /\ Grown(n) = buf \o zeros
    BY <2>2, <2>3 DEF zeros
  <2> HIDE DEF more
  <2>5. /\ Grown(n) \in Seq(Byte)
        /\ Len(Grown(n)) = Len(buf) + more
        /\ \A i \in 1 .. Len(buf) : Grown(n)[i] = buf[i]
    <3>1. buf \in Seq(Byte) /\ zeros \in Seq(Byte)
      BY <1>1, <2>4
    <3>2. /\ buf \o zeros \in Seq(Byte)
          /\ Len(buf \o zeros) = Len(buf) + Len(zeros)
          /\ \A i \in 1 .. Len(buf) : (buf \o zeros)[i] = buf[i]
      BY <3>1, ConcatIs
    <3> QED BY <2>4, <3>2
  <2>8. \A i \in Len(buf) + 1 .. Len(Grown(n)) : Grown(n)[i] = 0
    <3>1. \A i \in 1 .. more : zeros[i] = 0
      BY <2>1, FilledIs, StorageAssumption DEF zeros
    <3>2. \A i \in 1 .. Len(zeros) : (buf \o zeros)[Len(buf) + i] = zeros[i]
      BY <1>1, <2>4, ConcatIs
    <3>3. ASSUME NEW i \in Len(buf) + 1 .. Len(Grown(n)) PROVE Grown(n)[i] = 0
      <4>1. PICK k \in 1 .. more : i = Len(buf) + k
        <5>1. i - Len(buf) \in 1 .. more /\ i = Len(buf) + (i - Len(buf))
          BY <1>1, <2>1, <2>5
        <5> QED BY <5>1
      <4> QED BY <2>4, <3>1, <3>2, <4>1
    <3> QED BY <3>3
  <2>6. Len(Grown(n)) = End + n
    BY <1>1, <1>2, <2>5 DEF more
  <2>7. Len(buf) <= Len(Grown(n))
    BY <1>1, <2>1, <2>5
  <2> QED BY <1>2, <2>5, <2>6, <2>7, <2>8
<1>3. CASE ~(Kind = "vec" /\ pos + n > Len(buf))
  <2>1. Grown(n) = buf
    BY <1>3 DEF Grown
  <2>2. ~(Kind = "vec" /\ n > 0)
    BY <1>1, <1>3
  <2> QED BY <1>1, <2>1, <2>2
<1> QED BY <1>2, <1>3

\* A copy keeps the invariant.
LEMMA CopyStep ==
  ASSUME IInv, Kind # "writer", UNCHANGED sink,
         NEW bytes \in Seq(Byte), bytes # << >>,
         ~Refuses(Len(bytes)), Copy(bytes)
  PROVE  IInv'
<1> DEFINE n == Offered(Len(bytes))
           acc == SubSeq(bytes, 1, n)
           grown == Grown(n)
<1>1. /\ Len(bytes) \in Nat /\ Len(bytes) > 0
      /\ End \in Nat
      /\ Len(buf) \in Nat
  BY SinkIs, EmptySeq DEF IInv, TypeOK, End, Start
<1>2. /\ n \in 0 .. Len(bytes)
      /\ Kind # "slice" => n = Len(bytes)
      /\ Kind # "vec" => End + n <= Len(buf)
      /\ Place = End
  BY <1>1, OfferedIs
<1>3. acc \in Seq(Byte) /\ Len(acc) = n
  BY <1>2, AcceptedIs
<1>4. /\ buf' = Overwritten(grown, End, acc)
      /\ Advance(n)
      /\ taken' = taken \o acc
      /\ file' = file /\ ahead' = ahead
      /\ progress' \in {"complete", "partial", "blocked"}
  BY <1>2 DEF Copy, FromAccepted
<1> HIDE DEF n, acc
<1>5. /\ grown \in Seq(Byte)
      /\ Kind # "vec" => grown = buf
      /\ Kind = "vec" /\ n > 0 => Len(grown) = End + n
      /\ Len(buf) <= Len(grown)
      /\ \A i \in 1 .. Len(buf) : grown[i] = buf[i]
      /\ \A i \in Len(buf) + 1 .. Len(grown) : grown[i] = 0
  <2>1. n \in Nat
    BY <1>1, <1>2
  <2> QED BY <2>1, GrownIs, Zenon
<1> HIDE DEF grown
<1>6. End + n <= Len(grown) /\ Len(grown) \in Nat
  BY <1>1, <1>2, <1>5
<1>7. /\ buf' \in Seq(Byte)
      /\ Len(buf') = Len(grown)
      /\ \A i \in 1 .. Len(grown) :
           i <= End \/ i > End + Len(acc) => buf'[i] = grown[i]
      /\ \A i \in 1 .. Len(acc) : buf'[End + i] = acc[i]
  BY <1>1, <1>3, <1>4, <1>5, <1>6, OverwrittenIs, SMTT(60)
<1>8. \A i \in 1 .. Len(buf) :
        i <= End \/ i > End + Len(acc) => buf'[i] = buf[i]
  <2> TAKE i \in 1 .. Len(buf)
  <2>1. i \in 1 .. Len(grown)
    BY <1>1, <1>5, <1>6
  <2> QED BY <1>5, <1>7, <2>1
<1>9. Kind # "slice" => acc # << >>
  BY <1>1, <1>2, <1>3, EmptySeq
<1>10. Kind = "vec" => /\ Len(buf') = End + Len(acc)
                       /\ acc = << >> => Len(buf) = End
                       /\ \A i \in Len(buf) + 1 .. End : buf'[i] = 0
  <2>1. SUFFICES ASSUME Kind = "vec"
                 PROVE  /\ Len(buf') = End + Len(acc)
                        /\ \A i \in Len(buf) + 1 .. End : buf'[i] = 0
    BY <1>9
  <2>2. Len(buf') = End + Len(acc)
    BY <1>1, <1>2, <1>3, <1>5, <1>7, <2>1
  <2>3. ASSUME NEW i \in Len(buf) + 1 .. End PROVE buf'[i] = 0
    <3>1. /\ i \in 1 .. Len(grown) /\ i \in Len(buf) + 1 .. Len(grown)
          /\ i <= End
      BY <1>1, <1>2, <1>6
    <3> QED BY <1>5, <1>7, <3>1
  <2> QED BY <2>2, <2>3
<1>11. Kind # "vec" => Len(buf') = Len(buf) /\ End + Len(acc) <= Len(buf)
  BY <1>2, <1>3, <1>5, <1>7
<1>12. Advance(Len(acc))
  BY <1>3, <1>4
<1> QED BY <1>3, <1>4, <1>7, <1>8, <1>9, <1>10, <1>11, <1>12, StepIInv

-----------------------------------------------------------------------------

\* Every byte sequence that is offered is one.
LEMMA BytesAre ==
  ASSUME NEW n \in Nat, NEW bytes \in [1 .. n -> Byte]
  PROVE  /\ bytes \in Seq(Byte)
         /\ Len(bytes) = n
  OBVIOUS

LEMMA RequestStep ==
  ASSUME IInv, NEW bytes \in Seq(Byte), Request(bytes)
  PROVE  IInv'
<1>1. CASE bytes = << >>
  BY <1>1, AnswerStep DEF Request, Answer
<1>2. CASE bytes # << >> /\ Refuses(Len(bytes))
  BY <1>2, AnswerStep DEF Request, Answer
<1>3. CASE bytes # << >> /\ ~Refuses(Len(bytes)) /\ Kind = "writer"
  BY <1>3, HandOverStep DEF Request, Answer
<1>4. CASE bytes # << >> /\ ~Refuses(Len(bytes)) /\ Kind # "writer"
  BY <1>4, CopyStep DEF Request, Answer
<1> QED BY <1>1, <1>2, <1>3, <1>4

\* io::Write that reaches a vector which is shorter than archive_pos.
LEMMA AheadStep ==
  ASSUME IInv, Kind = "vec", Len(buf) < pos,
         NEW acc \in Seq(Byte),
         UNCHANGED <<sink, file>>,
         buf' = buf \o acc,
         taken' = taken \o acc,
         ahead' = ahead + Len(acc),
         Advance(Len(acc)),
         progress' \in {"complete", "partial", "blocked"}
  PROVE  IInv'
<1>0. Kind' = Kind /\ Base' = Base /\ Capacity' = Capacity /\ Start' = Start
  BY SinkStays
<1>1. /\ buf \in Seq(Byte) /\ Len(buf) \in Nat
      /\ taken \in Seq(Byte) /\ Len(taken) \in Nat
      /\ Len(acc) \in Nat /\ Base \in Nat /\ ahead \in Nat
      /\ pos = Base + Len(taken)
      /\ Len(buf) = IF Len(taken) = ahead THEN ahead ELSE Base + Len(taken)
  BY SinkIs DEF IInv, TypeOK, PosCountsTaken, NothingElseTouched
<1>2. Len(taken) = ahead /\ Len(buf) = ahead /\ Base > 0
  BY <1>1
<1>3. /\ buf' \in Seq(Byte)
      /\ Len(buf') = Len(buf) + Len(acc)
      /\ \A i \in 1 .. Len(buf) : buf'[i] = buf[i]
      /\ \A i \in 1 .. Len(acc) : buf'[Len(buf) + i] = acc[i]
  BY <1>1, ConcatIs
<1>4. /\ taken' \in Seq(Byte)
      /\ Len(taken') = Len(taken) + Len(acc)
      /\ \A i \in 1 .. Len(taken) : taken'[i] = taken[i]
      /\ \A i \in 1 .. Len(acc) : taken'[Len(taken) + i] = acc[i]
  BY <1>1, ConcatIs
<1>5. ahead' \in Nat /\ Len(taken') = ahead' /\ Len(buf') = ahead'
  BY <1>1, <1>2, <1>3, <1>4
<1>6. /\ pos' = pos + Len(acc) /\ writePos' = writePos /\ written' = written
  BY DEF Advance
<1>7. HoldsWhatItTook'
  <2>1. ASSUME NEW i \in 1 .. Len(taken')
        PROVE  /\ i <= ahead' /\ i <= Len(buf')
               /\ buf'[i] = taken'[i]
    <3>1. CASE i <= Len(taken)
      <4>1. i \in 1 .. Len(taken) /\ i <= ahead /\ i \in 1 .. Len(buf)
        BY <1>1, <1>2, <3>1
      <4>2. buf[i] = taken[i]
        BY <4>1 DEF IInv, HoldsWhatItTook, At
      <4> QED BY <1>3, <1>4, <1>5, <4>1, <4>2
    <3>2. CASE ~(i <= Len(taken))
      <4>1. PICK k \in 1 .. Len(acc) : i = Len(taken) + k
        <5>1. i - Len(taken) \in 1 .. Len(acc) /\ i = Len(taken) + (i - Len(taken))
          BY <1>1, <1>4, <3>2
        <5> QED BY <5>1
      <4> QED BY <1>1, <1>2, <1>3, <1>4, <1>5, <4>1
    <3> QED BY <3>1, <3>2
  <2>2. \A i \in 1 .. Len(taken') : At(i)' <= Len(buf') /\ buf'[At(i)'] = taken'[i]
    BY <2>1 DEF At
  <2> QED BY <1>0, <1>2, <2>2 DEF HoldsWhatItTook, At
<1>8. TypeOK'
  <2>1. pos' \in Nat /\ writePos' \in Nat /\ written' \in Nat
    BY <1>1, <1>6 DEF IInv, TypeOK
  <2> QED BY <1>0, <1>3, <1>4, <1>5, <2>1 DEF IInv, TypeOK
<1>9. Tight'
  BY <1>0, <1>5 DEF Tight
<1>10. PosCountsTaken'
  BY <1>0, <1>1, <1>4, <1>6 DEF PosCountsTaken
<1>11. NothingElseTouched'
  <2>1. \A i \in ahead' + 1 .. Len(buf') : FALSE
    BY <1>5
  <2> QED BY <1>0, <1>5, <2>1 DEF NothingElseTouched
<1>12. WrittenIsTheEnd' /\ PosTellsOfFailure'
  BY <1>0 DEF WrittenIsTheEnd, PosTellsOfFailure
<1> QED BY <1>7, <1>8, <1>9, <1>10, <1>11, <1>12 DEF IInv

\* io::Write of the slice is a copy of what fits; the vector is extended at its
\* end.
LEMMA IoWriteStep == IInv /\ IoWrite => IInv'
<1> SUFFICES ASSUME IInv, IoWrite PROVE IInv'
  OBVIOUS
<1>0. PICK n \in 0 .. MaxRequest : \E bytes \in [1 .. n -> Byte] :
        LET accepted == SubSeq(bytes, 1, Offered(n))
        IN  /\ buf' = IF Kind = "vec" THEN buf \o accepted
                      ELSE Overwritten(buf, writePos, accepted)
            /\ Advance(Offered(n))
            /\ taken' = taken \o accepted
            /\ ahead' = IF Kind = "vec" /\ Len(buf) < pos
                        THEN ahead + Len(accepted) ELSE ahead
            /\ progress' = FromAccepted(n, Offered(n))
            /\ UNCHANGED file
  BY DEF IoWrite
<1>1. PICK bytes \in [1 .. n -> Byte] :
        /\ buf' = IF Kind = "vec" THEN buf \o SubSeq(bytes, 1, Offered(n))
                  ELSE Overwritten(buf, writePos, SubSeq(bytes, 1, Offered(n)))
        /\ Advance(Offered(n))
        /\ taken' = taken \o SubSeq(bytes, 1, Offered(n))
        /\ ahead' = IF Kind = "vec" /\ Len(buf) < pos
                    THEN ahead + Len(SubSeq(bytes, 1, Offered(n))) ELSE ahead
        /\ progress' = FromAccepted(n, Offered(n))
        /\ file' = file
  BY <1>0
<1>2. /\ UNCHANGED sink
      /\ Kind \in {"slice", "vec"}
  BY SinkIs DEF IoWrite, IInv, TypeOK
<1>3. n \in Nat
  BY StorageAssumption
<1>4. bytes \in Seq(Byte) /\ Len(bytes) = n
  BY <1>3, BytesAre
<1>5. /\ Offered(n) \in 0 .. n
      /\ Kind = "slice" => End + Offered(n) <= Len(buf)
      /\ Kind = "slice" => writePos = End
  <2>1. ~Refuses(n)
    BY <1>2 DEF Refuses
  <2> QED BY <1>2, <1>3, <2>1, OfferedIs DEF Place
<1> DEFINE acc == SubSeq(bytes, 1, Offered(n))
<1>6. acc \in Seq(Byte) /\ Len(acc) = Offered(n)
  BY <1>4, <1>5, AcceptedIs
<1>7. /\ taken' = taken \o acc
      /\ Advance(Len(acc))
      /\ progress' \in {"complete", "partial", "blocked"}
      /\ Kind = "vec" => buf' = buf \o acc
      /\ Kind = "slice" => buf' = Overwritten(buf, End, acc)
      /\ ahead' = IF Kind = "vec" /\ Len(buf) < pos
                  THEN ahead + Len(acc) ELSE ahead
  BY <1>1, <1>2, <1>5, <1>6 DEF FromAccepted
<1> HIDE DEF acc
<1>8. /\ buf \in Seq(Byte) /\ Len(buf) \in Nat
      /\ taken \in Seq(Byte) /\ Len(taken) \in Nat
      /\ End \in Nat /\ Len(acc) \in Nat
  BY <1>6, SinkIs DEF IInv, TypeOK, End, Start
<1>9. CASE Kind = "slice"
  <2>1. End + Len(acc) <= Len(buf)
    BY <1>5, <1>6, <1>9
  <2>2. /\ buf' \in Seq(Byte)
        /\ Len(buf') = Len(buf)
        /\ \A i \in 1 .. Len(buf) :
             i <= End \/ i > End + Len(acc) => buf'[i] = buf[i]
        /\ \A i \in 1 .. Len(acc) : buf'[End + i] = acc[i]
    <3>1. buf' = Overwritten(buf, End, acc)
      BY <1>7, <1>9
    <3>2. buf \in Seq(Byte) /\ End \in Nat /\ acc \in Seq(Byte)
      BY <1>6, <1>8
    <3> QED BY <2>1, <3>1, <3>2, OverwrittenIs
  <2> QED BY <1>1, <1>2, <1>6, <1>7, <1>9, <2>1, <2>2, StepIInv
<1>11. CASE Kind = "vec" /\ Len(buf) < pos
  BY <1>1, <1>2, <1>6, <1>7, <1>11, AheadStep
<1>10. CASE Kind = "vec" /\ ~(Len(buf) < pos)
  <2>2. Len(buf) = End
    <3>1. pos = End
      BY <1>10 DEF IInv, PosCountsTaken, End, Start
    <3>2. Len(buf) <= End
      BY <1>3, <1>10, GrownAtMost
    <3> QED BY <1>8, <1>10, <3>1, <3>2
  <2>3. buf' = buf \o acc
    BY <1>7, <1>10
  <2>4. /\ buf' \in Seq(Byte)
        /\ Len(buf') = Len(buf) + Len(acc)
        /\ \A i \in 1 .. Len(buf) : buf'[i] = buf[i]
        /\ \A i \in 1 .. Len(acc) : buf'[Len(buf) + i] = acc[i]
    BY <1>6, <1>8, <2>3, ConcatIs
  <2>5. \A i \in 1 .. Len(acc) : buf'[End + i] = acc[i]
    BY <2>2, <2>4
  <2>6. /\ Len(buf') = End + Len(acc)
        /\ \A i \in Len(buf) + 1 .. End : buf'[i] = 0
    BY <1>8, <2>2, <2>4
  <2>7. ahead' = ahead
    BY <1>7, <1>10
  <2> QED BY <1>1, <1>2, <1>6, <1>7, <1>10, <2>2, <2>4, <2>5, <2>6, <2>7,
             StepIInv
<1> QED BY <1>2, <1>9, <1>10, <1>11

\* Every step keeps the invariant.
THEOREM NextIInv == IInv /\ [Next]_vars => IInv'
<1> SUFFICES ASSUME IInv, [Next]_vars PROVE IInv'
  OBVIOUS
<1>1. CASE Write
  <2>1. PICK n \in 0 .. MaxRequest :
          \E bytes \in [1 .. n -> Byte] : Request(bytes)
    BY <1>1 DEF Write
  <2>2. PICK bytes \in [1 .. n -> Byte] : Request(bytes)
    BY <2>1
  <2>3. bytes \in Seq(Byte)
    BY StorageAssumption, BytesAre
  <2> QED BY <2>2, <2>3, RequestStep
<1>2. CASE Align
  <2>1. PICK align \in Aligns : Request(Filled(Padding(align), 0))
    BY <1>2 DEF Align
  <2>2. Padding(align) \in Nat
    <3>1. align \in Nat /\ align > 0 /\ pos \in Nat
      BY StorageAssumption DEF IInv, TypeOK
    <3>2. pos % align \in 0 .. align - 1
      BY <3>1
    <3> QED BY <3>1, <3>2 DEF Padding
  <2>3. Filled(Padding(align), 0) \in Seq(Byte)
    BY <2>2, FilledIs, StorageAssumption
  <2> QED BY <2>1, <2>3, RequestStep
<1>3. CASE IoWrite
  BY <1>3, IoWriteStep
<1>4. CASE UNCHANGED vars
  <2>1. UNCHANGED <<sink, storeVars>> /\ progress' = progress
    BY <1>4 DEF vars
  <2> QED BY <2>1, AnswerStep DEF IInv, TypeOK
<1> QED BY <1>1, <1>2, <1>3, <1>4 DEF Next

\* The invariant holds always.
THEOREM Invariance == Spec => []IInv
<1>1. Init => IInv
  BY InitIInv
<1>2. IInv /\ [Next]_vars => IInv'
  BY NextIInv
<1> QED BY <1>1, <1>2, PTL DEF Spec

\* The sink's variables keep their types, and a slice's write position stays
\* within the slice.
THEOREM TypeCorrect == Spec => []TypeOK
<1>1. IInv => TypeOK
  BY DEF IInv
<1> QED BY <1>1, Invariance, PTL

\* A slice, vector or map holds what it reported as taken, in order, and without
\* a gap but behind what io::Write put into a vector ahead of archive_pos.
THEOREM HoldsCorrect == Spec => []HoldsWhatItTook
<1>1. IInv => HoldsWhatItTook
  BY DEF IInv
<1> QED BY <1>1, Invariance, PTL

\* The position counts what was taken.
THEOREM PosCorrect == Spec => []PosCountsTaken
<1>1. IInv => PosCountsTaken
  BY DEF IInv
<1> QED BY <1>1, Invariance, PTL

\* No byte outside the archive is touched, but the zeros in front of a vector's
\* archive and what io::Write puts there before anything else is written.
THEOREM OutsideCorrect == Spec => []NothingElseTouched
<1>1. IInv => NothingElseTouched
  BY DEF IInv
<1> QED BY <1>1, Invariance, PTL

\* The high-water mark is the archive's end.
THEOREM WrittenCorrect == Spec => []WrittenIsTheEnd
<1>1. IInv => WrittenIsTheEnd
  BY DEF IInv
<1> QED BY <1>1, Invariance, PTL

\* The position of a WriteSerializer tells of a writer that failed.
THEOREM FailureCorrect == Spec => []PosTellsOfFailure
<1>1. IInv => PosTellsOfFailure
  BY DEF IInv
<1> QED BY <1>1, Invariance, PTL
=============================================================================
