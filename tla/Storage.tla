------------------------------- MODULE Storage -------------------------------
(***************************************************************************)
(* The sinks of io/storage.rs and io/storage/mmap.rs behind CursorMut: a   *)
(* slice that takes what fits, a vector that grows, a memory map that      *)
(* refuses what does not fit, and a std::io::Write behind a buffer.        *)
(*                                                                         *)
(* `taken` is what the callers were told the sink took: of every request   *)
(* the part SinkProgress counts as accepted.                               *)
(*                                                                         *)
(* VecSerializer writes at archive_pos through CursorMut, but at the end   *)
(* of its vector through io::Write.  They are the same place once a byte   *)
(* was written through CursorMut, or if archive_pos began at 0; `ahead`    *)
(* counts the bytes io::Write put in front of where the archive begins.    *)
(***************************************************************************)
EXTENDS Integers, Sequences

CONSTANTS
  Sinks,        \* the sinks, each a record of
                \*   kind      "slice", "vec", "mmap" or "writer"
                \*   base      archive_pos at the start
                \*   capacity  the bytes of the slice or map
                \*   io        it is written to through std::io::Write too
  Byte,         \* the bytes that are written, zero among them
  Old,          \* the byte the slice or map is filled with at the start
  Aligns,       \* the alignments that are asked for
  WriterFails,  \* the writer behind a WriteSerializer may fail
  MaxTaken,     \* bound: the bytes that are taken in all
  MaxRequest    \* bound: the bytes of one request

ASSUME StorageAssumption ==
  /\ \A s \in Sinks :
       /\ s.kind \in {"slice", "vec", "mmap", "writer"}
       /\ s.base \in Nat
       /\ s.capacity \in Nat
       /\ s.io => s.kind \in {"slice", "vec"}
       /\ s.kind = "mmap" => s.base <= s.capacity
  /\ 0 \in Byte /\ Old \in Byte
  /\ Aligns \subseteq Nat \ {0}
  /\ WriterFails \in BOOLEAN
  /\ MaxTaken \in Nat /\ MaxRequest \in Nat

VARIABLES
  sink,       \* which sink it is
  buf,        \* the bytes of the slice, vector or map
  pos,        \* archive_pos
  writePos,   \* SliceSerializer::write_pos
  written,    \* the high-water mark of SliceSerializer and MmapSerializer
  file,       \* the bytes that reached the writer
  taken,      \* the bytes that were reported as taken
  ahead,      \* history: how many of them, the first, are at the vector's front
  progress    \* the answer to the last request

storeVars == <<buf, pos, writePos, written, file, taken, ahead>>
vars == <<sink, storeVars, progress>>

Kind == sink.kind
Base == sink.base
Capacity == sink.capacity

Filled(n, byte) == [i \in 1 .. n |-> byte]

Init ==
  /\ sink \in Sinks
  /\ buf = IF Kind \in {"slice", "mmap"} THEN Filled(Capacity, Old) ELSE << >>
  /\ pos = Base
  /\ writePos = 0
  /\ written = 0
  /\ file = << >>
  /\ taken = << >>
  /\ ahead = 0
  /\ progress = "complete"

-----------------------------------------------------------------------------
(* peek_buf_mut *)

\* MmapSerializer: BufferTooSmall.
Refuses(n) == Kind = "mmap" /\ pos + n > Len(buf)

\* SliceSerializer offers what is left, the others what is asked for.
\* (Mutant of Offered: so does the slice.)
OfferedAll(n) == n
Offered(n) ==
  IF Kind = "slice" /\ Len(buf) - writePos < n THEN Len(buf) - writePos ELSE n

\* VecSerializer resizes up to the end of the request.  The buffer of a
\* WriteSerializer is overwritten by every request, so it is left out.
Grown(n) ==
  IF Kind = "vec" /\ pos + n > Len(buf)
  THEN buf \o Filled(pos + n - Len(buf), 0) ELSE buf

\* Where the next byte goes.
Place == IF Kind = "slice" THEN writePos ELSE pos

-----------------------------------------------------------------------------
(* advance, and CursorMut's writes *)

\* (Mutants of Overwritten: the copy begins a byte too early; what is behind
\* it is cleared.)
OverwrittenBehind(b, at, bytes) ==
  [i \in 1 .. Len(b) |->
     IF i >= at /\ i < at + Len(bytes) THEN bytes[i - at + 1] ELSE b[i]]
OverwrittenToEnd(b, at, bytes) ==
  [i \in 1 .. Len(b) |->
     IF i <= at THEN b[i] ELSE IF i <= at + Len(bytes) THEN bytes[i - at] ELSE 0]
Overwritten(b, at, bytes) ==
  [i \in 1 .. Len(b) |->
     IF i > at /\ i <= at + Len(bytes) THEN bytes[i - at] ELSE b[i]]

Larger(a, b) == IF a >= b THEN a ELSE b

\* SinkProgress::from_accepted
FromAccepted(requested, accepted) ==
  IF accepted = requested THEN "complete"
  ELSE IF accepted = 0 THEN "blocked" ELSE "partial"

\* advance of the sinks that hold the bytes themselves.  (Mutants of Advance: the
\* archive position stays; the high-water mark mixes up the two positions.)
AdvanceLocal(n) ==
  /\ pos' = pos
  /\ writePos' = IF Kind = "slice" THEN writePos + n ELSE writePos
  /\ written' = IF Kind = "vec" THEN written ELSE written + n
AdvanceMarksPos(n) ==
  /\ pos' = pos + n
  /\ writePos' = IF Kind = "slice" THEN writePos + n ELSE writePos
  /\ written' = Larger(written, IF Kind = "slice" THEN pos + n ELSE n)
Advance(n) ==
  /\ pos' = pos + n
  /\ writePos' = IF Kind = "slice" THEN writePos + n ELSE writePos
  /\ written' = IF Kind = "vec" THEN written
                ELSE Larger(written, Place + n)

\* The bytes are copied into what was offered.
Copy(bytes) ==
  LET n == Offered(Len(bytes))
      accepted == SubSeq(bytes, 1, n)
  IN  /\ buf' = Overwritten(Grown(n), Place, accepted)
      /\ Advance(n)
      /\ taken' = taken \o accepted
      /\ progress' = FromAccepted(Len(bytes), n)
      /\ UNCHANGED <<file, ahead>>

\* (Mutant of HandOver: the position counts what the writer did not get.)
HandOverCounting(bytes) ==
  /\ taken' = taken \o bytes
  /\ progress' = "complete"
  /\ UNCHANGED <<buf, writePos, written, ahead>>
  /\ pos' = pos + Len(bytes)
  /\ \E k \in 0 .. Len(bytes) : file' = file \o SubSeq(bytes, 1, k)

\* WriteSerializer hands all of them to the writer.  A writer that fails may
\* have got some; then the position stays, but not the answer.
HandOver(bytes) ==
  /\ taken' = taken \o bytes
  /\ progress' = "complete"
  /\ UNCHANGED <<buf, writePos, written, ahead>>
  /\ \/ file' = file \o bytes /\ pos' = pos + Len(bytes)
     \/ /\ WriterFails
        /\ \E k \in 0 .. Len(bytes) - 1 : file' = file \o SubSeq(bytes, 1, k)
        /\ UNCHANGED pos

Answer(what) == progress' = what /\ UNCHANGED storeVars

\* CursorMut::write; skip does the same with zeros.
Request(bytes) ==
  /\ UNCHANGED sink
  /\ IF bytes = << >> THEN Answer("complete")
     ELSE IF Refuses(Len(bytes)) THEN Answer("error")
     ELSE IF Kind = "writer" THEN HandOver(bytes)
     ELSE Copy(bytes)

Within(n) == Len(taken) + n <= MaxTaken

\* padding_for_alignment
Padding(align) == IF pos % align = 0 THEN 0 ELSE align - (pos % align)

Write ==
  \E n \in 0 .. MaxRequest : \E bytes \in [1 .. n -> Byte] :
    Within(n) /\ Request(bytes)

Align ==
  \E align \in Aligns :
    Within(Padding(align)) /\ Request(Filled(Padding(align), 0))

\* std::io::Write: the slice takes what fits; the vector is extended, which is
\* ahead of archive_pos as long as it has not been resized up to there.
IoWrite ==
  /\ sink.io
  /\ UNCHANGED sink
  /\ \E n \in 0 .. MaxRequest : \E bytes \in [1 .. n -> Byte] :
       LET accepted == SubSeq(bytes, 1, Offered(n))
       IN  /\ Within(n)
           /\ buf' = IF Kind = "vec" THEN buf \o accepted
                     ELSE Overwritten(buf, writePos, accepted)
           /\ Advance(Offered(n))
           /\ taken' = taken \o accepted
           /\ ahead' = IF Kind = "vec" /\ Len(buf) < pos
                       THEN ahead + Len(accepted) ELSE ahead
           /\ progress' = FromAccepted(n, Offered(n))
           /\ UNCHANGED file

Next ==
  \/ Write
  \/ Align
  \/ IoWrite

Spec == Init /\ [][Next]_vars

-----------------------------------------------------------------------------
(* Properties *)

TypeOK ==
  /\ sink \in Sinks
  /\ buf \in Seq(Byte)
  /\ pos \in Nat
  /\ writePos \in Nat
  /\ written \in Nat
  /\ file \in Seq(Byte)
  /\ taken \in Seq(Byte)
  /\ ahead \in Nat
  /\ progress \in {"complete", "partial", "blocked", "error"}
  /\ Kind = "slice" => writePos <= Len(buf)
  /\ Kind \in {"slice", "mmap"} => Len(buf) = Capacity

\* Where the bytes that were taken begin.
Start == IF Kind = "slice" THEN 0 ELSE Base

\* Where the i-th of them is.
At(i) == IF i <= ahead THEN i ELSE Start + i

\* CursorMut, SinkProgress: what the sink said it took is what it holds, in that
\* order, whatever mix of writes, paddings and io::Write, and without a gap but
\* behind the bytes that io::Write put ahead of a vector's archive_pos, which only
\* happens behind an offset and before any other write.
HoldsWhatItTook ==
  Kind # "writer" =>
    /\ \A i \in 1 .. Len(taken) : At(i) <= Len(buf) /\ buf[At(i)] = taken[i]
    /\ ahead > 0 => Kind = "vec" /\ Base > 0

\* pos() counts what was taken, from where the archive began: serializers align
\* by it and the archive writer reports its differences.
PosCountsTaken == Kind # "writer" => pos = Base + Len(taken)

\* Bytes of the slice or map outside the archive keep what they held.  A vector
\* has none behind it, and in front zeros alone, but for the bytes that io::Write
\* put ahead.
NothingElseTouched ==
  /\ Kind \in {"slice", "mmap"} =>
       \A i \in 1 .. Len(buf) :
         i <= Start \/ i > Start + Len(taken) => buf[i] = Old
  /\ Kind = "vec" =>
       /\ Len(buf) = IF Len(taken) = ahead THEN ahead ELSE Base + Len(taken)
       /\ \A i \in ahead + 1 .. Len(buf) : i <= Base + ahead => buf[i] = 0

\* written() is the end of the archive in the slice or map, once it has begun.
WrittenIsTheEnd ==
  Kind \in {"slice", "mmap"} =>
    written = IF taken = << >> THEN 0 ELSE Start + Len(taken)

\* A WriteSerializer whose position counts all that was taken has a writer that
\* got all of it: pos() tells of a failed writer, although no answer did.
PosTellsOfFailure ==
  Kind = "writer" => /\ pos <= Base + Len(taken)
                     /\ pos = Base + Len(taken) => file = taken
=============================================================================
