------------------------- MODULE ChunkedSerializer -------------------------
(***************************************************************************)
(* The serializers that encode a slice through a small buffer: the packed  *)
(* slices, which pack as many values as the buffer holds                   *)
(* (PackedSequenceSerializer, packed_vec.rs), and the slices of VarInts,   *)
(* which encode one value at a time (varint_vec.rs).  A length prefix of   *)
(* four bytes comes first.  One serializer writes one value after the      *)
(* other when an array or a sequence of slices is written.                 *)
(*                                                                         *)
(* `data` holds the values of the slice that is being written; the sink    *)
(* is what was sent and the room that is left in it.                       *)
(***************************************************************************)
EXTENDS Integers, Sequences, VarIntCodec, BitPacking

CONSTANTS
  Serializers,  \* [kind: "packed" or "varint",
                \*  bits: of a value of a packed slice,
                \*  bufBytes: bytes of its buffer, 64 in the code,
                \*  slices: the slices a caller writes]
  Rooms,        \* how much room the caller may grant
  MaxSlices     \* bound: the slices that are written one behind the other

ASSUME ChunkedAssumption ==
  /\ Serializers \subseteq [kind: {"packed", "varint"}, bits: 1 .. 8,
                           bufBytes: Nat \ {0}, slices: SUBSET Seq(Nat)]
  /\ Rooms \subseteq Nat \ {0}
  /\ MaxSlices \in Nat

VARIABLES
  serializer,  \* the one of Serializers that runs
  data,      \* the slice
  prefix,    \* what is left of the length prefix
  index,     \* the values that are written or in the buffer
  buf,       \* what is left of the buffer
  sent,      \* the bytes in the sink
  room,      \* how many more it takes
  result,    \* "new", "ready", "pending", "error", or "none" inside a call
  given      \* the slices the caller has given

vars == <<serializer, data, prefix, index, buf, sent, room, result, given>>

Kind == serializer.kind
Bits == serializer.bits
BufBytes == serializer.bufBytes
Slices == serializer.slices

\* to_le_bytes of a length.
LengthPrefix(n) == [i \in 1 .. 4 |-> (n \div 256^(i - 1)) % 256]

-----------------------------------------------------------------------------
(* The calls *)

Init ==
  /\ serializer \in Serializers
  /\ data = << >>
  /\ prefix = << >>
  /\ index = 0
  /\ buf = << >>
  /\ sent = << >>
  /\ room \in Rooms
  /\ result = "new"
  /\ given = << >>

\* input forgets all of the slice before.  (Mutant of Reset: but not the
\* position in it.)
ResetKeepsIndex(slice) == index' = index /\ buf' = << >>
Reset(slice) == index' = 0 /\ buf' = << >>

Input ==
  /\ result \in {"new", "ready"}
  /\ Len(given) < MaxSlices
  /\ \E slice \in Slices :
       /\ data' = slice
       /\ prefix' = LengthPrefix(Len(slice))
       /\ Reset(slice)
       /\ given' = Append(given, slice)
  /\ result' = "none"
  /\ UNCHANGED <<serializer, sent, room>>

\* poll_pending; a caller may try again after an error.
Poll ==
  /\ result \in {"ready", "pending", "error"}
  /\ result' = "none"
  /\ UNCHANGED <<serializer, data, prefix, index, buf, sent, room, given>>

Grant ==
  /\ result \in {"new", "pending"}
  /\ \E more \in Rooms : room' = room + more
  /\ room = 0
  /\ UNCHANGED <<serializer, data, prefix, index, buf, sent, result, given>>

-----------------------------------------------------------------------------
(* The steps of poll_pending *)

\* (Mutant of Accepts: a write that does not fit is not begun.)
AcceptsWhole(bytes) == IF Len(bytes) <= room THEN Len(bytes) ELSE 0

\* How many of the bytes the sink takes.
Accepts(bytes) == IF Len(bytes) <= room THEN Len(bytes) ELSE room

Left(bytes) == SubSeq(bytes, Accepts(bytes) + 1, Len(bytes))

\* write, and Pending unless it took all.
Put(bytes) ==
  /\ sent' = sent \o SubSeq(bytes, 1, Accepts(bytes))
  /\ room' = room - Accepts(bytes)
  /\ result' = IF Accepts(bytes) = Len(bytes) THEN "none" ELSE "pending"

PutPrefix ==
  /\ result = "none"
  /\ prefix # << >>
  /\ Put(prefix)
  /\ prefix' = Left(prefix)
  /\ UNCHANGED <<serializer, data, index, buf, given>>

BufferEmpty == result = "none" /\ prefix = << >> /\ buf = << >>

\* The index behind the chunk that begins behind `index`.  (Mutant of ChunkEnd:
\* a buffer that is full in part counts as full.)
ChunkEndAligned ==
  LET end == index + ((8 * BufBytes) \div Bits) + 1
  IN  IF Kind = "varint" THEN index + 1
      ELSE IF end <= Len(data) THEN end ELSE Len(data)
ChunkEnd ==
  LET end == index + ((8 * BufBytes) \div Bits)
  IN  IF Kind = "varint" THEN index + 1
      ELSE IF end <= Len(data) THEN end ELSE Len(data)

\* A value of the chunk needs more bits than there are; the index stays at the
\* first of them.  (Mutant of TooLarge: value > mask is value > 2^bits.)
TooLargeByOne(i) == Kind = "packed" /\ data[i] > 2^Bits
TooLarge(i) == Kind = "packed" /\ data[i] >= 2^Bits

\* fill_buf
FillBuf ==
  /\ BufferEmpty
  /\ index < Len(data)
  /\ \A i \in index + 1 .. ChunkEnd : ~TooLarge(i)
  /\ buf' = IF Kind = "varint" THEN SerializeU64(data[index + 1])
            ELSE Packed(Bits, SubSeq(data, index + 1, ChunkEnd))
  /\ index' = ChunkEnd
  /\ UNCHANGED <<serializer, data, prefix, sent, room, result, given>>

FillBufFails ==
  /\ BufferEmpty
  /\ \E i \in index + 1 .. ChunkEnd :
       /\ TooLarge(i)
       /\ \A j \in index + 1 .. i - 1 : ~TooLarge(j)
       /\ index' = i - 1
  /\ result' = "error"
  /\ UNCHANGED <<serializer, data, prefix, buf, sent, room, given>>

PutBuf ==
  /\ result = "none"
  /\ prefix = << >>
  /\ buf # << >>
  /\ Put(buf)
  /\ buf' = Left(buf)
  /\ UNCHANGED <<serializer, data, prefix, index, given>>

ReturnReady ==
  /\ BufferEmpty
  /\ index >= Len(data)
  /\ result' = "ready"
  /\ UNCHANGED <<serializer, data, prefix, index, buf, sent, room, given>>

Next ==
  \/ Input
  \/ Poll
  \/ Grant
  \/ PutPrefix
  \/ FillBuf
  \/ FillBufFails
  \/ PutBuf
  \/ ReturnReady

Spec == Init /\ [][Next]_vars

\* The caller polls while the answer is Pending, and does not poll for ever
\* without making room.
FairSpec ==
  /\ Spec
  /\ WF_vars(PutPrefix \/ FillBuf \/ FillBufFails \/ PutBuf \/ ReturnReady)
  /\ WF_vars(result = "pending" /\ room > 0 /\ Poll)
  /\ SF_vars(result = "pending" /\ Grant)

-----------------------------------------------------------------------------
(* Properties *)

\* Where each VarInt of a slice ends.
ValueEnds(slice) ==
  LET end[i \in 0 .. Len(slice)] ==
        IF i = 0 THEN 0 ELSE end[i - 1] + Len(SerializeU64(slice[i]))
  IN  end

\* The bytes measure_body announces for a slice behind its prefix.
BodyLen(s, slice) ==
  IF s.kind = "packed" THEN (s.bits * Len(slice) + 7) \div 8
  ELSE ValueEnds(slice)[Len(slice)]

\* Where each of the slices ends.
SliceEnds(s, slices) ==
  LET end[n \in 0 .. Len(slices)] ==
        IF n = 0 THEN 0 ELSE end[n - 1] + 4 + BodyLen(s, slices[n])
  IN  end

\* What the reader finds as value i of the slice whose body is `bytes`.
ReadsAs(s, bytes, slice, i) ==
  LET before == ValueEnds(slice)[i - 1]
      own == SerializeU64(slice[i])
  IN  IF s.kind = "packed" THEN ReadPackedBits(bytes, s.bits, i - 1) = slice[i]
      ELSE SubSeq(bytes, before + 1, before + Len(own)) = own

\* Once Ready is answered the sink holds, for every slice, its length and then
\* bytes from which the reader gets each of its values (packed.rs,
\* read_packed_bits), whatever room the calls found.
ReadersFindTheValues ==
  result = "ready" =>
    \A n \in 1 .. Len(given) :
      LET at == SliceEnds(serializer, given)[n - 1]
          end == SliceEnds(serializer, given)[n]
          body == SubSeq(sent, at + 5, end)
      IN  /\ end <= Len(sent)
          /\ SubSeq(sent, at + 1, at + 4) = LengthPrefix(Len(given[n]))
          /\ \A i \in 1 .. Len(given[n]) : ReadsAs(serializer, body, given[n], i)

\* The bytes are those measure_body announced, no more while it runs and no less
\* when it is done: a record's field table depends on it.
AnnouncedLength ==
  LET end == SliceEnds(serializer, given)[Len(given)]
  IN  /\ Len(sent) <= end
      /\ result = "ready" => Len(sent) = end

\* A slice with a value that is too large is never reported as written, however
\* often the caller polls on after the error.
ErrorStays ==
  [][result' = "ready" /\ Kind = "packed"
       => \A i \in 1 .. Len(data') : data'[i] < 2^Bits]_vars

\* A slice is written in the end, or its error is reported.
EventuallyAnswered == result = "none" ~> result \in {"ready", "error"}
=============================================================================
