-------------------------- MODULE SeqSerializerInv --------------------------
(***************************************************************************)
(* The inductive invariant of SeqSerializer, used by its proofs            *)
(* (SequenceProofs) and checked by TLC on its runs.                   *)
(***************************************************************************)
EXTENDS SeqSerializer

Latest == accepted[Len(accepted)]

\* Which of the serializer's fields can be set together between two steps.
PhaseInv ==
  /\ finished => ~active /\ nextItem = None /\ marker = 0
  /\ active => /\ elem # None /\ nextItem = None /\ markerCursor = 1 /\ Gate
               /\ elemCursor <= Len(elem)
               /\ ~started => elemCursor = Len(elem)
  /\ nextItem # None => accepted # << >>
  /\ markerCursor = 0 /\ ~finished =>
       marker = 1 /\ nextItem # None /\ ~aligned
  /\ ~finished => indexBuf = << >> /\ indexBuilt = 0 /\ indexCursor = 0
  /\ indexCursor > 0 => markerCursor = 1
  /\ pc = "index" =>
       finished /\ markerCursor = 0 /\ indexBuilt < Len(blockOffsets)

\* The bookkeeping of the block index: offsets grow and lie behind the sink.
IndexInv ==
  /\ Len(accepted) <= MaxElements
  /\ elementCount = (IF EnableIndex THEN Len(accepted) ELSE 0)
  /\ elementCount = 0 => blockOffsets = << >>
  /\ elementCount > 0 => startPos \in Base .. Pos
  /\ Len(blockOffsets) <= elementCount
  /\ \A j \in 1 .. Len(blockOffsets) : startPos + blockOffsets[j] <= Pos
  /\ \A i, j \in 1 .. Len(blockOffsets) :
       i <= j => blockOffsets[i] <= blockOffsets[j]

\* Where the sink stands in the layout of what was accepted.
PosInv ==
  /\ finished => Pos = BodyEnd + markerCursor + indexCursor
  /\ ~finished /\ ~active /\ nextItem = None => Pos = BodyEnd
  /\ active => /\ accepted # << >> /\ elem = Latest.val
               /\ Pos = PayloadAt(Latest) + elemCursor
  /\ nextItem # None =>
       /\ nextItem = Latest.val
       /\ markerCursor = 0 => Pos = Latest.at
       /\ markerCursor = 1 => Latest.at + 1 <= Pos /\ Pos <= PayloadAt(Latest)
       /\ markerCursor = 1 /\ Gate => Pos = PayloadAt(Latest)

\* The elements lie one behind the other, and all but the last are complete.
ChainInv ==
  /\ \A k \in 1 .. Len(accepted) :
       accepted[k].at = IF k = 1 THEN Base ELSE EndOf(accepted[k - 1])
  /\ \A k \in 1 .. Len(accepted) - 1 : EndOf(accepted[k]) <= Latest.at

ContentInv ==
  /\ \A k \in 1 .. Len(accepted) : \A p \in accepted[k].at .. Pos - 1 :
       p < EndOf(accepted[k]) => ByteAt(p) = ImageByte(accepted[k], p)
  /\ \A p \in BodyEnd .. Pos - 1 : ByteAt(p) = Trailer[p - BodyEnd + 1]

\* The offsets recorded are those of the elements that begin a block.
BlocksInv ==
  EnableIndex =>
    /\ accepted # << >> => startPos = Base
    /\ (Len(blockOffsets) - 1) * ChunkSize < Len(accepted)
    /\ Len(accepted) <= Len(blockOffsets) * ChunkSize
    /\ \A j \in 1 .. Len(blockOffsets) :
         accepted[(j - 1) * ChunkSize + 1].at = Base + blockOffsets[j]
    /\ finished => (indexBuf # << >> <=> Len(accepted) > ChunkSize)
    /\ pc = "index" => indexBuf # << >>

\* A call that has returned has gone as far as the room allowed, and what it
\* returned says what is written.
ResultInv ==
  /\ pc = "idle" /\ nextItem # None /\ markerCursor = 1 =>
       Pos < PayloadAt(Latest)
  /\ pc = "idle" /\ active => elemCursor < Len(elem)
  /\ pc = "idle" /\ result = "ready" => Unsent = 0
  /\ pc = "idle" /\ result = "busy" => Unsent > 0

\* What survives an error of the sink: the types and the bookkeeping.
Unfailed == TypeOK /\ PhaseInv /\ IndexInv

\* What holds until then of the bytes in the sink.
Placed == PosInv /\ ChainInv /\ ContentInv

Sound == Unfailed /\ (~failed => Placed /\ ResultInv)

\* The inductive invariant.
IInv == Sound /\ (~failed => BlocksInv)
=============================================================================
