--------------------------- MODULE SeqSerializer ---------------------------
(***************************************************************************)
(* The resumable sequence serializer (archive/iter/serialize/sequence.rs)  *)
(* over a sink whose room is limited (utils/cursor.rs, io/storage.rs).     *)
(*                                                                         *)
(* A caller feeds elements with `input`, resumes with `poll_pending` and   *)
(* ends the sequence with `finish_ref`, in any order it likes.  A call     *)
(* runs the phase loop until it returns; between calls the caller may give *)
(* the sink more room.  Each element is one marker byte, the padding to    *)
(* its alignment and its payload; a zero byte ends the sequence and, when  *)
(* there are more elements than fit a block, a block index follows.        *)
(***************************************************************************)
EXTENDS Integers, Sequences, VarIntCodec

CONSTANTS
  Items,        \* the elements: each the sequence of its payload bytes
  None,         \* Option::None
  FixedSize,    \* the element's FIXED_SIZE is Some(_): payloads are aligned
  Alignment,    \* the element's ALIGNMENT
  EnableIndex,  \* new_indexed() rather than new()
  ChunkSize,    \* DEFAULT_CHUNK_SIZE, elements per index block
  Base,         \* the sink's position when the sequence begins
  MaxPos,       \* bound: the last position a sink may reach
  MaxElements   \* bound: the elements a caller feeds

Byte == 0 .. 255
Magic == 66     \* BLOCK_INDEX_MAGIC, 0x42

ASSUME ConstantsAssumption ==
  /\ Items \subseteq Seq(Byte)
  /\ None \notin Items
  /\ None \notin Nat
  /\ FixedSize \in BOOLEAN
  /\ Alignment \in Nat \ {0}
  /\ EnableIndex \in BOOLEAN
  /\ ChunkSize \in 1 .. MaxPos
  /\ Base \in Nat
  /\ MaxPos \in Nat /\ Base <= MaxPos
  /\ MaxElements \in 0 .. MaxPos

VARIABLES
  nextItem,      \* next_item: the element accepted and not yet started
  marker,        \* the byte to write next: 1 before an element, 0 at the end
  markerCursor,  \* 1 once that byte is written
  aligned,       \* the padding of the current element is written
  elem,          \* item_serializer: the payload it holds, None when absent
  elemCursor,    \* how much of that payload is written
  active,        \* has_active_serializer
  started,       \* serializer_started: the element must be polled again
  finished,      \* finish_ref has been accepted
  elementCount,
  startPos,      \* start_pos: where the first element begins
  blockOffsets,  \* where each block of ChunkSize elements begins
  indexBuf,      \* the encoded block index
  indexBuilt,    \* how many offsets build_index_buf has encoded
  indexCursor,   \* how much of indexBuf is written
  out,           \* the bytes the sink has taken
  limit,         \* the position up to which the sink has room
  strict,        \* the sink refuses a write it cannot take whole
                 \*   (MmapSerializer) instead of taking a part of it
  pc,            \* "idle", or the loop the running call is in
  result,        \* what the last call returned
  accepted,      \* history: the elements `input` took, with their position
  failed         \* history: a call has returned the sink's error

itemVars == <<nextItem, marker, markerCursor>>
elemVars == <<aligned, elem, elemCursor, active, started>>
indexVars == <<elementCount, startPos, blockOffsets>>
bufVars == <<indexBuf, indexBuilt, indexCursor>>
callVars == <<pc, result, failed>>
vars == <<itemVars, elemVars, finished, indexVars, bufVars, out, limit,
          strict, callVars, accepted>>

-----------------------------------------------------------------------------
(* The sink *)

Pos == Base + Len(out)
Room == limit - Pos

\* (Mutant of Accepts: the cursor advances by what was asked for.)
AcceptsRequested(n) == n

\* How many of n bytes a write or a skip takes, and whether it takes them all.
Accepts(n) ==
  IF n <= Room THEN n ELSE IF strict THEN 0 ELSE Room

\* (Mutant of Whole: a write that fills the sink counts as cut short.)
WholeBelowRoom(n) == n < Room

Whole(n) == n <= Room

Put(bytes) == out' = out \o SubSeq(bytes, 1, Accepts(Len(bytes)))

Padding(pos) ==
  IF pos % Alignment = 0 THEN 0 ELSE Alignment - (pos % Alignment)

Zeros(n) == [i \in 1 .. n |-> 0]

\* The caller hands the sink more room between two calls.
Grant ==
  /\ pc = "idle" /\ ~strict
  /\ \E l \in limit + 1 .. MaxPos : limit' = l
  /\ UNCHANGED <<itemVars, elemVars, finished, indexVars, bufVars, out,
                 strict, callVars, accepted>>

-----------------------------------------------------------------------------
(* Returning from a call *)

Return(r) ==
  /\ pc' = "idle"
  /\ result' = r
  /\ UNCHANGED failed

\* After writing n bytes the loop goes on only if the sink took them all.
Proceed(n) ==
  IF Whole(n)
  THEN UNCHANGED callVars
  ELSE /\ pc' = "idle"
       /\ result' = IF strict THEN "error" ELSE "pending"
       /\ failed' = (failed \/ strict)

-----------------------------------------------------------------------------
(* The calls *)

\* (Mutant of Busy: a written marker counts as a pending one.)
BusyAtMarker == nextItem # None \/ active \/ markerCursor <= 1

Busy == nextItem # None \/ active \/ markerCursor < 1

Refuse(why) ==
  /\ result' = why
  /\ UNCHANGED <<itemVars, elemVars, finished, indexVars, bufVars, out, limit,
                 strict, pc, failed, accepted>>

\* The bookkeeping of the block index: start_pos at the first element, an
\* offset at the first element of every block.
RecordBlock ==
  IF EnableIndex
  THEN LET start == IF elementCount = 0 THEN Pos ELSE startPos
       IN  /\ startPos' = start
           /\ blockOffsets' = IF elementCount % ChunkSize = 0
                              THEN Append(blockOffsets, Pos - start)
                              ELSE blockOffsets
           /\ elementCount' = elementCount + 1
  ELSE UNCHANGED indexVars

Input(v) ==
  /\ pc = "idle"
  /\ IF finished THEN Refuse("finished")
     ELSE IF Busy THEN Refuse("busy")
     ELSE /\ Len(accepted) < MaxElements
          /\ RecordBlock
          /\ nextItem' = v
          /\ marker' = 1
          /\ markerCursor' = 0
          /\ aligned' = FALSE
          /\ pc' = "poll"
          /\ accepted' = Append(accepted, [at |-> Pos, val |-> v])
          /\ UNCHANGED <<elem, elemCursor, active, started, finished, bufVars,
                         out, limit, strict, result, failed>>

PollPending ==
  /\ pc = "idle"
  /\ pc' = "poll"
  /\ UNCHANGED <<itemVars, elemVars, finished, indexVars, bufVars, out, limit,
                 strict, result, accepted, failed>>

\* (Mutant of NeedsIndex: a sequence of exactly one block gets an index.)
NeedsIndexAtChunk == EnableIndex /\ elementCount >= ChunkSize

\* The index is written only for sequences longer than one block.
NeedsIndex == EnableIndex /\ elementCount > ChunkSize

FinishRef ==
  /\ pc = "idle"
  /\ IF finished THEN PollPending
     ELSE IF Busy THEN Refuse("busy")
     ELSE /\ marker' = 0
          /\ markerCursor' = 0
          /\ finished' = TRUE
          /\ IF NeedsIndex /\ Len(blockOffsets) > 0
             THEN /\ pc' = "index"
                  /\ indexBuf' = <<Magic>> \o SerializeU64(ChunkSize)
                                           \o SerializeU64(Len(blockOffsets))
             ELSE /\ pc' = "poll"
                  /\ UNCHANGED indexBuf
          /\ UNCHANGED <<nextItem, elemVars, indexVars, indexBuilt,
                         indexCursor, out, limit, strict,
                         result, accepted, failed>>

-----------------------------------------------------------------------------
(* build_index_buf: one delta-encoded offset per iteration *)

BlockDelta(j) == blockOffsets[j] - (IF j = 1 THEN 0 ELSE blockOffsets[j - 1])

EncodeOffset ==
  /\ pc = "index"
  /\ indexBuf' = indexBuf \o SerializeU64(BlockDelta(indexBuilt + 1))
  /\ indexBuilt' = indexBuilt + 1
  /\ pc' = IF indexBuilt' = Len(blockOffsets) THEN "poll" ELSE "index"
  /\ UNCHANGED <<itemVars, elemVars, finished, indexVars, indexCursor, out,
                 limit, strict, result, failed, accepted>>

-----------------------------------------------------------------------------
(* poll_pending: the phase loop *)

\* Phase 1: the marker byte, before an element or as the terminator.
PutMarker ==
  /\ pc = "poll" /\ markerCursor = 0
  /\ Put(<<marker>>)
  /\ markerCursor' = Accepts(1)
  /\ Proceed(1)
  /\ UNCHANGED <<nextItem, marker, elemVars, finished, indexVars, bufVars,
                 limit, strict, accepted>>

\* Phase 2: the terminator is written, flush the block index.
FlushIndex ==
  LET rest == SubSeq(indexBuf, indexCursor + 1, Len(indexBuf))
  IN  /\ pc = "poll" /\ markerCursor = 1 /\ finished
      /\ Put(rest)
      /\ indexCursor' = indexCursor + Accepts(Len(rest))
      /\ IF Whole(Len(rest)) THEN Return("ready") ELSE Proceed(Len(rest))
      /\ UNCHANGED <<itemVars, elemVars, finished, indexVars, indexBuf,
                     indexBuilt, limit, strict, accepted>>

InElement == pc = "poll" /\ markerCursor = 1 /\ ~finished

Gate == ~FixedSize \/ aligned

\* (Mutant of GateOpens: partial padding opens the gate.)
GateOpensEarly(pad) == TRUE

\* The gate opens once the padding is written to its end.
GateOpens(pad) == Whole(pad)

\* The alignment gate of phases 3 and 4.  An element not started yet is put
\* back when the gate is pending, and dropped when the sink errs.
TryAlign ==
  LET pad == Padding(Pos)
  IN  /\ InElement /\ (active \/ nextItem # None) /\ ~Gate
      /\ Put(Zeros(pad))
      /\ aligned' = GateOpens(pad)
      /\ nextItem' = IF strict /\ ~Whole(pad) THEN None ELSE nextItem
      /\ Proceed(pad)
      /\ UNCHANGED <<marker, markerCursor, elem, elemCursor, active, started,
                     finished, indexVars, bufVars, limit, strict,
                     accepted>>

\* Phase 4: hand the queued element to the element serializer.
StartElement ==
  /\ InElement /\ ~active /\ nextItem # None /\ Gate
  /\ Put(nextItem)
  /\ elem' = nextItem
  /\ elemCursor' = Accepts(Len(nextItem))
  /\ nextItem' = None
  /\ active' = (Whole(Len(nextItem)) \/ ~strict)
  /\ started' = (~Whole(Len(nextItem)) /\ ~strict)
  /\ Proceed(Len(nextItem))
  /\ UNCHANGED <<marker, markerCursor, aligned, finished, indexVars, bufVars,
                 limit, strict, accepted>>

\* The element is written: its serializer is dropped, so that nothing of it
\* leaks into the next element.
DropSerializer ==
  /\ elem' = None
  /\ elemCursor' = 0
  /\ active' = FALSE
  /\ started' = FALSE
  /\ aligned' = FALSE

\* (Mutant of Unwritten: a pending element is retired unpolled.)
UnwrittenNever == FALSE

\* The active element must be polled before it is retired.
Unwritten == started

\* Phase 3: resume a pending element, or retire one that is written.
ResumeElement ==
  LET rest == SubSeq(elem, elemCursor + 1, Len(elem))
  IN  /\ InElement /\ active /\ Gate /\ Unwritten
      /\ Put(rest)
      /\ IF Whole(Len(rest))
         THEN DropSerializer
         ELSE /\ elemCursor' = elemCursor + Accepts(Len(rest))
              /\ UNCHANGED <<elem, active, started, aligned>>
      /\ Proceed(Len(rest))
      /\ UNCHANGED <<itemVars, finished, indexVars, bufVars, limit, strict,
                     accepted>>

RetireElement ==
  /\ InElement /\ active /\ Gate /\ ~Unwritten
  /\ DropSerializer
  /\ UNCHANGED <<itemVars, finished, indexVars, bufVars, out, limit, strict,
                 callVars, accepted>>

\* Nothing queued, nothing active: the call is done.
ReturnReady ==
  /\ InElement /\ ~active /\ nextItem = None
  /\ Return("ready")
  /\ UNCHANGED <<itemVars, elemVars, finished, indexVars, bufVars, out, limit,
                 strict, accepted>>

-----------------------------------------------------------------------------

Init ==
  /\ nextItem = None
  /\ marker = 0
  /\ markerCursor = 1
  /\ aligned = FALSE
  /\ elem = None
  /\ elemCursor = 0
  /\ active = FALSE
  /\ started = FALSE
  /\ finished = FALSE
  /\ elementCount = 0
  /\ startPos = None
  /\ blockOffsets = << >>
  /\ indexBuf = << >>
  /\ indexBuilt = 0
  /\ indexCursor = 0
  /\ out = << >>
  /\ limit \in Base .. MaxPos
  /\ strict \in BOOLEAN
  /\ pc = "idle"
  /\ result = "none"
  /\ accepted = << >>
  /\ failed = FALSE

\* The steps of a call that is running.
Step ==
  \/ EncodeOffset
  \/ PutMarker
  \/ FlushIndex
  \/ TryAlign
  \/ StartElement
  \/ ResumeElement
  \/ RetireElement
  \/ ReturnReady

Next ==
  \/ \E v \in Items : Input(v)
  \/ PollPending
  \/ FinishRef
  \/ Step
  \/ Grant

Spec == Init /\ [][Next]_vars

-----------------------------------------------------------------------------
(* The layout of the sequence *)

PayloadAt(e) == e.at + 1 + (IF FixedSize THEN Padding(e.at + 1) ELSE 0)
EndOf(e) == PayloadAt(e) + Len(e.val)

\* The byte the element e has at the position p.
ImageByte(e, p) ==
  IF p = e.at THEN 1
  ELSE IF p < PayloadAt(e) THEN 0
  ELSE e.val[p - PayloadAt(e) + 1]

\* Where the elements end, and what follows them.
BodyEnd == IF accepted = << >> THEN Base ELSE EndOf(accepted[Len(accepted)])
Trailer == IF finished THEN <<0>> \o indexBuf ELSE << >>

\* The bytes accepted so far that the sink has not taken yet.
Unsent == BodyEnd + Len(Trailer) - Pos

ByteAt(p) == out[p - Base + 1]

-----------------------------------------------------------------------------
(* Properties *)

TypeOK ==
  /\ nextItem \in Items \cup {None}
  /\ marker \in {0, 1}
  /\ markerCursor \in {0, 1}
  /\ aligned \in BOOLEAN
  /\ elem \in Items \cup {None}
  /\ elemCursor \in Nat
  /\ active \in BOOLEAN
  /\ started \in BOOLEAN
  /\ finished \in BOOLEAN
  /\ elementCount \in 0 .. MaxElements
  /\ startPos \in (Base .. MaxPos) \cup {None}
  /\ blockOffsets \in Seq(0 .. MaxPos)
  /\ indexBuf \in Seq(Byte)
  /\ indexBuilt \in 0 .. Len(blockOffsets)
  /\ indexCursor \in 0 .. Len(indexBuf)
  /\ out \in Seq(Byte)
  /\ limit \in Base .. MaxPos
  /\ strict \in BOOLEAN
  /\ Pos <= limit
  /\ pc \in {"idle", "index", "poll"}
  /\ result \in {"none", "ready", "pending", "error", "busy", "finished"}
  /\ accepted \in Seq([at : Base .. MaxPos, val : Items])
  /\ failed \in BOOLEAN

\* However the room was granted, what the sink holds parses as the elements
\* accepted so far: they lie one behind the other, each its marker, its padding
\* and its payload at the aligned position, then the terminator and the index,
\* and nothing after it.
ElementsInPlace ==
  ~failed =>
    /\ Unsent >= 0
    /\ \A k \in 1 .. Len(accepted) :
         LET e == accepted[k]
         IN  /\ e.at = (IF k = 1 THEN Base ELSE EndOf(accepted[k - 1]))
             /\ \A p \in e.at .. Pos - 1 :
                  p < EndOf(e) => ByteAt(p) = ImageByte(e, p)
    /\ \A p \in BodyEnd .. Pos - 1 : ByteAt(p) = Trailer[p - BodyEnd + 1]

\* `Ready` is returned only when every byte of what was fed has reached the
\* sink, unless the caller goes on after an error of the sink.
ReadyMeansWritten ==
  pc = "idle" /\ result = "ready" /\ ~failed => Unsent = 0

\* An element is refused as busy only while bytes of an earlier one are unsent,
\* so a caller that saw `Ready` can always feed the next one.
BusyOnlyWhileUnsent ==
  pc = "idle" /\ result = "busy" /\ ~failed => Unsent > 0

\* A finished sequence has a block index exactly when it has more elements than
\* a block holds, and its offsets lead to the markers of the first elements of
\* the blocks, padding and resumed writes included.
IndexLeadsToMarkers ==
  EnableIndex /\ finished /\ pc # "index" /\ ~failed =>
    /\ indexBuf # << >> <=> Len(accepted) > ChunkSize
    /\ (Len(blockOffsets) - 1) * ChunkSize < Len(accepted)
    /\ Len(accepted) <= Len(blockOffsets) * ChunkSize
    /\ \A j \in 1 .. Len(blockOffsets) :
         accepted[(j - 1) * ChunkSize + 1].at = Base + blockOffsets[j]

\* `Pending` is returned only by a call that has filled the sink and has more
\* to write: a caller that makes room and polls again always gets further.
PendingMeansFull ==
  [][pc = "poll" /\ pc' = "idle" /\ result' = "pending"
       => /\ Pos' = limit
          /\ ~failed' => Unsent' > 0]_vars
=============================================================================
