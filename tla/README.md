# Verification of zebin

`zebin` serializes Rust values into a compact archive and reads them back
without copying.  Its writers are *resumable*: a sink may have room for a part
of a write only, the serializer answers `Pending`, and the caller makes room and
polls again.  Its readers walk bytes that nobody promises are intact.  This
directory holds TLA+ models of the library, the TLC configurations that check
them and TLAPS proofs about them.

Contents: 1 the system, 2 the modules, 3 the runs, 4 the proofs, 5 findings,
6 what is not modelled, 7 what could come next.

## 1. The system

All paths are under `src/zebin/src` unless they say otherwise.

| Component | Keeps | Operations | Talks to | Must guarantee |
|---|---|---|---|---|
| Sinks (`utils/cursor.rs`, `io/storage.rs`, `io/storage/mmap.rs`, `SinkProgress`) | position, buffer, high-water mark | `write`, `skip`, `align`, `peek_buf_mut`, `advance`, `io::Write` | called by every serializer | holds and counts exactly what it said it took |
| `SeqSerializer` (`archive/iter/serialize/sequence.rs`) | queued element, marker, active element serializer, block offsets, index buffer | `input`, `poll_pending`, `finish_ref`, `finish` | one element serializer at a time; a sink | elements at their aligned places in order, however resumed; `Ready` only when all is written; the index leads to the blocks |
| `OwnedIterSerializer`, `RefIterSerializer` (`archive/iter/serialize.rs`, `archive/slice.rs`) | iterator, `SeqSerializer` | `input`, `poll_pending`, `finish` | drive a `SeqSerializer` | stream the encoding of the collection, hold one element at a time, finish |
| `ArchiveWriter` and the one-shot functions (`write.rs`, `lib.rs`) | phase, header cursor, value, body serializer, position | `write`, `write_all`, `serialize`, `serialize_into`, `serialize_to` | a serializer, a sink | header then body of the first value; finished, or `Ok`, only when all is written; counts add up |
| Composite serializers (`archive/option.rs`, `result.rs`, `primitive.rs`, `slice.rs`, `container.rs`, `string.rs`) | stage, child serializers | the `Serializer` trait | their children | the concatenation of their children's encodings |
| Derived records and enums (`utils/macro_helpers.rs`, `src/zebin-macros/src`) | stage, field slots, header and entry cursors | the `Serializer` trait; `Access`, `Deserialize` | field serializers, `MeasureBody`, the validation context | announced field lengths equal what is written; what is written is read |
| Schema tables (`core/schema.rs`) | field entries | `process_forward_field_table` | field readers | known fields found by id, missing ones defaulted or refused |
| Sequence readers (`archive/iter/access.rs`, `access/block_index.rs`, `iter/deserialize.rs`, `traits.rs`) | source, length, block index, cursor | `access`, `validate`, `get`, `iter`, `iter_from`, collecting | read cursors, validation context | element *i* found, with and without the index |
| Validation (`validation/`) | depth, path stack, first error's path | guards that push and pop, errors | every reader | the path is the place of the error; the depth limit |
| Reader (`read.rs`, `format.rs`) | the archive | `access`, `validate`, `deserialize` | all readers | the value that was written, or an error |
| Body measurement (`MeasureBody` everywhere) | none | `measure_body` | field tables | equals the bytes written |
| VarInt and packed bits (`archive/varint.rs`, `varint_vec.rs`, `packed.rs`, `packed_vec.rs`) | 64-byte chunk buffer | encode, decode | sinks, cursors | round trip; chunking invisible |

Everything runs in one thread of the caller.  What makes it hard is not
parallelism but *interleaving with the caller*: at every byte the sink may be
full, the call returns, and a later call must resume in exactly the right
phase; serializers are nested in one another and reused for the next element;
an error may end a call half-way; and writer, measurer and reader have to agree
on one layout that each computes for itself.  `PROJECT.json` lists these
hazards at their lines.

## 2. The modules

| Module | Models | Extends |
|---|---|---|
| `ByteStream` | the abstract promise of every writer: what the sink holds is a growing prefix of one encoding; completion is reported only when it holds all of it | |
| `VarIntCodec` | `serialize_u64` and the number `deserialize_u64` makes of the bytes it took, as recursive functions | |
| `BitPacking` | the bytes of packed values, and `read_packed_bits` | |
| `RecursionProofs` | induction and recursion for the other proofs; theorems about the VarInt codec, lemmas about packed values | `VarIntCodec`, `BitPacking` |
| `SeqSerializer` | the sequence serializer over a limited sink | |
| `OwnedIterSerializer` | the loop of the collection serializers | `SeqSerializer`; implements `ByteStream` |
| `SeqSerializerInv`, `SequenceProofs` | the inductive invariant of the sequence serializer; the theorems about it and about the collections | `SeqSerializer`, `OwnedIterSerializer`, `RecursionProofs` |
| `ArchiveWriter`, `ArchiveWriterProofs` | the writer of a whole archive over a body that keeps `ByteStream`'s promise | implements `ByteStream` |
| `ArchiveFormat` | the types (a grammar of records `[k, ...]`), their layout, and the encoding of a value at a position, one level of a type at a time, as a definition without machinery | `VarIntCodec`, `BitPacking` |
| `ArchiveTypes` | the layout and the encoding down a whole type, for the readers | instantiates `ArchiveFormat` |
| `BodyMeasure` | `measure_body`, one level of a type at a time | `ArchiveFormat` |
| `CompositeSerializers` | `input`, `poll_pending` and `finish` of every kind of serializer: leaf, option, result, pair, array, pointer, collection, record, enum | `BodyMeasure` |
| `CompositeStates` | what a state of each of them has left to write, which states are idle, going or ended, and which types are regular and measured exactly | `CompositeSerializers` |
| `CompositeCaller` | the caller at the top, the properties and the inductive invariant | `CompositeStates`; implements `ByteStream` |
| `CompositeProofs`, `NestedProofs` | each kind of serializer keeps the promise if those inside do; so every type does; the theorems about the caller | `CompositeCaller`, `RecursionProofs` |
| `NestedSerializer` | the methods down a whole type, as `Method` of the runs | `CompositeCaller` |
| `ChunkedSerializer`, `ChunkedProofs` | the serializers of packed and VarInt slices | `VarIntCodec`, `BitPacking`, `RecursionProofs` |
| `TypeReader` | `access`/`validate` and `deserialize` of every type, with cursor, depth and error path | `ArchiveTypes` |
| `ArchiveReader` | `ZebinReader` over archives that are intact, cut, extended or overwritten | `TypeReader` |
| `SequenceView` | `get`, `iter_from`, `next` and collecting on a sequence inside such an archive | `ArchiveReader` |
| `Validation`, `ValidationProofs` | the validation context under any order of guards and errors | |
| `Storage`, `StorageProofs` | the four sinks behind `CursorMut` and `io::Write` | |
| `OneShot` | `serialize`, `serialize_into`, `serialize_to` | `Storage` |
| `MC...` | constant values for TLC; `MCTypes` is the vocabulary of types of two of them | |

Operators named "Mutant of ..." in comments are deviations kept to show that the
property beside them in `PROJECT.json` would notice them; no specification uses
them.

**SeqSerializer.**  The variables are the fields of the struct (`nextItem` =
`next_item`, `markerCursor` = `marker_cursor`, `active` =
`has_active_serializer`, `started` = `serializer_started`, ...), the sink
(`out`, the bytes taken; `limit`, up to where there is room; `strict`, whether
it refuses a write it cannot take whole, as `MmapSerializer` does) and the
running call (`pc`, `result`).  `accepted` and `failed` are history.  An element
is the sequence of its payload bytes and its serializer a cursor over them,
which is `ByteSerializer`.  `Input`, `PollPending` and `FinishRef` start a call
whenever none runs; `PutMarker` (phase 1), `FlushIndex` (2), `ResumeElement` and
`RetireElement` (3), `StartElement` and `ReturnReady` (4) are the passes of the
loop of `poll_pending`; `TryAlign` is the gate that phases 3 and 4 share;
`EncodeOffset` is one turn of `build_index_buf`.  A step is at most one write,
so each interruption point of the code is a state.  `Grant` is the caller
making room between calls.  On a strict sink the call errs, and what the code
has already taken out of its fields is lost, as in the code.

**OwnedIterSerializer** extends `SeqSerializer`: its actions *are* the calls of
the sequence serializer, conjoined with the iterator and with `stage`, which
says whose answer the loop waits for.  `RefIterSerializer` is the same loop
(its test of `is_finished` in place of `finished` makes no difference behind a
`Ready`).  `Encoding` defines the bytes of a collection from the layout, without
any of the machinery, and `StreamsTheEncoding` says that the detailed module
implements `ByteStream` under
`enc <- Encoding(source)`, `sent <- out`, `done <-` the answer `Ready`.

**ArchiveWriter.** `PutHeader`, `Feed`, `FeedNothing` and `Poll` are the arms of
the loop of `drive`; `Break` is its end together with the test of `write_all`,
`Fail` its way out with `?`, which leaves `self.pos` behind.  The body is taken
at its promise: it fills the sink before it answers `Pending`
(`PendingMeansFull`), writes the value's bytes in order (`StreamsTheEncoding`)
and nothing in `finish`.  A value is its bytes and the lengths at which its
serializer is between two pieces, the only places a sink that refuses stops at.
The serializer of a value with a `fault` within its bytes errs when it has
written that many of them.  From its first error on (`broken`) it no longer
keeps the promise: what was queued is gone, and the next call goes on behind it
(`Resumes`), to the end of the archive and to `Ok` if nothing else is in the way
(first observation of section 5).  So `StreamsTheArchive` is about the bytes
that were in the sink at that error (`kept`), and `WriteAllIsAll` and
`EventuallyFinished` about serializers that have not erred; `CountsAddUp` never
spoke of calls behind an error.  Errors of the sink itself and of the order of
calls end nothing as long as the serializer did not see them: behind a refused
header all promises stand.

**ArchiveFormat, BodyMeasure, CompositeSerializers, NestedSerializer.**  A
serializer is a tree of states shaped like its type.  A call walks the tree as
far as the sink has room, so `Input`, `Poll` and `Finish` are operators that
yield the new tree, the new sink and the answer (`ready`, `pending`, `error`,
`panic`); the five actions of `CompositeCaller` are the caller's calls, the
making of room, and one poll more of what is already `Ready`, which containers
do.  The state keeps what the code keeps, so serializers that are given a second
value start from the state the first left behind.  Leaves (numbers, strings,
packed vectors) are the encoded pieces still to be written; a collection inside
is taken at the promise that the run of `OwnedIterSerializer` checks and
`SequenceProofs` proves.  `EncodingOf` and `MeasureBodyOf` are translated from
the layout rules and from `measure_body` separately; with the serializers they
meet in `StreamsTheEncoding` and `AnnouncedLength`.

In Rust the methods of a type call those of the types inside it through the
trait.  The modules are written the same way: `PollOf(ty, s, k)` says what
`poll_pending` does at the level of `ty` and calls `Poll` of what is inside, and
`Poll` is whatever the constant operator `Method` answers to the name of the
method.  `NestedSerializer` ties the knot: its recursive `Tree` answers each name
with the `...Of` of the type's kind, its parts again with `Tree`, and the runs
say `Method <- Tree`.  `ArchiveTypes` does the same for the layout and the
encoding alone.  So the same definitions are evaluated by TLC and, without any
`RECURSIVE` in reach, reasoned about in `CompositeProofs`.

`Precedes` orders the fields of a schema by id, and by place where ids are
equal, which is what the stable sort of the macros does.

**TypeReader, ArchiveReader, SequenceView.**  A read is an operator from a
cursor `[pos, depth, path, seen, ...]` to the cursor behind the value, with the
value or the error; `where` is the place the walk is at, kept beside the path
stack the code keeps, so that the two can be compared.  `ReadTable`,
`ReadPayloads` and `HandleField` are `process_forward_field_table` with the
macros' handler.  `ArchiveReader` picks an archive and what happened to it
(`damage`), and asks `validate` and `deserialize`.  `SequenceView` asks a view of
a sequence inside it: the view's `OffsetSliceCursor` moves within the sequence's
slice but aligns by the position in the archive, and errors on the way of
`iter_from` are ignored, as in the code.

**Validation** has one action per guard made, refused or dropped and per error;
guards are dropped last in, first out since each borrows the one before.
**Storage** has one action per request (`Write`, `Align`, `IoWrite`); the writer
behind a `WriteSerializer` may fail after any number of bytes, and the sink then
answers as the code does.  A vector has two ends:  `CursorMut` writes at
`archive_pos` and resizes up to there, `io::Write` appends to the vector.  On
`VecSerializer::new(offset)` they differ until the first write through
`CursorMut`; `ahead` counts the bytes that went to the front that way, and `At`
says where each byte that was taken is.  **OneShot** makes `Storage`'s requests
in the order of the one-shot functions.

**ChunkedSerializer**: `FillBuf`, `FillBufFails`, `PutPrefix`, `PutBuf` are the
arms of the loop; the buffer's size and the bits of a value belong to the
serializer that a behaviour picks.

## 3. The runs

| Run | Question | Bounds |
|---|---|---|
| `seq_fixed` | any order of calls, aligned elements, index with a block per element, both kinds of sink | 3 elements of 2 values, alignment 4 from position 2, every room up to 22 |
| `owned_fixed` | every collection is streamed one element at a time and completed; `Ready` means all of it, in order | collections of up to 3 elements; the room can grow to the longest encoding and beyond |
| `writer_partial` | any mix of `write` and `write_all` with any value at each call, both kinds of sink | 3 values (unit, two pieces, a collection whose element errs behind its marker), header of 4 bytes, every room up to 9 |
| `nested_partial` | 18 values of every composite kind stream their encoding in the announced length | one value, every first room and every later grant up to the end |
| `reader` | what was written is read, whole and by element; what is damaged is refused, at the right path | 62 archives; cut at every byte, extended by one, and four of them with each byte set to 0, 1, 2, 66 or 255 |
| `validation` | the context keeps up with the walk | 5 open guards, array of 2, depth 2 |
| `storage` | every sink holds and counts what it took | five sinks (a slice, a vector at 0 and one behind an offset, a map, a failing writer), 6 bytes in requests of up to 3 |
| `chunked` | slices are read back and announced right whatever the chunks and the room | 2 slices in a row, up to three chunks each, rooms of 1, 2 and 20 |
| `nested_lengths` | the values for which serializer and `measure_body` disagree | violation, see 5 |
| `reader_round_trip` | the archives that are not read back | violation, see 5 |
| `reader_error_path` | the errors reported at another place | violation, see 5 |
| `one_shot_bad_writer` | `serialize_to` on a failing writer | violation, see 5 |

The first eight hold.  The last four are the same properties over the cases
that violate them; the passing runs leave those out by name.  TLC stops at the
first violation; the definitions `PairsInArray` ... `LongIndexed`,
`NewerCase` ... `ManyBlocks` and `ProbeCase`, `MarkerCase` of the MC modules are
the single cases, and each one alone as `Cases` violates its property.

*Why the bounds are enough.*  The interesting events of the writers are a block
boundary, an interruption inside each kind of write (marker, padding, payload,
terminator, index, header, table, body) and the element after one that was
interrupted.  With `ChunkSize` 1 or 2 in place of 64, three elements pass the
boundary; the limit starts at and grows to every position, so each write is cut
at each of its bytes; payloads contain the bytes of a marker, a terminator and
the index magic; base positions are unaligned.  For the readers, every length
of 0 to 7 elements around blocks of 2 is there, at aligned and unaligned places,
and the depth limit is 3 so that values at and beyond it fit.  `storage` uses
slices and maps that are smaller than what is written to them.  The proofs lift
the bounds for the sequence, collection, slice and nested serializers, the
archive writer, the validation context and the sinks.

*Fairness.*  A call that runs takes its next step (weak fairness on the steps:
the code has nothing to wait for inside a call).  The caller of the liveness
properties is the loop of `tests/alignment_test.rs:94-97` and
`tests/basic_test.rs`: it calls again while not finished (weak fairness) and
raises the limit again and again (strong fairness on `Grant`, which is disabled
while a call runs).  Safety needs none of it.  `WriteAllReturns` needs the steps
only.  No fairness is assumed for sinks that refuse: there `EventuallyReady` and
`EventuallyFinished` promise nothing.

*Deadlock* is checked in `seq_fixed`, `owned_fixed`, `writer_partial`,
`validation` and `storage`.  The other runs set `CHECK_DEADLOCK FALSE`: a caller
of `CompositeCaller` stops after `finish` or an error, one of `ArchiveReader`
when it has asked everything, one of `ChunkedSerializer` after its last slice,
one of `OneShot` when the call has returned.

## 4. The proofs

| Theorem | Module | Statement | For every |
|---|---|---|---|
| `TypeCorrect` | `SequenceProofs` | `[]TypeOK` | set of elements, alignment, block size, base position, both kinds of sink |
| `Placement` | `SequenceProofs` | `[]ElementsInPlace` | same |
| `ReadyIsHonest` | `SequenceProofs` | `[]ReadyMeansWritten` | same |
| `BusyIsHonest` | `SequenceProofs` | `[]BusyOnlyWhileUnsent` | same |
| `PendingIsHonest` | `SequenceProofs` | `PendingMeansFull`, an action property | same |
| `IndexIsRight` | `SequenceProofs` | `[]IndexLeadsToMarkers` | same |
| `LoopUsesTheSequence` | `SequenceProofs` | `OwnedSpec => Spec`: the loop only makes steps of `SeqSerializer` | set of collections, bound, layout and sink as above |
| `OneAtATime` | `SequenceProofs` | `[]OneElementHeld` | same |
| `ReadyIsTheWhole` | `SequenceProofs` | `[]ReadyIsWhole` | same |
| `StreamsItsEncoding` | `SequenceProofs` | `StreamsTheEncoding`, the refinement of `ByteStream` | same, for a serializer that is given one collection (`MaxInputs = 1`) |
| `TypeCorrect` | `ArchiveWriterProofs` | `[]TypeOK` | header, set of values with any faults, base, bound, both kinds of sink |
| `CountsCorrect` | `ArchiveWriterProofs` | `[]CountsAddUp` | same |
| `WriteAllCorrect` | `ArchiveWriterProofs` | `WriteAllIsAll`: an `Ok` is whole unless the serializer has erred | same |
| `StreamCorrect` | `ArchiveWriterProofs` | `StreamsTheArchive`, the refinement of `ByteStream` up to the serializer's first error | same |
| `TypeCorrect` | `ValidationProofs` | `[]TypeOK` | array capacity, depth limit, set of segments, with and without `alloc` |
| `DepthCorrect` | `ValidationProofs` | `[]DepthIsTheLevel` | same |
| `PathCorrect` | `ValidationProofs` | `[]PathIsThePlace` | same (the property is about `alloc`) |
| `FirstErrorCorrect` | `ValidationProofs` | `[]FirstErrorIsKept` | same (the property is about `alloc`) |
| `NothingLeftBehind` | `ValidationProofs` | `[]GivenBack` | same |
| `TypeCorrect` | `StorageProofs` | `[]TypeOK` | set of sinks, capacity, base, set of bytes, bound |
| `HoldsCorrect` | `StorageProofs` | `[]HoldsWhatItTook`, every mix of `CursorMut` and `io::Write` behind every offset | same |
| `PosCorrect` | `StorageProofs` | `[]PosCountsTaken` | same |
| `OutsideCorrect` | `StorageProofs` | `[]NothingElseTouched` | same |
| `WrittenCorrect` | `StorageProofs` | `[]WrittenIsTheEnd` | same |
| `FailureCorrect` | `StorageProofs` | `[]PosTellsOfFailure` | same |
| `ErrorsStay` | `ChunkedProofs` | `ErrorStays`, an action property | set of slices, width, buffer, room, number of slices |
| `AnnouncedIsWritten` | `ChunkedProofs` | `[]AnnouncedLength` | same, if no byte is shared by two chunks (`WholeBytes`) |
| `ReadersFind` | `ChunkedProofs` | `[]ReadersFindTheValues` | same as `AnnouncedIsWritten` |
| `EveryTypeKeeps` | `NestedProofs` | `Regular(ty) => Keeps(ty)`: the serializer keeps the promise of the trait | type that is a tree |
| `NestedInvariant` | `NestedProofs` | `[]IInv` | set of values of regular types, base positions, bound, index block size, both kinds of sink |
| `NestedTypeOK` | `NestedProofs` | `[]TypeOK` | same |
| `NestedStreams` | `NestedProofs` | `StreamsTheEncoding`, the refinement of `ByteStream` | same |
| `NestedPends` | `NestedProofs` | `PendingMeansFull`, an action property | same |
| `NestedAnnounces` | `NestedProofs` | `[]AnnouncedLength` | same, if the types are measured exactly |
| `VarIntsReadBack` | `RecursionProofs` | `DeserializeU64(SerializeU64(n)) = n`, of ten bytes at most, the last alone without a continuation bit | number of 64 bits |
| `VarIntsDelimitThemselves` | `RecursionProofs` | no encoding is the beginning of another | two natural numbers |

**The sequence serializer.**  None of its properties is inductive.
`ElementsInPlace` says where bytes are but not why the next byte will be right:
that depends on the phase.  `SeqSerializerInv` strengthens it:

- `PhaseInv` ties the flags together: what is queued, active, started, aligned
  and finished at the same time (for instance, an active element that is not
  to be polled again is written whole);
- `PosInv` says, phase by phase, what the sink's position is in terms of the
  last accepted element: at its marker, inside its padding, `elemCursor` bytes
  into its payload, at its end, or inside the trailer;
- `ChainInv` says that each element begins where the previous one ends;
- `ContentInv` says that the bytes before the position are those of the image;
- `IndexInv` and `BlocksInv` relate the offsets recorded by `input`, the count
  of elements and the index buffer to `accepted`;
- `ResultInv` says what the last answer implies about the phase.

All but the type invariant are claimed while no call has failed (`Unfailed`),
since the code makes no promise after an error; the type invariant holds in any
case.  From `PosInv` and `ResultInv` the two answers follow by arithmetic:
`Ready` at rest means the position is the end of everything accepted, `busy`
means it is before.  `PendingIsHonest` follows from the same invariant step by
step: a write that is cut short fills the sink, and what it leaves behind, a
marker, a queued or active element or a rest of the index, is unsent in the next
state.  Of the VarInts in the index the proofs use only that they are sequences
of bytes (`SerializeU64Def`).

**The collections.**  The loop adds an iterator and three stages to the sequence
serializer.  `CInv` is its inductive invariant, with that of the sequence
serializer (`Sound`) as its first conjunct: `Resting` and `Stopped` say when the
sequence serializer is between calls and that an error is the last thing a
caller sees; `InOrder`, that the elements accepted followed by those the
iterator still holds are the collection; `StaysWritten`, that nothing becomes
unsent behind a `Ready`; `OneHeld`, that all elements but the last are in the
sink.  An element is taken from the iterator only at `Ready`, which
`ReadyMeansWritten` of the sequence serializer turns into "everything accepted
is written"; this is where `OneHeld` comes from.  `LoopUsesTheSequence` says that
the composition is a behaviour of `SeqSerializer`, so the theorems proved of
that module hold inside every collection.

`StreamsItsEncoding` goes further: not only are the elements in place, the bytes
between them are those of `Encoding` too, which defines the collection's bytes
by recursion over its elements, without offsets, phases or blocks.  `Bodies` is
that recursion; by induction the sequence serializer's element *k* begins where
`Bodies` of the *k* - 1 before it ends.  `SInv` adds to `CInv` that the index
buffer is, after each delta, the beginning of `BlockIndex` (`IndexBytes`), that
what follows a `Ready` stays `Ready` (`StillReady`), and that the sink holds a
beginning of the encoding (`OutBegins`), the part that a failing sink leaves
true as well.  The theorem is about a serializer that is given one collection.
That is a limit of the code and not of the proof: a second collection given to
the same serializer is lost (`CollectionsInArray` in section 5).  `OneAtATime`
holds for any number of them; `ReadyIsWhole` says itself that it is about the
first.

**The archive writer.**  That the sink holds a prefix of the archive is not
inductive: the next piece continues it only if the cursors say where it ends.
`InHeader` and `InBody` give the sink's bytes as a function of the phase and the
two cursors, and say who owns the value: before the body the writer, then its
serializer, and nobody else once it is fed, so the value being written is the
one that was stored first, and a call that finds none left was preceded by a
failure.  `Counted` places the two beginnings a running call counts from between
what has been reported and the sink's position.  `InHeader` and `InBody` speak of
a serializer that has not erred; once it has, all that is left of them is that
the first `kept` bytes of the sink are those it had sent (`Kept`), which no later
call touches since a sink only grows.  `StreamCorrect` is the proved
refinement: `IInvBegins` maps states, `StepStreams` and `StepRefines` map steps.

**The validation context.**  `PathIsThePlace` alone does not survive the drop of
a guard: the walk goes back to where the guard was made, the stack loses one
segment, and nothing says that these are the same.  `Chain` does: every open
guard added exactly one level or one segment to the place it was opened at.
`Spilled` says that the vector behind the array is used only when the array is
full, which makes its last element the last of the path.

**The sinks.** `Tight` says where the next byte goes (the slice's write
position, the vector's length) in terms of what was taken and of what
`io::Write` put ahead; without it the copy of the next request could land
anywhere.  The assumption on the constants allows every offset with every mix of
calls.  The properties then follow from one lemma on the overwriting of a
stretch of a sequence.

**The chunked slices.**  Three places hold bytes: the sink, what is left of the
length prefix, what is left of the buffer.  Their concatenation, `Stream`, is
what the proof is about: a write, however much of it the sink takes, moves bytes
from one place to the next and leaves `Stream` as it is (`PutMoves`), so only
`input` and `fill_buf` extend it.  The invariant (`Shape`, `Fitting`, `Lengths`,
`Prefixes`, `PackedBytes`, `VarIntBytes`) says of every slice up to the current
`index` where its bytes are in `Stream` and that they are those of the whole
slice, not of its chunks; TLC checked it on the instance of `chunked` first.
`fill_buf` keeps it by `ChunkIsAPart` (the bytes of a chunk are those of the
whole slice from a byte boundary on), and the reader's side is
`ReadsWhatIsPacked` (`read_packed_bits` finds value *i* in the bytes of any
slice, also when it crosses a byte).  `Fitting`, that no value before `index` is
too large, gives `ErrorsStay` without any hypothesis.  The other two theorems
suppose `WholeBytes`: for every packed serializer the width divides the bits of
the buffer (1, 2, 4 and 8 do for the code's 64 bytes), or its slices fit one
chunk.  For other widths the code does not have the property (`OctalCase` in
section 5), and `chunked` covers three bits in slices of one chunk.

**The nested serializers.**  `Keeps(ty)` is the promise the trait makes, said
about states and calls: a serializer that is idle and given a value, or going and
polled, writes a further piece of what is left, `Rest`, to the sink; it answers
`Ready` exactly when nothing is left, `Pending` only on a full sink, an error only
on one that refuses; and it is then in a state from which the next call goes on,
`Going`, or from which `finish` adds nothing, `Ended`.  For each kind of
serializer a lemma (`OptionKeeps`, `TupleKeeps`, `ArrayKeeps`, ..., `RecordKeeps`)
shows that it keeps the promise if the ones inside do.  What they all use is that
`Rest` of a whole is `Rest` of the part that is running followed by the encodings
of those that come after, each at the position where the one before it ends
(`Laid`, `LaidSplit`): the position matters, since elements are aligned.  A record
with a schema needs more: the table holds the lengths that were measured before
anything was written, so its fields have to be measured exactly; that each field
is written once, whatever its id, is `FieldOrder` being a permutation (`Permutes`).

`EveryTypeKeeps` is the induction on the type.  Its hypothesis `AreTypes(Types,
rank)` says that the types are trees (what is inside a type is in `Types` and of
a smaller rank) and that every method of a type is the one of its kind, `AtLevel`:
`Poll(ty, s, k) = PollOf(ty, s, k)` and so on.  Of `Tree` in `NestedSerializer`
that is the definition, unfolded once; TLC evaluates it for the cases of the runs
in `OneLevelAtATime`.  `IInv`, the invariant of the caller, follows from `Keeps` of
the one type at the top: what the sink holds and `Rest` of the state are the
encoding.  TLC checked it on the cases of `nested_partial` first.

The theorems are about `Regular` types, and `NestedAnnounces` about those that
are `Exact` too.  Both say where the code does what the trait promises.  An
array uses its element serializer again, so that has to start anew (`Reusable`:
a pair, a schema and a collection do not).  An array or an option may finish a
serializer that it never started, which then must write nothing (`Quiet`: a
collection writes its terminator).  A schema's fields and `NestedAnnounces` need
types without an index and without padding.  These are no conditions made for
the proof: the findings `PairsInArray` ...  `LongIndexed` of section 5 are the
types they exclude, and `TheoremsApply` of `MCNestedSerializer` has TLC check
that no value of `Disagreements` meets them while those of `GoodCases` are
regular, apart from the two schemas with aligned elements, for which the measure
is right at some positions only.

**VarInts and recursion.**  `SerializeU64`, `DeserializeU64`, `Encoding`,
`ValueEnds` and `SliceEnds` are recursive functions.  `RecursionProofs` derives
induction up to a number and the existence and uniqueness of functions defined by
recursion from the well-foundedness of `<`, stated about sets and functions; the
tables that a recursive function stands for are then shown to exist, and its
defining equation follows (`SerializeU64Def`).  `VarIntsReadBack` is proved seven
bits at a time from the last byte: the tenth byte holds one bit, which is why no
bit of a 64-bit number is shifted out.  The decoder's loop over the cursor stays
in `TypeReader`; the theorem says when that loop ends (the first byte below 128)
and what it yields then.

All proofs use only the named assumptions of their modules on the constants,
and the hypotheses that the theorems state.  The three obligations (initial
state, each action, and that the invariant implies the property) are separate,
with one step per action of `Next`.

Only model-checked: everything about the readers (`TypeReader`, `ArchiveReader`,
`SequenceView`), the nested serializers for types that are not regular, the failing
writer's `one_shot_bad_writer`, and all liveness.  Liveness is out of the prover's
reach with fairness and `ENABLED`.  The readers recur over the bytes and over a
grammar of types that is nested without bound, with `RECURSIVE` operators, in reach
of which `tlapm` has no SMT backend; the nested serializers are free of them by
their `Method`, and `SeqSerializer`, `OwnedIterSerializer`, `ChunkedSerializer`,
`ArchiveWriter`, `Validation`, `Storage` and `VarIntCodec` need none.

## 5. Findings

`nested_lengths` (`traits.rs:422-424`: `measure_body` must produce "a length that
exactly matches what the corresponding serializer will write"; in the first
three cases the measure is right and bytes are missing in the archive although
the answer is `Ready`):

- `PairsInArray`: `Tuple2Serializer` keeps its stage (`primitive.rs:482`), so the
  second pair of an array, which has one element serializer for all, is lost.
- `RecordsInArray`: header and entry cursors stay at their ends
  (`macro_helpers.rs:362`), so the second schema record has no header.
- `CollectionsInArray`: the sequence inside stays finished
  (`iter/serialize.rs:155`), so the second collection of an array is lost.
- `AbsentCollection`: `finish` reaches the serializer of a collection that is
  absent (`iter/serialize.rs:173`), which writes a terminator behind `None`.
- `FixedMap`: padding before pairs is measured and not written (`map.rs:41`).
- `Misaligned`: padding is measured from the start of the body and written from
  the start of the archive (`vec.rs:168`).
- `LongIndexed`: index deltas are measured at one size (`iter/serialize.rs:199`).

`reader_round_trip`:

- `NewerCase`: a field of a later revision is not skipped but refuses the archive
  (`core/schema.rs:246`).
- `MagicCase`: a byte 66 behind a short vector is taken for a block index
  (`block_index.rs:84`).
- `ArraysCase`: arrays in a vector are padded by the writer and read without
  (`slice.rs:79`).
- `OctalCase`: a `PackedSlice` with three bits a value is packed in chunks of 512
  bits, and the 171st is not where the reader of a `PackedVec` looks
  (`packed_vec.rs:76`).  `PackedVec` itself is packed in one piece (`:451`) and
  read back.
- `ManyBlocks`: without `alloc`, `get` takes a position in the archive for one in
  the slice and finds another element (`block_index.rs:126`).

`reader_error_path`:

- `ProbeCase`: a probe for an index at the end of the archive leaves its path
  (`block_index.rs:152`).
- `MarkerCase`: an invalid marker of an `IterArchive` is not told to the context
  (`iter/access.rs:394`).

`one_shot_bad_writer`: `WriteSerializer` drops the writer's error
(`storage.rs:305`), so `serialize_to` returns `Ok` for an archive with a hole.
`PosTellsOfFailure` shows what can be relied on: the position is short.

Observations that no run states:

- A caller of `write` or `write_all` that goes on after the error of an
  *element's* serializer (a `Vec<PackedVec<u8, 4>>` with an oversized value,
  `packed_vec.rs:445`) gets an archive without that element and is told `Ok`:
  `SeqSerializer` has taken the element out of its queue (`sequence.rs:317`) and
  has not marked it active, `drive` polls if an earlier call was `Pending`
  (`write.rs:136`), and the sequence goes on behind it and answers `Ready`
  (`sequence.rs:339`).  `traits.rs:296` says of `Ready` that the item "has been
  fully serialized and written".  `ArchiveWriter` has these behaviours, and its
  properties end where they begin.
- `io::Write` on `VecSerializer::new(offset)`, before any write through
  `CursorMut`, puts its bytes at the front of the vector (`storage.rs:230-236`)
  and not at `archive_pos` as `peek_buf_mut` would (`:212-221`), yet the position
  counts them as written there.  `ahead` in `Storage` is about them, and
  `HoldsWhatItTook` and `NothingElseTouched` name where they are.
- A caller of `SeqSerializer` that goes on after the sink's error is told `Ready`
  although the queued element is gone (`sequence.rs:317`); `ReadyMeansWritten`
  therefore speaks of calls before the first error.
- A derived record that is polled again after a field refused its value runs
  into `.expect("field already consumed or slot is empty")`
  (`macro_helpers.rs:113`).
- Without `alloc`, a path longer than its array loses its last segments but not
  their pops (`validation/path.rs:38`), so `PathIsThePlace` is about `alloc`.
- The upper bits of the tenth byte of a VarInt are shifted out without an error
  (`varint.rs:192`), so a number of ten bytes may have several encodings
  (`Payload` drops them as well).  `serialize_u64` writes none of the others.
- `validate` does not compare the deltas of a block index with the markers
  (`block_index.rs:163`).

## 6. Not modelled

- The byte copies (`utils/byteops.rs`), error enums, the operating system's side
  of memory maps (`flush`), the parsing of derive attributes and the IDL
  compiler: no state or control worth a model.
- `PackedViewSerializer`, which copies the bytes of an archived view behind a
  length, is a byte cursor like the leaves.
- Overflow of `usize` positions (`checked_add`) is out of the range of any
  buffer.  The runs of the readers do not tell numbers of more than 24 bits apart
  (`Huge`, of VarInts more than 21): as a count or a length each of them is beyond
  the end of every archive here.  The decoder of `VarIntCodec`, about which the
  theorems are, has all 64.
- A collection serializer inside `CompositeSerializers` is its promise, not its
  steps: the two runs and the two proofs together cover the nesting.
- Signed VarInts put the ZigZag map in front of the unsigned ones; floats and
  wide integers are byte sequences of their size.
- `Tuple2Serializer` is the only tuple serializer of the repository.

## 7. What could come next

1. Running the collection serializer step by step inside `CompositeSerializers`.
2. The readers one level at a time, as the serializers are, and a proof that
   reading what was encoded gives the value for every type.
3. Archives with two damaged bytes, and path checking for sequences that are
   followed by something.
