------------------------ MODULE CompositeSerializers ------------------------
(***************************************************************************)
(* The serializers that are built from serializers: Option, Result, pairs, *)
(* arrays, Box/Rc/Arc/Cow, derived records and enums, down to the leaves   *)
(* that hold encoded bytes and a cursor (archive/, utils/macro_helpers.rs, *)
(* zebin-macros/src/serialize.rs).                                         *)
(*                                                                         *)
(* A serializer is a tree of states shaped like its type.  Each call,      *)
(* `input`, `poll_pending` or `finish`, walks the tree as far as the sink  *)
(* has room and is modelled as an operator that yields the new tree, the   *)
(* new sink and what the call returns: ready, pending, error or, where the *)
(* code calls expect(), panic.  Collections are taken at the promise that  *)
(* SeqSerializer and OwnedIterSerializer are shown to keep.                *)
(*                                                                         *)
(* The definitions look at one level of the tree.  What a composite asks   *)
(* of the serializers inside it, it asks Method, as generic code asks a    *)
(* trait; NestedSerializer closes the recursion.                           *)
(***************************************************************************)
EXTENDS BodyMeasure

CONSTANT MaxPos   \* bound: the last position a sink may reach

\* NewSerializer::new.
New(ty) == Method(<<"New", ty>>)
Input(ty, s, v, sink) == Method(<<"Input", ty, s, v, sink>>)
Poll(ty, s, sink) == Method(<<"Poll", ty, s, sink>>)
Finish(ty, s, sink) == Method(<<"Finish", ty, s, sink>>)

-----------------------------------------------------------------------------
(* Writing: the sink is [base, out, limit, strict]; a strict one refuses a  *)
(* write it cannot take whole (MmapSerializer), others take a part of it    *)

Answer(s, sink, r) == [s |-> s, sink |-> sink, r |-> r]

SinkPos(sink) == sink.base + Len(sink.out)

\* (Mutant of Accepts: the last free byte of the sink stays unused.)
AcceptsAllButOne(strict, room, n) ==
  IF n < room THEN n ELSE IF room = 0 THEN 0 ELSE room - 1

\* How many of n bytes a sink takes that has room.
Accepts(strict, room, n) ==
  IF n <= room THEN n ELSE IF strict THEN 0 ELSE room

\* The first n of the bytes are taken; the part that is left replaces them in
\* the state.
Written(bytes, sink, n) ==
  Answer(SubSeq(bytes, n + 1, Len(bytes)),
         [sink EXCEPT !.out = @ \o SubSeq(bytes, 1, n)],
         IF n = Len(bytes) THEN "ready"
         ELSE IF sink.strict THEN "error" ELSE "pending")

Write(bytes, sink) ==
  Written(bytes, sink,
          Accepts(sink.strict, sink.limit - SinkPos(sink), Len(bytes)))

-----------------------------------------------------------------------------
(* Steps: what a poll does to one of the parts of a state, and the walk     *)
(* over the parts, which goes on while they are ready                       *)

(* Leaves: the encoded pieces that are not written yet. *)

\* w answers for the first piece.
LeafAfter(s, w) ==
  Answer(IF w.r = "ready" THEN Tail(s) ELSE <<w.s>> \o Tail(s), w.sink, w.r)
PollPiece(s, sink) == LeafAfter(s, Write(Head(s), sink))

(* Arrays: one element serializer for all the elements. *)

\* i answers for the element.
MovedOn(s, i) ==
  [s EXCEPT !.item = i.s, !.items = IF s.awaiting THEN Tail(@) ELSE @,
            !.awaiting = \/ i.r = "ready"
                         \/ i.r = "error" /\ s.awaiting]

ArrayAfterItem(s, i) == Answer(MovedOn(s, i), i.sink, i.r)
PollItem(ty, s, sink) ==
  ArrayAfterItem(s, IF s.awaiting THEN Input(ty.of, s.item, Head(s.items), sink)
                    ELSE Poll(ty.of, s.item, sink))

(* Derived records: the header and the entries of a schema, the fields. *)

\* SchemaObjectSerializer::poll_write_header
HeaderAfter(s, w) ==
  Answer([s EXCEPT !.headerCursor = 12 - Len(w.s)], w.sink, w.r)
PollHeader(ty, s, sink) ==
  HeaderAfter(s, Write(SubSeq(HeaderBytes(ty), s.headerCursor + 1, 12), sink))

\* FieldEntrySerializer::poll_write
EntryAfter(f, w) ==
  Answer([f EXCEPT !.entryCursor = 8 - Len(w.s)], w.sink, w.r)
PollEntry(field, f, sink) ==
  EntryAfter(f, Write(SubSeq(EntryBytes(field, f.len), f.entryCursor + 1, 8),
                      sink))

\* (Mutant of StartedBy: a field counts as started only when it pends.)
StartedByPending(r) == r = "pending"

\* An error leaves the field as if it had not begun, its value gone.
StartedBy(r) == r \in {"ready", "pending"}

\* FieldState::poll_write
FieldAfter(f, i) ==
  Answer([f EXCEPT !.ser = i.s, !.slot = << >>, !.started = @ \/ StartedBy(i.r)],
         i.sink, i.r)
PollField(ty, f, sink) ==
  IF ~f.started /\ f.slot = << >> THEN Answer(f, sink, "panic")
  ELSE FieldAfter(f, IF f.started THEN Poll(ty, f.ser, sink)
                     ELSE Input(ty, f.ser, f.slot[1], sink))

FieldStep(s, i, w) == Answer([s EXCEPT !.fields[i] = w.s], w.sink, w.r)

\* finish reaches the serializer of every field; its Pending is not looked at.
FieldFinished(s, f) ==
  Answer(s, f.sink, IF f.r = "error" THEN "error" ELSE "ready")

Step(ty, step, s, sink) ==
  CASE step.what = "piece" -> PollPiece(s, sink)
    [] step.what = "item" -> PollItem(ty, s, sink)
    [] step.what = "header" -> PollHeader(ty, s, sink)
    [] step.what = "entry" ->
         FieldStep(s, step.i, PollEntry(ty.fields[step.i], s.fields[step.i], sink))
    [] step.what = "field" ->
         FieldStep(s, step.i,
                   PollField(ty.fields[step.i].ty, s.fields[step.i], sink))
    [] step.what = "finish" ->
         FieldFinished(s, Finish(ty.fields[step.i].ty, s.fields[step.i].ser, sink))

OneTo(n) == [i \in 1 .. n |-> i]
Steps(what, order) ==
  [j \in 1 .. Len(order) |-> [what |-> what, i |-> order[j]]]

\* a answers for the steps before.
StepAfter(ty, step, a) ==
  IF a.r = "ready" THEN Step(ty, step, a.s, a.sink) ELSE a

Walk(ty, steps, s, sink) ==
  LET upto[j \in 0 .. Len(steps)] ==
        IF j = 0 THEN Answer(s, sink, "ready")
        ELSE StepAfter(ty, steps[j], upto[j - 1])
  IN  upto[Len(steps)]

-----------------------------------------------------------------------------
(* Leaves *)

\* One piece after the other.
PollLeaf(s, sink) == Walk(<< >>, Steps("piece", OneTo(Len(s))), s, sink)

\* PackedU8VecSerializer refuses a value that needs more bits; what it held
\* before stays.
InputPacked(ty, s, v, sink) ==
  IF \E i \in 1 .. Len(v) : v[i] >= 2^ty.bits
  THEN Answer(s, sink, "error")
  ELSE PollLeaf(<<LE(4, Len(v)), Packed(ty.bits, v)>>, sink)

\* PackedBoolVecSerializer: every value fits its bit.
InputPackedBool(v, sink) == PollLeaf(<<LE(4, Len(v)), Packed(1, v)>>, sink)

InputString(v, sink) == PollLeaf(<<LE(4, Len(v)), v>>, sink)

InputVarIntVec(v, sink) ==
  PollLeaf(<<LE(4, Len(v))>> \o [i \in 1 .. Len(v) |-> SerializeU64(v[i])],
           sink)

InputUnit(s, sink) == Answer(s, sink, "ready")

\* ByteSerializer
InputByte(v, sink) == PollLeaf(<<v>>, sink)

\* What a leaf holds before its first input: a value or a length of zeros.
NewLeaf(ty) ==
  CASE ty.k = "prim" -> <<Zeros(ty.size)>>
    [] ty.k \in {"string", "packed", "varintvec"} -> <<LE(4, 0)>>
    [] ty.k \in {"unit", "varint"} -> << >>

InputVarInt(v, sink) == PollLeaf(<<SerializeU64(v)>>, sink)

-----------------------------------------------------------------------------
(* Option *)

NewOption(ty) ==
  [value |-> << >>, prefix |-> << >>, hasInner |-> FALSE, started |-> FALSE,
   inner |-> New(ty.of)]

\* A finished inner value is not polled again.
InnerLeft(r) == r # "ready"

\* i answers for the inner value.
OptionAfterInner(s, i) ==
  Answer([s EXCEPT !.value = << >>, !.started = TRUE, !.inner = i.s,
                   !.hasInner = InnerLeft(i.r)],
         i.sink, i.r)

\* w answers for the prefix.
OptionAfterPrefix(ty, s, w) ==
  IF w.r # "ready" \/ ~s.hasInner
  THEN Answer([s EXCEPT !.prefix = w.s], w.sink, w.r)
  ELSE OptionAfterInner([s EXCEPT !.prefix = w.s],
         IF s.started THEN Poll(ty.of, s.inner, w.sink)
         ELSE Input(ty.of, s.inner, s.value[1], w.sink))

\* The prefix, then the inner value.
PollOption(ty, s, sink) == OptionAfterPrefix(ty, s, Write(s.prefix, sink))

InputOption(ty, s, v, sink) ==
  PollOption(ty,
    [s EXCEPT !.value = v, !.prefix = <<Len(v)>>, !.hasInner = v # << >>,
              !.started = FALSE],
    sink)

-----------------------------------------------------------------------------
(* Result *)

NewResult(ty) ==
  [state |-> "uninitialized", value |-> << >>, prefix |-> << >>,
   started |-> FALSE, left |-> New(ty.left), right |-> New(ty.right)]

ResultAfterInner(s, side, i) ==
  Answer([s EXCEPT !.value = << >>, !.started = TRUE, ![side] = i.s],
         i.sink, i.r)

\* The side of the state: its serializer is polled even when it is done.
ResultAfterPrefix(ty, s, side, w) ==
  IF w.r # "ready" THEN Answer([s EXCEPT !.prefix = w.s], w.sink, w.r)
  ELSE ResultAfterInner([s EXCEPT !.prefix = w.s], side,
         IF s.started THEN Poll(ty[side], s[side], w.sink)
         ELSE Input(ty[side], s[side], s.value[1], w.sink))

PollResult(ty, s, sink) ==
  IF s.state = "uninitialized" THEN Answer(s, sink, "ready")
  ELSE ResultAfterPrefix(ty, s, IF s.state = "ok" THEN "left" ELSE "right",
                         Write(s.prefix, sink))

InputResult(ty, s, v, sink) ==
  PollResult(ty,
    [s EXCEPT !.state = IF v.tag = 0 THEN "ok" ELSE "err", !.value = <<v.val>>,
              !.prefix = <<v.tag>>, !.started = FALSE],
    sink)

FinishResult(ty, s, sink) ==
  CASE s.state = "uninitialized" -> Answer(s, sink, "ready")
    [] s.state = "ok" -> Finish(ty.left, s.left, sink)
    [] s.state = "err" -> Finish(ty.right, s.right, sink)

-----------------------------------------------------------------------------
(* Pairs *)

NewTuple(ty) ==
  [pending |-> << >>, key |-> New(ty.left), value |-> New(ty.right),
   keyStarted |-> FALSE, valueStarted |-> FALSE, stage |-> 0]

TupleAfterValue(s, i) ==
  Answer([s EXCEPT !.pending = IF s.valueStarted THEN @ ELSE << >>,
                   !.valueStarted = TRUE, !.value = i.s,
                   !.stage = IF i.r = "ready" THEN 2 ELSE 1],
         i.sink, i.r)

\* Stage 1: start the value with what `input` has parked, or go on with it.
PollTupleValue(ty, s, sink) ==
  IF ~s.valueStarted /\ s.pending = << >> THEN Answer(s, sink, "error")
  ELSE TupleAfterValue(s,
         IF s.valueStarted THEN Poll(ty.right, s.value, sink)
         ELSE Input(ty.right, s.value, s.pending[1], sink))

AdvanceAfterKey(ty, s, sink) ==
  PollTupleValue(ty, [s EXCEPT !.stage = 1, !.valueStarted = FALSE], sink)

\* i answers for the key.
KeyAnswered(s, i) ==
  [s EXCEPT !.key = i.s, !.keyStarted = @ \/ i.r # "error"]
TupleAfterKey(ty, s, i) ==
  IF i.r = "ready" THEN AdvanceAfterKey(ty, KeyAnswered(s, i), i.sink)
  ELSE Answer(KeyAnswered(s, i), i.sink, i.r)

InputTuple(ty, s, v, sink) ==
  TupleAfterKey(ty, [s EXCEPT !.pending = <<v[2]>>],
                Input(ty.left, s.key, v[1], sink))

PollTupleKey(ty, s, sink) ==
  IF ~s.keyStarted THEN Answer(s, sink, "error")
  ELSE TupleAfterKey(ty, s, Poll(ty.left, s.key, sink))

PollTuple(ty, s, sink) ==
  CASE s.stage = 0 -> PollTupleKey(ty, s, sink)
    [] s.stage = 1 -> PollTupleValue(ty, s, sink)
    [] s.stage = 2 -> Answer(s, sink, "ready")

-----------------------------------------------------------------------------
(* Arrays *)

NewArray(ty) ==
  [items |-> << >>, item |-> New(ty.of), started |-> FALSE, awaiting |-> TRUE]

\* The element that pends, if any, and those that are not begun.
ItemsLeft(s) == IF s.awaiting THEN Len(s.items) ELSE 1 + Len(s.items)

PollArray(ty, s, sink) ==
  IF ~s.started THEN Answer(s, sink, "error")
  ELSE Walk(ty, Steps("item", OneTo(ItemsLeft(s))), s, sink)

InputArray(ty, s, v, sink) ==
  PollArray(ty, [s EXCEPT !.items = v, !.started = TRUE, !.awaiting = TRUE],
            sink)

-----------------------------------------------------------------------------
(* Box, Rc, Arc and Cow hand every call to the serializer of what they hold *)

NewShared(ty) == New(ty.of)
InputShared(ty, s, v, sink) == Input(ty.of, s, v, sink)
PollShared(ty, s, sink) == Poll(ty.of, s, sink)
FinishShared(ty, s, sink) == Finish(ty.of, s, sink)

-----------------------------------------------------------------------------
(* Collections, at the promise of OwnedIterSerializer: the bytes an element *)
(* serializer of its own writes for every element, streamed piece by piece. *)
(* The sequence inside stays finished when a second collection is given.    *)

Unlimited(base) ==
  [base |-> base, out |-> << >>, limit |-> 2 * MaxPos, strict |-> FALSE]

\* What a fresh element serializer writes at `at`, `finish` included.
FinishedBytes(ty, i) == Finish(ty, i.s, i.sink).sink.out
ElementBytes(ty, x, at) ==
  FinishedBytes(ty, Input(ty, New(ty), x, Unlimited(at)))

NewVec == [fed |-> FALSE, pieces |-> << >>]

VecAfter(s, p) == Answer([s EXCEPT !.pieces = p.s], p.sink, p.r)
PollVec(s, sink) ==
  IF ~s.fed THEN Answer(s, sink, "error")
  ELSE VecAfter(s, PollLeaf(s.pieces, sink))

InputVec(ty, s, v, sink) ==
  PollVec(IF s.fed THEN s
          ELSE [fed |-> TRUE,
                pieces |-> <<SequenceOf(ty, v, SinkPos(sink),
                               LAMBDA x, at : ElementBytes(ty.of, x, at))>>],
          sink)

\* finish ends the sequence if nothing has: a serializer that was never fed
\* writes the terminator of an empty sequence.
FinishVec(s, sink) ==
  IF s.fed THEN Answer(s, sink, "ready")
  ELSE PollVec([fed |-> TRUE, pieces |-> << <<0>> >>], sink)

-----------------------------------------------------------------------------
(* Derived records: the header and the entries of a schema, then the fields *)
(* in the order of their ids                                                *)

NewField(ty) ==
  [slot |-> << >>, started |-> FALSE, len |-> 0, entryCursor |-> 0,
   ser |-> New(ty)]

NewRecord(ty) ==
  [headerCursor |-> 0,
   fields |-> [i \in 1 .. Len(ty.fields) |-> NewField(ty.fields[i].ty)]]

\* FieldState::fill and SchemaFieldState::fill
FillField(f, ty, v, schema) ==
  [f EXCEPT !.slot = <<v>>, !.started = FALSE,
            !.len = IF schema THEN MeasureBody(ty, v) ELSE 0]

\* (Mutant of RecordSteps: the fields before their entries.)
RecordStepsFieldsFirst(ty, order) ==
  IF ty.key = 0 THEN Steps("field", order)
  ELSE Steps("header", <<0>>) \o Steps("field", order) \o Steps("entry", order)

\* The steps of a record's poll, all of them taken again at every poll: the
\* header, the entries and the fields.
RecordSteps(ty, order) ==
  IF ty.key = 0 THEN Steps("field", order)
  ELSE Steps("header", <<0>>) \o Steps("entry", order) \o Steps("field", order)

PollRecord(ty, s, sink) == Walk(ty, RecordSteps(ty, FieldOrder(ty)), s, sink)

InputRecord(ty, s, v, sink) ==
  PollRecord(ty,
    [s EXCEPT !.fields = [i \in 1 .. Len(v) |->
       FillField(s.fields[i], ty.fields[i].ty, v[i], ty.key # 0)]],
    sink)

FinishRecord(ty, s, sink) ==
  Walk(ty, Steps("finish", OneTo(Len(ty.fields))), s, sink)

-----------------------------------------------------------------------------
(* Derived enums: the tag, then the record of the variant, afresh each time *)

NewEnum == [tag |-> Zeros(4), variant |-> 0, payload |-> << >>, pending |-> << >>]

\* TagSerializer::poll_write
PollTag(s, sink) == Write(s.tag, sink)

EnumAfterPayload(s, i) ==
  Answer([s EXCEPT !.pending = << >>, !.payload = <<i.s>>], i.sink, i.r)

EnumAfterTag(s, record, t) ==
  IF t.r # "ready" \/ s.payload = << >>
  THEN Answer([s EXCEPT !.tag = t.s], t.sink, t.r)
  ELSE EnumAfterPayload([s EXCEPT !.tag = t.s],
         IF s.pending # << >>
         THEN Input(record, s.payload[1], s.pending[1], t.sink)
         ELSE Poll(record, s.payload[1], t.sink))

PollEnum(ty, s, sink) ==
  EnumAfterTag(s, ty.variants[s.variant], PollTag(s, sink))

InputEnum(ty, s, v, sink) ==
  PollEnum(ty,
    [tag |-> LE(4, v.tag), variant |-> v.tag + 1, pending |-> <<v.val>>,
     payload |-> IF IsUnit(ty.variants[v.tag + 1]) THEN << >>
                 ELSE <<New(ty.variants[v.tag + 1])>>],
    sink)

FinishEnum(ty, s, sink) ==
  IF s.payload = << >> THEN Answer(s, sink, "ready")
  ELSE Finish(ty.variants[s.variant], s.payload[1], sink)

-----------------------------------------------------------------------------
(* The calls, by the kind of the type *)

Leaf == {"prim", "unit", "varint", "string", "packed", "varintvec"}

NewOf(ty) ==
  CASE ty.k \in Leaf -> NewLeaf(ty)
    [] ty.k = "option" -> NewOption(ty)
    [] ty.k = "result" -> NewResult(ty)
    [] ty.k = "tuple" -> NewTuple(ty)
    [] ty.k = "array" -> NewArray(ty)
    [] ty.k = "shared" -> NewShared(ty)
    [] ty.k \in {"vec", "map"} -> NewVec
    [] ty.k = "record" -> NewRecord(ty)
    [] ty.k = "enum" -> NewEnum

InputOf(ty, s, v, sink) ==
  CASE ty.k = "prim" -> InputByte(v, sink)
    [] ty.k = "unit" -> InputUnit(s, sink)
    [] ty.k = "varint" -> InputVarInt(v, sink)
    [] ty.k = "string" -> InputString(v, sink)
    [] ty.k = "packed" /\ ty.bits = 1 -> InputPackedBool(v, sink)
    [] ty.k = "packed" /\ ty.bits # 1 -> InputPacked(ty, s, v, sink)
    [] ty.k = "varintvec" -> InputVarIntVec(v, sink)
    [] ty.k = "option" -> InputOption(ty, s, v, sink)
    [] ty.k = "result" -> InputResult(ty, s, v, sink)
    [] ty.k = "tuple" -> InputTuple(ty, s, v, sink)
    [] ty.k = "array" -> InputArray(ty, s, v, sink)
    [] ty.k = "shared" -> InputShared(ty, s, v, sink)
    [] ty.k \in {"vec", "map"} -> InputVec(ty, s, v, sink)
    [] ty.k = "record" -> InputRecord(ty, s, v, sink)
    [] ty.k = "enum" -> InputEnum(ty, s, v, sink)

PollOf(ty, s, sink) ==
  CASE ty.k \in Leaf -> PollLeaf(s, sink)
    [] ty.k = "option" -> PollOption(ty, s, sink)
    [] ty.k = "result" -> PollResult(ty, s, sink)
    [] ty.k = "tuple" -> PollTuple(ty, s, sink)
    [] ty.k = "array" -> PollArray(ty, s, sink)
    [] ty.k = "shared" -> PollShared(ty, s, sink)
    [] ty.k \in {"vec", "map"} -> PollVec(s, sink)
    [] ty.k = "record" -> PollRecord(ty, s, sink)
    [] ty.k = "enum" -> PollEnum(ty, s, sink)

FinishOf(ty, s, sink) ==
  CASE ty.k \in Leaf \cup {"tuple"} -> Answer(s, sink, "ready")
    [] ty.k = "option" -> Finish(ty.of, s.inner, sink)
    [] ty.k = "result" -> FinishResult(ty, s, sink)
    [] ty.k = "array" -> Finish(ty.of, s.item, sink)
    [] ty.k = "shared" -> FinishShared(ty, s, sink)
    [] ty.k \in {"vec", "map"} -> FinishVec(s, sink)
    [] ty.k = "record" -> FinishRecord(ty, s, sink)
    [] ty.k = "enum" -> FinishEnum(ty, s, sink)
=============================================================================
