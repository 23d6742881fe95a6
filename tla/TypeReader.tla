----------------------------- MODULE TypeReader -----------------------------
(***************************************************************************)
(* Reading an archive: the header, then the walk of Access::access and     *)
(* Access::validate over the bytes, type by type, down through options,    *)
(* sequences, derived enums and the field tables of derived records, and   *)
(* the values Deserialize makes of it (read.rs, traits.rs, core/schema.rs, *)
(* archive/, zebin-macros/src/access.rs and deserialize.rs).               *)
(*                                                                         *)
(* The two walks, access and validate, are twins that differ only in what  *)
(* they keep, so one operator stands for both.  It carries a reader:       *)
(*   ok, pos, val      the answer, the cursor, the view of what was read   *)
(*   depth, path       of the validation context                           *)
(*   seen              last_error_path: the path recorded first, if any    *)
(*   why, where        the error returned, and the fields, indices and     *)
(*                     variants the walk was inside when it arose          *)
(***************************************************************************)
EXTENDS ArchiveTypes

CONSTANTS
  MaxDepth,   \* ValidationConfig::max_depth
  MaxFields   \* MAX_SCHEMA_FIELDS

ASSUME LimitsAssumption == MaxDepth \in Nat /\ MaxFields \in Nat

VarIntBytes == 3     \* MAX_BYTES of u16, the type of a varint here
VarIntTop == 65535   \* u16::MAX
IndexBytes == 10     \* MAX_BYTES of usize

-----------------------------------------------------------------------------
(* The validation context *)

\* The segments of a path.
FieldSeg(id) == [kind |-> "field", n |-> id]
IndexSeg(i) == [kind |-> "index", n |-> i]
VariantSeg(tag) == [kind |-> "variant", n |-> tag]

\* ValidationPathStack::push: the segment on top of the path.
\* (Mutant of Pushed: a segment replaces its parent.)
PushedOver(path, seg) == <<seg>>
Pushed(path, seg) == Append(path, seg)

\* ValidationContext::error: the first path that is recorded stays.
Recorded(c) == IF c.seen = << >> THEN <<c.path>> ELSE c.seen

\* An error made in place, without the context.
FailUnrecorded(c, why) == [c EXCEPT !.ok = FALSE, !.why = why]

Fail(c, why) == [FailUnrecorded(c, why) EXCEPT !.seen = Recorded(c)]

Then(c, Op(_)) == IF c.ok THEN Op(c) ELSE c

Yield(c, v) == [c EXCEPT !.val = v]

\* push_field, push_index, push_variant: the guard pops when it is dropped; an
\* error keeps the place it arose at.
Entered(c, seg) ==
  [c EXCEPT !.path = Pushed(@, seg), !.where = Append(@, seg)]
Left(r, c) ==
  [r EXCEPT !.path = c.path, !.where = IF r.ok THEN c.where ELSE @]
Under(c, seg, Op(_)) == Left(Op(Entered(c, seg)), c)

\* ArchivedDepthGuard::drop gives the level back.
\* (Mutant of Released: it does not.)
ReleasedNever(r, depth) == r
Released(r, depth) == [r EXCEPT !.depth = depth]

\* context.guard(): one level deeper until it is dropped.
Deeper(c) ==
  IF c.depth >= MaxDepth THEN Fail(c, "RecursionLimitExceeded")
  ELSE [c EXCEPT !.depth = @ + 1]
Guarded(c, Op(_)) ==
  Then(Deeper(c), LAMBDA g : Released(Op(g), c.depth))

-----------------------------------------------------------------------------
(* The cursor *)

Advance(b, c, n) ==
  IF c.pos + n > Len(b) THEN Fail(c, "Pointer out of bounds")
  ELSE [c EXCEPT !.pos = @ + n]

\* (Mutant of Take: at the end of the input, what is there is enough.)
TakeAvailable(b, c, n) ==
  LET m == Min({n, Len(b) - c.pos})
  IN  Yield([c EXCEPT !.pos = @ + m],
            SubSeq(b, c.pos + 1, c.pos + m) \o Zeros(Min({n - m, 8})))
Take(b, c, n) ==
  Then(Advance(b, c, n), LAMBDA r : Yield(r, SubSeq(b, c.pos + 1, c.pos + n)))

AlignCursor(b, c, align) == Advance(b, c, Padding(c.pos, align))

\* Numbers that need more than 24 bits, of VarInts more than 21, are not told
\* apart: as a count or a length each of them is beyond the end of every buffer.
Huge == 16777216

\* from_le_bytes
Num(bytes) ==
  IF \E i \in 4 .. Len(bytes) : bytes[i] # 0 THEN Huge
  ELSE FoldSet(LAMBDA i, acc : acc + bytes[i] * 256^(i - 1), 0,
               1 .. Min({3, Len(bytes)}))

ReadNum(b, c, n) == Then(Take(b, c, n), LAMBDA r : Yield(r, Num(r.val)))

-----------------------------------------------------------------------------
(* Leaves *)

\* try_from_u64: the number must fit.
UpTo(top, r, v) ==
  IF v > top THEN FailUnrecorded(r, "VarInt value out of range")
  ELSE Yield(r, v)

\* DeserializeU64, but for the numbers that need more than 21 bits.
VarIntNum(bytes) ==
  IF \E i \in 4 .. Len(bytes) : Payload(bytes[i], i - 1) # 0 THEN Huge
  ELSE DeserializeU64(SubSeq(bytes, 1, Min({3, Len(bytes)})))

\* deserialize_u64, for a number of at most `maxBytes` bytes up to `top`.
RECURSIVE VarIntFrom(_, _, _, _, _)
VarIntFrom(b, c, maxBytes, top, taken) ==
  IF Len(taken) >= maxBytes THEN Fail(c, "VarInt exceeds maximum length")
  ELSE Then(Take(b, c, 1), LAMBDA r :
         LET bytes == taken \o r.val
         IN  IF r.val[1] < 128 THEN UpTo(top, r, VarIntNum(bytes))
             ELSE IF 7 * Len(bytes) >= 64 THEN Fail(r, "VarInt shift overflow")
             ELSE VarIntFrom(b, r, maxBytes, top, bytes))

ReadVarInt(b, c) == VarIntFrom(b, c, VarIntBytes, VarIntTop, << >>)
ReadIndexNum(b, c) == VarIntFrom(b, c, IndexBytes, Huge, << >>)

\* A bool has one byte, 0 or 1.
ReadPrim(ty, b, c) ==
  Then(Take(b, c, ty.size), LAMBDA r :
    IF \E i \in 1 .. ty.size : r.val[i] > ty.top
    THEN Fail(r, "Invalid bool value") ELSE r)

ReadUnit(c) == Yield(c, << >>)

\* Bytes below 128 are UTF-8, the others are not.
ReadString(b, c) ==
  Then(ReadNum(b, c, 4), LAMBDA n :
    Then(Take(b, n, n.val), LAMBDA r :
      IF \E i \in 1 .. Len(r.val) : r.val[i] > 127
      THEN Fail(r, "Invalid UTF-8 sequence") ELSE r))

ReadPacked(ty, b, c) ==
  Then(ReadNum(b, c, 4), LAMBDA n :
    Then(Take(b, n, (n.val * ty.bits + 7) \div 8), LAMBDA r :
      Yield(r, [i \in 1 .. n.val |-> ReadPackedBits(r.val, ty.bits, i - 1)])))

RECURSIVE VarIntsFrom(_, _, _, _)
VarIntsFrom(b, c, n, vals) ==
  IF Len(vals) = n THEN Yield(c, vals)
  ELSE Then(Under(c, IndexSeg(Len(vals)), LAMBDA u : ReadVarInt(b, u)), LAMBDA r :
         VarIntsFrom(b, r, n, Append(vals, r.val)))

ReadVarIntVec(b, c) ==
  Then(ReadNum(b, c, 4), LAMBDA n : VarIntsFrom(b, n, n.val, << >>))

-----------------------------------------------------------------------------
RECURSIVE Read(_, _, _)

\* Option and Result: a discriminant, then the value of its variant.
ReadOption(ty, b, c) ==
  Then(Take(b, c, 1), LAMBDA r :
    CASE r.val = <<0>> -> Yield(r, << >>)
      [] r.val = <<1>> ->
           Then(Under(r, VariantSeg(1), LAMBDA u : Read(ty.of, b, u)),
                LAMBDA s : Yield(s, <<s.val>>))
      [] OTHER -> Fail(r, "Invalid Option discriminant"))

ReadResult(ty, b, c) ==
  Then(Take(b, c, 1), LAMBDA r :
    CASE r.val = <<0>> ->
           Then(Under(r, VariantSeg(0), LAMBDA u : Read(ty.left, b, u)),
                LAMBDA s : Yield(s, [tag |-> 0, val |-> s.val]))
      [] r.val = <<1>> ->
           Then(Under(r, VariantSeg(1), LAMBDA u : Read(ty.right, b, u)),
                LAMBDA s : Yield(s, [tag |-> 1, val |-> s.val]))
      [] OTHER -> Fail(r, "Invalid Result discriminant"))

\* Box, Rc, Arc and Cow archive as what they hold.
ReadShared(ty, b, c) == Read(ty.of, b, c)

ReadTuple(ty, b, c) ==
  Then(Read(ty.left, b, c), LAMBDA l :
    Then(Read(ty.right, b, l), LAMBDA r : Yield(r, <<l.val, r.val>>)))

RECURSIVE ReadArrayFrom(_, _, _, _)
ReadArrayFrom(ty, b, c, vals) ==
  IF Len(vals) = ty.n THEN Yield(c, vals)
  ELSE Then(Under(c, IndexSeg(Len(vals)), LAMBDA u : Read(ty.of, b, u)), LAMBDA r :
         ReadArrayFrom(ty, b, r, Append(vals, r.val)))

ReadArray(ty, b, c) == ReadArrayFrom(ty, b, c, << >>)

-----------------------------------------------------------------------------
(* Sequences *)

\* What is behind the terminator may be an index: its first byte decides.
\* The look at it goes through the context, which records a failure.
AtMagic(b, c) == c.pos < Len(b) /\ b[c.pos + 1] = Magic
Peeked(b, c) ==
  IF c.pos < Len(b) THEN c ELSE [c EXCEPT !.seen = Recorded(c)]

RECURSIVE SkipDeltas(_, _, _)
SkipDeltas(b, c, n) ==
  IF n = 0 THEN c
  ELSE Then(ReadIndexNum(b, c), LAMBDA r : SkipDeltas(b, r, n - 1))

\* skip_block_index
SkipBlockIndex(b, c) ==
  IF ~AtMagic(b, c) THEN Peeked(b, c)
  ELSE Then(ReadIndexNum(b, Advance(b, c, 1)), LAMBDA s :
         Then(ReadIndexNum(b, s), LAMBDA n : SkipDeltas(b, n, n.val)))

\* deserialize_block_index, which checks the counts too.
ReadBlockIndex(b, c, len) ==
  IF ~AtMagic(b, c) THEN Peeked(b, c)
  ELSE Then(ReadIndexNum(b, Advance(b, c, 1)), LAMBDA s :
         IF s.val = 0 THEN FailUnrecorded(s, "chunk_size must be > 0")
         ELSE Then(ReadIndexNum(b, s), LAMBDA n :
                IF n.val # (len + s.val - 1) \div s.val
                THEN FailUnrecorded(n, "num_blocks mismatch")
                ELSE SkipDeltas(b, n, n.val)))

\* AccessStrategy: FixedSequenceStrategy belongs to the primitives and (),
\* every other type has the strategy that does not align; ArchivedIter goes by
\* FIXED_SIZE.
RECURSIVE HasFixedStrategy(_)
HasFixedStrategy(ty) ==
  \/ ty.k \in {"prim", "unit"}
  \/ ty.k = "shared" /\ HasFixedStrategy(ty.of)

Aligns(ty) ==
  IF ty.indexed THEN HasFixedSize(ty.of) ELSE HasFixedStrategy(ty.of)

RECURSIVE ReadElements(_, _, _, _)
ReadElements(ty, b, c, vals) ==
  Then(Take(b, c, 1), LAMBDA m :
    CASE m.val = <<0>> -> Yield(m, vals)
      [] m.val = <<1>> ->
           Then(AlignCursor(b, m, IF Aligns(ty) THEN Alignment(ty.of) ELSE 1),
             LAMBDA a :
               Then(Under(a, IndexSeg(Len(vals)), LAMBDA u : Read(ty.of, b, u)),
                    LAMBDA r : ReadElements(ty, b, r, Append(vals, r.val))))
      [] OTHER -> IF ty.indexed
                  THEN FailUnrecorded(m, "Invalid sequence marker")
                  ELSE Fail(m, "Invalid sequence marker"))

ReadSequence(ty, b, c) ==
  Then(ReadElements(ty, b, c, << >>), LAMBDA s :
    Then(IF ty.indexed THEN ReadBlockIndex(b, s, Len(s.val))
         ELSE SkipBlockIndex(b, s),
         LAMBDA r : Yield(r, s.val)))

-----------------------------------------------------------------------------
(* Records: a bare record is its fields, a schema-aware one has a header, a *)
(* table with an entry for every field, and the payloads in table order     *)

RECURSIVE ReadFieldsFrom(_, _, _, _)
ReadFieldsFrom(ty, b, c, vals) ==
  LET i == Len(vals) + 1
  IN  IF i > Len(ty.fields) THEN Yield(c, vals)
      ELSE Then(Under(c, FieldSeg(ty.fields[i].id),
                      LAMBDA u : Read(ty.fields[i].ty, b, u)), LAMBDA r :
             ReadFieldsFrom(ty, b, r, Append(vals, <<r.val>>)))

ReadBare(ty, b, c) == ReadFieldsFrom(ty, b, c, << >>)

\* SchemaObjectHeader::access_and_verify; yields the number of fields.
ReadHeader(ty, b, c) ==
  Then(Take(b, c, 12), LAMBDA h :
    LET count == Num(SubSeq(h.val, 9, 10))
    IN  IF Num(SubSeq(h.val, 1, 4)) # ty.key
        THEN Fail(h, "Stable schema key mismatch")
        ELSE IF Num(SubSeq(h.val, 11, 12)) # 0 \/ count > MaxFields
        THEN Fail(h, "InvalidFieldTable")
        ELSE Yield(h, count))

\* FieldEntry::access
ReadEntry(b, c) ==
  Then(Take(b, c, 8), LAMBDA e :
    IF e.val[3] > 4 THEN Fail(e, "Unknown field encoding")
    ELSE IF e.val[4] # 0 THEN Fail(e, "InvalidFieldTable")
    ELSE Yield(e, [id |-> Num(SubSeq(e.val, 1, 2)), encoding |-> e.val[3],
                   len |-> Num(SubSeq(e.val, 5, 8))]))

RECURSIVE ReadTable(_, _, _, _)
ReadTable(b, c, n, entries) ==
  IF Len(entries) = n THEN Yield(c, entries)
  ELSE Then(ReadEntry(b, c), LAMBDA e :
         ReadTable(b, e, n, Append(entries, e.val)))

CheckDecodable(c, entry, field, seen) ==
  IF entry.encoding # FieldEncoding(field.ty)
  THEN Fail(c, "UnexpectedFieldEncoding")
  ELSE IF seen THEN Fail(c, "DuplicateField") ELSE c

CheckPayloadLen(c, entry, start) ==
  IF c.pos - start # entry.len THEN Fail(c, "FieldLengthMismatch") ELSE c

\* The arm of a known field: inside the guard of its name.
ReadKnownField(field, b, c, entry, seen) ==
  Under(c, FieldSeg(field.id), LAMBDA u :
    Then(CheckDecodable(u, entry, field, seen), LAMBDA d :
      Then(Read(field.ty, b, d), LAMBDA r :
        CheckPayloadLen(r, entry, c.pos))))

\* The match on the id: an unknown one falls through to `_ => Ok(())`.
\* Yields the slots of the fields.
HandleField(ty, b, c, entry, slots) ==
  LET known == {i \in 1 .. Len(ty.fields) : ty.fields[i].id = entry.id}
      i == Min(known)
  IN  IF known = {} THEN Yield(c, slots)
      ELSE Then(ReadKnownField(ty.fields[i], b, c, entry, slots[i] # << >>),
                LAMBDA r : Yield(r, [slots EXCEPT ![i] = <<r.val>>]))

\* The second loop of process_forward_field_table.
RECURSIVE ReadPayloads(_, _, _, _, _)
ReadPayloads(ty, b, c, entries, slots) ==
  IF entries = << >> THEN Yield(c, slots)
  ELSE IF c.pos + Head(entries).len > Len(b)
  THEN Fail(c, "Pointer out of bounds")
  ELSE Then(HandleField(ty, b, c, Head(entries), slots), LAMBDA r :
         Then(CheckPayloadLen(r, Head(entries), c.pos), LAMBDA k :
           ReadPayloads(ty, b, k, Tail(entries), r.val)))

\* A field with a default, or with ALLOW_MISSING, may be absent.
MayMiss(field) == field.default # << >> \/ field.ty.k = "option"

CheckMissing(ty, c, slots) ==
  LET missing == {i \in 1 .. Len(ty.fields) :
                    slots[i] = << >> /\ ~MayMiss(ty.fields[i])}
  IN  IF missing = {} THEN Yield(c, slots)
      ELSE Under(c, FieldSeg(ty.fields[Min(missing)].id),
                 LAMBDA u : Fail(u, "MissingField"))

ReadSchema(ty, b, c) ==
  Then(ReadHeader(ty, b, c), LAMBDA h :
    Then(ReadTable(b, h, h.val, << >>), LAMBDA t :
      Then(ReadPayloads(ty, b, t, t.val, [i \in 1 .. Len(ty.fields) |-> << >>]),
           LAMBDA p : CheckMissing(ty, p, p.val))))

ReadRecord(ty, b, c) ==
  Guarded(c, LAMBDA g : IF ty.key = 0 THEN ReadBare(ty, b, g)
                        ELSE ReadSchema(ty, b, g))

ReadVariant(ty, b, c, tag) ==
  Then(Under(c, VariantSeg(tag),
             LAMBDA u : ReadRecord(ty.variants[tag + 1], b, u)),
       LAMBDA r : Yield(r, [tag |-> tag, val |-> r.val]))

ReadEnum(ty, b, c) ==
  Guarded(c, LAMBDA g :
    Then(ReadNum(b, g, 4), LAMBDA t :
      IF t.val >= Len(ty.variants) THEN Fail(t, "Invalid enum discriminant")
      ELSE IF IsUnit(ty.variants[t.val + 1])
      THEN Yield(t, [tag |-> t.val, val |-> << >>])
      ELSE ReadVariant(ty, b, t, t.val)))

Read(ty, b, c) ==
  CASE ty.k = "prim" -> ReadPrim(ty, b, c)
    [] ty.k = "unit" -> ReadUnit(c)
    [] ty.k = "varint" -> ReadVarInt(b, c)
    [] ty.k = "string" -> ReadString(b, c)
    [] ty.k = "packed" -> ReadPacked(ty, b, c)
    [] ty.k = "varintvec" -> ReadVarIntVec(b, c)
    [] ty.k = "shared" -> ReadShared(ty, b, c)
    [] ty.k = "option" -> ReadOption(ty, b, c)
    [] ty.k = "result" -> ReadResult(ty, b, c)
    [] ty.k = "tuple" -> ReadTuple(ty, b, c)
    [] ty.k = "array" -> ReadArray(ty, b, c)
    [] ty.k \in {"vec", "map"} -> ReadSequence(ty, b, c)
    [] ty.k = "record" -> ReadRecord(ty, b, c)
    [] ty.k = "enum" -> ReadEnum(ty, b, c)

-----------------------------------------------------------------------------
(* Deserialize: the value a view stands for.  A view keeps of every field a *)
(* slot, empty if the archive has none.                                     *)

RECURSIVE Value(_, _)

\* deserialize_field_expr
FieldValue(field, slot) ==
  IF slot # << >> THEN Value(field.ty, slot[1])
  ELSE IF field.default # << >> THEN field.default[1]
  ELSE IF field.ty.k = "option" THEN << >>
  ELSE "Missing required field"

RecordValue(ty, view) ==
  [i \in 1 .. Len(view) |-> FieldValue(ty.fields[i], view[i])]

EnumValue(ty, view) ==
  [tag |-> view.tag, val |-> RecordValue(ty.variants[view.tag + 1], view.val)]

SequenceValue(ty, view) == [i \in 1 .. Len(view) |-> Value(ty.of, view[i])]

ResultValue(ty, view) ==
  [tag |-> view.tag,
   val |-> Value(IF view.tag = 0 THEN ty.left ELSE ty.right, view.val)]

SharedValue(ty, view) == Value(ty.of, view)

TupleValue(ty, view) == <<Value(ty.left, view[1]), Value(ty.right, view[2])>>

Value(ty, view) ==
  CASE ty.k \in {"option", "array", "vec", "map"} -> SequenceValue(ty, view)
    [] ty.k = "shared" -> SharedValue(ty, view)
    [] ty.k = "result" -> ResultValue(ty, view)
    [] ty.k = "tuple" -> TupleValue(ty, view)
    [] ty.k = "record" -> RecordValue(ty, view)
    [] ty.k = "enum" -> EnumValue(ty, view)
    [] OTHER -> view

-----------------------------------------------------------------------------
(* The archive *)

\* OBJECT_ENCODING, the flags byte of the header.
RECURSIVE ObjectEncoding(_)
ObjectEncoding(ty) ==
  CASE ty.k = "shared" -> ObjectEncoding(ty.of)
    [] ty.k \in {"prim", "unit", "array", "record", "enum"} -> 0
    [] ty.k = "varint" -> 2
    [] ty.k = "packed" -> 3
    [] OTHER -> 4

ArchiveHeader(ty) == <<90, 66, 1, ObjectEncoding(ty)>>

NewReader ==
  [ok |-> TRUE, pos |-> 0, val |-> << >>, depth |-> 0, path |-> << >>,
   seen |-> << >>, why |-> "", where |-> << >>]

\* ArchiveHeader::parse and validate_root_object_encoding; the context of the
\* header has no path to record.
ReadArchiveHeader(ty, b) ==
  LET c == NewReader
  IN  IF Len(b) < 4 THEN FailUnrecorded(c, "TooShort")
      ELSE IF SubSeq(b, 1, 2) # <<90, 66>> THEN FailUnrecorded(c, "InvalidMagic")
      ELSE IF b[3] # 1 THEN FailUnrecorded(c, "UnsupportedVersion")
      ELSE IF b[4] > 4 THEN FailUnrecorded(c, "InvalidObjectEncoding")
      ELSE IF b[4] # ObjectEncoding(ty)
      THEN FailUnrecorded(c, "UnexpectedObjectEncoding")
      ELSE [c EXCEPT !.pos = 4]

ReadRoot(ty, b) == Then(ReadArchiveHeader(ty, b), LAMBDA c : Read(ty, b, c))

ValidateRoot(ty, b) ==
  Then(ReadRoot(ty, b), LAMBDA c :
    IF c.pos < Len(b) THEN Fail(c, "Trailing bytes after root object") ELSE c)

\* The path the caller is left with: the recorded one, or its own stack, which
\* every guard has left empty again.
ReportedPath(c) == IF c.seen # << >> THEN c.seen[1] ELSE c.path
=============================================================================
