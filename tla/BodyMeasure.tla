---------------------------- MODULE BodyMeasure ----------------------------
(***************************************************************************)
(* measure_body: the length a value is announced with before it is         *)
(* written.  A schema-aware record puts these lengths into its field       *)
(* table, so they "must produce a length that exactly matches what the     *)
(* corresponding serializer will write" (traits.rs, MeasureBody).          *)
(***************************************************************************)
EXTENDS ArchiveFormat

MeasureBody(ty, v) == Method(<<"MeasureBody", ty, v>>)

\* serialized_len_u64: the bytes serialize_u64 will write.
SerializedLen(value) ==
  LET len[v \in 0 .. value] == IF v < 128 THEN 1 ELSE 1 + len[v \div 128]
  IN  len[value]

DivCeil(a, b) == (a + b - 1) \div b

\* The magic byte, the two counts, and every delta at the size of the largest
\* one imaginable, the length of the whole sequence.
BlockIndexOverhead(count, seqLen) ==
  LET blocks == DivCeil(count, ChunkSize)
  IN  1 + SerializedLen(ChunkSize) + SerializedLen(blocks)
        + blocks * SerializedLen(seqLen)

SumOf(lens) ==
  LET sum[n \in 0 .. Len(lens)] == IF n = 0 THEN 0 ELSE sum[n - 1] + lens[n]
  IN  sum[Len(lens)]

\* measure_seq_body: marker, padding counted from the start of the body, and
\* body of every element, then the terminator.
SequenceLen(lens, fixed, align) ==
  LET Behind(pos, len) ==
        pos + 1 + (IF fixed THEN Padding(pos + 1, align) ELSE 0) + len
      end[n \in 0 .. Len(lens)] ==
        IF n = 0 THEN 0 ELSE Behind(end[n - 1], lens[n])
  IN  end[Len(lens)] + 1

\* The lengths of the elements.
Lens(ty, v) == [i \in 1 .. Len(v) |-> MeasureBody(ty, v[i])]

MeasureVec(ty, v) ==
  SequenceLen(Lens(ty.of, v), HasFixedSize(ty.of), Alignment(ty.of))

\* [T] and IterArchive add the block index.
MeasureIndexed(ty, v) ==
  LET len == MeasureVec(ty, v)
  IN  len + IF Len(v) > ChunkSize THEN BlockIndexOverhead(Len(v), len) ELSE 0

\* A map counts padding before pairs of fixed-size keys and values.
MeasureMap(ty, v) ==
  LET K == ty.of.left
      V == ty.of.right
  IN  SequenceLen(Lens(ty.of, v), HasFixedSize(K) /\ HasFixedSize(V),
                  Max({Alignment(K), Alignment(V)}))

MeasureString(v) == 4 + Len(v)

\* Box, Rc, Arc, Cow: what they hold.
MeasureShared(ty, v) == MeasureBody(ty.of, v)

MeasureArray(ty, v) == SumOf(Lens(ty.of, v))

MeasureTuple(ty, v) ==
  MeasureBody(ty.left, v[1]) + MeasureBody(ty.right, v[2])

MeasureOption(ty, v) ==
  IF v = << >> THEN 1 ELSE 1 + MeasureBody(ty.of, v[1])

MeasureResult(ty, v) ==
  1 + MeasureBody(IF v.tag = 0 THEN ty.left ELSE ty.right, v.val)

MeasurePacked(ty, v) == 4 + DivCeil(ty.bits * Len(v), 8)

MeasureVarIntVec(v) == 4 + SumOf([i \in 1 .. Len(v) |-> SerializedLen(v[i])])

\* (Mutant of SchemaOverhead: the header is counted, its table is not.)
SchemaOverheadNoTable(n) == 12

SchemaOverhead(n) == 12 + 8 * n

\* Every field of a record, in any order.
MeasureFields(ty, v) ==
  SumOf([i \in 1 .. Len(v) |-> MeasureBody(ty.fields[i].ty, v[i])])

\* The fields in any order, behind the header and the table of a schema.
MeasureRecord(ty, v) ==
  (IF ty.key # 0 THEN SchemaOverhead(Len(ty.fields)) ELSE 0)
  + MeasureFields(ty, v)

MeasureEnum(ty, v) == 4 + MeasureRecord(ty.variants[v.tag + 1], v.val)

MeasureBodyOf(ty, v) ==
  CASE ty.k = "prim" -> ty.size
    [] ty.k = "unit" -> 0
    [] ty.k = "varint" -> SerializedLen(v)
    [] ty.k = "string" -> MeasureString(v)
    [] ty.k = "packed" -> MeasurePacked(ty, v)
    [] ty.k = "varintvec" -> MeasureVarIntVec(v)
    [] ty.k = "shared" -> MeasureShared(ty, v)
    [] ty.k = "option" -> MeasureOption(ty, v)
    [] ty.k = "result" -> MeasureResult(ty, v)
    [] ty.k = "tuple" -> MeasureTuple(ty, v)
    [] ty.k = "array" -> MeasureArray(ty, v)
    [] ty.k = "vec" /\ ~ty.indexed -> MeasureVec(ty, v)
    [] ty.k = "vec" /\ ty.indexed -> MeasureIndexed(ty, v)
    [] ty.k = "map" -> MeasureMap(ty, v)
    [] ty.k = "record" -> MeasureRecord(ty, v)
    [] ty.k = "enum" -> MeasureEnum(ty, v)
=============================================================================
