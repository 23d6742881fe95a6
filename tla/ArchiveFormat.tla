--------------------------- MODULE ArchiveFormat ---------------------------
(***************************************************************************)
(* The types a program archives, as trees, and the byte format of their    *)
(* values: what a reader has to find whatever the writer did to get there. *)
(* The definitions here look at one level of a type.  What they need of    *)
(* the types inside they ask Method for, as generic code asks the traits   *)
(* of its parameters; ArchiveTypes closes the recursion.                   *)
(*                                                                         *)
(* A type is a record whose field k names its kind:                        *)
(*   prim      an integer or bool of `size` bytes, none above `top`        *)
(*   unit, varint, string                                                  *)
(*   packed    a PackedVec of values of `bits` bits;  varintvec  a         *)
(*             VarIntVec;  packedslice  a PackedSlice, read as a packed    *)
(*   option, shared (Box, Rc, Arc, Cow), array (of `n` elements), vec and  *)
(*   map (a sequence of pairs): all with the type `of` of what they hold   *)
(*   result, tuple: with the types `left` and `right`                      *)
(*   record    a derived struct: its `fields` in declaration order, each   *)
(*             an id, a type and the default that stands in for it, if     *)
(*             any; with a `key` it is schema-aware, without (0) it is not *)
(*   enum      a derived enum: the records of its `variants`               *)
(*                                                                         *)
(* A value is the sequence of its bytes (prim, string), a number (varint), *)
(* a sequence of values (packed, packedslice, varintvec, array, vec, map,  *)
(* tuple, record, and option with at most one), or [tag, val] (result: tag *)
(* 0 is Ok; enum).                                                         *)
(***************************************************************************)
EXTENDS Integers, Sequences, SequencesExt, FiniteSetsExt, VarIntCodec, BitPacking

CONSTANTS
  ChunkSize,   \* DEFAULT_CHUNK_SIZE, elements per index block
  Method(_)    \* what a method of a type answers: of a tuple that holds the
               \* name of the method, the type and the arguments

\* FIXED_SIZE is Some(_).
HasFixedSize(ty) == Method(<<"HasFixedSize", ty>>)
\* Its ALIGNMENT.
Alignment(ty) == Method(<<"Alignment", ty>>)
\* Its FIELD_ENCODING.
FieldEncoding(ty) == Method(<<"FieldEncoding", ty>>)
\* The bytes of a value that begin at pos.
Encoding(ty, v, pos) == Method(<<"Encoding", ty, v, pos>>)

Magic == 66          \* BLOCK_INDEX_MAGIC

Zeros(n) == [i \in 1 .. n |-> 0]

\* to_le_bytes of a number that fits n bytes, at most four.
ByteWeight == <<1, 256, 65536, 16777216>>
LE(n, x) == [i \in 1 .. n |-> (x \div ByteWeight[i]) % 256]

\* The variants of an enum without fields have no payload at all.
IsUnit(ty) == ty.k = "record" /\ ty.fields = << >>

-----------------------------------------------------------------------------
(* Layout: ArchivedLayout of the archived types *)

\* FIXED_SIZE is Some(_): only then are the elements of a sequence aligned.
HasFixedSizeOf(ty) ==
  \/ ty.k \in {"prim", "unit"}
  \/ ty.k \in {"array", "shared"} /\ HasFixedSize(ty.of)

AlignmentOf(ty) ==
  CASE ty.k = "prim" -> ty.size
    [] ty.k \in {"array", "shared"} -> Alignment(ty.of)
    [] OTHER -> 1

\* utils::padding_for_alignment
Padding(pos, align) == IF pos % align = 0 THEN 0 ELSE align - (pos % align)

ElementPadding(ty, pos) ==
  IF HasFixedSize(ty) THEN Padding(pos, Alignment(ty)) ELSE 0

\* FIELD_ENCODING, the byte a field entry carries for the type.
FieldEncodingOf(ty) ==
  CASE ty.k = "varint" -> 1
    [] ty.k \in {"packed", "packedslice"} -> 2
    [] ty.k \in {"string", "varintvec"} -> 3
    [] ty.k = "record" /\ ty.key # 0 -> 4
    [] ty.k = "shared" -> FieldEncoding(ty.of)
    [] OTHER -> 0

\* A field comes before another: its id is smaller, or the fields have the same
\* and it is declared first.
Precedes(ty, i, j) ==
  \/ ty.fields[i].id < ty.fields[j].id
  \/ ty.fields[i].id = ty.fields[j].id /\ i < j

\* active_fields_by_id: the order in which the fields are written.  At place p
\* stands the field that p - 1 others come before.
FieldOrder(ty) ==
  LET n == Len(ty.fields)
      Predecessors(i) == {j \in 1 .. n : Precedes(ty, j, i)}
  IN  [p \in 1 .. n |-> CHOOSE i \in 1 .. n : Cardinality(Predecessors(i)) = p - 1]

-----------------------------------------------------------------------------
(* Packed values *)

\* fill_buf, of a slice: as many values as fit 512 bits, from a byte of their
\* own on.
PackBits(bits, values) ==
  LET n == 512 \div bits
      Chunk(j) == SubSeq(values, (j - 1) * n + 1, Min({j * n, Len(values)}))
  IN  FlattenSeq([j \in 1 .. (Len(values) + n - 1) \div n |->
                    Packed(bits, Chunk(j))])

-----------------------------------------------------------------------------
(* The encoding of a value of type ty that begins at position pos *)

\* The section behind the terminator of an indexed sequence: where every
\* block of ChunkSize elements begins, as deltas.
BlockIndex(starts) ==
  LET Block(j) == starts[(j - 1) * ChunkSize + 1]
      blocks == (Len(starts) + ChunkSize - 1) \div ChunkSize
      deltas == [j \in 1 .. blocks |->
                   SerializeU64(Block(j) - IF j = 1 THEN 0 ELSE Block(j - 1))]
  IN  <<Magic>> \o SerializeU64(ChunkSize) \o SerializeU64(blocks)
                \o FlattenSeq(deltas)

\* A sequence whose elements are written by Item(x, pos): its bytes and where
\* the elements begin, after n of them.
SequenceOf(ty, v, pos, Item(_, _)) ==
  LET Add(acc, x) ==
        LET at == pos + Len(acc.bytes)
            pad == ElementPadding(ty.of, at + 1)
        IN  [bytes |-> acc.bytes \o <<1>> \o Zeros(pad) \o Item(x, at + 1 + pad),
             starts |-> Append(acc.starts, Len(acc.bytes))]
      body[n \in 0 .. Len(v)] ==
        IF n = 0 THEN [bytes |-> << >>, starts |-> << >>]
        ELSE Add(body[n - 1], v[n])
  IN  body[Len(v)].bytes \o <<0>>
      \o IF ty.indexed /\ Len(v) > ChunkSize
         THEN BlockIndex(body[Len(v)].starts) ELSE << >>

HeaderBytes(ty) ==
  LE(4, ty.key) \o LE(4, 0) \o LE(2, Len(ty.fields)) \o LE(2, 0)

EntryBytes(field, len) ==
  LE(2, field.id) \o <<FieldEncoding(field.ty), 0>> \o LE(4, len)

\* The encodings of n values, one behind the other from pos on, without padding
\* between them.
Parts(types, v, pos, n) ==
  LET Add(parts, i) ==
        Append(parts, Encoding(types[i], v[i], pos + Len(FlattenSeq(parts))))
      upto[i \in 0 .. n] == IF i = 0 THEN << >> ELSE Add(upto[i - 1], i)
  IN  upto[n]

\* The types and the values of the fields, in the order they are written.
FieldTypes(ty) ==
  [j \in 1 .. Len(ty.fields) |-> ty.fields[FieldOrder(ty)[j]].ty]
FieldValues(ty, v) == [j \in 1 .. Len(ty.fields) |-> v[FieldOrder(ty)[j]]]

FieldParts(ty, v, pos) ==
  Parts(FieldTypes(ty), FieldValues(ty, v), pos, Len(ty.fields))

\* The field table: an entry for every field, in the order of the fields.
TableEntries(ty, lens) ==
  [j \in 1 .. Len(ty.fields) |-> EntryBytes(ty.fields[FieldOrder(ty)[j]], lens[j])]

\* The payloads stand behind the table, which holds their lengths.
SchemaEncoding(ty, payloads) ==
  HeaderBytes(ty)
  \o FlattenSeq(TableEntries(ty, [j \in 1 .. Len(ty.fields) |-> Len(payloads[j])]))
  \o FlattenSeq(payloads)

RecordEncoding(ty, v, pos) ==
  IF ty.key = 0 THEN FlattenSeq(FieldParts(ty, v, pos))
  ELSE SchemaEncoding(ty, FieldParts(ty, v, pos + 12 + 8 * Len(ty.fields)))

\* The elements of an array.
ItemParts(ty, v, pos) == Parts([i \in 1 .. Len(v) |-> ty.of], v, pos, Len(v))

\* IterArchive, and every collection that is written as one.
SequenceEncoding(ty, v, pos) ==
  SequenceOf(ty, v, pos, LAMBDA x, at : Encoding(ty.of, x, at))

EncodingOf(ty, v, pos) ==
  CASE ty.k = "prim" -> v
    [] ty.k = "unit" -> << >>
    [] ty.k = "varint" -> SerializeU64(v)
    [] ty.k = "string" -> LE(4, Len(v)) \o v
    [] ty.k = "packed" -> LE(4, Len(v)) \o Packed(ty.bits, v)
    [] ty.k = "packedslice" -> LE(4, Len(v)) \o PackBits(ty.bits, v)
    [] ty.k = "varintvec" ->
         LE(4, Len(v))
         \o FlattenSeq([i \in 1 .. Len(v) |-> SerializeU64(v[i])])
    [] ty.k = "shared" -> Encoding(ty.of, v, pos)
    [] ty.k = "option" ->
         <<Len(v)>> \o IF v = << >> THEN << >> ELSE Encoding(ty.of, v[1], pos + 1)
    [] ty.k = "result" ->
         <<v.tag>>
         \o Encoding(IF v.tag = 0 THEN ty.left ELSE ty.right, v.val, pos + 1)
    [] ty.k = "tuple" ->
         FlattenSeq(Parts(<<ty.left, ty.right>>, v, pos, 2))
    [] ty.k = "array" -> FlattenSeq(ItemParts(ty, v, pos))
    [] ty.k \in {"vec", "map"} -> SequenceEncoding(ty, v, pos)
    [] ty.k = "record" -> RecordEncoding(ty, v, pos)
    [] ty.k = "enum" ->
         LE(4, v.tag) \o Encoding(ty.variants[v.tag + 1], v.val, pos + 4)
=============================================================================
