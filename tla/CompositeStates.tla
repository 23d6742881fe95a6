-------------------------- MODULE CompositeStates --------------------------
(***************************************************************************)
(* Why CompositeSerializers streams the encoding: what the state of a      *)
(* serializer has left to write, and the types for which that is so.  As   *)
(* in CompositeSerializers, one level of a type at a time.                 *)
(***************************************************************************)
EXTENDS CompositeSerializers

\* The value is one of the type.
IsValue(ty, v) == Method(<<"IsValue", ty, v>>)

\* What a state at a position has left to write.
Rest(ty, s, at) == Method(<<"Rest", ty, s, at>>)

\* The state can be given a value; it was given one; finish has nothing to add.
Idle(ty, s) == Method(<<"Idle", ty, s>>)
Going(ty, s) == Method(<<"Going", ty, s>>)
Ended(ty, s) == Method(<<"Ended", ty, s>>)

\* Its serializers take one value after the other, and finish has nothing to add
\* to one that is idle.
Reusable(ty) == Method(<<"Reusable", ty>>)
Quiet(ty) == Method(<<"Quiet", ty>>)

\* measure_body is right wherever the value is.
Exact(ty) == Method(<<"Exact", ty>>)

\* Its serializers stream the encoding.
Regular(ty) == Method(<<"Regular", ty>>)

Byte == 0 .. 255

Side(tag) == IF tag = 0 THEN "left" ELSE "right"
Other(side) == IF side = "left" THEN "right" ELSE "left"
SideOf(s) == IF s.state = "ok" THEN "left" ELSE "right"

\* n values, each of the type in its place.
AreValues(types, v, n) ==
  /\ v = [i \in 1 .. n |-> v[i]]
  /\ \A i \in 1 .. n : IsValue(types[i], v[i])

Alike(ty, n) == [i \in 1 .. n |-> ty]
TypesOf(fields) == [i \in 1 .. Len(fields) |-> fields[i].ty]

IsValueOf(ty, v) ==
  CASE ty.k = "prim" -> v \in Seq(Byte) /\ Len(v) = ty.size
    [] ty.k = "unit" -> v = << >>
    [] ty.k = "varint" -> v \in Nat
    [] ty.k = "string" -> v \in Seq(Byte)
    [] ty.k = "packed" -> /\ v \in Seq(Nat)
                          /\ \A i \in 1 .. Len(v) : v[i] < 2^ty.bits
    [] ty.k = "varintvec" -> v \in Seq(Nat)
    [] ty.k = "option" -> v = << >> \/ AreValues(<<ty.of>>, v, 1)
    [] ty.k = "result" -> v.tag \in {0, 1} /\ IsValue(ty[Side(v.tag)], v.val)
    [] ty.k = "shared" -> IsValue(ty.of, v)
    [] ty.k = "tuple" -> AreValues(<<ty.left, ty.right>>, v, 2)
    [] ty.k = "array" -> AreValues(Alike(ty.of, ty.n), v, ty.n)
    [] ty.k \in {"vec", "map"} ->
         Len(v) \in Nat /\ AreValues(Alike(ty.of, Len(v)), v, Len(v))
    [] ty.k = "record" -> AreValues(TypesOf(ty.fields), v, Len(ty.fields))
    [] ty.k = "enum" -> /\ v.tag \in 0 .. Len(ty.variants) - 1
                        /\ IsValue(ty.variants[v.tag + 1], v.val)

-----------------------------------------------------------------------------
(* What is left to write *)

\* Of a serializer that has the value in its slot until it is started.
Left(ty, started, s, slot, at) ==
  IF started THEN Rest(ty, s, at) ELSE Encoding(ty, slot[1], at)

\* The field table and the fields are left from their cursors on.
StepRest(ty, s, step, at) ==
  CASE step.what = "header" ->
         SubSeq(HeaderBytes(ty), s.headerCursor + 1, 12)
    [] step.what = "entry" ->
         SubSeq(EntryBytes(ty.fields[step.i], s.fields[step.i].len),
                s.fields[step.i].entryCursor + 1, 8)
    [] step.what = "field" ->
         Left(ty.fields[step.i].ty, s.fields[step.i].started,
              s.fields[step.i].ser, s.fields[step.i].slot, at)

\* Of all the steps, one behind the other.
RecordRest(ty, s, at) ==
  LET steps == RecordSteps(ty, FieldOrder(ty))
      Add(bytes, j) == bytes \o StepRest(ty, s, steps[j], at + Len(bytes))
      upto[j \in 0 .. Len(steps)] == IF j = 0 THEN << >> ELSE Add(upto[j - 1], j)
  IN  upto[Len(steps)]

\* The element that pends, then those that are not begun.
ArrayRest(ty, s, at) ==
  LET pends == IF s.awaiting THEN << >> ELSE Rest(ty.of, s.item, at)
  IN  pends \o FlattenSeq(ItemParts(ty, s.items, at + Len(pends)))

TupleRest(ty, s, at) ==
  CASE s.stage = 0 ->
         LET key == Rest(ty.left, s.key, at)
         IN  key \o Encoding(ty.right, s.pending[1], at + Len(key))
    [] s.stage = 1 -> Rest(ty.right, s.value, at)
    [] s.stage = 2 -> << >>

RestOf(ty, s, at) ==
  CASE ty.k \in Leaf -> FlattenSeq(s)
    [] ty.k = "option" ->
         s.prefix
         \o IF s.hasInner
            THEN Left(ty.of, s.started, s.inner, s.value, at + Len(s.prefix))
            ELSE << >>
    [] ty.k = "result" ->
         s.prefix
         \o Left(ty[SideOf(s)], s.started, s[SideOf(s)], s.value,
                 at + Len(s.prefix))
    [] ty.k = "tuple" -> TupleRest(ty, s, at)
    [] ty.k = "array" -> ArrayRest(ty, s, at)
    [] ty.k = "shared" -> Rest(ty.of, s, at)
    [] ty.k \in {"vec", "map"} -> FlattenSeq(s.pieces)
    [] ty.k = "record" -> RecordRest(ty, s, at)
    [] ty.k = "enum" ->
         s.tag
         \o IF s.payload = << >> THEN << >>
            ELSE Left(ty.variants[s.variant], s.pending = << >>, s.payload[1],
                      s.pending, at + Len(s.tag))

-----------------------------------------------------------------------------
(* The states *)

IsRecord(s, names) == s = [name \in names |-> s[name]]

OptionNames == {"value", "prefix", "hasInner", "started", "inner"}
ResultNames == {"state", "value", "prefix", "started", "left", "right"}
TupleNames == {"pending", "key", "value", "keyStarted", "valueStarted", "stage"}
ArrayNames == {"items", "item", "started", "awaiting"}
FieldNames == {"slot", "started", "len", "entryCursor", "ser"}
EnumNames == {"tag", "variant", "payload", "pending"}

\* A record's state has a state for every field.
IsRecordState(ty, s) ==
  /\ IsRecord(s, {"headerCursor", "fields"})
  /\ s.fields = [i \in 1 .. Len(ty.fields) |-> s.fields[i]]
  /\ \A i \in 1 .. Len(ty.fields) : IsRecord(s.fields[i], FieldNames)

IdleOf(ty, s) ==
  CASE ty.k \in Leaf -> ty.k = "unit" => s = << >>
    [] ty.k = "option" -> IsRecord(s, OptionNames) /\ Idle(ty.of, s.inner)
    [] ty.k = "result" -> /\ IsRecord(s, ResultNames)
                          /\ Idle(ty.left, s.left) /\ Idle(ty.right, s.right)
                          /\ Ended(ty, s)
    [] ty.k = "tuple" -> /\ IsRecord(s, TupleNames)
                         /\ s.stage = 0
                         /\ Idle(ty.left, s.key) /\ Idle(ty.right, s.value)
    [] ty.k = "array" -> IsRecord(s, ArrayNames) /\ Idle(ty.of, s.item)
    [] ty.k = "shared" -> Idle(ty.of, s)
    [] ty.k \in {"vec", "map"} -> s = NewVec
    [] ty.k = "record" ->
         /\ IsRecordState(ty, s)
         /\ \A i \in 1 .. Len(ty.fields) : Idle(ty.fields[i].ty, s.fields[i].ser)
         /\ ty.key # 0 => /\ s.headerCursor = 0
                          /\ \A i \in 1 .. Len(ty.fields) :
                               s.fields[i].entryCursor = 0
    [] ty.k = "enum" -> IsRecord(s, EnumNames) /\ Ended(ty, s)

\* The serializer is at its value, or it is idle and the value in its slot.
Underway(ty, started, s, slot) ==
  IF started THEN Going(ty, s)
  ELSE Idle(ty, s) /\ slot = <<slot[1]>> /\ IsValue(ty, slot[1])

\* The serializer has ended and, if it can, takes another value.
AtRest(ty, s) == Ended(ty, s) /\ (Reusable(ty) => Idle(ty, s))

TupleGoing(ty, s) ==
  /\ IsRecord(s, TupleNames)
  /\ \/ /\ s.stage = 0 /\ s.keyStarted /\ Going(ty.left, s.key)
        /\ Underway(ty.right, FALSE, s.value, s.pending)
     \/ s.stage = 1 /\ s.valueStarted /\ Going(ty.right, s.value)
     \/ s.stage = 2

RecordGoing(ty, s) ==
  /\ IsRecordState(ty, s)
  /\ ty.key # 0 => s.headerCursor \in 0 .. 12
  /\ \A i \in 1 .. Len(ty.fields) :
       LET f == s.fields[i]
       IN  /\ ty.key # 0 => f.entryCursor \in 0 .. 8 /\ f.len \in Nat
           /\ f.started \in BOOLEAN
           /\ Underway(ty.fields[i].ty, f.started, f.ser, f.slot)

GoingOf(ty, s) ==
  CASE ty.k \in Leaf -> s \in Seq(Seq(Byte))
    [] ty.k = "option" ->
         /\ IsRecord(s, OptionNames)
         /\ s.prefix \in Seq(Byte) /\ {s.hasInner, s.started} \subseteq BOOLEAN
         /\ IF s.hasInner THEN Underway(ty.of, s.started, s.inner, s.value)
            ELSE AtRest(ty.of, s.inner)
    [] ty.k = "result" ->
         /\ IsRecord(s, ResultNames)
         /\ s.state \in {"ok", "err"} /\ s.prefix \in Seq(Byte)
         /\ s.started \in BOOLEAN
         /\ Underway(ty[SideOf(s)], s.started, s[SideOf(s)], s.value)
         /\ Idle(ty[Other(SideOf(s))], s[Other(SideOf(s))])
    [] ty.k = "tuple" -> TupleGoing(ty, s)
    [] ty.k = "array" ->
         /\ IsRecord(s, ArrayNames)
         /\ s.started /\ s.awaiting \in BOOLEAN /\ Len(s.items) \in Nat
         /\ AreValues(Alike(ty.of, Len(s.items)), s.items, Len(s.items))
         /\ IF s.awaiting THEN Idle(ty.of, s.item) ELSE Going(ty.of, s.item)
    [] ty.k = "shared" -> Going(ty.of, s)
    [] ty.k \in {"vec", "map"} ->
         IsRecord(s, {"fed", "pieces"}) /\ s.fed /\ s.pieces \in Seq(Seq(Byte))
    [] ty.k = "record" -> RecordGoing(ty, s)
    [] ty.k = "enum" ->
         /\ IsRecord(s, EnumNames)
         /\ s.tag \in Seq(Byte) /\ s.variant \in 1 .. Len(ty.variants)
         /\ \/ s.payload = << >>
            \/ /\ s.payload = <<s.payload[1]>>
               /\ Underway(ty.variants[s.variant], s.pending = << >>,
                           s.payload[1], s.pending)

\* A collection that nothing was given to gets its terminator from finish.
EndedOf(ty, s) ==
  CASE ty.k \in Leaf \cup {"tuple"} -> TRUE
    [] ty.k = "option" -> Ended(ty.of, s.inner)
    [] ty.k = "result" ->
         \/ s.state = "uninitialized"
         \/ s.state \in {"ok", "err"} /\ Ended(ty[SideOf(s)], s[SideOf(s)])
    [] ty.k = "array" -> Ended(ty.of, s.item)
    [] ty.k = "shared" -> Ended(ty.of, s)
    [] ty.k \in {"vec", "map"} -> s.fed
    [] ty.k = "record" ->
         \A i \in 1 .. Len(ty.fields) : Ended(ty.fields[i].ty, s.fields[i].ser)
    [] ty.k = "enum" ->
         \/ s.payload = << >>
         \/ /\ s.variant \in 1 .. Len(ty.variants)
            /\ Ended(ty.variants[s.variant], s.payload[1])

-----------------------------------------------------------------------------
(* The types *)

\* A pair stays at its last stage, a collection stays finished and the cursors
\* of a schema stay at their ends.
ReusableOf(ty) ==
  CASE ty.k \in Leaf \cup {"enum"} -> TRUE
    [] ty.k \in {"option", "array", "shared"} -> Reusable(ty.of)
    [] ty.k = "result" -> Reusable(ty.left) /\ Reusable(ty.right)
    [] ty.k = "record" -> /\ ty.key = 0
                          /\ \A i \in 1 .. Len(ty.fields) :
                               Reusable(ty.fields[i].ty)
    [] ty.k \in {"tuple", "vec", "map"} -> FALSE

QuietOf(ty) ==
  CASE ty.k \in Leaf \cup {"tuple", "result", "enum"} -> TRUE
    [] ty.k \in {"option", "array", "shared"} -> Quiet(ty.of)
    [] ty.k = "record" -> \A i \in 1 .. Len(ty.fields) : Quiet(ty.fields[i].ty)
    [] ty.k \in {"vec", "map"} -> FALSE

\* Without padding, the measure does not depend on the position.
Unpadded(ty) == HasFixedSize(ty) => Alignment(ty) = 1

\* The index of a collection is only estimated.
ExactOf(ty) ==
  CASE ty.k \in Leaf -> TRUE
    [] ty.k \in {"option", "array", "shared"} -> Exact(ty.of)
    [] ty.k \in {"result", "tuple"} -> Exact(ty.left) /\ Exact(ty.right)
    [] ty.k = "vec" -> Exact(ty.of) /\ Unpadded(ty.of) /\ ~ty.indexed
    [] ty.k = "map" -> /\ Exact(ty.of) /\ ~ty.indexed /\ ty.of.k = "tuple"
                       /\ \/ ~HasFixedSize(ty.of.left)
                          \/ ~HasFixedSize(ty.of.right)
                          \/ Unpadded(ty.of.left) /\ Unpadded(ty.of.right)
    [] ty.k = "record" -> \A i \in 1 .. Len(ty.fields) : Exact(ty.fields[i].ty)
    [] ty.k = "enum" -> \A i \in 1 .. Len(ty.variants) : Exact(ty.variants[i])

\* What is inside is regular too, an array uses its element serializer again, an
\* option may never use the one it has, and the table of a schema holds the
\* lengths that were measured.
RegularOf(ty) ==
  CASE ty.k = "prim" -> ty.size \in Nat \ {0}
    [] ty.k = "packed" -> ty.bits \in 1 .. 8
    [] ty.k \in Leaf \ {"prim", "packed"} -> TRUE
    [] ty.k = "option" -> Regular(ty.of) /\ Quiet(ty.of)
    [] ty.k \in {"shared", "vec", "map"} -> Regular(ty.of)
    [] ty.k \in {"result", "tuple"} -> Regular(ty.left) /\ Regular(ty.right)
    [] ty.k = "array" ->
         ty.n \in Nat /\ Regular(ty.of) /\ Quiet(ty.of) /\ Reusable(ty.of)
    [] ty.k = "record" ->
         /\ ty.key \in Nat
         /\ \A i \in 1 .. Len(ty.fields) :
              ty.fields[i].id \in Nat /\ Regular(ty.fields[i].ty)
         /\ ty.key # 0 => \A i \in 1 .. Len(ty.fields) : Exact(ty.fields[i].ty)
    [] ty.k = "enum" ->
         \A i \in 1 .. Len(ty.variants) :
           /\ Regular(ty.variants[i]) /\ ty.variants[i].k = "record"
           /\ IsUnit(ty.variants[i]) => ty.variants[i].key = 0
=============================================================================
