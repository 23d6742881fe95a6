------------------------ MODULE MCNestedSerializer ------------------------
(***************************************************************************)
(* The types and values of the runs of NestedSerializer.                   *)
(***************************************************************************)
EXTENDS NestedSerializer, MCTypes, Sequences

\* A schema whose fields are declared in another order than their ids.
User == Rec(513, <<Field(2, Opt(P(1))), Field(1, Vec(P(2)))>>)
\* A bare record of pairs and arrays.
Shape == Rec(0, <<Field(1, Pair(VarInts, Opt(P(1)))), Field(1, Arr(P(2), 2))>>)
\* A variant without fields, a bare one, and one with a schema.
Event == Enum(<<Rec(0, << >>), Rec(0, <<Field(1, P(1)), Field(1, Packed3)>>),
                Rec(7, <<Field(1, VarIntVec)>>)>>)
\* A schema in a schema, behind a pointer.
Account == Rec(9, <<Field(3, Boxed(User)), Field(4, Event)>>)

Case(ty, val, base) ==
  [ty |-> ty, val |-> val, base |-> base,
   enc |-> Tree(<<"Encoding", ty, val, base>>)]

\* Every kind, alone and inside the others, at the position behind the header
\* of the archive; aligned elements where their padding is measured right.
GoodCases == {
  Case(Opt(P(2)), << >>, 4), Case(Opt(P(2)), << <<1, 2>> >>, 4),
  Case(Boxed(Res(Str, VarInts)), [tag |-> 0, val |-> <<65, 66>>], 4),
  Case(Res(Str, VarInts), [tag |-> 1, val |-> 300], 4),
  Case(Pair(VarInts, Opt(P(1))), <<300, << <<9>> >> >>, 4),
  Case(Pair(Bits, Packed3), << [i \in 1 .. 9 |-> i % 2], <<5, 2, 7>> >>, 4),
  Case(Pair(Unit, Arr(P(1), 0)), << << >>, << >> >>, 4),
  Case(Arr(Opt(P(2)), 2), << << <<1, 2>> >>, << >> >>, 4),
  Case(Arr(Res(Opt(VarInts), Str), 2),
       <<[tag |-> 0, val |-> <<5>>], [tag |-> 1, val |-> <<65>>]>>, 4),
  Case(Arr(Event, 3), <<[tag |-> 1, val |-> << <<9>>, <<5, 2, 7>> >>],
                        [tag |-> 0, val |-> << >>],
                        [tag |-> 1, val |-> << <<8>>, << >> >>]>>, 4),
  Case(User, << << >>, << <<1, 2>>, <<3, 4>> >> >>, 4),
  Case(User, << << <<6>> >>, << >> >>, 4),
  Case(Shape, << <<300, << >> >>, << <<1, 2>>, <<3, 4>> >> >>, 4),
  Case(Account,
       << << << <<6>> >>, << <<1, 2>> >> >>,
          [tag |-> 2, val |-> << <<1, 300>> >>] >>, 4),
  Case(Vec(Opt(P(2))), << << <<1, 2>> >>, << >> >>, 4),
  Case(Vec(Vec(P(1))), << << <<1>>, <<2>> >>, << >> >>, 5),
  Case(Map(VarInts, Str), << <<5, <<65>> >>, <<300, << >> >> >>, 5),
  Case(Iter(Shape), [i \in 1 .. 3 |->
         << <<i, << <<i>> >> >>, << <<1, i>>, <<3, i>> >> >>], 4)}

\* Pairs in an array: one pair serializer for all of them.
PairsInArray == {Case(Arr(Pair(P(2), P(1)), 2),
                      << << <<1, 2>>, <<3>> >>, << <<4, 5>>, <<6>> >> >>, 4)}

\* Schema-aware records in an array: one record serializer for all of them.
RecordsInArray == {Case(Arr(Rec(7, <<Field(1, P(1))>>), 2),
                        << << <<1>> >>, << <<2>> >> >>, 4)}

\* An optional collection that is absent, in a list of records.
AbsentCollection ==
  {Case(Rec(0, <<Field(1, Opt(Vec(P(1)))), Field(1, P(1))>>),
        << << >>, <<5>> >>, 4)}

\* A map from one-byte keys to two-byte values.
FixedMap == {Case(Map(P(1), P(2)), << << <<1>>, <<2, 3>> >>,
                                      << <<4>>, <<5, 6>> >> >>, 4)}

\* Two-byte elements behind a field of one byte.
Misaligned == {Case(Rec(7, <<Field(1, P(1)), Field(2, Vec(P(2)))>>),
                    << <<1>>, << <<2, 3>> >> >>, 4)}

\* Three strings that fill more than 128 bytes, in blocks of two.
LongIndexed == {Case(Iter(Str), [i \in 1 .. 3 |-> [j \in 1 .. 40 |-> 65]], 4)}

\* Collections in an array: one collection serializer for all of them.
CollectionsInArray ==
  {Case(Arr(Vec(P(1)), 2), << << <<1>> >>, << <<2>> >> >>, 4)}

\* What measure_body and the serializer do not agree on.
Disagreements ==
  UNION {PairsInArray, RecordsInArray, CollectionsInArray, AbsentCollection,
         FixedMap, Misaligned, LongIndexed}

\* The theorems of CompositeProofs are about these cases: all good ones but the
\* schemas with a field of aligned elements, and none of the disagreements.
ASSUME TheoremsApply ==
  /\ \A c \in GoodCases :
       /\ IsValue(c.ty, c.val) /\ c.base + Len(c.enc) <= 2 * MaxPos
       /\ Regular(c.ty) \/ c.ty \in {User, Account}
  /\ \A c \in Disagreements : ~(Regular(c.ty) /\ Exact(c.ty))

\* Their condition that a method of a type is the one of its kind, applied to the
\* methods of the types inside it.
ASSUME OneLevelAtATime ==
  \A c \in GoodCases :
    LET Upto(limit) == [base |-> c.base, out |-> << >>, limit |-> limit, strict |-> FALSE]
        begun == Input(c.ty, New(c.ty), c.val, Upto(c.base + 1)).s
        over  == Input(c.ty, New(c.ty), c.val, Upto(MaxPos)).s
    IN /\ Encoding(c.ty, c.val, c.base) = EncodingOf(c.ty, c.val, c.base)
       /\ MeasureBody(c.ty, c.val) = MeasureBodyOf(c.ty, c.val)
       /\ Poll(c.ty, begun, Upto(MaxPos)).sink = PollOf(c.ty, begun, Upto(MaxPos)).sink
       /\ Rest(c.ty, begun, c.base + 1) = RestOf(c.ty, begun, c.base + 1)
       /\ Finish(c.ty, over, Upto(MaxPos)).sink = FinishOf(c.ty, over, Upto(MaxPos)).sink
=============================================================================
