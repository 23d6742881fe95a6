--------------------------- MODULE MCArchiveReader ---------------------------
(***************************************************************************)
(* The archives of the runs of ArchiveReader and SequenceView.             *)
(***************************************************************************)
EXTENDS SequenceView, MCTypes

\* The bytes appended to an archive, and those that may overwrite any byte.
Appended == {0, 1, 66}
Overwriting == {0, 1, 2, 66, 255}

Archive(ty, v, enc) ==
  [ty |-> ty, val |-> v, enc |-> enc, bytes |-> Appended, exact |-> FALSE,
   seq |-> << >>]

\* An archive that is read as the type it was written as.
Same(ty, v) == Archive(ty, v, Encoding(ty, v, 4))

\* An archive of one revision of a type, read as another one.
Revised(old, v, new, w) == Archive(new, w, Encoding(old, v, 4))

Exact(archives, bytes) ==
  {[a EXCEPT !.bytes = bytes, !.exact = TRUE] : a \in archives}

\* A sequence written as `as`, behind n bytes, and viewed as an IterArchive.
Sequence(as, v, n, alloc) ==
  LET lead == [i \in 1 .. n |-> <<i>>]
      enc == Encoding(as, v, 4 + n)
      Behind(ty) == Pair(Arr(P(1), n), ty)
  IN  [Archive(Behind(Iter(as.of)), <<lead, v>>,
               Encoding(Behind(as), <<lead, v>>, 4))
       EXCEPT !.seq = <<[ty |-> Iter(as.of), val |-> v, at |-> 4 + n,
                         len |-> Len(enc), alloc |-> alloc]>>]

Bool == [k |-> "prim", size |-> 1, top |-> 1]

User1 == Rec(513, <<Field(2, Str), Field(1, P(2))>>)
User2 == Rec(513, <<Field(2, Str), Field(1, P(2)), Field(3, Opt(Str)),
                    FieldOr(4, P(1), <<7>>)>>)
Event1 == Enum(<<Rec(0, << >>), Rec(7, <<Field(1, VarInts)>>)>>)
Event2 == Enum(<<Rec(0, << >>), Rec(7, <<Field(1, VarInts), Field(2, Opt(P(1)))>>),
                 Rec(0, <<Field(1, Bool)>>)>>)
Flag == Rec(3, <<Field(1, Bool)>>)

\* Three-bit values that fill more than 512 bits.
ManyOctals == [i \in 1 .. 171 |-> 1 + (i % 7)]

\* Every kind of type, alone and inside the others.
PlainCases == {
  Same(Opt(P(2)), << <<1, 2>> >>), Same(Opt(P(2)), << >>),
  Same(Boxed(Res(Str, VarInts)), [tag |-> 0, val |-> <<65, 66>>]),
  Same(Res(Str, VarInts), [tag |-> 1, val |-> 300]),
  Same(Pair(Unit, Arr(P(2), 2)), << << >>, << <<1, 2>>, <<3, 4>> >> >>),
  Same(Packed3, <<5, 2, 7>>), Same(Bits, [i \in 1 .. 9 |-> i % 2]),
  Same(Packed3, ManyOctals), Same(VarIntVec, <<1, 300, 65535>>),
  Same(Vec(P(2)), << <<1, 2>>, <<3, 4>>, <<5, 6>> >>),
  Same(Vec(Vec(P(1))), << << <<1>>, <<2>> >>, << >> >>),
  Same(Vec(Opt(Bool)), << << <<1>> >>, << >> >>),
  Same(Iter(P(2)), << <<1, 2>>, <<3, 4>>, <<5, 6>> >>),
  Same(Iter(Boxed(Str)), << <<65>>, << >>, <<66, 67>>, <<68>> >>),
  Same(Map(VarInts, Str), << <<5, <<65>> >>, <<300, << >> >> >>),
  Same(Event2, [tag |-> 2, val |-> << <<1>> >>]),
  Same(Event2, [tag |-> 0, val |-> << >>]),
  Same(Rec(9, <<Field(3, Boxed(User1)), Field(4, Vec(Flag))>>),
       << << <<65>>, <<1, 2>> >>, << << <<1>> >>, << <<0>> >>, << <<1>> >> >> >>)}

\* An archive with a block index, read as a type without one, and archives of
\* an earlier revision: a field with a default, an optional field,
\* and a variant were added since.
OlderCases == {
  Revised(Iter(P(2)), << <<1, 2>>, <<3, 4>>, <<5, 6>> >>,
          Vec(P(2)), << <<1, 2>>, <<3, 4>>, <<5, 6>> >>),
  Revised(User1, << <<65>>, <<1, 2>> >>,
          User2, << <<65>>, <<1, 2>>, << >>, <<7>> >>),
  Revised(Vec(User1), << << <<65>>, <<1, 2>> >> >>,
          Vec(User2), << << <<65>>, <<1, 2>>, << >>, <<7>> >> >>),
  Revised(Event1, [tag |-> 1, val |-> <<300>>],
          Event2, [tag |-> 1, val |-> <<300, << >> >>])}

\* Records in records: four are too many.
Outer(ty) == Rec(0, <<Field(1, Opt(ty)), Field(1, P(1))>>)
OuterOf(v, n) == << <<v>>, <<n>> >>
On == << <<1>> >>
DeepCases == {
  Same(Outer(Outer(Flag)), OuterOf(OuterOf(On, 2), 3)),
  Same(Outer(Outer(Outer(Flag))), OuterOf(OuterOf(OuterOf(On, 2), 3), 4)),
  Same(Arr(Outer(Event1), 3),
       [i \in 1 .. 3 |-> OuterOf([tag |-> 1, val |-> <<i>>], i)])}

\* Every kind of place an error can be found in.  No sequence is followed by
\* anything, and no number can get too large for its type.
PathCases == Exact({
  Same(Rec(9, <<Field(1, Opt(Flag)), Field(2, Res(Str, Flag)),
                Field(3, Pair(Bool, Arr(Flag, 2)))>>),
       << << << <<1>> >> >>, [tag |-> 1, val |-> << <<0>> >>],
          << <<1>>, << << <<0>> >>, << <<1>> >> >> >> >>),
  Same(Rec(0, <<Field(1, Packed3), Field(2, Str), Field(3, Vec(Flag))>>),
       << <<5, 2>>, <<65>>, << << <<1>> >>, << <<0>> >> >> >>),
  Revised(User1, << <<65>>, <<1, 2>> >>,
          User2, << <<65>>, <<1, 2>>, << >>, <<7>> >>),
  Same(Event2, [tag |-> 1, val |-> <<5, << <<3>> >> >>])}, Overwriting)

\* Sequences with blocks of ChunkSize elements: none, less than a block, a
\* block, a block and one, and more, at aligned and unaligned places, written
\* with and without an index.
Shorts(n) == [i \in 1 .. n |-> <<i, 0>>]
Words(n) == [i \in 1 .. n |-> [j \in 1 .. i % 3 |-> 64 + i]]
Entries(n) == [i \in 1 .. n |-> <<(i * i) % 3, <<i>> >>]

SequenceCases ==
  {Sequence(Iter(P(2)), Shorts(n), lead, TRUE) : n \in 0 .. 7, lead \in 0 .. 1}
  \cup {Sequence(Iter(Str), Words(n), 0, TRUE) : n \in {4, 5, 7}}
  \cup {Sequence(Iter(Pair(VarInts, P(1))), Entries(n), 3, TRUE) : n \in {3, 6}}
  \cup {Sequence(Vec(P(2)), Shorts(n), lead, alloc) :
          n \in {0, 3, 5}, lead \in 0 .. 1, alloc \in BOOLEAN}
  \cup {Sequence(Vec(Str), Words(6), 0, TRUE)}

GoodCases ==
  UNION {PlainCases, OlderCases, DeepCases, PathCases, SequenceCases}

\* An archive of a later revision, which has a field the reader does not know.
NewerCase == {Revised(User2, << <<65>>, <<1, 2>>, << >>, <<9>> >>,
                      User1, << <<65>>, <<1, 2>> >>)}

\* A short sequence without an index, and 66 behind it.
MagicCase == {Same(Pair(Vec(P(1)), P(1)), << << <<1>> >>, <<66>> >>)}

\* A vector of arrays of two-byte numbers.
ArraysCase == {Same(Vec(Arr(P(2), 1)), << << <<1, 2>> >>, << <<3, 4>> >> >>)}

\* 512 bits, the buffer of the packer of slices, hold no whole number of
\* three-bit values.
OctalCase == {Revised(Octals, ManyOctals, Packed3, ManyOctals)}

\* With six blocks the place of a delta, taken four bytes too far, is still
\* inside the index.
ManyBlocks == {Sequence(Iter(P(1)), [i \in 1 .. 12 |-> <<i>>], 0, FALSE)}

\* What a reader does not get back as it was written.
Misread == UNION {NewerCase, MagicCase, ArraysCase, OctalCase, ManyBlocks}

\* An archive that ends in a vector and lacks the field behind it.
ProbeCase ==
  Exact({Revised(Rec(5, <<Field(1, Vec(P(1)))>>), << << <<1>> >> >>,
                 Rec(5, <<Field(1, Vec(P(1))), Field(2, P(1))>>),
                 << << <<1>> >>, <<0>> >>)}, {})

\* A marker that is neither 0 nor 1 in an IterArchive.
MarkerCase ==
  Exact({Same(Rec(0, <<Field(1, Iter(P(1)))>>), << << <<1>> >> >>)}, {2})

\* Errors whose path is not recorded, or recorded elsewhere.
Unlocated == ProbeCase \cup MarkerCase
=============================================================================
