---------------------------- MODULE SequenceView ----------------------------
(***************************************************************************)
(* ArchivedIterView (archive/iter/access.rs, access/block_index.rs and     *)
(* deserialize.rs): what a caller reads from an archived sequence it does  *)
(* not deserialize, element by element through `get`, through iterators    *)
(* that begin anywhere, or collected into a container; all but the first   *)
(* go by the block index where there is one.                               *)
(*                                                                         *)
(* The sequence is one of the archives of ArchiveReader, or a part of one. *)
(* The view's source is the slice of the sequence and its cursor is an     *)
(* OffsetSliceCursor: it moves within the slice and aligns by the position *)
(* in the archive.  Both are the cursor of TypeReader over `source` behind *)
(* as many bytes as precede it in the archive (Placed).                    *)
(***************************************************************************)
EXTENDS ArchiveReader

CONSTANT
  Containers   \* what the caller may collect into: "list", "set", "map"

VARIABLES
  cursor,    \* the iterator's cursor, empty when there is no iterator
  upcoming,  \* the number of the element the iterator has to come to
  remaining, \* ArchivedIterIter::remaining
  asked,     \* the last question, [op, n]
  answer     \* and its answer: [ok, val]

vars == <<rootVars, cursor, upcoming, remaining, asked, answer>>

-----------------------------------------------------------------------------
(* The view: `case.seq` is empty, or says of the sequence that is viewed    *)
(* its type ty, its elements val, where it begins (at), how long it is      *)
(* (len) and whether the reader is built with the feature `alloc`           *)

seq == case.seq[1]
SeqTy == seq.ty
Placed == SubSeq(Original, 1, seq.at + seq.len)
source == SubSeq(Original, seq.at + 1, seq.at + seq.len)
Start == [NewReader EXCEPT !.pos = seq.at]

\* ArchivedIter::access_sequence_body, through the PeekingCursor.
Body == ReadElements(SeqTy, Placed, Start, << >>)
length == Len(Body.val)

\* The deltas of the index, read until there are n.
RECURSIVE Deltas(_, _, _, _)
Deltas(b, c, n, sofar) ==
  IF Len(sofar) = n \/ ~c.ok THEN Yield(c, sofar)
  ELSE LET r == ReadIndexNum(b, c)
       IN  Deltas(b, r, n, IF r.ok THEN Append(sofar, r.val) ELSE sofar)

SumOfFirst(deltas, n) == FoldLeft(LAMBDA a, d : a + d, 0, SubSeq(deltas, 1, n))

Offsets(deltas) == [j \in 1 .. Len(deltas) |-> SumOfFirst(deltas, j)]

\* Without `alloc` only the place of the deltas is kept.
IndexBehind(size, blocks) ==
  [chunkSize |-> size.val, blocks |-> blocks.val, rawStart |-> blocks.pos,
   offsets |-> Offsets(Deltas(Placed, blocks, blocks.val, << >>).val)]

IndexFrom(size) == <<IndexBehind(size, ReadIndexNum(Placed, size))>>

\* deserialize_block_index behind the body: empty for None.
IndexAfter(body) ==
  IF ~AtMagic(Placed, body) THEN << >>
  ELSE IndexFrom(ReadIndexNum(Placed, Advance(Placed, body, 1)))

\* block_offset, or block_offset_from_bytes: a SliceCursor over the slice of
\* the sequence, at the position the deltas had in the archive.
OffsetFromDeltas(c, block) ==
  IF c.ok THEN <<SumOfFirst(c.val, block + 1)>> ELSE << >>
OffsetFromBytes(index, block) ==
  IF block >= index.blocks THEN << >>
  ELSE OffsetFromDeltas(
         Deltas(source, [NewReader EXCEPT !.pos = index.rawStart], block + 1,
                << >>),
         block)

BlockOffset(index, block) ==
  IF ~seq.alloc THEN OffsetFromBytes(index, block)
  ELSE IF block < Len(index.offsets)
  THEN <<index.offsets[block + 1]>> ELSE << >>

\* (Mutant of Skipped: the elements of the blocks before are skipped as well.)
SkippedAll(index, i) == i
Skipped(index, i) == i % index.chunkSize

Located(i, size) == i \div size

SeekBlock(index, i, offset) ==
  IF offset = << >> THEN [c |-> Start, skip |-> i]
  ELSE [c |-> [Start EXCEPT !.pos = seq.at + offset[1]],
        skip |-> Skipped(index, i)]

\* Where to begin for element i, and how many elements to skip from there: the
\* first marker of its block, or of the sequence.
SeekIn(index, i) ==
  IF index = << >> THEN [c |-> Start, skip |-> i]
  ELSE SeekBlock(index[1], i,
                 BlockOffset(index[1], Located(i, index[1].chunkSize)))

Seek(i) == SeekIn(IndexAfter(Body), i)

\* The element at the cursor: marker, padding, body.
Element(c) ==
  Then(Take(Placed, c, 1), LAMBDA m :
    IF m.val # <<1>> THEN FailUnrecorded(m, "Invalid sequence marker")
    ELSE Then(AlignCursor(Placed, m,
                          IF HasFixedSize(SeqTy.of) THEN Alignment(SeqTy.of) ELSE 1),
              LAMBDA a : Read(SeqTy.of, Placed, a)))

RECURSIVE SkipElements(_, _)
SkipElements(c, n) ==
  IF n = 0 THEN c ELSE Then(Element(c), LAMBDA r : SkipElements(r, n - 1))

\* iter_from ignores what goes wrong on its way.
RECURSIVE SkipBlindly(_, _)
SkipBlindly(c, n) ==
  IF n = 0 THEN c ELSE SkipBlindly([Element(c) EXCEPT !.ok = TRUE], n - 1)

BlindlyFrom(s) == SkipBlindly(s.c, s.skip)

ElementFrom(s) == Then(SkipElements(s.c, s.skip), Element)

Answered(c) ==
  [ok |-> c.ok, val |-> IF c.ok THEN Value(SeqTy.of, c.val) ELSE << >>]

-----------------------------------------------------------------------------
(* The calls *)

\* The caller has a view of the sequence.
Viewed == damage = Intact /\ case.seq # << >>

Init ==
  /\ RootInit
  /\ cursor = << >>
  /\ upcoming = 0
  /\ remaining = 0
  /\ asked = [op |-> "none", n |-> 0]
  /\ answer = [ok |-> TRUE, val |-> << >>]

\* ArchivedIterView::get
Get ==
  Viewed /\ LET n == length IN \E i \in 0 .. n :
    /\ asked' = [op |-> "get", n |-> i]
    /\ answer' = IF i >= n THEN [ok |-> FALSE, val |-> << >>]
                 ELSE Answered(ElementFrom(Seek(i)))
    /\ UNCHANGED <<rootVars, cursor, upcoming, remaining>>

\* (Mutant of Remains: as many elements as there are in all.)
RemainsAll(start, n) == IF start >= n THEN 0 ELSE n
Remains(start, n) == IF start >= n THEN 0 ELSE n - start

\* ArchivedIterView::iter_from; iter is iter_from at 0.
IterFrom ==
  Viewed /\ LET n == length IN \E start \in 0 .. n :
    /\ cursor' = <<IF start >= n THEN Start ELSE BlindlyFrom(Seek(start))>>
    /\ upcoming' = start
    /\ remaining' = Remains(start, n)
    /\ asked' = [op |-> "iter_from", n |-> start]
    /\ answer' = [ok |-> TRUE, val |-> << >>]
    /\ UNCHANGED rootVars

\* ArchivedIterIter::next: None, or the element; an error counts as one.
NextElement ==
  /\ Viewed /\ cursor # << >>
  /\ IF remaining = 0
     THEN /\ asked' = [op |-> "end", n |-> upcoming]
          /\ answer' = [ok |-> TRUE, val |-> << >>]
          /\ UNCHANGED <<cursor, upcoming, remaining>>
     ELSE LET r == Element(cursor[1])
          IN  /\ asked' = [op |-> "next", n |-> upcoming]
              /\ answer' = Answered(r)
              /\ cursor' = <<[r EXCEPT !.ok = TRUE]>>
              /\ upcoming' = upcoming + 1
              /\ remaining' = remaining - 1
  /\ UNCHANGED rootVars

\* access_next_element, n times.
RECURSIVE Collected(_, _, _)
Collected(c, n, vals) ==
  IF Len(vals) = n THEN Yield(c, vals)
  ELSE Then(Element(c), LAMBDA r :
         Collected(r, n, Append(vals, Value(SeqTy.of, r.val))))

\* BTreeSet, HashSet: equal elements are one.
AsSet(vals) == {vals[i] : i \in 1 .. Len(vals)}

\* (Mutant of AsMap: the first value of a key stays.)
AsMapFirst(vals) ==
  {vals[i] : i \in {j \in 1 .. Len(vals) :
                      \A k \in 1 .. j - 1 : vals[k][1] # vals[j][1]}}

\* BTreeMap, HashMap: the last value of a key stays.
AsMap(vals) ==
  {vals[i] : i \in {j \in 1 .. Len(vals) :
                      \A k \in j + 1 .. Len(vals) : vals[k][1] # vals[j][1]}}

\* Deserialize for Vec, VecDeque and BinaryHeap (list), sets and maps.
Collect ==
  Viewed /\ \E into \in Containers :
    LET n == length
        r == Collected(Start, n, << >>)
    IN  /\ into = "map" => SeqTy.of.k = "tuple"
        /\ asked' = [op |-> into, n |-> n]
        /\ answer' = [ok |-> r.ok,
                      val |-> CASE into = "list" -> r.val
                                [] into = "set" -> AsSet(r.val)
                                [] into = "map" -> AsMap(r.val)]
        /\ UNCHANGED <<rootVars, cursor, upcoming, remaining>>

\* What is asked of the root leaves the view of the sequence alone.
Root(Ask) == Ask /\ UNCHANGED <<cursor, upcoming, remaining, asked, answer>>

Next ==
  \/ Root(Validate)
  \/ Root(Deserialize)
  \/ Get
  \/ IterFrom
  \/ NextElement
  \/ Collect

Spec == Init /\ [][Next]_vars

-----------------------------------------------------------------------------
(* Properties *)

\* "O(1) random access to the *i*-th element" (access.rs:52): get(i) is the
\* element archived i-th, index or none, and an error past the last.
GetIsTheElement ==
  asked.op = "get" =>
    answer = IF asked.n < Len(seq.val)
             THEN [ok |-> TRUE, val |-> seq.val[asked.n + 1]]
             ELSE [ok |-> FALSE, val |-> << >>]

\* Whatever way a caller reads it, what the archive holds is what was archived:
\* validated, deserialized, or looked up by index in a sequence of it.
ReadsWhatWasWritten == RootIsWhatWasWritten /\ GetIsTheElement

\* An iterator yields the elements from its first on, each once and in order,
\* and ends behind the last.
IteratorIsTheRest ==
  /\ asked.op = "next" =>
       /\ asked.n < Len(seq.val)
       /\ answer = [ok |-> TRUE, val |-> seq.val[asked.n + 1]]
  /\ asked.op = "end" => asked.n = Len(seq.val)

\* The containers hold all elements: a list in order, a map the value that was
\* archived last for a key.
CollectedIsEverything ==
  /\ asked.op = "list" => answer = [ok |-> TRUE, val |-> seq.val]
  /\ asked.op = "set" => answer.val = {seq.val[i] : i \in 1 .. Len(seq.val)}
  /\ asked.op = "map" =>
       \A i \in 1 .. Len(seq.val) :
         LET same == {j \in 1 .. Len(seq.val) :
                        seq.val[j][1] = seq.val[i][1]}
         IN  {p[2] : p \in {q \in answer.val : q[1] = seq.val[i][1]}}
               = {seq.val[Max(same)][2]}
=============================================================================
