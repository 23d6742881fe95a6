-------------------------- MODULE NestedSerializer --------------------------
(***************************************************************************)
(* The serializer of every type, and its encoding and its measure: what    *)
(* CompositeSerializers and the modules below and above it say of one      *)
(* level of a type, down the whole tree; with the caller that drives it.   *)
(***************************************************************************)
EXTENDS CompositeCaller

RECURSIVE Tree(_)

\* A part of a type is a type, and is serialized as one.
Part(c) == Tree(c)

Level == INSTANCE CompositeStates WITH Method <- Part

\* What a method of a type answers, of a tuple that holds the name of the
\* method, the type and the arguments: the value of Method in the runs.
Tree(c) ==
  CASE c[1] = "HasFixedSize" -> Level!HasFixedSizeOf(c[2])
    [] c[1] = "Alignment" -> Level!AlignmentOf(c[2])
    [] c[1] = "FieldEncoding" -> Level!FieldEncodingOf(c[2])
    [] c[1] = "Encoding" -> Level!EncodingOf(c[2], c[3], c[4])
    [] c[1] = "MeasureBody" -> Level!MeasureBodyOf(c[2], c[3])
    [] c[1] = "New" -> Level!NewOf(c[2])
    [] c[1] = "Input" -> Level!InputOf(c[2], c[3], c[4], c[5])
    [] c[1] = "Poll" -> Level!PollOf(c[2], c[3], c[4])
    [] c[1] = "Finish" -> Level!FinishOf(c[2], c[3], c[4])
    [] c[1] = "IsValue" -> Level!IsValueOf(c[2], c[3])
    [] c[1] = "Rest" -> Level!RestOf(c[2], c[3], c[4])
    [] c[1] = "Idle" -> Level!IdleOf(c[2], c[3])
    [] c[1] = "Going" -> Level!GoingOf(c[2], c[3])
    [] c[1] = "Ended" -> Level!EndedOf(c[2], c[3])
    [] c[1] = "Reusable" -> Level!ReusableOf(c[2])
    [] c[1] = "Quiet" -> Level!QuietOf(c[2])
    [] c[1] = "Exact" -> Level!ExactOf(c[2])
    [] c[1] = "Regular" -> Level!RegularOf(c[2])

ASSUME CasesAssumption ==
  \A c \in Cases :
    /\ c.base \in 0 .. MaxPos
    /\ c.enc = Encoding(c.ty, c.val, c.base)
=============================================================================
