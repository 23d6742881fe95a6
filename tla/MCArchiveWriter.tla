-------------------------- MODULE MCArchiveWriter --------------------------
(* Values of the constants of ArchiveWriter for TLC. *)
EXTENDS ArchiveWriter

\* A unit value, one of two pieces, and a collection of a marker, an element
\* that errs and a terminator.
Unit == [bytes |-> << >>, stops |-> {0}, fault |-> 1]
Pair == [bytes |-> <<1, 90, 66>>, stops |-> {0, 2, 3}, fault |-> 4]
Broken == [bytes |-> <<1, 90, 0>>, stops |-> {0, 1, 2, 3}, fault |-> 1]

AnyValues == {Unit, Pair, Broken}

ZebinHeader == <<90, 66, 1, 0>>
=============================================================================
