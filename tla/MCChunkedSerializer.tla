------------------------ MODULE MCChunkedSerializer ------------------------
(* The slices that ChunkedSerializer is checked with. *)
EXTENDS ChunkedSerializer

\* Nothing, one chunk, one value more, two chunks and a bit; one that does not
\* fit in a second chunk and one that is just too large.
Nibbles == {<< >>, <<3>>, <<1, 15, 0, 9>>, <<1, 15, 0, 9, 6>>,
            <<7, 7, 7, 7, 8, 1, 2, 3, 5>>, <<1, 2, 3, 4, 16, 3>>, <<20>>}

Bools == {<< >>, <<1>>, <<1, 0, 1, 1, 0, 0, 1, 0>>,
          <<1, 0, 1, 1, 0, 0, 1, 0, 1, 1, 0, 1, 1, 0, 0, 0, 1>>}

\* Five values of three bits fill a buffer of two bytes but for one bit.
Octals == {<< >>, <<5, 0, 7, 2, 1>>, <<3, 8>>}

Numbers == {<< >>, <<0>>, <<127, 128>>, <<300, 0, 16384>>}

\* Bits, three bits across byte boundaries in slices of one chunk, four bits in
\* several chunks, and numbers of one to three bytes.
SerializersToCheck ==
  {[kind |-> "packed", bits |-> 1, bufBytes |-> 1, slices |-> Bools],
   [kind |-> "packed", bits |-> 3, bufBytes |-> 2, slices |-> Octals],
   [kind |-> "packed", bits |-> 4, bufBytes |-> 2, slices |-> Nibbles],
   [kind |-> "varint", bits |-> 8, bufBytes |-> 1, slices |-> Numbers]}
=============================================================================
