-------------------------- MODULE MCSeqSerializer --------------------------
(* Values of the constants of SeqSerializer for TLC. *)
EXTENDS SeqSerializer

\* Payload bytes that look like a marker, a terminator and an index.
FixedItems == {<<1, 0>>, <<66, 1>>}
=============================================================================
