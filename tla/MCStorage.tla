------------------------------ MODULE MCStorage ------------------------------
(* The sinks that Storage is checked with. *)
EXTENDS Storage

Sink(kind, base, capacity, io) ==
  [kind |-> kind, base |-> base, capacity |-> capacity, io |-> io]

\* The slice and the map have room for less than MaxTaken bytes.
MCSinks ==
  {Sink("slice", 3, 5, TRUE), Sink("vec", 0, 0, TRUE), Sink("vec", 2, 0, TRUE),
   Sink("mmap", 1, 5, FALSE), Sink("writer", 2, 0, FALSE)}
=============================================================================
