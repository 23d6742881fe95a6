----------------------- MODULE MCOwnedIterSerializer -----------------------
(* Values of the constants of OwnedIterSerializer for TLC. *)
EXTENDS OwnedIterSerializer

FixedItems == {<<1, 0>>, <<66, 1>>}
=============================================================================
