----------------------------- MODULE MCOneShot -----------------------------
(* The bodies that OneShot is checked with: up to three requests. *)
EXTENDS OneShot

MCHeader == <<9, 1>>
MCBodies == BoundedSeq({<< >>, <<1>>, <<0, 9>>, <<9, 1, 0>>}, 3)

MCSinks == [kind : {"vec", "writer"}, base : {0}, capacity : {0}, io : {FALSE}]
=============================================================================
