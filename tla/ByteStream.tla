----------------------------- MODULE ByteStream -----------------------------
(***************************************************************************)
(* What every writer of the library promises to its caller, whatever the   *)
(* room it is given and however often it is resumed: the bytes that have   *)
(* reached the sink are at any time a prefix of one fixed encoding, they   *)
(* are never taken back, and the writer reports completion only when the   *)
(* whole encoding has been handed over (zebin/src/traits.rs, Serializer).  *)
(***************************************************************************)
EXTENDS Sequences, SequencesExt

VARIABLES enc,    \* the encoding being streamed; << >> until a value is chosen
          sent,   \* the bytes the sink holds
          done    \* the writer has reported completion

Init ==
  /\ sent = << >>
  /\ done = FALSE

\* One call: it may fix the encoding if none is chosen yet, hand over any part
\* of what is left, and report completion if nothing is left.
Call ==
  /\ ~done
  /\ enc = << >> \/ enc' = enc
  /\ IsPrefix(sent, sent')
  /\ IsPrefix(sent', enc')
  /\ done' \in BOOLEAN
  /\ done' => sent' = enc'

Spec == Init /\ [][Call]_<<enc, sent, done>>
=============================================================================
