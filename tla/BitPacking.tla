----------------------------- MODULE BitPacking -----------------------------
(***************************************************************************)
(* Values of at most eight bits in bytes (archive/packed.rs,               *)
(* packed_vec.rs): value i at the bits i * bits and on, least significant  *)
(* first; a value may lie across two bytes.                                *)
(***************************************************************************)
EXTENDS Integers, Sequences

BitOf(x, b) == (x \div 2^b) % 2

FromBits(bit) ==
  bit[0] + 2 * bit[1] + 4 * bit[2] + 8 * bit[3]
    + 16 * bit[4] + 32 * bit[5] + 64 * bit[6] + 128 * bit[7]

PackedBit(bits, values, p) ==
  IF p < bits * Len(values)
  THEN BitOf(values[p \div bits + 1], p % bits) ELSE 0

\* The bytes of the buffer that values fill.
Packed(bits, values) ==
  [i \in 1 .. (bits * Len(values) + 7) \div 8 |->
     FromBits([b \in 0 .. 7 |-> PackedBit(bits, values, 8 * (i - 1) + b)])]

\* read_packed_bits of value i
ReadPackedBits(bytes, bits, i) ==
  LET ReadBit(p) == BitOf(bytes[p \div 8 + 1], p % 8)
  IN  FromBits([b \in 0 .. 7 |-> IF b < bits THEN ReadBit(i * bits + b) ELSE 0])
=============================================================================
