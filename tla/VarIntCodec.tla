---------------------------- MODULE VarIntCodec ----------------------------
(***************************************************************************)
(* The base-128 encoding of unsigned integers (archive/varint.rs): seven   *)
(* bits a byte, least significant first, the top bit set on all but the    *)
(* last byte.                                                              *)
(***************************************************************************)
EXTENDS Naturals, Sequences

\* serialize_u64: the loop emits the low seven bits until nothing is left.
SerializeU64(value) ==
  LET bytes[v \in 0 .. value] ==
        IF v < 128 THEN <<v>> ELSE <<(v % 128) + 128>> \o bytes[v \div 128]
  IN  bytes[value]

\* What the byte behind `consumed` others adds: payload << shift keeps 64 bits.
Payload(byte, consumed) == IF consumed = 9 THEN byte % 2 ELSE byte % 128

\* The number deserialize_u64 puts together from the bytes it took: value[k] is
\* that of the last k of them.
DeserializeU64(bytes) ==
  LET last == Len(bytes)
      value[k \in 0 .. last] ==
        IF k = 0 THEN 0
        ELSE Payload(bytes[last - k + 1], last - k) + 128 * value[k - 1]
  IN  value[last]
=============================================================================
