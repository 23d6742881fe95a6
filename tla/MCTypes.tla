------------------------------- MODULE MCTypes -------------------------------
(***************************************************************************)
(* Names for the types of ArchiveTypes that the runs use.                  *)
(***************************************************************************)

P(n) == [k |-> "prim", size |-> n, top |-> 255]
Unit == [k |-> "unit"]
VarInts == [k |-> "varint"]
Str == [k |-> "string"]
Packed3 == [k |-> "packed", bits |-> 3]
Octals == [k |-> "packedslice", bits |-> 3]
Bits == [k |-> "packed", bits |-> 1]
VarIntVec == [k |-> "varintvec"]
Opt(ty) == [k |-> "option", of |-> ty]
Res(l, r) == [k |-> "result", left |-> l, right |-> r]
Pair(l, r) == [k |-> "tuple", left |-> l, right |-> r]
Arr(ty, n) == [k |-> "array", of |-> ty, n |-> n]
Boxed(ty) == [k |-> "shared", of |-> ty]
Vec(ty) == [k |-> "vec", of |-> ty, indexed |-> FALSE]
Iter(ty) == [k |-> "vec", of |-> ty, indexed |-> TRUE]
Map(l, r) == [k |-> "map", of |-> Pair(l, r), indexed |-> FALSE]
Field(id, ty) == [id |-> id, ty |-> ty, default |-> << >>]
Rec(key, fields) == [k |-> "record", key |-> key, fields |-> fields]
Enum(variants) == [k |-> "enum", variants |-> variants]
FieldOr(id, ty, default) == [id |-> id, ty |-> ty, default |-> <<default>>]
=============================================================================
