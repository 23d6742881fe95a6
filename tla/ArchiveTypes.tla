---------------------------- MODULE ArchiveTypes ----------------------------
(***************************************************************************)
(* The byte format of every type: what ArchiveFormat says of one level,    *)
(* down the whole tree.                                                    *)
(***************************************************************************)
EXTENDS Integers, Sequences, SequencesExt, FiniteSetsExt, VarIntCodec

CONSTANT ChunkSize   \* DEFAULT_CHUNK_SIZE, elements per index block

RECURSIVE Tree(_)

\* A part of a type is a type.
Part(c) == Tree(c)

INSTANCE ArchiveFormat WITH Method <- Part

\* What a method of a type answers, of a tuple that holds the name of the
\* method, the type and the arguments.
Tree(c) ==
  CASE c[1] = "HasFixedSize" -> HasFixedSizeOf(c[2])
    [] c[1] = "Alignment" -> AlignmentOf(c[2])
    [] c[1] = "FieldEncoding" -> FieldEncodingOf(c[2])
    [] c[1] = "Encoding" -> EncodingOf(c[2], c[3], c[4])
=============================================================================
