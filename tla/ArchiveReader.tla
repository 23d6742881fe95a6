---------------------------- MODULE ArchiveReader ----------------------------
(***************************************************************************)
(* ZebinReader (read.rs): validate and deserialize of an archive, which    *)
(* may have been cut short or changed since it was written.                *)
(***************************************************************************)
EXTENDS TypeReader

CONSTANT
  Cases    \* the archives, each a record of
           \*   enc, ty, val  the archived body, the type it is read as, and
           \*                 the value a reader of that type must get
           \*   bytes         the bytes a damage may put into it
           \*   exact         TRUE: any byte may be overwritten, and the path
           \*                 of every error is looked at
           \*   seq           the sequence in it that is viewed (SequenceView)

VARIABLES
  case,     \* which archive
  damage,   \* what happened to it
  verdict,  \* the answer of validate, if it was asked
  value     \* the answer of deserialize, if it was asked

rootVars == <<case, damage, verdict, value>>

Intact == [what |-> "none", at |-> 0, byte |-> 0]

Original == ArchiveHeader(case.ty) \o case.enc

Damages(len) ==
  {Intact} \cup [what : {"cut"}, at : 0 .. len - 1, byte : {0}]
           \cup [what : {"grown"}, at : {len}, byte : case.bytes]
           \cup [what : {"set"}, at : IF case.exact THEN 1 .. len ELSE {},
                 byte : case.bytes]

Stored ==
  CASE damage.what = "none" -> Original
    [] damage.what = "cut" -> SubSeq(Original, 1, damage.at)
    [] damage.what = "grown" -> Append(Original, damage.byte)
    [] damage.what = "set" -> [Original EXCEPT ![damage.at] = damage.byte]

RootInit ==
  /\ case \in Cases
  /\ damage \in Damages(Len(Original))
  /\ verdict = << >>
  /\ value = << >>

\* ZebinReader::validate
Validate ==
  /\ verdict = << >>
  /\ LET c == ValidateRoot(case.ty, Stored)
     IN  verdict' = <<[ok |-> c.ok, why |-> c.why, where |-> c.where,
                       path |-> ReportedPath(c)]>>
  /\ UNCHANGED <<case, damage, value>>

\* ZebinReader::deserialize
Deserialize ==
  /\ value = << >>
  /\ LET c == ReadRoot(case.ty, Stored)
     IN  value' = <<[ok |-> c.ok, val |-> IF c.ok THEN Value(case.ty, c.val)
                                          ELSE << >>]>>
  /\ UNCHANGED <<case, damage, verdict>>

-----------------------------------------------------------------------------
(* Properties *)

\* How many records and enums are inside one another in the value.
RECURSIVE Nesting(_, _)
Deepest(S) == Max({0} \cup S)
Nesting(ty, v) ==
  CASE ty.k \in {"option", "array", "vec", "map"} ->
         Deepest({Nesting(ty.of, v[i]) : i \in 1 .. Len(v)})
    [] ty.k = "shared" -> Nesting(ty.of, v)
    [] ty.k = "result" -> Nesting(IF v.tag = 0 THEN ty.left ELSE ty.right, v.val)
    [] ty.k = "tuple" -> Deepest({Nesting(ty.left, v[1]), Nesting(ty.right, v[2])})
    [] ty.k = "record" ->
         1 + Deepest({Nesting(ty.fields[i].ty, v[i]) : i \in 1 .. Len(v)})
    [] ty.k = "enum" ->
         1 + IF IsUnit(ty.variants[v.tag + 1]) THEN 0
             ELSE Nesting(ty.variants[v.tag + 1], v.val)
    [] OTHER -> 0

TooDeep == Nesting(case.ty, case.val) > MaxDepth

\* What the archive holds is what was archived: for a reader of the same type,
\* and for one of a later revision, which has defaults for the fields it added.
RootIsWhatWasWritten ==
  damage = Intact /\ ~TooDeep =>
    /\ verdict # << >> => verdict[1].ok
    /\ value # << >> => value[1] = [ok |-> TRUE, val |-> case.val]

\* The recursion limit stops a value that is nested too deep and no other: a
\* guard that is dropped gives its level back to the siblings behind it.
NestingIsTheLimit ==
  damage = Intact /\ verdict # << >> =>
    (verdict[1].why = "RecursionLimitExceeded" <=> TooDeep)

\* "capture the logical field/index path on failure" (lib.rs:205): the path
\* that is reported is the place where the reader found the error.
ErrorPathIsWhereItFailed ==
  case.exact /\ verdict # << >> /\ ~verdict[1].ok =>
    verdict[1].path = verdict[1].where

\* An archive that ends early or has bytes too many is refused, unless all that
\* is lost is a block index, which deserialize can do without: whatever the
\* reader returns is the value that was archived.
LengthIsNoticed ==
  damage.what \in {"cut", "grown"} =>
    /\ verdict # << >> /\ verdict[1].ok => damage.what = "cut"
    /\ value # << >> /\ value[1].ok => value[1].val = case.val
=============================================================================
