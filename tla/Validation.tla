----------------------------- MODULE Validation -----------------------------
(***************************************************************************)
(* The validation context (validation/context.rs, validator.rs, path.rs):  *)
(* a depth counter and a path stack that guards push to and, when they are *)
(* dropped, pop from; and the path of the first error.                     *)
(*                                                                         *)
(* The walk over an archive opens and drops guards last in, first out.     *)
(* Each guard borrows the context, so only the innermost one can be        *)
(* dropped.  `here` is where the walk is, and `frames` where it was when   *)
(* each open guard was made: the Rust call stack, which the context has to *)
(* keep up with.                                                           *)
(***************************************************************************)
EXTENDS Integers, Sequences

CONSTANTS
  Segment,    \* ValidationPathSegment
  Cap,        \* the capacity of the array in ValidationPathStack
  MaxDepth,   \* ValidationConfig::max_depth
  Alloc,      \* the feature `alloc`: segments beyond Cap go to a Vec
  MaxFrames   \* bound: the guards that are open at once

ASSUME LimitsAssumption ==
  /\ Cap \in Nat
  /\ MaxDepth \in Nat
  /\ Alloc \in BOOLEAN
  /\ MaxFrames \in Nat

VARIABLES
  depth,      \* Validator::depth
  segments,   \* the first len of ValidationPathStack::segments
  extra,      \* ValidationPathStack::extra, empty for None
  seen,       \* last_error_path, empty for None
  here,       \* [path, level]: the segments and levels the walk is inside
  frames,     \* [kind, at]: the open guards, and where they were opened
  failed      \* the path of the first error, empty if there was none

vars == <<depth, segments, extra, seen, here, frames, failed>>

Root == [path |-> << >>, level |-> 0]

\* The path the stack would print.
Path == segments \o extra

Init ==
  /\ depth = 0
  /\ segments = << >>
  /\ extra = << >>
  /\ seen = << >>
  /\ here = Root
  /\ frames = << >>
  /\ failed = << >>

-----------------------------------------------------------------------------
(* ValidationPathStack *)

ButLast(s) == SubSeq(s, 1, Len(s) - 1)

\* A full array spills into the Vec; without `alloc` the segment is dropped.
Push(seg) ==
  IF Len(segments) < Cap
  THEN segments' = Append(segments, seg) /\ UNCHANGED extra
  ELSE /\ extra' = IF Alloc THEN Append(extra, seg) ELSE extra
       /\ UNCHANGED segments

\* (Mutant of Pop: the array is popped while the Vec still holds segments.)
PopArrayFirst ==
  IF segments # << >>
  THEN segments' = ButLast(segments) /\ UNCHANGED extra
  ELSE /\ extra' = IF extra = << >> THEN extra ELSE ButLast(extra)
       /\ UNCHANGED segments

Pop ==
  IF extra # << >>
  THEN extra' = ButLast(extra) /\ UNCHANGED segments
  ELSE /\ segments' = IF segments = << >> THEN segments ELSE ButLast(segments)
       /\ UNCHANGED extra

-----------------------------------------------------------------------------
(* Validator *)

\* (Mutant of RecordErrorPath: a later error replaces the first.)
RecordLastErrorPath == seen' = <<Path>>

\* record_error_path: the first one stays.
RecordErrorPath == seen' = IF seen = << >> THEN <<Path>> ELSE seen

NoteError == failed' = IF failed = << >> THEN <<here.path>> ELSE failed

\* (Mutant of MayEnter: one level too many.)
MayEnterOver == depth <= MaxDepth
MayEnter == depth < MaxDepth

Open(kind, place) ==
  /\ Len(frames) < MaxFrames
  /\ frames' = Append(frames, [kind |-> kind, at |-> here])
  /\ here' = place

\* context.guard(): ArchivedDepthGuard::new, push_depth.
Guard ==
  /\ MayEnter
  /\ Open("depth", [here EXCEPT !.level = @ + 1])
  /\ depth' = depth + 1
  /\ UNCHANGED <<segments, extra, seen, failed>>

\* push_depth at the limit: RecursionLimitExceeded.
GuardRefused ==
  /\ ~MayEnter
  /\ RecordErrorPath
  /\ NoteError
  /\ UNCHANGED <<depth, segments, extra, here, frames>>

\* push_field, push_index, push_variant: PathGuard::new.
PushPath ==
  \E seg \in Segment :
    /\ Open("path", [here EXCEPT !.path = Append(@, seg)])
    /\ Push(seg)
    /\ UNCHANGED <<depth, seen, failed>>

\* error, validation_error; the walk unwinds, or goes on where the error is
\* not one to the caller (the look for a block index).
Error ==
  /\ RecordErrorPath
  /\ NoteError
  /\ UNCHANGED <<depth, segments, extra, here, frames>>

Close(kind) ==
  /\ frames # << >>
  /\ frames[Len(frames)].kind = kind
  /\ here' = frames[Len(frames)].at
  /\ frames' = ButLast(frames)

\* (Mutant of PopDepth: the level is not given back.)
KeepDepth == UNCHANGED depth

\* pop_depth, which saturates.
PopDepth == depth' = IF depth = 0 THEN 0 ELSE depth - 1

\* ArchivedDepthGuard::drop
DropDepthGuard ==
  /\ Close("depth")
  /\ PopDepth
  /\ UNCHANGED <<segments, extra, seen, failed>>

\* PathGuard::drop, pop_path.
DropPathGuard ==
  /\ Close("path")
  /\ Pop
  /\ UNCHANGED <<depth, seen, failed>>

Next ==
  \/ Guard
  \/ GuardRefused
  \/ PushPath
  \/ Error
  \/ DropDepthGuard
  \/ DropPathGuard

Spec == Init /\ [][Next]_vars

-----------------------------------------------------------------------------
(* Properties *)

Place == [path : Seq(Segment), level : Nat]

\* The types of the context's fields: the walk is never inside more records and
\* enums than max_depth allows, and the array never holds more than fits.
TypeOK ==
  /\ depth \in 0 .. MaxDepth
  /\ segments \in Seq(Segment) /\ Len(segments) <= Cap
  /\ extra \in Seq(Segment)
  /\ seen \in Seq(Seq(Segment)) /\ Len(seen) <= 1
  /\ here \in Place
  /\ frames \in Seq([kind : {"depth", "path"}, at : Place])
  /\ failed \in Seq(Seq(Segment)) /\ Len(failed) <= 1

\* push_depth and pop_depth: the counter is the number of records and enums
\* the walk is inside, however it got there; pop_depth never has to saturate.
DepthIsTheLevel == depth = here.level

\* With `alloc`, the stack holds the path of the place the walk is at, however
\* deep it went and whatever it came back from.
PathIsThePlace == Alloc => Path = here.path

\* "capture the logical field/index path on failure" (lib.rs:205): the path
\* that is recorded is the place of the first error.
FirstErrorIsKept == Alloc => seen = failed
=============================================================================
