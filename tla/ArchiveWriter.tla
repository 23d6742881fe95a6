--------------------------- MODULE ArchiveWriter ---------------------------
(***************************************************************************)
(* The resumable writer of a whole archive (write.rs): a header, then the  *)
(* body the value's serializer produces, through a sink whose room is      *)
(* limited.  The caller repeats `write` or `write_all`, passing a value    *)
(* each time; only the first one is kept.                                  *)
(*                                                                         *)
(* The serializer of the value is taken at its promise (ByteStream, which  *)
(* OwnedIterSerializer is checked to keep): it fills the sink before it    *)
(* answers Pending, and writes nothing any more in `finish`.  That promise *)
(* ends with its first error: a collection whose element erred has lost    *)
(* that element and goes on behind it when it is polled again.             *)
(***************************************************************************)
EXTENDS Integers, Sequences

CONSTANTS
  Values,    \* the values, each a record of
             \*   bytes  what its serializer writes
             \*   stops  the lengths at which it is between two pieces
             \*   fault  how many bytes it has written when it errs, more
             \*          than there are if it does not
  None,      \* Option::None
  Header,    \* the bytes of the archive header
  Base,      \* the sink's position when the writer is created
  MaxPos     \* bound: the last position a sink may reach

ASSUME WriterAssumption ==
  /\ Values \subseteq [bytes : Seq(0 .. 255), stops : SUBSET Nat, fault : Nat]
  /\ \A v \in Values : {0, Len(v.bytes)} \subseteq v.stops
  /\ None \notin Values
  /\ Header \in Seq(0 .. 255)
  /\ Base \in Nat
  /\ MaxPos \in Nat /\ Base <= MaxPos

VARIABLES
  phase,         \* "header", "body" or "done"
  headerCursor,  \* how much of the header is written
  value,         \* the value not yet handed to the serializer, or None
  body,          \* the value inside the serializer, or None
  bodyCursor,    \* how many bytes of it are written, or lost
  started,       \* the serializer must be polled, not fed
  broken,        \* the serializer has erred
  pos,           \* self.pos, what written() returns
  out,           \* the bytes the sink has taken
  limit,         \* the position up to which the sink has room
  strict,        \* the sink refuses a piece it cannot take whole
  pc,            \* "idle", "write" or "write_all": the running call
  driveStart,    \* start_pos of drive
  allStart,      \* start_pos of write_all
  result,        \* what the last call returned
  stored,        \* history: the value the writer accepted
  kept,          \* history: the bytes in the sink when the serializer erred
  reported,      \* history: the bytes reported by all the calls
  short,         \* history: a write_all has returned BufferTooSmall
  failed         \* history: a call has returned another error

bodyVars == <<value, body, bodyCursor, started, broken>>
callVars == <<pc, driveStart, allStart, result, reported, short, failed>>
writerVars == <<phase, headerCursor, bodyVars, pos, out, kept, limit, strict,
                callVars, stored>>

Pos == Base + Len(out)
Room == limit - Pos

-----------------------------------------------------------------------------
(* The sink and the serializer of the value *)

Bytes(v) == v.bytes

\* Where the serializer goes on.  When it has erred, what it held may be lost:
\* the queued element is taken before its serializer is called.  What is left of
\* the index and the padding then depends on the loss, which is left out: no
\* property speaks of the bytes that follow an error.
Resumes(v) ==
  {bodyCursor} \cup
    (IF broken THEN v.stops \cap (bodyCursor .. Len(Bytes(v))) ELSE {})

Errs(v, from) == v.fault \in from .. Len(Bytes(v))
Target(v, from) == IF Errs(v, from) THEN v.fault ELSE Len(Bytes(v))
BodyWhole(v, from) == Target(v, from) - from <= Room

\* Where a strict sink may stop, which takes a piece whole or not at all.
Stops(v, from) == v.stops \cap (from .. from + Room)

\* How far into the value v a call of the serializer comes that goes on at from.
BodyReaches(v, from) ==
  IF BodyWhole(v, from) THEN {Target(v, from)}
  ELSE IF strict
  THEN {n \in Stops(v, from) : \A m \in Stops(v, from) : m <= n}
  ELSE {from + Room}

\* What reaches the sink.
Takes(piece) ==
  /\ out' = out \o piece
  /\ kept' = IF broken THEN kept ELSE Len(out')

\* The caller hands the sink more room between two calls.
Grant ==
  /\ pc = "idle" /\ ~strict
  /\ \E l \in limit + 1 .. MaxPos : limit' = l
  /\ UNCHANGED <<phase, headerCursor, bodyVars, pos, out, kept, strict,
                 callVars, stored>>

-----------------------------------------------------------------------------
(* Leaving drive *)

Ok(n) ==
  /\ pc' = "idle"
  /\ result' = "ok"
  /\ reported' = reported + n
  /\ UNCHANGED <<driveStart, allStart, short, failed>>

\* An error returns past the end of drive: self.pos keeps its value.
Fail(why) ==
  /\ pc' = "idle"
  /\ result' = why
  /\ failed' = TRUE
  /\ UNCHANGED <<driveStart, allStart, reported, short, pos>>

\* (Mutant of CountedFrom: every call returns the total.)
CountedFromBase == Base

\* What the count returned by a call is counted from.
CountedFrom == IF pc = "write" THEN driveStart ELSE allStart

\* (Mutant of Stuck: write_all does not notice.)
StuckNever == FALSE

\* A drive that wrote nothing: write_all gives up.
Stuck == pos' = pos

\* drive's end.  write returns what drive wrote; write_all drives again as
\* long as that makes the position move.
Break(finishedNow) ==
  /\ pos' = Base + Len(out')
  /\ IF pc = "write" \/ finishedNow THEN Ok(pos' - CountedFrom)
     ELSE IF Stuck
     THEN /\ pc' = "idle"
          /\ result' = "too_small"
          /\ short' = TRUE
          /\ UNCHANGED <<driveStart, allStart, reported, failed>>
     ELSE /\ driveStart' = pos'
          /\ UNCHANGED <<pc, allStart, result, reported, short, failed>>

-----------------------------------------------------------------------------
(* The calls *)

\* (Mutant of Keeps: the last value given before the body begins is kept.)
KeepsLast == phase = "header"

\* Only the first value is kept: later ones are dropped while the header is
\* under way and once the body has begun.
Keeps == value = None /\ phase = "header"

Store(v) ==
  /\ value' = IF Keeps THEN v ELSE value
  /\ stored' = IF Keeps THEN v ELSE stored

Enter(call) ==
  /\ pc' = call
  /\ driveStart' = Pos
  /\ allStart' = pos
  /\ UNCHANGED <<result, reported, short, failed>>

Write(v) ==
  /\ pc = "idle"
  /\ IF phase = "done"
     THEN Ok(0) /\ UNCHANGED <<value, stored>>
     ELSE Store(v) /\ Enter("write")
  /\ UNCHANGED <<phase, headerCursor, body, bodyCursor, started, broken, pos,
                 out, kept, limit, strict>>

WriteAll(v) ==
  /\ pc = "idle"
  /\ Store(v)
  /\ IF phase = "done" THEN Ok(0) ELSE Enter("write_all")
  /\ UNCHANGED <<phase, headerCursor, body, bodyCursor, started, broken, pos,
                 out, kept, limit, strict>>

-----------------------------------------------------------------------------
(* The loop of drive *)

Driving == pc \in {"write", "write_all"}

\* (Mutant of HeaderAccepts: the header is copied whatever the room.)
HeaderAcceptsAll(n) == n

HeaderAccepts(n) == IF n <= Room THEN n ELSE IF strict THEN 0 ELSE Room

\* (Mutant of HeaderWhole: a partial header counts as written.)
HeaderWholeUnchecked(n) == TRUE

HeaderWhole(n) == n <= Room

\* The header: a partial write ends the call, a strict sink errs.
PutHeader ==
  LET remaining == Len(Header) - headerCursor
      n == HeaderAccepts(remaining)
  IN  /\ Driving /\ phase = "header"
      /\ Takes(SubSeq(Header, headerCursor + 1, headerCursor + n))
      /\ headerCursor' = headerCursor + n
      /\ IF HeaderWhole(remaining)
         THEN phase' = "body" /\ UNCHANGED <<pos, callVars>>
         ELSE /\ UNCHANGED phase
              /\ IF strict THEN Fail("error") ELSE Break(FALSE)
      /\ UNCHANGED <<bodyVars, limit, strict, stored>>

\* (Mutant of MarkStarted: the next call feeds the serializer again.)
MarkStartedForgotten == UNCHANGED started

\* The serializer holds an unfinished value: the next calls poll it.
MarkStarted == started' = TRUE

\* The serializer's answer once it holds v: Ready ends the archive, Pending
\* ends the call, and an error leaves `started` as it is.
Serialize(v) ==
  \E from \in Resumes(v) :
    /\ body' = v
    /\ bodyCursor' \in BodyReaches(v, from)
    /\ Takes(SubSeq(Bytes(v), from + 1, bodyCursor'))
    /\ \/ /\ BodyWhole(v, from) /\ ~Errs(v, from)
          /\ phase' = "done"
          /\ MarkStarted
          /\ Break(TRUE)
          /\ UNCHANGED broken
       \/ /\ ~BodyWhole(v, from) /\ ~strict
          /\ MarkStarted
          /\ Break(FALSE)
          /\ UNCHANGED <<phase, broken>>
       \/ /\ IF BodyWhole(v, from) THEN Errs(v, from) ELSE strict
          /\ broken' = TRUE
          /\ Fail("error")
          /\ UNCHANGED <<phase, started>>

Feed ==
  /\ Driving /\ phase = "body" /\ ~started
  /\ value # None
  /\ value' = None
  /\ Serialize(value)
  /\ UNCHANGED <<headerCursor, limit, strict, stored>>

\* The value was handed over by a call that failed: it is gone.
FeedNothing ==
  /\ Driving /\ phase = "body" /\ ~started
  /\ value = None
  /\ Fail("taken")
  /\ UNCHANGED <<phase, headerCursor, bodyVars, out, kept, limit, strict, stored>>

Poll ==
  /\ Driving /\ phase = "body" /\ started
  /\ Serialize(body)
  /\ UNCHANGED <<headerCursor, value, limit, strict, stored>>

-----------------------------------------------------------------------------

Init ==
  /\ phase = "header"
  /\ headerCursor = 0
  /\ value = None
  /\ body = None
  /\ bodyCursor = 0
  /\ started = FALSE
  /\ broken = FALSE
  /\ pos = Base
  /\ out = << >>
  /\ limit \in Base .. MaxPos
  /\ strict \in BOOLEAN
  /\ pc = "idle"
  /\ driveStart = Base
  /\ allStart = Base
  /\ result = "none"
  /\ stored = None
  /\ kept = 0
  /\ reported = 0
  /\ short = FALSE
  /\ failed = FALSE

DriveStep ==
  \/ PutHeader
  \/ Feed
  \/ FeedNothing
  \/ Poll

Next ==
  \/ \E v \in Values : Write(v)
  \/ \E v \in Values : WriteAll(v)
  \/ DriveStep
  \/ Grant

Spec == Init /\ [][Next]_writerVars

\* The caller loops until is_finished(), making room as it goes.
Retry == phase # "done" /\ \E v \in Values : Write(v)

Fairness ==
  /\ WF_writerVars(DriveStep)
  /\ WF_writerVars(Retry)
  /\ SF_writerVars(phase # "done" /\ Grant)

FairSpec == Spec /\ Fairness

-----------------------------------------------------------------------------
(* Properties *)

TypeOK ==
  /\ phase \in {"header", "body", "done"}
  /\ headerCursor \in 0 .. Len(Header)
  /\ value \in Values \cup {None}
  /\ body \in Values \cup {None}
  /\ bodyCursor \in Nat
  /\ started \in BOOLEAN
  /\ broken \in BOOLEAN
  /\ pos \in Base .. MaxPos
  /\ out \in Seq(0 .. 255)
  /\ limit \in Base .. MaxPos
  /\ strict \in BOOLEAN
  /\ Pos <= limit
  /\ pc \in {"idle", "write", "write_all"}
  /\ driveStart \in Base .. MaxPos
  /\ allStart \in Base .. MaxPos
  /\ result \in {"none", "ok", "too_small", "error", "taken"}
  /\ stored \in Values \cup {None}
  /\ kept \in 0 .. Len(out)
  /\ reported \in 0 .. MaxPos
  /\ short \in BOOLEAN
  /\ failed \in BOOLEAN

Stream == INSTANCE ByteStream WITH
  enc <- IF stored = None THEN << >> ELSE Header \o Bytes(stored),
  sent <- SubSeq(out, 1, kept),
  done <- phase = "done" /\ ~broken

\* However the writing is cut into calls, whatever values the later calls pass
\* and whatever error of the sink or of the order of calls ends one of them, the
\* sink holds a prefix of the archive of the first value, and is_finished() says
\* that it holds all of it.  When the serializer of the value errs the promise
\* ends: what the sink held then it keeps, but a later call may finish without
\* the element that erred.
StreamsTheArchive == Stream!Spec

\* written() is the sink's position as long as no call has failed, and the
\* counts that write and write_all returned add up to the bytes in the sink,
\* but for those a write_all that gave up leaves uncounted.
CountsAddUp ==
  pc = "idle" /\ ~failed => /\ pos = Pos
                            /\ short \/ reported = Len(out)

\* write_all returns Ok only behind the last byte of the archive, unless the
\* serializer of the value has erred before, and BufferTooSmall only when the
\* sink is full and the archive is not finished.
WriteAllIsAll ==
  [][/\ pc = "write_all" /\ pc' = "idle"
     => /\ result' = "ok" /\ ~broken' => out' = Header \o Bytes(stored)
        /\ result' = "too_small" => Pos' = limit /\ phase' # "done"]_writerVars

\* write_all returns: it does not drive for ever into a sink without room.
WriteAllReturns == pc = "write_all" ~> pc = "idle"

\* A caller that repeats write and makes room gets its archive finished: the
\* value it gave first is never taken without being written, and no call drives
\* the serializer in a way that stops short of the end.
EventuallyFinished ==
  stored # None /\ ~Errs(stored, 0) /\ ~strict ~> phase = "done"
=============================================================================
