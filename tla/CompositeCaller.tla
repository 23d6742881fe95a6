-------------------------- MODULE CompositeCaller --------------------------
(***************************************************************************)
(* The caller of a serializer, at the top of the tree: input once, poll    *)
(* while it pends, then finish; room is granted between the calls.         *)
(***************************************************************************)
EXTENDS Integers, Sequences

CONSTANTS
  ChunkSize, \* DEFAULT_CHUNK_SIZE, elements per index block
  MaxPos,    \* bound: the last position a sink may reach
  Cases,     \* what is serialized: records [ty, val, base, enc]
  Method(_)  \* what the methods of the types answer

ASSUME BoundsAssumption == ChunkSize \in Nat \ {0} /\ MaxPos \in Nat

INSTANCE CompositeStates

VARIABLES
  case,     \* what is serialized
  ser,      \* the serializer
  sink,     \* [base, out, limit, strict]
  result    \* "new", what the last call returned, or "finished"

vars == <<case, ser, sink, result>>

Init ==
  /\ case \in Cases
  /\ ser = New(case.ty)
  /\ \E l \in case.base .. MaxPos, strict \in BOOLEAN :
       sink = [base |-> case.base, out |-> << >>, limit |-> l, strict |-> strict]
  /\ result = "new"

Returned(a) ==
  /\ ser' = a.s
  /\ sink' = a.sink
  /\ result' = a.r
  /\ UNCHANGED case

CallInput ==
  /\ result = "new"
  /\ Returned(Input(case.ty, ser, case.val, sink))

CallPoll ==
  /\ result = "pending"
  /\ Returned(Poll(case.ty, ser, sink))

\* A container polls again what has answered Ready, so anybody may.
PollAgain ==
  /\ result = "ready"
  /\ Returned(Poll(case.ty, ser, sink))

CallFinish ==
  /\ result = "ready"
  /\ sink' = Finish(case.ty, ser, sink).sink
  /\ ser' = << >>
  /\ result' = "finished"
  /\ UNCHANGED case

\* The caller gives up after an error; after Pending it makes room.
Grant ==
  /\ result = "pending"
  /\ \E l \in sink.limit + 1 .. MaxPos : sink' = [sink EXCEPT !.limit = l]
  /\ UNCHANGED <<case, ser, result>>

Next ==
  \/ CallInput
  \/ CallPoll
  \/ PollAgain
  \/ CallFinish
  \/ Grant

Spec == Init /\ [][Next]_vars

-----------------------------------------------------------------------------
(* Properties *)

\* The sink is never written past its room, and a record always finds the value
\* of a field it has not begun: no call panics with "field already consumed or
\* slot is empty" (macro_helpers.rs:113).
TypeOK ==
  /\ case \in Cases
  /\ sink.base = case.base
  /\ sink.out \in Seq(0 .. 255)
  /\ SinkPos(sink) <= sink.limit /\ sink.limit <= MaxPos
  /\ sink.strict \in BOOLEAN
  /\ result \in {"new", "ready", "pending", "error", "finished"}

Stream == INSTANCE ByteStream WITH
  enc <- IF result = "new" THEN << >> ELSE case.enc,
  sent <- sink.out,
  done <- result \in {"ready", "finished"}

\* A serializer of any nesting streams the one encoding of its value, whatever
\* room the calls find.  Ready means that all of it is written, at every level
\* of the nesting ("`Ok(Poll::Ready(()))`: The current input item has been fully
\* serialized and written", traits.rs:296), and whoever polls the serializer
\* once more or finishes it then adds nothing.
StreamsTheEncoding == Stream!Spec

\* Pending is answered only when the sink is full and bytes are missing, so a
\* caller that makes room always gets further.
PendingMeansFull ==
  [][result' = "pending" /\ sink'.limit = sink.limit
       => /\ SinkPos(sink') = sink'.limit
          /\ Len(sink'.out) < Len(case.enc)]_vars

\* measure_body announces what the serializer writes, finish included
\* (traits.rs:422, MeasureBody).
AnnouncedLength ==
  result = "finished" => Len(sink.out) = MeasureBody(case.ty, case.val)

\* The bytes in the sink and those the state has left to write are the encoding;
\* a serializer that is ready has none left, not even for finish, and one that
\* pends has some.
IInv ==
  /\ TypeOK
  /\ result = "new" => Idle(case.ty, ser) /\ sink.out = << >>
  /\ result \in {"ready", "pending"} =>
       /\ Going(case.ty, ser)
       /\ sink.out \o Rest(case.ty, ser, SinkPos(sink)) = case.enc
       /\ result = "ready" <=> Rest(case.ty, ser, SinkPos(sink)) = << >>
  /\ result = "ready" => Ended(case.ty, ser)
  /\ result = "pending" => ~sink.strict
  /\ result = "error" => sink.strict /\ IsPrefix(sink.out, case.enc)
  /\ result = "finished" => sink.out = case.enc
=============================================================================
