------------------------------ MODULE OneShot ------------------------------
(***************************************************************************)
(* The one-shot functions on top of the sinks: serialize and               *)
(* serialize_into write to a VecSerializer (write.rs), serialize_to to a   *)
(* WriteSerializer (lib.rs).  The header, then the body, then finish, each *)
(* of their writes a Request of module Storage; the first error ends the   *)
(* call.  Neither sink takes a part of a request, so that the poll loop    *)
(* runs only if a body asks for it.                                        *)
(***************************************************************************)
EXTENDS Storage, SequencesExt

CONSTANTS
  Header,   \* the bytes of the archive header, of set Byte
  Bodies    \* what body serializers write: sequences of requests

VARIABLES
  body,     \* the requests the body serializer still has to make
  wanted,   \* all of the archive
  phase     \* "header", "body", "polling", "finish", "ok" or "err"

oneShotVars == <<vars, body, wanted, phase>>

\* A new VecSerializer or WriteSerializer.
OneShotInit ==
  /\ Init
  /\ Kind \in {"vec", "writer"} /\ Base = 0
  /\ body \in Bodies
  /\ wanted = Header \o FlattenSeq(body)
  /\ phase = "header"

\* writer.write(header)
WriteHeader ==
  /\ phase = "header"
  /\ Request(Header)
  /\ phase' = "body"
  /\ UNCHANGED <<body, wanted>>

\* The body serializer's input or poll_pending: it may make requests, pend in
\* between, or answer Ready when it has made them, all or all but one that
\* finish makes (the terminator of a collection that was never fed).
BodyDone == Len(body) <= 1

Call == phase \in {"body", "polling"}

BodyWrites ==
  /\ Call
  /\ body # << >>
  /\ Request(Head(body))
  /\ body' = Tail(body)
  /\ UNCHANGED <<wanted, phase>>

BodyPends ==
  /\ Call
  /\ ~BodyDone
  /\ phase' = "polling"
  /\ UNCHANGED <<vars, body, wanted>>

BodyReady ==
  /\ Call
  /\ BodyDone
  /\ phase' = "finish"
  /\ UNCHANGED <<vars, body, wanted>>

\* A value the body serializer refuses: the call returns its error and leaves
\* what was written.
BodyFails ==
  /\ Call
  /\ body # << >>
  /\ phase' = "err"
  /\ UNCHANGED <<vars, body, wanted>>

\* finish, and Ok with the vector or with the position of the sink.
Return ==
  /\ phase = "finish"
  /\ phase' = "ok"
  /\ Request(IF body = << >> THEN << >> ELSE Head(body))
  /\ body' = << >>
  /\ UNCHANGED wanted

OneShotNext ==
  \/ WriteHeader
  \/ BodyWrites
  \/ BodyPends
  \/ BodyReady
  \/ BodyFails
  \/ Return

OneShotSpec == OneShotInit /\ [][OneShotNext]_oneShotVars

-----------------------------------------------------------------------------
(* Properties *)

\* Where the archive has gone to.
Output == IF Kind = "vec" THEN buf ELSE file

\* When the function returns Ok, the vector or the writer holds the whole
\* archive and nothing else (io/storage.rs, lib.rs).
OkMeansWhole == phase = "ok" => Output = wanted
=============================================================================
