------------------------ MODULE OwnedIterSerializer ------------------------
(***************************************************************************)
(* The serializer of a whole collection (archive/iter/serialize.rs, and    *)
(* RefIterSerializer of archive/slice.rs, which is the same loop over a    *)
(* borrowed slice).  It draws the elements from an iterator and drives the *)
(* sequence serializer, whose steps are those of SeqSerializer; what it    *)
(* promises is the byte stream of the collection's encoding.               *)
(***************************************************************************)
EXTENDS SeqSerializer

CONSTANT MaxInputs   \* bound: the collections one serializer is given

\* Bound: the collections of at most MaxElements elements.
Collections == UNION {[1 .. n -> Items] : n \in 0 .. MaxElements}

ASSUME OwnedAssumption ==
  /\ MaxInputs \in Nat
  /\ None \notin Collections

VARIABLES
  source,   \* the collection given by the last `input`, None before
  iter,     \* what the iterator has not yielded yet
  inputs,   \* history: how many collections `input` was given
  stage,    \* "idle", or what the running call waits for: the answer of
            \* seq_serializer.poll_pending ("polling"), of its input or
            \* finish_ref ("feeding"), or of its finish ("closing")
  outcome   \* what the last call returned; "closed" after finish

ownerVars == <<source, iter, inputs, stage, outcome>>
ownedVars == <<vars, ownerVars>>

-----------------------------------------------------------------------------
(* The calls *)

\* The caller may hand over another collection once it saw `Ready`.
OwnedInput(collection) ==
  /\ stage = "idle"
  /\ outcome \in {"none", "ready", "unfed"}
  /\ inputs < MaxInputs
  /\ source' = collection
  /\ iter' = collection
  /\ inputs' = inputs + 1
  /\ stage' = "polling"
  /\ PollPending
  /\ UNCHANGED outcome

\* The caller does not come back after an error.
OwnedPollPending ==
  /\ stage = "idle"
  /\ IF source = None
     THEN /\ outcome' = "unfed"
          /\ UNCHANGED <<vars, stage>>
     ELSE /\ outcome \in {"pending", "ready"}
          /\ stage' = "polling"
          /\ PollPending
          /\ UNCHANGED outcome
  /\ UNCHANGED <<source, iter, inputs>>

\* finish consumes the serializer; the caller has seen `Ready`.
OwnedFinish ==
  /\ stage = "idle"
  /\ outcome = "ready"
  /\ stage' = "closing"
  /\ FinishRef
  /\ UNCHANGED <<source, iter, inputs, outcome>>

OwnedGrant ==
  /\ stage = "idle"
  /\ Grant
  /\ UNCHANGED ownerVars

-----------------------------------------------------------------------------
(* The loop of poll_pending *)

Answered(stages) == stage \in stages /\ pc = "idle"

OwnedReturn(r) ==
  /\ stage' = "idle"
  /\ outcome' = r
  /\ UNCHANGED <<vars, source, iter, inputs>>

\* (Mutant of IsFinished: a flushed sequence passes for a finished one.)
IsFlushed == markerCursor = 1 /\ indexCursor >= Len(indexBuf)

IsFinished == finished /\ markerCursor = 1 /\ indexCursor >= Len(indexBuf)

\* Anything but `Ready` ends the call, an error as well as `Pending`.
Relay ==
  /\ Answered({"polling", "feeding", "closing"})
  /\ result # "ready"
  /\ OwnedReturn(IF result = "pending" THEN "pending" ELSE "error")

Completed ==
  /\ Answered({"polling"})
  /\ result = "ready"
  /\ IsFinished
  /\ OwnedReturn("ready")

MayFeed == Answered({"polling"}) /\ result = "ready" /\ ~IsFinished /\ ~finished

FeedNext ==
  /\ MayFeed
  /\ iter # << >>
  /\ iter' = Tail(iter)
  /\ stage' = "feeding"
  /\ Input(Head(iter))
  /\ UNCHANGED <<source, inputs, outcome>>

FeedEnd ==
  /\ MayFeed
  /\ iter = << >>
  /\ stage' = "feeding"
  /\ FinishRef
  /\ UNCHANGED <<source, iter, inputs, outcome>>

LoopAgain ==
  /\ Answered({"feeding"})
  /\ result = "ready"
  /\ stage' = "polling"
  /\ PollPending
  /\ UNCHANGED <<source, iter, inputs, outcome>>

Closed ==
  /\ Answered({"closing"})
  /\ result = "ready"
  /\ OwnedReturn("closed")

\* The serializer is gone, or its caller has given up: nothing happens.
Gone ==
  /\ stage = "idle"
  /\ outcome \in {"closed", "error"}
  /\ UNCHANGED ownedVars

-----------------------------------------------------------------------------

OwnedInit ==
  /\ Init
  /\ source = None
  /\ iter = << >>
  /\ inputs = 0
  /\ stage = "idle"
  /\ outcome = "none"

\* What happens inside a call, without the caller.
OwnedStep ==
  \/ Step /\ UNCHANGED ownerVars
  \/ Relay
  \/ Completed
  \/ FeedNext
  \/ FeedEnd
  \/ LoopAgain
  \/ Closed

OwnedNext ==
  \/ \E collection \in Collections : OwnedInput(collection)
  \/ OwnedPollPending
  \/ OwnedFinish
  \/ OwnedGrant
  \/ OwnedStep
  \/ Gone

\* A call runs to its end; a caller that saw `Pending` polls again, and does
\* not poll for ever without making room as long as the bound leaves some.
OwnedFairness ==
  /\ WF_ownedVars(OwnedStep)
  /\ WF_ownedVars(outcome = "pending" /\ OwnedPollPending)
  /\ SF_ownedVars(outcome = "pending" /\ OwnedGrant)

OwnedSpec == OwnedInit /\ [][OwnedNext]_ownedVars /\ OwnedFairness

-----------------------------------------------------------------------------
(* The encoding of a collection, defined from its layout *)

\* The bytes once the next element is behind them: its marker, the padding of
\* its payload and the payload.
After(bytes, item) ==
  bytes \o <<1>>
        \o (IF FixedSize THEN Zeros(Padding(Base + Len(bytes) + 1)) ELSE << >>)
        \o item

\* Bodies(collection)[n]: the bytes of the first n elements.
Bodies(collection) ==
  LET body[n \in 0 .. Len(collection)] ==
        IF n = 0 THEN << >> ELSE After(body[n - 1], collection[n])
  IN  body

\* Where the blocks start, counted from the first element.
BlockOffsets(collection) ==
  [j \in 1 .. (Len(collection) + ChunkSize - 1) \div ChunkSize |->
     Len(Bodies(collection)[(j - 1) * ChunkSize])]

IndexHeader(blocks) ==
  <<Magic>> \o SerializeU64(ChunkSize) \o SerializeU64(blocks)

\* How far the block j starts behind the one before.
Distance(offsets, j) == offsets[j] - (IF j = 1 THEN 0 ELSE offsets[j - 1])

\* Indexes(offsets)[n]: the index with the first n of its distances.
Indexes(offsets) ==
  LET index[n \in 0 .. Len(offsets)] ==
        IF n = 0 THEN IndexHeader(Len(offsets))
        ELSE index[n - 1] \o SerializeU64(Distance(offsets, n))
  IN  index

BlockIndex(collection) ==
  IF EnableIndex /\ Len(collection) > ChunkSize
  THEN LET offsets == BlockOffsets(collection)
       IN  Indexes(offsets)[Len(offsets)]
  ELSE << >>

Body(collection) == Bodies(collection)[Len(collection)]

Encoding(collection) == Body(collection) \o <<0>> \o BlockIndex(collection)

-----------------------------------------------------------------------------
(* Properties *)

Stream == INSTANCE ByteStream WITH
  enc <- IF source = None THEN << >> ELSE Encoding(source),
  sent <- out,
  done <- outcome \in {"ready", "closed"}

\* Whatever room the caller grants and however often it polls, the sink gets
\* the bytes of the collection's encoding and no others, in order, none twice,
\* and `Ready` and finish come only behind the last of them.
StreamsTheEncoding == Stream!Spec

\* The iterator yields an element only when all the earlier ones are in the
\* sink: at most one element of the collection is held ("drops each element
\* after encoding", iter/serialize.rs:85).
OneElementHeld ==
  source # None /\ Len(accepted) > 1
    => EndOf(accepted[Len(accepted) - 1]) <= Pos

\* `Ready` for a collection means that each of its elements was fed, in order
\* and none twice, and that nothing of them, of the terminator or of the index
\* is still to be written, however often the loop was left and entered again.
ReadyIsWhole ==
  inputs = 1 /\ outcome \in {"ready", "closed"}
    => /\ finished /\ Unsent = 0
       /\ source = [k \in 1 .. Len(accepted) |-> accepted[k].val]

\* A caller that makes room and polls again gets the collection written; a sink
\* that refuses a write ends the call with its error.
EventuallyReady ==
  source # None ~> \/ outcome \in {"ready", "closed"}
                   \/ strict /\ outcome = "error"
=============================================================================
