------------------------- MODULE ArchiveWriterProofs -------------------------
(***************************************************************************)
(* The archive writer streams the archive of the first value and counts    *)
(* its bytes, for every header, every set of values, every sink and every  *)
(* sequence of calls.                                                      *)
(*                                                                         *)
(* TypeOK and CountsAddUp say nothing of where the writer is in the        *)
(* archive, nor of a call under way.  The invariant adds both: InHeader    *)
(* and InBody tell what the sink holds from the phase and the two cursors  *)
(* and who owns the value, as long as the serializer has not erred; Kept   *)
(* what the sink held when it did; Counted where the two counts of a       *)
(* running call begin.                                                     *)
(***************************************************************************)
EXTENDS ArchiveWriter, SequenceTheorems, TLAPS

\* Before the body: the value is the writer's and the sink holds the header
\* up to its cursor.
InHeader ==
  phase = "header" => /\ body = None
                      /\ value = stored
                      /\ out = SubSeq(Header, 1, headerCursor)
                      /\ stored = None => headerCursor = 0

\* Behind the header: the value is the writer's or its serializer's, and
\* unless that has erred the sink holds the header and the body up to its cursor.
InBody ==
  /\ phase # "header" => stored # None
  /\ phase # "header" /\ body = None => value = stored /\ out = Header
  /\ body = None => bodyCursor = 0 /\ ~started /\ ~broken
  /\ body # None => /\ value = None
                    /\ body = stored
                    /\ bodyCursor <= Len(Bytes(body))
                    /\ ~broken => out = Header \o SubSeq(Bytes(body), 1, bodyCursor)
  /\ phase = "done" => body # None
  /\ phase = "done" /\ ~broken => bodyCursor = Len(Bytes(body))
  /\ Driving => stored # None

\* What the sink held when the serializer erred was right, and it is still there.
Kept ==
  /\ ~broken => kept = Len(out)
  /\ broken => Stream!IsPrefix(SubSeq(out, 1, kept), Header \o Bytes(stored))

\* What was reported ends at or before what is being counted.
Counted ==
  /\ pos <= Pos
  /\ Base + reported <= pos
  /\ pc = "write" => driveStart <= Pos /\ Base + reported <= driveStart
  /\ pc = "write_all" => allStart <= pos /\ Base + reported <= allStart
  /\ ~failed =>
       /\ pc = "idle" => pos = Pos
       /\ pc = "idle" /\ ~short => reported = Len(out)
       /\ pc = "write" /\ ~short => Base + reported = driveStart
       /\ pc = "write_all" /\ ~short => Base + reported = allStart

IInv ==
  /\ TypeOK
  /\ InHeader
  /\ InBody
  /\ Kept
  /\ Counted

\* TypeOK in two halves: what drive's arms change, and what leaving it does.
DataOK ==
  /\ phase \in {"header", "body", "done"}
  /\ headerCursor \in 0 .. Len(Header)
  /\ value \in Values \cup {None}
  /\ body \in Values \cup {None}
  /\ bodyCursor \in Nat
  /\ started \in BOOLEAN
  /\ broken \in BOOLEAN
  /\ out \in Seq(0 .. 255)
  /\ limit \in Base .. MaxPos
  /\ strict \in BOOLEAN
  /\ Pos <= limit
  /\ stored \in Values \cup {None}
  /\ kept \in 0 .. Len(out)

CallOK ==
  /\ pos \in Base .. MaxPos
  /\ pc \in {"idle", "write", "write_all"}
  /\ driveStart \in Base .. MaxPos
  /\ allStart \in Base .. MaxPos
  /\ result \in {"none", "ok", "too_small", "error", "taken"}
  /\ reported \in 0 .. MaxPos
  /\ short \in BOOLEAN
  /\ failed \in BOOLEAN

LEMMA TypeHalves == TypeOK <=> DataOK /\ CallOK
  BY DEF TypeOK, DataOK, CallOK

-----------------------------------------------------------------------------
(* Sequences *)

\* Two neighbouring pieces of a sequence.
LEMMA PiecesMeet ==
  ASSUME NEW S, NEW s \in Seq(S), NEW i \in 0 .. Len(s), NEW j \in i .. Len(s)
  PROVE  /\ SubSeq(s, 1, i) \in Seq(S)
         /\ Len(SubSeq(s, 1, i)) = i
         /\ SubSeq(s, i + 1, j) \in Seq(S)
         /\ Len(SubSeq(s, i + 1, j)) = j - i
         /\ SubSeq(s, 1, i) \o SubSeq(s, i + 1, j) = SubSeq(s, 1, j)
  OBVIOUS

\* The same behind a header.
LEMMA PiecesMeetBehind ==
  ASSUME NEW S, NEW h \in Seq(S), NEW s \in Seq(S),
         NEW i \in 0 .. Len(s), NEW j \in i .. Len(s)
  PROVE  (h \o SubSeq(s, 1, i)) \o SubSeq(s, i + 1, j) = h \o SubSeq(s, 1, j)
<1> DEFINE p == SubSeq(s, 1, i)
           q == SubSeq(s, i + 1, j)
<1>1. p \in Seq(S) /\ q \in Seq(S)
  BY PiecesMeet
<1>2. p \o q = SubSeq(s, 1, j)
  BY PiecesMeet
<1> HIDE DEF p, q
<1>3. (h \o p) \o q = h \o (p \o q)
  BY <1>1
<1>4. QED
  BY <1>2, <1>3 DEF p, q

\* Two sequences one after the other.
LEMMA Joined ==
  ASSUME NEW S, NEW s \in Seq(S), NEW t \in Seq(S)
  PROVE  s \o t \in Seq(S) /\ Len(s \o t) = Len(s) + Len(t)
  OBVIOUS

\* A whole sequence is its longest prefix, and it has an empty one.
LEMMA WholePiece ==
  ASSUME NEW S, NEW s \in Seq(S)
  PROVE  SubSeq(s, 1, Len(s)) = s /\ SubSeq(s, 1, 0) = << >>
  OBVIOUS

\* The prefixes the writer goes through.
LEMMA Prefixes ==
  ASSUME NEW S, NEW h \in Seq(S), NEW b \in Seq(S)
  PROVE  /\ Stream!IsPrefix(h, h \o b)
         /\ \A k \in 0 .. Len(h) : Stream!IsPrefix(SubSeq(h, 1, k), h \o b)
         /\ \A n \in 0 .. Len(b) : Stream!IsPrefix(h \o SubSeq(b, 1, n), h \o b)
<1>1. Stream!IsPrefix(h, h \o b)
  BY DEF Stream!IsPrefix
<1>2. ASSUME NEW k \in 0 .. Len(h)
      PROVE  Stream!IsPrefix(SubSeq(h, 1, k), h \o b)
  BY DEF Stream!IsPrefix
<1>3. ASSUME NEW n \in 0 .. Len(b)
      PROVE  Stream!IsPrefix(h \o SubSeq(b, 1, n), h \o b)
  BY DEF Stream!IsPrefix
<1>4. QED
  BY <1>1, <1>2, <1>3

\* What a sequence begins with it keeps when it grows.
LEMMA HeldStays ==
  ASSUME NEW S, NEW s \in Seq(S), NEW t \in Seq(S), NEW k \in 0 .. Len(s)
  PROVE  /\ SubSeq(s \o t, 1, k) = SubSeq(s, 1, k)
         /\ \A n \in k .. Len(s \o t) :
              Stream!IsPrefix(SubSeq(s, 1, k), SubSeq(s \o t, 1, n))
<1>1. s \o t \in Seq(S) /\ Len(s \o t) = Len(s) + Len(t) /\ Len(t) \in Nat
  OBVIOUS
<1>2. SubSeq(s \o t, 1, k) = SubSeq(s, 1, k)
  OBVIOUS
<1>3. ASSUME NEW r \in Seq(S), NEW n \in k .. Len(r), k <= Len(r)
      PROVE  Stream!IsPrefix(SubSeq(r, 1, k), SubSeq(r, 1, n))
  BY <1>3 DEF Stream!IsPrefix
<1>4. k <= Len(s \o t)
  BY <1>1
<1>5. QED
  BY <1>1, <1>2, <1>3, <1>4

-----------------------------------------------------------------------------
(* Leaving drive *)

\* The sink may have taken more, within its room.
More == /\ out' \in Seq(0 .. 255)
        /\ Len(out) <= Len(out')
        /\ Base + Len(out') <= limit

\* What the sink took stays where it is.
Appended == \E t \in Seq(0 .. 255) : Takes(t)

\* What the sink held at the serializer's error, it goes on holding.
LEMMA TakesKept ==
  ASSUME DataOK, Kept, Appended
  PROVE  /\ kept' \in 0 .. Len(out')
         /\ Stream!IsPrefix(SubSeq(out, 1, kept), SubSeq(out', 1, kept'))
         /\ broken => SubSeq(out', 1, kept') = SubSeq(out, 1, kept)
         /\ ~broken => kept' = Len(out')
<1>1. PICK t \in Seq(0 .. 255) : Takes(t)
  BY DEF Appended
<1>2. /\ out \in Seq(0 .. 255) /\ kept \in 0 .. Len(out)
      /\ out' = out \o t
      /\ kept' = IF broken THEN kept ELSE Len(out')
      /\ ~broken => kept = Len(out)
      /\ broken \in BOOLEAN
  BY <1>1 DEF Takes, DataOK, Kept
<1>3. Len(out') = Len(out) + Len(t) /\ Len(t) \in Nat /\ Len(out) \in Nat
  BY <1>2
<1>4. kept' \in kept .. Len(out')
  BY <1>2, <1>3
<1>5. /\ SubSeq(out \o t, 1, kept) = SubSeq(out, 1, kept)
      /\ \A n \in kept .. Len(out \o t) :
           Stream!IsPrefix(SubSeq(out, 1, kept), SubSeq(out \o t, 1, n))
  BY <1>2, HeldStays
<1>6. QED
  BY <1>2, <1>3, <1>4, <1>5

\* The counts over the end of a drive.
LEMMA BreakCounts ==
  ASSUME DataOK, CallOK, Counted, Driving, More, NEW f \in BOOLEAN, Break(f)
  PROVE  CallOK' /\ Counted'
<1> USE WriterAssumption DEF Pos, Driving
<1>1. /\ Base \in Nat /\ Len(out) \in Nat /\ Len(out') \in Nat
      /\ limit \in Nat /\ limit <= MaxPos /\ MaxPos \in Nat
  BY DEF DataOK, More
<1>2. pos' = Base + Len(out') /\ pos' \in Base .. MaxPos /\ pos' = Pos'
  BY <1>1 DEF Break, More
<1>3. Base + Len(out) <= pos'
  BY <1>1, <1>2 DEF More
<1>4. CASE pc = "write" \/ f
  <2>1. Ok(pos' - CountedFrom)
    BY <1>4 DEF Break
  <2>2. /\ CountedFrom \in Base .. MaxPos
        /\ CountedFrom <= pos'
        /\ Base + reported <= CountedFrom
        /\ ~failed /\ ~short => Base + reported = CountedFrom
    BY <1>1, <1>2, <1>3 DEF CountedFrom, CallOK, Counted
  <2>3. reported' = reported + (pos' - CountedFrom)
    BY <2>1 DEF Ok
  <2>4. /\ reported' \in Nat /\ Base + reported' <= pos'
        /\ ~failed /\ ~short => Base + reported' = pos'
    BY <1>1, <1>2, <2>2, <2>3, SMTT(60) DEF CallOK
  <2>5. reported' \in 0 .. MaxPos
    BY <1>1, <1>2, <2>4
  <2>6. CallOK'
    BY <2>1, <2>5, <1>2 DEF Ok, CallOK
  <2>7. Counted'
    BY <2>1, <2>4, <1>1, <1>2 DEF Ok, Counted
  <2>8. QED
    BY <2>6, <2>7
<1>5. CASE ~(pc = "write" \/ f) /\ Stuck
  <2>1. /\ pc' = "idle" /\ result' = "too_small" /\ short' = TRUE
        /\ UNCHANGED <<driveStart, allStart, reported, failed>>
    BY <1>5 DEF Break
  <2>2. pos' = pos
    BY <1>5 DEF Stuck
  <2>3. CallOK'
    BY <2>1, <1>2 DEF CallOK
  <2>4. Counted'
    BY <2>1, <2>2, <1>1, <1>2 DEF Counted
  <2>5. QED
    BY <2>3, <2>4
<1>6. CASE ~(pc = "write" \/ f) /\ ~Stuck
  <2>1. /\ driveStart' = pos'
        /\ UNCHANGED <<pc, allStart, result, reported, short, failed>>
    BY <1>6 DEF Break
  <2>2. CallOK'
    BY <2>1, <1>2 DEF CallOK
  <2>3. pc = "write_all" /\ pc' = "write_all"
    BY <1>6, <2>1
  <2>4. pos \in Int /\ pos <= Base + Len(out) /\ reported \in Int
    BY DEF Counted, CallOK
  <2>5. Counted'
    BY <2>1, <2>3, <2>4, <1>1, <1>2, <1>3 DEF Counted, CallOK
  <2>6. QED
    BY <2>2, <2>5
<1>7. QED
  BY <1>4, <1>5, <1>6

\* The counts when a call fails: its bytes are in the sink, but not in pos.
LEMMA FailCounts ==
  ASSUME DataOK, CallOK, Counted, Driving, More,
         NEW why \in {"error", "taken"}, Fail(why)
  PROVE  CallOK' /\ Counted'
<1> USE WriterAssumption DEF Pos, Driving
<1>1. Len(out) \in Nat /\ Len(out') \in Nat /\ Len(out) <= Len(out')
  BY DEF DataOK, More
<1>2. CallOK'
  BY DEF Fail, CallOK
<1>3. /\ pc' = "idle" /\ failed' = TRUE
      /\ UNCHANGED <<pos, reported>>
  BY DEF Fail
<1>4. Counted'
  BY <1>1, <1>3 DEF Counted, CallOK
<1>5. QED
  BY <1>2, <1>4

\* The counts when drive goes on.
LEMMA DriveOnCounts ==
  ASSUME DataOK, CallOK, Counted, Driving, More, UNCHANGED <<pos, callVars>>
  PROVE  CallOK' /\ Counted'
<1> USE WriterAssumption DEF Pos, Driving
<1>1. Len(out) \in Nat /\ Len(out') \in Nat /\ Len(out) <= Len(out')
  BY DEF DataOK, More
<1>2. UNCHANGED <<pos, pc, driveStart, allStart, result, reported, short, failed>>
  BY DEF callVars
<1>3. CallOK'
  BY <1>2 DEF CallOK
<1>4. Counted'
  BY <1>1, <1>2 DEF Counted, CallOK
<1>5. QED
  BY <1>3, <1>4

-----------------------------------------------------------------------------
(* What a call of the serializer brings to the sink *)

\* The serializer goes on at from, as far as the sink has room.
LEMMA ReachesOn ==
  ASSUME DataOK, NEW v \in Values, bodyCursor <= Len(Bytes(v)),
         NEW from \in Resumes(v), NEW n \in BodyReaches(v, from)
  PROVE  /\ from \in Nat /\ from <= n /\ n \in 0 .. Len(Bytes(v))
         /\ ~broken => from = bodyCursor
         /\ n <= from + Room
         /\ BodyWhole(v, from) /\ ~Errs(v, from) => n = Len(Bytes(v))
         /\ ~BodyWhole(v, from) /\ ~strict => n = from + Room
<1> USE WriterAssumption
<1>1. /\ Len(Bytes(v)) \in Nat /\ bodyCursor \in Nat
      /\ Room \in Nat
  BY DEF DataOK, Bytes, Room, Pos
<1>2. from \in bodyCursor .. Len(Bytes(v)) /\ (~broken => from = bodyCursor)
  BY <1>1 DEF Resumes
<1>3. /\ Target(v, from) \in from .. Len(Bytes(v))
      /\ ~Errs(v, from) => Target(v, from) = Len(Bytes(v))
  BY <1>1, <1>2 DEF Target, Errs
<1>4. CASE BodyWhole(v, from)
  BY <1>1, <1>2, <1>3, <1>4 DEF BodyReaches, BodyWhole
<1>5. CASE ~BodyWhole(v, from)
  BY <1>1, <1>2, <1>3, <1>5 DEF BodyReaches, BodyWhole, Stops
<1>6. QED
  BY <1>4, <1>5

\* What the sink takes from the serializer that holds v and goes on at from.
LEMMA PieceStreams ==
  ASSUME DataOK, NEW v \in Values,
         NEW from \in 0 .. Len(Bytes(v)), NEW n \in from .. Len(Bytes(v)),
         n <= from + Room,
         Takes(SubSeq(Bytes(v), from + 1, n))
  PROVE  /\ Len(out') = Len(out) + (n - from)
         /\ More /\ Appended
         /\ out = Header \o SubSeq(Bytes(v), 1, from)
              => out' = Header \o SubSeq(Bytes(v), 1, n)
<1>0. /\ Header \in Seq(0 .. 255)
      /\ Bytes(v) \in Seq(0 .. 255)
      /\ Base \in Nat /\ MaxPos \in Nat
  BY WriterAssumption DEF Bytes
<1> DEFINE s == Bytes(v)
           S == 0 .. 255
           piece == SubSeq(s, from + 1, n)
<1>1. s \in Seq(S) /\ Header \in Seq(S) /\ out \in Seq(S)
  BY <1>0 DEF DataOK
<1>2. out' = out \o piece
  BY DEF Takes
<1>3. from \in 0 .. Len(s) /\ n \in from .. Len(s) /\ n <= from + Room
  OBVIOUS
<1>4. Appended
  <2>1. Takes(piece)
    OBVIOUS
  <2>2. piece \in Seq(0 .. 255)
    <3> HIDE DEF s, piece
    <3>1. SubSeq(s, from + 1, n) \in Seq(S)
      <4> HIDE DEF S
      <4>1. QED
        BY <1>1, <1>3, PiecesMeet
    <3>2. QED
      BY <3>1 DEF piece
  <2>3. QED
    BY <2>1, <2>2 DEF Appended
<1> HIDE DEF s, S, piece
<1>5. piece \in Seq(S) /\ Len(piece) = n - from
  BY <1>1, <1>3, PiecesMeet DEF piece
<1>6. (Header \o SubSeq(s, 1, from)) \o piece = Header \o SubSeq(s, 1, n)
  BY <1>1, <1>3, PiecesMeetBehind DEF piece
<1>7. out' \in Seq(S) /\ Len(out') = Len(out) + Len(piece)
  <2>1. out \o piece \in Seq(S) /\ Len(out \o piece) = Len(out) + Len(piece)
    BY <1>1, <1>5, Joined
  <2>2. QED
    BY <1>2, <2>1, Zenon
<1>8. /\ Len(out) \in Nat /\ limit \in Nat /\ Base \in Nat
      /\ Room = limit - (Base + Len(out))
      /\ from \in Nat /\ n \in Nat /\ from <= n
  BY <1>0, <1>1, <1>3 DEF DataOK, Room, Pos
<1>9. Len(out) <= Len(out') /\ Base + Len(out') <= limit
  <2> DEFINE taken == Len(out)
             takenNow == Len(out')
  <2>1. taken \in Nat /\ takenNow = taken + (n - from)
    BY <1>5, <1>7, <1>8
  <2>2. n <= from + (limit - (Base + taken))
    BY <1>3, <1>8
  <2> HIDE DEF taken, takenNow
  <2>3. taken <= takenNow /\ Base + takenNow <= limit
    BY <1>8, <2>1, <2>2
  <2>4. QED
    BY <2>3 DEF taken, takenNow
<1>10. More
  BY <1>7, <1>9 DEF More, S
<1>11. QED
  BY <1>2, <1>4, <1>5, <1>6, <1>7, <1>10 DEF s

\* How a call of the serializer ends: the value is whole, the sink is full, or
\* there is an error.
Outcome(v) ==
  \/ /\ bodyCursor' = Len(Bytes(v))
     /\ phase' = "done" /\ started' = TRUE /\ UNCHANGED broken
     /\ Break(TRUE)
  \/ /\ Len(out') = Len(out) + Room
     /\ started' = TRUE /\ UNCHANGED <<phase, broken>>
     /\ Break(FALSE)
  \/ /\ broken' = TRUE /\ UNCHANGED <<phase, started>>
     /\ Fail("error")

\* What the sink holds after a call of the serializer.
LEMMA SerializeStreams ==
  ASSUME DataOK, NEW v \in Values, bodyCursor <= Len(Bytes(v)),
         ~broken => out = Header \o SubSeq(Bytes(v), 1, bodyCursor),
         Serialize(v)
  PROVE  /\ bodyCursor' \in 0 .. Len(Bytes(v))
         /\ ~broken => out' = Header \o SubSeq(Bytes(v), 1, bodyCursor')
         /\ More /\ Appended
         /\ Outcome(v)
<1>1. PICK from \in Resumes(v) :
        /\ bodyCursor' \in BodyReaches(v, from)
        /\ Takes(SubSeq(Bytes(v), from + 1, bodyCursor'))
        /\ \/ /\ BodyWhole(v, from) /\ ~Errs(v, from)
              /\ phase' = "done" /\ MarkStarted /\ Break(TRUE) /\ UNCHANGED broken
           \/ /\ ~BodyWhole(v, from) /\ ~strict
              /\ MarkStarted /\ Break(FALSE) /\ UNCHANGED <<phase, broken>>
           \/ /\ broken' = TRUE /\ Fail("error") /\ UNCHANGED <<phase, started>>
  BY DEF Serialize
<1>2. /\ from \in Nat /\ from <= bodyCursor' /\ bodyCursor' \in 0 .. Len(Bytes(v))
      /\ ~broken => from = bodyCursor
      /\ bodyCursor' <= from + Room
      /\ BodyWhole(v, from) /\ ~Errs(v, from) => bodyCursor' = Len(Bytes(v))
      /\ ~BodyWhole(v, from) /\ ~strict => bodyCursor' = from + Room
  BY <1>1, ReachesOn
<1>3. Len(Bytes(v)) \in Nat /\ Room \in Int
  BY WriterAssumption DEF Bytes, Room, Pos, DataOK
<1>4. from \in 0 .. Len(Bytes(v)) /\ bodyCursor' \in from .. Len(Bytes(v))
  BY <1>2, <1>3
<1>5. /\ Len(out') = Len(out) + (bodyCursor' - from)
      /\ More /\ Appended
      /\ out = Header \o SubSeq(Bytes(v), 1, from)
           => out' = Header \o SubSeq(Bytes(v), 1, bodyCursor')
  BY <1>1, <1>2, <1>4, PieceStreams
<1>6. Outcome(v)
  <2>1. ~BodyWhole(v, from) /\ ~strict => Len(out') = Len(out) + Room
    BY <1>2, <1>3, <1>5
  <2>2. QED
    BY <1>1, <1>2, <2>1 DEF Outcome, MarkStarted
<1>7. QED
  BY <1>2, <1>5, <1>6

\* What the sink holds after a write of the header.
LEMMA HeaderStreams ==
  ASSUME DataOK, out = SubSeq(Header, 1, headerCursor), PutHeader
  PROVE  /\ headerCursor' \in headerCursor .. Len(Header)
         /\ out' = SubSeq(Header, 1, headerCursor')
         /\ Len(out') = Len(out) + (headerCursor' - headerCursor)
         /\ More /\ Appended
         /\ HeaderWhole(Len(Header) - headerCursor) => headerCursor' = Len(Header)
         /\ ~HeaderWhole(Len(Header) - headerCursor) /\ ~strict
              => headerCursor' = headerCursor + Room
<1> USE WriterAssumption
<1> DEFINE n == HeaderAccepts(Len(Header) - headerCursor)
           piece == SubSeq(Header, headerCursor + 1, headerCursor + n)
<1>1. /\ Len(Header) \in Nat /\ headerCursor \in 0 .. Len(Header)
      /\ Room \in Nat /\ limit \in Nat /\ Len(out) \in Nat
  BY DEF DataOK, Room, Pos
<1>2. /\ n \in 0 .. Len(Header) - headerCursor
      /\ n <= Room
      /\ HeaderWhole(Len(Header) - headerCursor) => n = Len(Header) - headerCursor
      /\ ~HeaderWhole(Len(Header) - headerCursor) /\ ~strict => n = Room
  BY <1>1 DEF HeaderAccepts, HeaderWhole
<1>3. /\ headerCursor' = headerCursor + n
      /\ out' = out \o piece
      /\ Takes(piece)
  BY DEF PutHeader, Takes
<1> DEFINE i == headerCursor
           j == headerCursor + n
           S == 0 .. 255
<1> HIDE DEF n
<1>4. i \in 0 .. Len(Header) /\ j \in i .. Len(Header) /\ j - i = n
  BY <1>1, <1>2
<1>5. /\ piece \in Seq(0 .. 255)
      /\ Len(piece) = n
      /\ SubSeq(Header, 1, headerCursor) \o piece
           = SubSeq(Header, 1, headerCursor + n)
  <2>1. Header \in Seq(S)
    OBVIOUS
  <2> HIDE DEF i, j, S
  <2>2. /\ SubSeq(Header, i + 1, j) \in Seq(S)
        /\ Len(SubSeq(Header, i + 1, j)) = j - i
        /\ SubSeq(Header, 1, i) \o SubSeq(Header, i + 1, j) = SubSeq(Header, 1, j)
    BY <1>4, <2>1, PiecesMeet
  <2>3. QED
    BY <1>4, <2>2 DEF i, j, S
<1>6. out' = SubSeq(Header, 1, headerCursor')
  BY <1>3, <1>5
<1>7. out' \in Seq(0 .. 255) /\ Len(out') = Len(out) + n
  BY <1>3, <1>5, SMTT(60) DEF DataOK
<1>8. More
  BY <1>1, <1>2, <1>7 DEF More, Room, Pos
<1>9. Appended
  BY <1>3, <1>5 DEF Appended
<1>10. /\ headerCursor' \in headerCursor .. Len(Header)
       /\ Len(out') = Len(out) + (headerCursor' - headerCursor)
       /\ HeaderWhole(Len(Header) - headerCursor) => headerCursor' = Len(Header)
       /\ ~HeaderWhole(Len(Header) - headerCursor) /\ ~strict
            => headerCursor' = headerCursor + Room
  <2>1. headerCursor' = headerCursor + n
    BY <1>3
  <2>2. QED
    BY <1>1, <1>2, <1>7, <2>1
<1>11. QED
  BY <1>6, <1>8, <1>9, <1>10

-----------------------------------------------------------------------------
(* The arms of drive *)

\* The header.
LEMMA PutHeaderKeeps ==
  ASSUME IInv, PutHeader
  PROVE  IInv'
<1> USE DEF Driving
<1>1. DataOK /\ CallOK /\ Counted
  BY TypeHalves DEF IInv
<1>2. /\ Driving /\ phase = "header"
      /\ UNCHANGED <<value, body, bodyCursor, started, broken, limit, strict, stored>>
  BY DEF PutHeader, bodyVars
<1>3. /\ body = None /\ value = stored /\ stored # None
      /\ bodyCursor = 0 /\ ~started /\ ~broken
      /\ out = SubSeq(Header, 1, headerCursor)
  BY <1>2 DEF IInv, InHeader, InBody
<1>4. /\ headerCursor' \in headerCursor .. Len(Header)
      /\ out' = SubSeq(Header, 1, headerCursor')
      /\ More /\ Appended
      /\ HeaderWhole(Len(Header) - headerCursor) => headerCursor' = Len(Header)
  BY <1>1, <1>3, HeaderStreams
<1>11. kept' \in 0 .. Len(out') /\ kept' = Len(out')
  BY <1>1, <1>3, <1>4, TakesKept DEF IInv
<1>5. \/ phase' = "body" /\ headerCursor' = Len(Header) /\ UNCHANGED <<pos, callVars>>
      \/ phase' = "header" /\ (Fail("error") \/ Break(FALSE))
  BY <1>2, <1>4 DEF PutHeader
<1>6. CallOK' /\ Counted'
  BY <1>1, <1>2, <1>4, <1>5, BreakCounts, FailCounts, DriveOnCounts
<1>7. DataOK'
  <2>1. headerCursor' \in 0 .. Len(Header)
    BY <1>1, <1>4, WriterAssumption DEF DataOK
  <2>2. out' \in Seq(0 .. 255) /\ Pos' <= limit'
    BY <1>2, <1>4 DEF More, Pos
  <2>3. QED
    BY <1>1, <1>2, <1>5, <1>11, <2>1, <2>2 DEF DataOK
<1>8. InHeader'
  BY <1>2, <1>3, <1>4 DEF InHeader
<1>9. InBody'
  <2>1. phase' # "header" => out' = Header
    BY <1>4, <1>5, WholePiece, WriterAssumption
  <2>2. phase' # "done"
    BY <1>5
  <2>3. QED
    BY <1>2, <1>3, <2>1, <2>2 DEF InBody
<1>12. Kept'
  BY <1>2, <1>3, <1>11 DEF Kept
<1>10. QED
  BY <1>6, <1>7, <1>8, <1>9, <1>12 DEF IInv, DataOK, CallOK, TypeOK

\* A call of the serializer that holds v, from wherever it was.
LEMMA SerializeKeeps ==
  ASSUME IInv, Driving, phase = "body",
         NEW v \in Values, stored = v,
         bodyCursor <= Len(Bytes(v)),
         ~broken => out = Header \o SubSeq(Bytes(v), 1, bodyCursor),
         value' = None,
         Serialize(v),
         UNCHANGED <<headerCursor, limit, strict, stored>>
  PROVE  IInv'
<1>1. DataOK /\ CallOK /\ Counted /\ Kept
  BY TypeHalves DEF IInv
<1>2. /\ bodyCursor' \in 0 .. Len(Bytes(v))
      /\ ~broken => out' = Header \o SubSeq(Bytes(v), 1, bodyCursor')
      /\ More /\ Appended
      /\ Outcome(v)
  BY <1>1, SerializeStreams
<1>3. /\ kept' \in 0 .. Len(out')
      /\ broken => SubSeq(out', 1, kept') = SubSeq(out, 1, kept)
      /\ ~broken => kept' = Len(out')
  BY <1>1, <1>2, TakesKept
<1>4. /\ \/ phase' = "done" /\ bodyCursor' = Len(Bytes(v))
         \/ phase' = "body"
      /\ started' \in BOOLEAN /\ broken' \in BOOLEAN
      /\ broken => broken'
      /\ \/ Break(TRUE) \/ Break(FALSE) \/ Fail("error")
  <2>1. started \in BOOLEAN /\ broken \in BOOLEAN
    BY <1>1 DEF DataOK
  <2>2. Outcome(v)
    BY <1>2
  <2>3. started' \in BOOLEAN /\ broken' \in BOOLEAN /\ (broken => broken')
    BY <2>1, <2>2, Zenon DEF Outcome
  <2>4. \/ phase' = "done" /\ bodyCursor' = Len(Bytes(v))
        \/ phase' = "body"
    BY <2>2, Zenon DEF Outcome
  <2>5. Break(TRUE) \/ Break(FALSE) \/ Fail("error")
    BY <2>2, Zenon DEF Outcome
  <2>6. QED
    BY <2>3, <2>4, <2>5, Zenon
<1>5. CallOK' /\ Counted'
  BY <1>1, <1>2, <1>4, BreakCounts, FailCounts
<1>6. body' = v /\ v # None
  BY WriterAssumption DEF Serialize
<1>7. DataOK'
  <2>1. bodyCursor' \in Nat
    BY <1>2
  <2>2. out' \in Seq(0 .. 255) /\ Pos' <= limit'
    BY <1>2 DEF More, Pos
  <2>3. QED
    BY <1>1, <1>3, <1>4, <1>6, <2>1, <2>2 DEF DataOK
<1>8. InHeader'
  BY <1>4 DEF InHeader
<1>9. InBody'
  <2>1. bodyCursor' <= Len(Bytes(v))
    BY <1>2, WriterAssumption DEF Bytes
  <2>2. phase' = "done" => bodyCursor' = Len(Bytes(v))
    BY <1>4
  <2>3. ~broken' => out' = Header \o SubSeq(Bytes(v), 1, bodyCursor')
    BY <1>2, <1>4
  <2>4. QED
    BY <1>4, <1>6, <2>1, <2>2, <2>3 DEF InBody, Bytes
<1>10. Kept'
  <2>1. CASE broken
    BY <1>1, <1>3, <1>4, <2>1 DEF Kept, Bytes
  <2>2. CASE ~broken
    <3>1. Header \in Seq(0 .. 255) /\ Bytes(v) \in Seq(0 .. 255)
      BY WriterAssumption DEF Bytes
    <3>2. Stream!IsPrefix(out', Header \o Bytes(v))
      BY <1>2, <2>2, <3>1, Prefixes
    <3>3. SubSeq(out', 1, kept') = out'
      BY <1>2, <1>3, <2>2, WholePiece DEF More
    <3>4. QED
      BY <1>3, <2>2, <3>2, <3>3 DEF Kept, Bytes
  <2>3. QED
    BY <2>1, <2>2
<1>11. QED
  BY <1>5, <1>7, <1>8, <1>9, <1>10 DEF IInv, DataOK, CallOK, TypeOK

\* The value the serializer is fed is the one that was stored, and the sink
\* holds the header alone.
LEMMA FeedIs ==
  ASSUME IInv, Feed
  PROVE  /\ Driving /\ phase = "body"
         /\ value \in Values /\ stored = value
         /\ bodyCursor <= Len(Bytes(value))
         /\ out = Header \o SubSeq(Bytes(value), 1, bodyCursor)
<1>1. Driving /\ phase = "body" /\ value # None
  BY DEF Feed
<1>2. value \in Values /\ body = None
  BY <1>1 DEF IInv, TypeOK, InBody
<1>3. stored = value /\ bodyCursor = 0 /\ out = Header
  BY <1>1, <1>2 DEF IInv, InBody
<1>4. Bytes(value) \in Seq(0 .. 255) /\ Header \in Seq(0 .. 255)
  BY <1>2, WriterAssumption DEF Bytes
<1>5. SubSeq(Bytes(value), 1, 0) = << >>
  BY <1>4, WholePiece
<1>6. Header \o << >> = Header
  BY <1>4
<1>7. QED
  BY <1>1, <1>2, <1>3, <1>4, <1>5, <1>6

\* The serializer that is polled holds the value that was stored.
LEMMA PollIs ==
  ASSUME IInv, Poll
  PROVE  /\ Driving /\ phase = "body"
         /\ body \in Values /\ stored = body /\ value = None
         /\ bodyCursor <= Len(Bytes(body))
         /\ ~broken => out = Header \o SubSeq(Bytes(body), 1, bodyCursor)
<1>1. Driving /\ phase = "body" /\ started
  BY DEF Poll
<1>2. body # None
  BY <1>1 DEF IInv, InBody
<1>3. QED
  BY <1>1, <1>2 DEF IInv, TypeOK, InBody

LEMMA FeedKeeps ==
  ASSUME IInv, Feed
  PROVE  IInv'
<1>1. /\ value' = None /\ Serialize(value)
      /\ UNCHANGED <<headerCursor, limit, strict, stored>>
  BY DEF Feed
<1>2. QED
  BY <1>1, FeedIs, SerializeKeeps

LEMMA PollKeeps ==
  ASSUME IInv, Poll
  PROVE  IInv'
<1>1. /\ Serialize(body)
      /\ UNCHANGED <<headerCursor, value, limit, strict, stored>>
  BY DEF Poll
<1>2. QED
  BY <1>1, PollIs, SerializeKeeps

\* Nothing is left to feed.
LEMMA FeedNothingKeeps ==
  ASSUME IInv, FeedNothing
  PROVE  IInv'
<1>1. DataOK /\ CallOK /\ Counted
  BY TypeHalves DEF IInv
<1>2. /\ Driving /\ phase = "body"
      /\ Fail("taken")
      /\ UNCHANGED <<phase, headerCursor, value, body, bodyCursor, started,
                     broken, out, kept, limit, strict, stored>>
  BY DEF FeedNothing, bodyVars
<1>3. More
  BY <1>1, <1>2 DEF DataOK, More, Pos
<1>4. CallOK' /\ Counted'
  BY <1>1, <1>2, <1>3, FailCounts
<1>5. DataOK' /\ InHeader' /\ InBody' /\ Kept'
  <2>1. DataOK'
    BY <1>1, <1>2 DEF DataOK, Pos
  <2>2. InHeader'
    BY <1>2 DEF InHeader
  <2>3. InBody'
    BY <1>2 DEF IInv, InBody, Bytes
  <2>4. Kept'
    BY <1>2 DEF IInv, Kept, Bytes
  <2>5. QED
    BY <2>1, <2>2, <2>3, <2>4
<1>6. QED
  BY <1>4, <1>5 DEF IInv, DataOK, CallOK, TypeOK
-----------------------------------------------------------------------------
(* The calls *)

\* A call stores a value only where there was none, and only before the body.
LEMMA StoreKeeps ==
  ASSUME IInv, NEW v \in Values, Store(v),
         UNCHANGED <<phase, headerCursor, body, bodyCursor, started, broken,
                     pos, out, kept, limit, strict>>,
         pc' \in {"idle", "write", "write_all"}
  PROVE  /\ DataOK' /\ InHeader' /\ InBody' /\ Kept'
         /\ stored # None => stored' = stored
         /\ phase # "header" => stored' = stored
<1> USE DEF IInv, Store, Keeps
<1>1. v # None
  BY WriterAssumption
<1>2. DataOK'
  BY DEF TypeOK, DataOK, Pos
<1>3. /\ stored # None => stored' = stored
      /\ phase # "header" => stored' = stored /\ value' = value
      /\ phase = "header" => stored' = value' /\ stored' # None
  BY <1>1 DEF InHeader
<1>4. InHeader'
  BY <1>3 DEF InHeader
<1>5. InBody'
  BY <1>3 DEF InHeader, InBody, Driving, Bytes
<1>6. Kept'
  BY <1>3 DEF InHeader, InBody, Kept, Bytes
<1>7. QED
  BY <1>2, <1>3, <1>4, <1>5, <1>6

\* Where the counts of a call begin.
LEMMA EnterCounts ==
  ASSUME IInv, pc = "idle", NEW call \in {"write", "write_all"}, Enter(call),
         UNCHANGED <<pos, out, limit>>
  PROVE  CallOK' /\ Counted'
<1>1. /\ pc' = call /\ driveStart' = Pos /\ allStart' = pos
      /\ UNCHANGED <<result, reported, short, failed, pos, Pos>>
  BY DEF Enter, Pos
<1>2. /\ Len(out) \in Nat /\ Base \in Nat /\ Pos = Base + Len(out)
      /\ Pos \in Base .. MaxPos
  BY WriterAssumption DEF IInv, TypeOK, Pos
<1>3. CallOK'
  BY <1>1, <1>2 DEF IInv, TypeOK, CallOK
<1>4. /\ pos \in Int /\ reported \in Int
      /\ pos <= Pos /\ Base + reported <= pos
      /\ ~failed => pos = Pos
      /\ ~failed /\ ~short => reported = Len(out)
  BY DEF IInv, TypeOK, Counted
<1>5. Counted'
  BY <1>1, <1>2, <1>4 DEF Counted
<1>6. QED
  BY <1>3, <1>5

\* A call of a finished writer counts nothing.
LEMMA NothingCounted ==
  ASSUME IInv, pc = "idle", Ok(0), UNCHANGED <<pos, out>>
  PROVE  CallOK' /\ Counted'
<1>1. /\ pc' = "idle" /\ result' = "ok" /\ reported' = reported
      /\ UNCHANGED <<driveStart, allStart, short, failed, pos, out>>
  BY DEF Ok, IInv, TypeOK
<1>2. CallOK'
  BY <1>1 DEF IInv, TypeOK, CallOK
<1>3. Counted'
  BY <1>1 DEF IInv, Counted, Pos
<1>4. QED
  BY <1>2, <1>3

LEMMA WriteKeeps ==
  ASSUME IInv, NEW v \in Values, Write(v)
  PROVE  /\ IInv'
         /\ stored # None => stored' = stored
         /\ phase # "header" => stored' = stored
<1>1. /\ pc = "idle"
      /\ UNCHANGED <<phase, headerCursor, body, bodyCursor, started, broken,
                     pos, out, kept, limit, strict>>
  BY DEF Write
<1>2. CASE phase = "done"
  <2>1. Ok(0) /\ UNCHANGED <<value, stored>>
    BY <1>2 DEF Write
  <2>2. CallOK' /\ Counted'
    BY <1>1, <2>1, NothingCounted
  <2>3. DataOK' /\ InHeader' /\ InBody' /\ Kept'
    BY <1>1, <2>1 DEF IInv, TypeOK, DataOK, Pos, InHeader, InBody, Kept, Driving, Ok, Bytes
  <2>4. QED
    BY <2>1, <2>2, <2>3 DEF IInv, TypeOK, DataOK, CallOK
<1>3. CASE phase # "done"
  <2>1. Store(v) /\ Enter("write")
    BY <1>3 DEF Write
  <2>2. CallOK' /\ Counted'
    BY <1>1, <2>1, EnterCounts
  <2>3. pc' \in {"idle", "write", "write_all"}
    BY <2>2 DEF CallOK
  <2>4. /\ DataOK' /\ InHeader' /\ InBody' /\ Kept'
        /\ stored # None => stored' = stored
        /\ phase # "header" => stored' = stored
    BY <1>1, <2>1, <2>3, StoreKeeps
  <2>5. QED
    BY <2>2, <2>4 DEF IInv, TypeOK, DataOK, CallOK
<1>4. QED
  BY <1>2, <1>3

LEMMA WriteAllKeeps ==
  ASSUME IInv, NEW v \in Values, WriteAll(v)
  PROVE  /\ IInv'
         /\ stored # None => stored' = stored
         /\ phase # "header" => stored' = stored
<1>1. /\ pc = "idle" /\ Store(v)
      /\ UNCHANGED <<phase, headerCursor, body, bodyCursor, started, broken,
                     pos, out, kept, limit, strict>>
      /\ Ok(0) \/ Enter("write_all")
  BY DEF WriteAll
<1>2. CallOK' /\ Counted'
  BY <1>1, NothingCounted, EnterCounts
<1>3. pc' \in {"idle", "write", "write_all"}
  BY <1>2 DEF CallOK
<1>4. /\ DataOK' /\ InHeader' /\ InBody' /\ Kept'
      /\ stored # None => stored' = stored
      /\ phase # "header" => stored' = stored
  BY <1>1, <1>3, StoreKeeps
<1>5. QED
  BY <1>2, <1>4 DEF IInv, TypeOK, DataOK, CallOK

\* More room changes nothing else.
LEMMA GrantKeeps ==
  ASSUME IInv, Grant
  PROVE  IInv'
<1>1. /\ limit' \in Base .. MaxPos /\ limit <= limit'
      /\ UNCHANGED <<phase, headerCursor, value, body, bodyCursor, started,
                     broken, pos, out, kept, strict, pc, driveStart, allStart,
                     result, reported, short, failed, stored>>
  BY WriterAssumption DEF Grant, bodyVars, callVars, IInv, TypeOK
<1>2. TypeOK'
  BY <1>1, WriterAssumption DEF IInv, TypeOK, Pos
<1>3. InHeader' /\ InBody'
  BY <1>1 DEF IInv, InHeader, InBody, Driving, Bytes
<1>4. Counted'
  BY <1>1 DEF IInv, Counted, Pos
<1>5. Kept'
  BY <1>1 DEF IInv, Kept, Bytes
<1>6. QED
  BY <1>2, <1>3, <1>4, <1>5 DEF IInv

-----------------------------------------------------------------------------
(* The invariant *)

LEMMA InitIInv == Init => IInv
<1> SUFFICES ASSUME Init PROVE IInv
  OBVIOUS
<1> USE WriterAssumption DEF Init
<1>1. TypeOK
  <2>1. Pos = Base /\ out \in Seq(0 .. 255)
    BY DEF Pos
  <2>2. /\ Base \in Base .. MaxPos /\ 0 \in 0 .. MaxPos
        /\ 0 \in 0 .. Len(Header)
        /\ limit \in Base .. MaxPos /\ Base <= limit
        /\ kept \in 0 .. Len(out)
    OBVIOUS
  <2>3. QED
    BY <2>1, <2>2 DEF TypeOK
<1>2. SubSeq(Header, 1, 0) = << >>
  BY WholePiece
<1>3. InHeader /\ InBody
  BY <1>2 DEF InHeader, InBody, Driving
<1>4. Counted /\ Kept
  BY DEF Counted, Kept, Pos
<1>5. QED
  BY <1>1, <1>3, <1>4 DEF IInv

LEMMA StutterKeeps ==
  ASSUME IInv, UNCHANGED writerVars
  PROVE  IInv'
<1>1. UNCHANGED <<phase, headerCursor, value, body, bodyCursor, started, broken,
                  pos, out, kept, limit, strict, pc, driveStart, allStart,
                  result, reported, short, failed, stored>>
  BY DEF writerVars, bodyVars, callVars
<1>2. QED
  BY <1>1 DEF IInv, TypeOK, InHeader, InBody, Kept, Counted, Driving, Bytes, Pos

LEMMA StepIInv == IInv /\ [Next]_writerVars => IInv'
<1> SUFFICES ASSUME IInv, [Next]_writerVars PROVE IInv'
  OBVIOUS
<1>1. CASE \E v \in Values : Write(v)
  BY <1>1, WriteKeeps
<1>2. CASE \E v \in Values : WriteAll(v)
  BY <1>2, WriteAllKeeps
<1>3. CASE DriveStep
  BY <1>3, PutHeaderKeeps, FeedKeeps, FeedNothingKeeps, PollKeeps DEF DriveStep
<1>4. CASE Grant
  BY <1>4, GrantKeeps
<1>5. CASE UNCHANGED writerVars
  BY <1>5, StutterKeeps
<1>6. QED
  BY <1>1, <1>2, <1>3, <1>4, <1>5 DEF Next

LEMMA Invariance == Spec => []IInv
<1>1. Init => IInv
  BY InitIInv
<1>2. IInv /\ [Next]_writerVars => IInv'
  BY StepIInv
<1>3. QED
  BY <1>1, <1>2, PTL DEF Spec

\* Type correctness: the writer stays within its header, its value and the
\* sink's room, whatever the sink takes and however a call ends.
THEOREM TypeCorrect == Spec => []TypeOK
<1>1. IInv => TypeOK
  BY DEF IInv
<1>2. QED
  BY <1>1, Invariance, PTL

\* written() is the sink's position as long as no call has failed, and the
\* counts returned by write and write_all add up to the bytes in the sink.
THEOREM CountsCorrect == Spec => []CountsAddUp
<1>1. IInv => CountsAddUp
  BY DEF IInv, Counted, CountsAddUp
<1>2. QED
  BY <1>1, Invariance, PTL
-----------------------------------------------------------------------------
(* write_all *)

\* A drive that is cut short by a sink that is not strict has filled it.
LEMMA CutShortIsFull ==
  ASSUME IInv, Driving, pc = "write_all", Break(FALSE), More,
         Len(out') = Len(out) + Room,
         UNCHANGED limit
  PROVE  /\ pc' = "idle" => result' = "too_small"
         /\ pc' = "idle" /\ result' = "too_small" => Pos' = limit
<1>1. /\ Len(out) \in Nat /\ Base \in Nat /\ limit \in Nat /\ pos \in Nat
      /\ pos <= Base + Len(out)
      /\ Base + Len(out) <= limit
  BY WriterAssumption DEF IInv, TypeOK, Counted, Pos
<1>2. /\ Room = limit - (Base + Len(out))
      /\ Pos' = Base + Len(out')
      /\ pos' = Base + Len(out')
  BY DEF Room, Pos, Break
<1>3. Pos' = limit
  BY <1>1, <1>2
<1>4. pc' = "idle" => result' = "too_small"
  BY DEF Break
<1>5. QED
  BY <1>3, <1>4

\* The end of a write_all, whichever arm of drive ended it.
LEMMA WriteAllEnds ==
  ASSUME IInv, [Next]_writerVars, pc = "write_all", pc' = "idle"
  PROVE  /\ result' = "ok" /\ ~broken' => out' = Header \o Bytes(stored)
         /\ result' = "too_small" => Pos' = limit /\ phase' # "done"
<1>1. DataOK
  BY TypeHalves DEF IInv
<1>2. DriveStep
  BY DEF Next, Write, WriteAll, Grant, writerVars, callVars
<1>3. CASE PutHeader
  <2>1. /\ out = SubSeq(Header, 1, headerCursor)
        /\ phase = "header" /\ UNCHANGED limit /\ Driving
    BY <1>3 DEF PutHeader, IInv, InHeader
  <2>2. /\ Len(out') = Len(out) + (headerCursor' - headerCursor)
        /\ More
        /\ ~HeaderWhole(Len(Header) - headerCursor) /\ ~strict
             => headerCursor' = headerCursor + Room
    BY <1>1, <1>3, <2>1, HeaderStreams
  <2>3. /\ ~HeaderWhole(Len(Header) - headerCursor)
        /\ UNCHANGED phase
        /\ IF strict THEN Fail("error") ELSE Break(FALSE)
    BY <1>3 DEF PutHeader, callVars
  <2>4. CASE strict
    BY <2>3, <2>4 DEF Fail
  <2>5. CASE ~strict
    <3>1. Room \in Int /\ headerCursor \in Int
      BY <1>1, WriterAssumption DEF DataOK, Room, Pos
    <3>2. Len(out') = Len(out) + Room
      BY <2>2, <2>3, <2>5, <3>1
    <3>3. QED
      BY <2>1, <2>2, <2>3, <2>5, <3>2, CutShortIsFull
  <2>6. QED
    BY <2>4, <2>5
<1>4. ASSUME NEW v \in Values, Driving, stored = v,
             bodyCursor <= Len(Bytes(v)),
             ~broken => out = Header \o SubSeq(Bytes(v), 1, bodyCursor),
             Serialize(v), phase = "body", UNCHANGED limit
      PROVE  /\ result' = "ok" /\ ~broken' => out' = Header \o Bytes(stored)
             /\ result' = "too_small" => Pos' = limit /\ phase' # "done"
  <2>1. /\ ~broken => out' = Header \o SubSeq(Bytes(v), 1, bodyCursor')
        /\ More
        /\ Outcome(v)
    BY <1>1, <1>4, SerializeStreams
  <2>2. CASE /\ bodyCursor' = Len(Bytes(v))
             /\ UNCHANGED broken
             /\ Break(TRUE)
    <3>1. Bytes(v) \in Seq(0 .. 255)
      BY WriterAssumption DEF Bytes
    <3>2. SubSeq(Bytes(v), 1, Len(Bytes(v))) = Bytes(v)
      BY <3>1, WholePiece
    <3>3. ~broken' => out' = Header \o Bytes(stored)
      BY <1>4, <2>1, <2>2, <3>2
    <3>4. result' = "ok"
      BY <2>2 DEF Break, Ok
    <3>5. QED
      BY <3>3, <3>4
  <2>3. CASE /\ Len(out') = Len(out) + Room
             /\ UNCHANGED phase
             /\ Break(FALSE)
    BY <1>4, <2>1, <2>3, CutShortIsFull
  <2>4. CASE Fail("error")
    BY <2>4 DEF Fail
  <2>5. QED
    BY <2>1, <2>2, <2>3, <2>4 DEF Outcome
<1>5. CASE Feed
  BY <1>4, <1>5, FeedIs DEF Feed
<1>6. CASE Poll
  BY <1>4, <1>6, PollIs DEF Poll
<1>7. CASE FeedNothing
  BY <1>7 DEF FeedNothing, Fail
<1>8. QED
  BY <1>2, <1>3, <1>5, <1>6, <1>7 DEF DriveStep

\* write_all answers Ok only behind the last byte of the archive, unless the
\* serializer of the value has erred before, and BufferTooSmall only when the
\* sink is full and the archive is not finished.
THEOREM WriteAllCorrect == Spec => WriteAllIsAll
<1>1. IInv /\ [Next]_writerVars
        => [/\ pc = "write_all" /\ pc' = "idle"
            => /\ result' = "ok" /\ ~broken' => out' = Header \o Bytes(stored)
               /\ result' = "too_small" => Pos' = limit /\ phase' # "done"]_writerVars
  BY WriteAllEnds
<1>2. QED
  BY <1>1, Invariance, PTL DEF Spec, WriteAllIsAll

-----------------------------------------------------------------------------
(* The byte stream *)

\* What is streamed: the archive of the stored value, once there is one.
Archive == IF stored = None THEN << >> ELSE Header \o Bytes(stored)

\* What the sink holds, or held when the serializer erred.
Held == SubSeq(out, 1, kept)

\* It is a prefix of the archive, and all of it in the end.
Begins ==
  /\ Stream!IsPrefix(Held, Archive)
  /\ phase = "done" /\ ~broken => Held = Archive

\* The invariant says where in the archive the sink is.
LEMMA IInvBegins == IInv => Begins
<1> SUFFICES ASSUME IInv PROVE Begins
  OBVIOUS
<1>1. Header \in Seq(0 .. 255) /\ out \in Seq(0 .. 255)
  BY WriterAssumption DEF IInv, TypeOK
<1>2. ~broken => Held = out
  BY <1>1, WholePiece DEF IInv, Kept, Held
<1>3. CASE stored = None
  <2>1. out = SubSeq(Header, 1, 0) /\ phase = "header" /\ ~broken
    BY <1>3 DEF IInv, InHeader, InBody
  <2>2. out = << >>
    BY <1>1, <2>1, WholePiece
  <2>3. QED
    BY <1>2, <1>3, <2>1, <2>2 DEF Begins, Archive, Stream!IsPrefix
<1>4. CASE stored # None
  <2>1. stored \in Values /\ Bytes(stored) \in Seq(0 .. 255)
    BY <1>4, WriterAssumption DEF IInv, TypeOK, Bytes
  <2>2. Archive = Header \o Bytes(stored)
    BY <1>4 DEF Archive
  <2>3. CASE phase = "header"
    <3>1. out = SubSeq(Header, 1, headerCursor) /\ headerCursor \in 0 .. Len(Header)
      BY <2>3 DEF IInv, TypeOK, InHeader
    <3>2. ~broken
      BY <2>3 DEF IInv, InHeader, InBody
    <3>3. QED
      BY <1>1, <1>2, <2>1, <2>2, <2>3, <3>1, <3>2, Prefixes DEF Begins
  <2>4. CASE phase # "header" /\ body = None
    <3>1. out = Header /\ phase # "done" /\ ~broken
      BY <2>4 DEF IInv, InBody
    <3>2. QED
      BY <1>1, <1>2, <2>1, <2>2, <3>1, Prefixes DEF Begins
  <2>5. CASE phase # "header" /\ body # None /\ ~broken
    <3>1. /\ out = Header \o SubSeq(Bytes(stored), 1, bodyCursor)
          /\ bodyCursor \in 0 .. Len(Bytes(stored))
          /\ phase = "done" => bodyCursor = Len(Bytes(stored))
      BY <2>1, <2>5 DEF IInv, TypeOK, InBody
    <3>2. SubSeq(Bytes(stored), 1, Len(Bytes(stored))) = Bytes(stored)
      BY <2>1, WholePiece
    <3>3. Stream!IsPrefix(out, Archive)
      BY <1>1, <2>1, <2>2, <3>1, Prefixes
    <3>4. QED
      BY <1>2, <2>2, <2>5, <3>1, <3>2, <3>3 DEF Begins
  <2>6. CASE broken
    BY <2>2, <2>6 DEF IInv, Kept, Begins, Held
  <2>7. QED
    BY <2>3, <2>4, <2>5, <2>6
<1>5. QED
  BY <1>3, <1>4

\* What a step does to the sink, to the stored value and to a finished writer.
LEMMA StepStreams ==
  ASSUME IInv, [Next]_writerVars
  PROVE  /\ Stream!IsPrefix(Held, Held')
         /\ stored # None => stored' = stored
         /\ phase = "done" => UNCHANGED <<Held, stored, phase, broken>>
<1>1. DataOK /\ Kept /\ Held \in Seq(0 .. 255)
  <2>1. DataOK /\ Kept
    BY TypeHalves DEF IInv
  <2>2. out \in Seq(0 .. 255) /\ kept \in 0 .. Len(out) /\ Len(out) \in kept .. Len(out)
    BY <2>1 DEF DataOK
  <2>3. QED
    BY <2>1, <2>2, PiecesMeet DEF Held
<1>2. UNCHANGED Held => Stream!IsPrefix(Held, Held')
  BY <1>1 DEF Stream!IsPrefix
<1>3. Appended => Stream!IsPrefix(Held, Held')
  BY <1>1, TakesKept DEF Held
<1>4. ASSUME NEW v \in Values, Write(v) \/ WriteAll(v)
      PROVE  /\ UNCHANGED <<Held, phase, broken>>
             /\ stored # None => stored' = stored
             /\ phase # "header" => stored' = stored
  <2>1. UNCHANGED <<Held, phase, broken>>
    BY <1>4 DEF Write, WriteAll, Held
  <2>2. QED
    BY <1>4, <2>1, WriteKeeps, WriteAllKeeps
<1>5. CASE PutHeader
  <2>1. phase = "header" /\ UNCHANGED stored /\ out = SubSeq(Header, 1, headerCursor)
    BY <1>5 DEF PutHeader, IInv, InHeader
  <2>2. QED
    BY <1>1, <1>3, <1>5, <2>1, HeaderStreams
<1>6. CASE Feed
  <2>1. phase = "body" /\ Serialize(value) /\ UNCHANGED stored
    BY <1>6 DEF Feed
  <2>2. Appended
    BY <1>1, <1>6, <2>1, FeedIs, SerializeStreams
  <2>3. QED
    BY <1>3, <2>1, <2>2
<1>7. CASE Poll
  <2>1. phase = "body" /\ Serialize(body) /\ UNCHANGED stored
    BY <1>7 DEF Poll
  <2>2. Appended
    BY <1>1, <1>7, <2>1, PollIs, SerializeStreams
  <2>3. QED
    BY <1>3, <2>1, <2>2
<1>8. CASE FeedNothing \/ Grant \/ UNCHANGED writerVars
  BY <1>2, <1>8 DEF FeedNothing, Grant, writerVars, bodyVars, Held
<1>9. QED
  BY <1>2, <1>4, <1>5, <1>6, <1>7, <1>8 DEF Next, DriveStep

\* The step of the byte stream that a step of the writer is.
LEMMA StepRefines ==
  IInv /\ Begins' /\ [Next]_writerVars
    => [Stream!Call]_<<IF stored = None THEN << >> ELSE Header \o Bytes(stored),
                       SubSeq(out, 1, kept), phase = "done" /\ ~broken>>
<1> SUFFICES ASSUME IInv, Begins', [Next]_writerVars
             PROVE  [Stream!Call]_<<Archive, Held, phase = "done" /\ ~broken>>
  BY DEF Archive, Held
<1>1. /\ Stream!IsPrefix(Held, Held')
      /\ stored # None => stored' = stored
      /\ phase = "done" => UNCHANGED <<Held, stored, phase, broken>>
  BY StepStreams
<1>2. CASE phase = "done" /\ ~broken
  BY <1>1, <1>2 DEF Archive, Bytes
<1>3. CASE ~(phase = "done" /\ ~broken)
  <2>1. Archive = << >> \/ Archive' = Archive
    BY <1>1 DEF Archive, Bytes
  <2>2. /\ Stream!IsPrefix(Held', Archive')
        /\ phase' = "done" /\ ~broken' => Held' = Archive'
    BY DEF Begins, Stream!IsPrefix
  <2>3. Stream!Call
    BY <1>1, <1>3, <2>1, <2>2 DEF Stream!Call, Archive, Held
  <2>4. QED
    BY <2>3
<1>4. QED
  BY <1>2, <1>3

\* However the writing is cut into calls, whatever values the later calls pass
\* and whatever error of the sink or of the order of calls ends one of them, the
\* sink holds a prefix of the archive of the first value, and is_finished() says
\* that it holds all of it; and what it holds when the serializer of the value
\* errs, it keeps.
THEOREM StreamCorrect == Spec => StreamsTheArchive
<1>1. Init => Stream!Init
  <2>1. ASSUME Init PROVE SubSeq(out, 1, kept) = << >> /\ phase = "header"
    <3>1. out = << >> /\ kept = 0 /\ << >> \in Seq(0 .. 255)
      BY <2>1 DEF Init
    <3>2. QED
      BY <2>1, <3>1, WholePiece DEF Init
  <2>2. QED
    BY <2>1 DEF Stream!Init
<1>2. IInv => Begins
  BY IInvBegins
<1>3. IInv /\ Begins' /\ [Next]_writerVars
        => [Stream!Call]_<<IF stored = None THEN << >> ELSE Header \o Bytes(stored),
                           SubSeq(out, 1, kept), phase = "done" /\ ~broken>>
  BY StepRefines
<1>4. QED
  BY <1>1, <1>2, <1>3, Invariance, PTL DEF Spec, StreamsTheArchive, Stream!Spec

=============================================================================
