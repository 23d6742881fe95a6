-------------------------- MODULE ValidationProofs --------------------------
(***************************************************************************)
(* Validation keeps its context in step with the walk, for every capacity, *)
(* depth limit and set of segments.                                        *)
(*                                                                         *)
(* What the properties need besides themselves is Chain: each open guard   *)
(* added one level or one segment to the place it was opened at.  Then     *)
(* dropping the innermost guard, which takes the walk back to that place,  *)
(* takes exactly what the guard put on the counter or on the stack.        *)
(***************************************************************************)
EXTENDS Validation, SequenceTheorems, TLAPS

\* Where the walk was at before it opened guard i + 1: the place of that guard,
\* or where it is now.
At(i) == IF i < Len(frames) THEN frames[i + 1].at ELSE here

\* One guard further, of kind `kind`, from place p to place q.
Further(kind, p, q) ==
  IF kind = "depth" THEN q.path = p.path /\ q.level = p.level + 1
  ELSE q.level = p.level /\ \E seg \in Segment : q.path = Append(p.path, seg)

Chain ==
  /\ At(0) = Root
  /\ \A i \in 1 .. Len(frames) : Further(frames[i].kind, frames[i].at, At(i))

\* The Vec is only used when the array is full.
Spilled == extra # << >> => Len(segments) = Cap

IInv ==
  /\ TypeOK
  /\ Chain
  /\ Spilled
  /\ DepthIsTheLevel
  /\ PathIsThePlace
  /\ FirstErrorIsKept

-----------------------------------------------------------------------------
(* Sequences *)

\* A segment appended to the tail of a path is appended to the path.
LEMMA AppendToTail ==
  ASSUME NEW S, NEW f \in Seq(S), NEW e \in Seq(S), NEW x \in S
  PROVE  f \o Append(e, x) = Append(f \o e, x)
  OBVIOUS

\* With nothing behind it, the head is the path.
LEMMA EmptyTail ==
  ASSUME NEW S, NEW f \in Seq(S), NEW e \in Seq(S), e = << >>
  PROVE  f \o e = f
  OBVIOUS

\* What is left without the last element.
LEMMA ButLastFacts ==
  ASSUME NEW S, NEW e \in Seq(S), e # << >>
  PROVE  /\ ButLast(e) \in Seq(S)
         /\ Len(ButLast(e)) = Len(e) - 1
         /\ \A i \in 1 .. Len(e) - 1 : ButLast(e)[i] = e[i]
<1> DEFINE k == Len(e) - 1
<1>1. /\ k \in Nat
      /\ \A i \in 1 .. k : e[i] \in S
  OBVIOUS
<1>2. /\ SubSeq(e, 1, k) \in Seq(S)
      /\ Len(SubSeq(e, 1, k)) = IF 1 <= k THEN k - 1 + 1 ELSE 0
      /\ \A i \in 1 .. k - 1 + 1 : SubSeq(e, 1, k)[i] = e[1 + i - 1]
  <2> HIDE DEF k
  <2>1. k \in Int /\ 1 \in Int
    BY <1>1
  <2>2. /\ SubSeq(e, 1, k) \in Seq(S)
        /\ Len(SubSeq(e, 1, k)) = IF 1 <= k THEN k - 1 + 1 ELSE 0
    BY <2>1, <1>1, SubSeqProperties
  <2>3. \A i \in 1 .. k - 1 + 1 : SubSeq(e, 1, k)[i] = e[1 + i - 1]
    BY <2>1, <1>1, SubSeqProperties
  <2> QED BY <2>2, <2>3
<1>3. k - 1 + 1 = k /\ \A i \in 1 .. k : 1 + i - 1 = i
  BY <1>1
<1>4. Len(SubSeq(e, 1, k)) = k
  <2> HIDE DEF k
  <2> QED BY <1>1, <1>2
<1> QED BY <1>2, <1>3, <1>4 DEF ButLast

\* Without its last segment the tail of a path leaves the path without it.
LEMMA ButLastOfTail ==
  ASSUME NEW S, NEW f \in Seq(S), NEW e \in Seq(S), e # << >>
  PROVE  /\ f \o ButLast(e) = ButLast(f \o e)
         /\ ButLast(e) \in Seq(S)
         /\ Len(ButLast(e)) = Len(e) - 1
<1> DEFINE g == ButLast(e)
<1>1. /\ g \in Seq(S)
      /\ Len(g) = Len(e) - 1
      /\ \A i \in 1 .. Len(g) : g[i] = e[i]
  BY ButLastFacts
<1>2. /\ f \o e \in Seq(S)
      /\ Len(f \o e) = Len(f) + Len(e)
      /\ \A i \in 1 .. Len(f) + Len(e) :
           (f \o e)[i] = IF i <= Len(f) THEN f[i] ELSE e[i - Len(f)]
  OBVIOUS
<1>3. /\ ButLast(f \o e) \in Seq(S)
      /\ Len(ButLast(f \o e)) = Len(f) + Len(e) - 1
      /\ \A i \in 1 .. Len(f) + Len(e) - 1 : ButLast(f \o e)[i] = (f \o e)[i]
  BY <1>2 DEF ButLast
<1>4. /\ f \o g \in Seq(S)
      /\ Len(f \o g) = Len(f) + Len(e) - 1
      /\ \A i \in 1 .. Len(f) + Len(e) - 1 :
           (f \o g)[i] = IF i <= Len(f) THEN f[i] ELSE g[i - Len(f)]
  <2> SUFFICES ASSUME NEW h \in Seq(S), Len(h) = Len(e) - 1
               PROVE  /\ f \o h \in Seq(S)
                      /\ Len(f \o h) = Len(f) + Len(e) - 1
                      /\ \A i \in 1 .. Len(f) + Len(e) - 1 :
                           (f \o h)[i] = IF i <= Len(f) THEN f[i]
                                         ELSE h[i - Len(f)]
    BY <1>1
  <2>1. /\ Len(f) \in Nat
        /\ Len(e) \in Nat
    OBVIOUS
  <2>2. /\ f \o h \in Seq(S)
        /\ Len(f \o h) = Len(f) + Len(h)
        /\ \A i \in 1 .. Len(f) + Len(h) :
             (f \o h)[i] = IF i <= Len(f) THEN f[i] ELSE h[i - Len(f)]
    OBVIOUS
  <2>3. Len(f) + Len(h) = Len(f) + Len(e) - 1
    BY <2>1
  <2> QED BY <2>2, <2>3
<1>5. \A i \in 1 .. Len(f) + Len(e) - 1 : (f \o g)[i] = ButLast(f \o e)[i]
  <2> HIDE DEF g
  <2> TAKE i \in 1 .. Len(f) + Len(e) - 1
  <2>0. i \in Int /\ Len(f) \in Nat
    OBVIOUS
  <2>1. CASE i <= Len(f)
    BY <2>1, <1>2, <1>3, <1>4
  <2>2. CASE i > Len(f)
    <3>1. i - Len(f) \in 1 .. Len(g)
      BY <2>2, <1>1
    <3>2. g[i - Len(f)] = e[i - Len(f)]
      BY <3>1, <1>1
    <3>3. (f \o g)[i] = g[i - Len(f)]
      BY <2>2, <1>4
    <3>4. (f \o e)[i] = e[i - Len(f)]
      BY <2>2, <1>2
    <3>5. ButLast(f \o e)[i] = (f \o e)[i]
      BY <1>3
    <3> QED BY <3>2, <3>3, <3>4, <3>5
  <2>3. i <= Len(f) \/ i > Len(f)
    BY <2>0
  <2> QED BY <2>1, <2>2, <2>3
<1>6. f \o g = ButLast(f \o e)
  <2> HIDE DEF g
  <2> QED BY <1>3, <1>4, <1>5, SeqEqual
<1> QED BY <1>1, <1>6

\* What was appended last is what is left out.
LEMMA ButLastOfAppend ==
  ASSUME NEW S, NEW s \in Seq(S), NEW x \in S
  PROVE  ButLast(Append(s, x)) = s
  BY DEF ButLast

-----------------------------------------------------------------------------

\* A walk that has not begun satisfies the invariant.
THEOREM InitIInv == Init => IInv
  BY LimitsAssumption DEF Init, IInv, TypeOK, Chain, At, Root, Place, Spilled,
     DepthIsTheLevel, PathIsThePlace, Path, FirstErrorIsKept

-----------------------------------------------------------------------------
(* Opening and dropping a guard *)

\* Opening a guard one further extends the chain.
LEMMA OpenChain ==
  ASSUME TypeOK, Chain, NEW kind \in {"depth", "path"}, NEW place \in Place,
         Open(kind, place), Further(kind, here, place)
  PROVE  /\ Chain'
         /\ here' = place
         /\ frames' \in Seq([kind : {"depth", "path"}, at : Place])
<1>1. /\ frames' = Append(frames, [kind |-> kind, at |-> here])
      /\ here' = place
  BY DEF Open
<1>2. [kind |-> kind, at |-> here] \in [kind : {"depth", "path"}, at : Place]
  BY DEF TypeOK
<1>3. /\ frames \in Seq([kind : {"depth", "path"}, at : Place])
      /\ frames' \in Seq([kind : {"depth", "path"}, at : Place])
      /\ Len(frames') = Len(frames) + 1
      /\ \A i \in 1 .. Len(frames) : frames'[i] = frames[i]
      /\ frames'[Len(frames) + 1] = [kind |-> kind, at |-> here]
  BY <1>1, <1>2 DEF TypeOK
<1>4. Len(frames) \in Nat
  BY <1>3
<1>5. \A i \in 0 .. Len(frames) : At(i)' = At(i)
  <2> TAKE i \in 0 .. Len(frames)
  <2>1. CASE i < Len(frames)
    <3>1. i + 1 \in 1 .. Len(frames)
      BY <2>1, <1>4
    <3> QED BY <3>1, <2>1, <1>3, <1>4 DEF At
  <2>2. CASE i = Len(frames)
    <3>1. At(i) = here
      BY <2>2 DEF At
    <3>2. At(i)' = frames'[Len(frames) + 1].at
      BY <2>2, <1>3, <1>4 DEF At
    <3> QED BY <3>1, <3>2, <1>3
  <2> QED BY <2>1, <2>2, <1>4
<1>6. At(0)' = Root
  BY <1>4, <1>5 DEF Chain
<1>7. ASSUME NEW i \in 1 .. Len(frames')
      PROVE  Further(frames'[i].kind, frames'[i].at, At(i)')
  <2>1. CASE i <= Len(frames)
    <3>1. /\ i \in 1 .. Len(frames)
          /\ i \in 0 .. Len(frames)
      BY <2>1, <1>4
    <3> QED BY <3>1, <1>3, <1>5 DEF Chain
  <2>2. CASE i = Len(frames) + 1
    <3>1. At(i)' = place
      BY <2>2, <1>1, <1>3, <1>4 DEF At
    <3> QED BY <3>1, <2>2, <1>3
  <2> QED BY <2>1, <2>2, <1>3, <1>4
<1> QED BY <1>1, <1>3, <1>6, <1>7 DEF Chain

\* Dropping the innermost guard shortens it, and the walk was one further.
LEMMA CloseChain ==
  ASSUME TypeOK, Chain, NEW kind \in {"depth", "path"}, Close(kind)
  PROVE  /\ Chain'
         /\ here' \in Place
         /\ frames' \in Seq([kind : {"depth", "path"}, at : Place])
         /\ Further(kind, here', here)
<1> DEFINE Frame == [kind : {"depth", "path"}, at : Place]
           n == Len(frames)
<1>1. /\ frames \in Seq(Frame)
      /\ n \in Nat
      /\ n >= 1
  BY DEF Close, TypeOK
<1>2. /\ frames[n] \in Frame
      /\ frames[n].kind = kind
      /\ here' = frames[n].at
  <2>1. n \in 1 .. n
    BY <1>1
  <2>2. frames[n] \in Frame
    <3> HIDE DEF Frame
    <3> QED BY <2>1, <1>1, ElementOfSeq
  <2> QED BY <2>2 DEF Close
<1>3. /\ frames' \in Seq(Frame)
      /\ Len(frames') = n - 1
      /\ \A i \in 1 .. n - 1 : frames'[i] = frames[i]
  <2>1. frames' = ButLast(frames) /\ frames # << >>
    BY DEF Close
  <2> QED BY <2>1, <1>1, ButLastFacts
<1>4. \A i \in 0 .. n - 1 : At(i)' = At(i)
  <2> TAKE i \in 0 .. n - 1
  <2>1. CASE i < n - 1
    <3>1. i + 1 \in 1 .. n - 1
      BY <2>1, <1>1
    <3> QED BY <3>1, <2>1, <1>1, <1>3 DEF At
  <2>2. CASE i = n - 1
    <3>1. At(i)' = here'
      BY <2>2, <1>1, <1>3 DEF At
    <3>2. At(i) = frames[n].at
      BY <2>2, <1>1 DEF At
    <3> QED BY <3>1, <3>2, <1>2
  <2> QED BY <2>1, <2>2, <1>1
<1>5. At(0)' = Root
  BY <1>1, <1>4 DEF Chain
<1>6. ASSUME NEW i \in 1 .. Len(frames')
      PROVE  Further(frames'[i].kind, frames'[i].at, At(i)')
  <2>1. /\ i \in 1 .. n - 1
        /\ i \in 1 .. n
        /\ i \in 0 .. n - 1
    BY <1>1, <1>3
  <2> QED BY <2>1, <1>3, <1>4 DEF Chain
<1>7. Further(frames[n].kind, frames[n].at, here)
  <2>1. At(n) = here
    BY DEF At
  <2> QED BY <2>1, <1>1 DEF Chain
<1> QED BY <1>2, <1>3, <1>5, <1>6, <1>7 DEF Chain

\* What leaves the walk where it is keeps the chain.
LEMMA StayChain ==
  ASSUME Chain, UNCHANGED <<here, frames>>
  PROVE  Chain'
  BY DEF Chain, At

-----------------------------------------------------------------------------
(* The path stack *)

StackOK ==
  /\ segments \in Seq(Segment) /\ Len(segments) <= Cap
  /\ extra \in Seq(Segment)
  /\ Spilled

\* With `alloc` the segment is on top of the path, wherever it is kept.
LEMMA PushPathOfStack ==
  ASSUME StackOK, NEW seg \in Segment, Push(seg)
  PROVE  StackOK' /\ (Alloc => Path' = Append(Path, seg))
<1>1. CASE Len(segments) < Cap
  <2>1. segments' = Append(segments, seg) /\ extra' = extra
    BY <1>1 DEF Push
  <2>2. /\ segments' \in Seq(Segment)
        /\ Len(segments') = Len(segments) + 1
        /\ Len(segments) \in Nat
    BY <2>1 DEF StackOK
  <2>3. extra = << >>
    BY <1>1, <2>2 DEF StackOK, Spilled
  <2>4. segments' \o extra' = segments' /\ segments \o extra = segments
    BY <2>1, <2>2, <2>3, EmptyTail DEF StackOK
  <2> QED BY <1>1, <2>1, <2>2, <2>3, <2>4, LimitsAssumption
          DEF StackOK, Spilled, Path
<1>2. CASE ~(Len(segments) < Cap)
  <2>1. /\ segments' = segments
        /\ extra' = IF Alloc THEN Append(extra, seg) ELSE extra
    BY <1>2 DEF Push
  <2>2. Len(segments) = Cap
    <3>1. Len(segments) \in Nat
      BY DEF StackOK
    <3> QED BY <1>2, <3>1, LimitsAssumption DEF StackOK
  <2>3. StackOK'
    BY <2>1, <2>2 DEF StackOK, Spilled
  <2>4. Alloc => segments \o Append(extra, seg) = Append(segments \o extra, seg)
    BY AppendToTail DEF StackOK
  <2> QED BY <2>1, <2>3, <2>4 DEF Path
<1> QED BY <1>1, <1>2

\* The top of a path that has one is taken off, wherever it is kept.
LEMMA PopPathOfStack ==
  ASSUME StackOK, Pop
  PROVE  StackOK' /\ (Path # << >> => Path' = ButLast(Path))
<1>1. CASE extra # << >>
  <2>1. extra' = ButLast(extra) /\ segments' = segments
    BY <1>1 DEF Pop
  <2>2. /\ extra' \in Seq(Segment)
        /\ segments \o ButLast(extra) = ButLast(segments \o extra)
    BY <1>1, <2>1, ButLastOfTail DEF StackOK
  <2> QED BY <1>1, <2>1, <2>2 DEF StackOK, Spilled, Path
<1>2. CASE extra = << >>
  <2>1. /\ extra' = extra
        /\ segments' = IF segments = << >> THEN segments ELSE ButLast(segments)
    BY <1>2 DEF Pop
  <2>2. Path = segments
    BY <1>2, EmptyTail DEF StackOK, Path
  <2>3. CASE segments = << >>
    BY <1>2, <2>1, <2>2, <2>3 DEF StackOK, Spilled
  <2>4. CASE segments # << >>
    <3>1. /\ segments' \in Seq(Segment)
          /\ Len(segments') = Len(segments) - 1
          /\ Len(segments) \in Nat
      BY <2>1, <2>4, ButLastFacts DEF StackOK
    <3>2. Path' = segments'
      BY <1>2, <2>1, <3>1, EmptyTail DEF StackOK, Path
    <3>3. Len(segments') <= Cap
      BY <3>1, LimitsAssumption DEF StackOK
    <3> QED BY <1>2, <2>1, <2>2, <2>4, <3>1, <3>2, <3>3 DEF StackOK, Spilled
  <2> QED BY <2>3, <2>4
<1> QED BY <1>1, <1>2

-----------------------------------------------------------------------------
(* Every action keeps the invariant *)

\* What is recorded for an error is the place, with `alloc`, and the first stays.
LEMMA RecordFirst ==
  ASSUME IInv, RecordErrorPath, NoteError
  PROVE  /\ seen' \in Seq(Seq(Segment)) /\ Len(seen') <= 1
         /\ failed' \in Seq(Seq(Segment)) /\ Len(failed') <= 1
         /\ Alloc => seen' = failed'
<1>1. Path \in Seq(Segment) /\ here.path \in Seq(Segment)
  BY DEF IInv, TypeOK, Path, Place
<1>2. /\ <<Path>> \in Seq(Seq(Segment)) /\ Len(<<Path>>) <= 1
      /\ <<here.path>> \in Seq(Seq(Segment)) /\ Len(<<here.path>>) <= 1
  BY <1>1
<1>3. /\ seen' \in Seq(Seq(Segment)) /\ Len(seen') <= 1
      /\ failed' \in Seq(Seq(Segment)) /\ Len(failed') <= 1
  BY <1>2 DEF IInv, TypeOK, RecordErrorPath, NoteError
<1>4. Alloc => seen' = failed'
  BY DEF IInv, RecordErrorPath, NoteError, FirstErrorIsKept, PathIsThePlace
<1> QED BY <1>3, <1>4

\* Every step keeps the invariant.
THEOREM NextIInv == IInv /\ [Next]_vars => IInv'
<1> SUFFICES ASSUME IInv, [Next]_vars
             PROVE  IInv'
  OBVIOUS
<1>0. /\ TypeOK
      /\ Chain
      /\ StackOK
      /\ here \in Place
      /\ depth \in Nat
  BY LimitsAssumption DEF IInv, TypeOK, StackOK
<1>1. CASE Guard
  <2> DEFINE place == [here EXCEPT !.level = @ + 1]
  <2>1. /\ place \in Place
        /\ place.path = here.path
        /\ place.level = here.level + 1
    BY <1>0 DEF Place
  <2>2. Further("depth", here, place)
    BY <2>1 DEF Further
  <2>3. Open("depth", place)
    BY <1>1 DEF Guard
  <2>4. /\ Chain'
        /\ here' = place
        /\ frames' \in Seq([kind : {"depth", "path"}, at : Place])
    BY <1>0, <2>1, <2>2, <2>3, OpenChain
  <2>5. /\ depth' = depth + 1
        /\ depth' \in 0 .. MaxDepth
        /\ UNCHANGED <<segments, extra, seen, failed>>
    BY <1>0, <1>1, LimitsAssumption DEF Guard, MayEnter
  <2>6. TypeOK'
    BY <2>1, <2>4, <2>5 DEF IInv, TypeOK
  <2> QED BY <2>1, <2>4, <2>5, <2>6 DEF IInv, Spilled, DepthIsTheLevel,
             PathIsThePlace, Path, FirstErrorIsKept
<1>2. CASE GuardRefused \/ Error
  <2>1. /\ RecordErrorPath
        /\ NoteError
        /\ UNCHANGED <<depth, segments, extra, here, frames>>
    BY <1>2 DEF GuardRefused, Error
  <2>2. /\ seen' \in Seq(Seq(Segment)) /\ Len(seen') <= 1
        /\ failed' \in Seq(Seq(Segment)) /\ Len(failed') <= 1
        /\ Alloc => seen' = failed'
    BY <2>1, RecordFirst
  <2>3. Chain'
    BY <1>0, <2>1, StayChain
  <2> QED BY <2>1, <2>2, <2>3 DEF IInv, TypeOK, Spilled, DepthIsTheLevel,
             PathIsThePlace, Path, FirstErrorIsKept
<1>3. CASE PushPath
  <2> PICK seg \in Segment :
        /\ Open("path", [here EXCEPT !.path = Append(@, seg)])
        /\ Push(seg)
        /\ UNCHANGED <<depth, seen, failed>>
    BY <1>3 DEF PushPath
  <2> DEFINE place == [here EXCEPT !.path = Append(@, seg)]
  <2>1. /\ place \in Place
        /\ place.path = Append(here.path, seg)
        /\ place.level = here.level
    BY <1>0 DEF Place
  <2>2. Further("path", here, place)
    BY <2>1 DEF Further
  <2>3. /\ Chain'
        /\ here' = place
        /\ frames' \in Seq([kind : {"depth", "path"}, at : Place])
    BY <1>0, <2>1, <2>2, OpenChain
  <2>4. StackOK' /\ (Alloc => Path' = Append(Path, seg))
    BY <1>0, PushPathOfStack
  <2>5. TypeOK'
    BY <2>1, <2>3, <2>4 DEF IInv, TypeOK, StackOK
  <2> QED BY <2>1, <2>3, <2>4, <2>5 DEF IInv, StackOK, DepthIsTheLevel,
             PathIsThePlace, FirstErrorIsKept
<1>4. CASE DropDepthGuard
  <2>1. /\ Close("depth")
        /\ PopDepth
        /\ UNCHANGED <<segments, extra, seen, failed>>
    BY <1>4 DEF DropDepthGuard
  <2>2. /\ Chain'
        /\ here' \in Place
        /\ frames' \in Seq([kind : {"depth", "path"}, at : Place])
        /\ Further("depth", here', here)
    BY <1>0, <2>1, CloseChain
  <2>3. here'.path = here.path /\ here.level = here'.level + 1
    BY <2>2 DEF Further
  <2>4. depth' = here'.level /\ depth' \in 0 .. MaxDepth
    <3>1. here'.level \in Nat /\ depth = here.level /\ depth <= MaxDepth
      BY <2>2 DEF Place, IInv, DepthIsTheLevel, TypeOK
    <3> QED BY <1>0, <2>1, <2>3, <3>1, LimitsAssumption DEF PopDepth
  <2>5. TypeOK'
    BY <2>1, <2>2, <2>4 DEF IInv, TypeOK
  <2> QED BY <2>1, <2>2, <2>3, <2>4, <2>5 DEF IInv, Spilled, DepthIsTheLevel,
             PathIsThePlace, Path, FirstErrorIsKept
<1>5. CASE DropPathGuard
  <2>1. /\ Close("path")
        /\ Pop
        /\ UNCHANGED <<depth, seen, failed>>
    BY <1>5 DEF DropPathGuard
  <2>2. /\ Chain'
        /\ here' \in Place
        /\ frames' \in Seq([kind : {"depth", "path"}, at : Place])
        /\ Further("path", here', here)
    BY <1>0, <2>1, CloseChain
  <2>3. PICK seg \in Segment : here.path = Append(here'.path, seg)
    BY <2>2 DEF Further
  <2>4. here.level = here'.level
    BY <2>2 DEF Further
  <2>5. here.path # << >> /\ ButLast(here.path) = here'.path
    <3>1. here'.path \in Seq(Segment)
      BY <2>2 DEF Place
    <3> QED BY <2>3, <3>1, ButLastOfAppend
  <2>6. StackOK' /\ (Path # << >> => Path' = ButLast(Path))
    BY <1>0, <2>1, PopPathOfStack
  <2>7. Alloc => Path' = here'.path
    BY <2>5, <2>6 DEF IInv, PathIsThePlace
  <2>8. TypeOK'
    BY <2>1, <2>2, <2>6 DEF IInv, TypeOK, StackOK
  <2> QED BY <2>1, <2>2, <2>4, <2>6, <2>7, <2>8 DEF IInv, StackOK,
             DepthIsTheLevel, PathIsThePlace, FirstErrorIsKept
<1>6. CASE UNCHANGED vars
  <2>1. Chain'
    BY <1>0, <1>6, StayChain DEF vars
  <2> QED BY <1>6, <2>1 DEF vars, IInv, TypeOK, Spilled, DepthIsTheLevel,
             PathIsThePlace, Path, FirstErrorIsKept
<1> QED BY <1>1, <1>2, <1>3, <1>4, <1>5, <1>6 DEF Next

-----------------------------------------------------------------------------
(* What the invariant says of every behaviour *)

\* The invariant holds always.
THEOREM Invariance == Spec => []IInv
  BY InitIInv, NextIInv, PTL DEF Spec

\* validation/: the context's fields keep their types, the limit on the depth
\* and the capacity of the array included.
THEOREM TypeCorrect == Spec => []TypeOK
<1>1. IInv => TypeOK
  BY DEF IInv
<1> QED BY <1>1, Invariance, PTL

\* push_depth, pop_depth: the counter is the number of levels the walk is in.
THEOREM DepthCorrect == Spec => []DepthIsTheLevel
<1>1. IInv => DepthIsTheLevel
  BY DEF IInv
<1> QED BY <1>1, Invariance, PTL

\* ValidationPathStack: with `alloc` the stack is the path of the place.
THEOREM PathCorrect == Spec => []PathIsThePlace
<1>1. IInv => PathIsThePlace
  BY DEF IInv
<1> QED BY <1>1, Invariance, PTL

\* record_error_path: with `alloc` the path kept is the place of the first error.
THEOREM FirstErrorCorrect == Spec => []FirstErrorIsKept
<1>1. IInv => FirstErrorIsKept
  BY DEF IInv
<1> QED BY <1>1, Invariance, PTL

\* A walk that has dropped all its guards leaves the context as it was.
GivenBack == Alloc /\ frames = << >> => depth = 0 /\ Path = << >>

\* ArchivedDepthGuard, PathGuard: when all are dropped nothing is left behind.
THEOREM NothingLeftBehind == Spec => []GivenBack
<1>1. IInv => GivenBack
  <2> SUFFICES ASSUME IInv, Alloc, frames = << >>
               PROVE  depth = 0 /\ Path = << >>
    BY DEF GivenBack
  <2>1. here = Root
    BY DEF IInv, Chain, At
  <2> QED BY <2>1 DEF IInv, DepthIsTheLevel, PathIsThePlace, Root
<1> QED BY <1>1, Invariance, PTL
=============================================================================
